------------------------------ MODULE Cluster --------------------------------
(***************************************************************************)
(* The cluster as a whole and the rules on it: the nodes that elect a      *)
(* master, the copies of the indices that Elasticsearch places on nodes,   *)
(* and the settings that stop it (cluster.py, and the rules of shards.py   *)
(* on where shards are).                                                   *)
(*                                                                         *)
(* Elasticsearch is external.  Nodes leave, join and are upgraded, copies  *)
(* are lost, promoted, assigned, recovered and moved, indices are created, *)
(* closed and resized and settings change.  A report may be made in every  *)
(* state: it sees what the files say at that moment.  An index has one     *)
(* primary shard; a node holds at most one copy of it.                     *)
(***************************************************************************)
EXTENDS Findings, FiniteSetsExt, Sequences

CONSTANTS
    Worlds,        \* clusters to start from: see WorldAssumption
    MaxReplicas,   \* bound: number_of_replicas
    MaxVersion,    \* bound: releases that nodes are upgraded to
    MaxEvents,     \* bound: what happens to the cluster
    Legacy,        \* the last release before 8.3
    Balancing,     \* the first release from 8.6 on
    DedicatedFrom, \* dedicated_master_data_nodes
    MaxPerNode, CapacityWarn, CapacityCrit,  \* cluster.max_shards_per_node and its percentages
    PerHeapWarn, PerHeapCrit,                \* shards_per_gb_heap_warn and _crit, for one node
    BalanceMin,    \* shard_balance_min_diff
    WriteSkewMin, WriteSkewWarn  \* write_shard_skew_min and, in percent, _warn

Tiers == {"data_hot", "data_warm", "data_frozen"}
Roles == Tiers \cup {"master", "voting_only", "data"}
None == "null"

ASSUME BoundsAssumption ==
    /\ MaxReplicas \in Nat \ {0} /\ MaxVersion \in Nat \ {0} /\ MaxEvents \in Nat

(* A world: nodes with roles and a zone, one of which can be elected, and  *)
(* indices with the tiers they prefer, whether they are partial mounts,    *)
(* part of the data stream, sized to the number of nodes, or still to be   *)
(* created; the value of cluster.routing.allocation.enable in every        *)
(* elasticsearch.yml and whether awareness attributes are set.  Indices    *)
(* sized to the nodes are "0-1", and Elasticsearch lets only partial       *)
(* mounts prefer the frozen tier.                                          *)
ASSUME WorldAssumption ==
    \A w \in Worlds :
        /\ IsFiniteSet(DOMAIN w.nodes) /\ IsFiniteSet(DOMAIN w.indices)
        /\ \A n \in DOMAIN w.nodes : w.nodes[n].roles \subseteq Roles /\ n # None
        /\ \E n \in DOMAIN w.nodes :
              "master" \in w.nodes[n].roles /\ "voting_only" \notin w.nodes[n].roles
        /\ \A i \in DOMAIN w.indices :
              LET x == w.indices[i]
              IN  /\ x.tiers \in Seq(Tiers)
                  /\ ~x.partial => \A k \in DOMAIN x.tiers : x.tiers[k] # "data_frozen"
                  /\ x.replicas \in 0 .. (IF x.auto THEN 1 ELSE MaxReplicas)
                  /\ {x.partial, x.stream, x.auto, x.later} \subseteq BOOLEAN

VARIABLES
    world,      \* the world
    up,         \* nodes in the cluster
    version,    \* node -> its release
    voting,     \* the voting configuration
    setting,    \* scope -> allocation.enable and allocation.exclude._name
    replicas,   \* index -> number_of_replicas
    indices,    \* indices that exist
    closed,     \* those that are closed
    primary,    \* index -> node of its primary, or None
    copies,     \* index -> node -> state of the copy there
    fresh,      \* indices whose primary was never started
    insync,     \* index -> nodes whose disks hold an up to date copy
    events

vars == <<world, up, version, voting, setting, replicas, indices, closed, primary,
          copies, fresh, insync, events>>

Node == DOMAIN world.nodes
Index == DOMAIN world.indices
RolesOf(n) == world.nodes[n].roles
Held == {"init", "started", "moving"}
Active == {"started", "moving"}

Assigned(i) == {n \in Node : copies[i][n] \in Held}
UnassignedReplicas(i) ==
    1 + replicas[i] - Cardinality(Assigned(i)) - (IF primary[i] = None THEN 1 ELSE 0)

-----------------------------------------------------------------------------
(* Nodes as context.py sees them.                                          *)
is_master_eligible(n) == "master" \in RolesOf(n)
is_voting_only(n) == "voting_only" \in RolesOf(n)
is_data(n) == RolesOf(n) \cap (Tiers \cup {"data"}) # {}
is_dedicated_master(n) == is_master_eligible(n) /\ ~is_data(n)

master_nodes == {n \in up : is_master_eligible(n)}
electable == {n \in master_nodes : ~is_voting_only(n)}
data_nodes == {n \in up : is_data(n)}

(* The label under which nodes are compared: the roles in question.        *)
tier_of(n) ==
    CASE "data" \in RolesOf(n) -> {"data"}
      [] "data" \notin RolesOf(n) /\ "data_hot" \in RolesOf(n) -> {"data_hot"}
      [] OTHER -> RolesOf(n) \cap Tiers

is_frozen_only(n) == tier_of(n) = {"data_frozen"}

-----------------------------------------------------------------------------
(* Elasticsearch: which node may take a copy.  The first preferred tier    *)
(* that has nodes counts; a dedicated frozen node takes mounts only.       *)
HasTier(n, tier) == RolesOf(n) \cap {tier, "data"} # {}

TierAllows(i, n) ==
    LET pref == world.indices[i].tiers
        there(k) == \E m \in up : HasTier(m, pref[k])
    IN  /\ is_data(n)
        /\ ~world.indices[i].partial => ~is_frozen_only(n)
        /\ pref # <<>> =>
              \E k \in DOMAIN pref :
                 /\ there(k) /\ HasTier(n, pref[k])
                 /\ \A j \in 1 .. k - 1 : ~there(j)

(* What allocation.enable, excluded or not, lets through; the strongest    *)
(* scope counts.                                                           *)
Effective(key) ==
    LET set == {scope \in DOMAIN setting : setting[scope][key] # None}
    IN  IF set # {} THEN setting[IF "transient" \in set THEN "transient" ELSE "persistent"][key]
        ELSE IF key = "enable" THEN world.yml ELSE None

Enabled(i, n) ==
    /\ Effective("exclude") # n
    /\ \/ Effective("enable") \in {None, "all"}
       \/ Effective("enable") = "primaries" /\ primary[i] = None

Free(i, n) == n \in up /\ copies[i][n] = None

(* A primary that is created, or mounted again, goes where it may; any     *)
(* other comes back where its data are, whatever the settings.             *)
Creating(i) == i \in fresh \/ world.indices[i].partial

CanTakePrimary(i, n) ==
    /\ primary[i] = None /\ Free(i, n)
    /\ IF Creating(i) THEN TierAllows(i, n) /\ Enabled(i, n) ELSE n \in insync[i]

(* A replica follows an active primary and is on no older release.         *)
Follows(i, n) ==
    /\ primary[i] # None /\ copies[i][primary[i]] \in Active
    /\ version[n] >= version[primary[i]]

CanTakeReplica(i, n) ==
    /\ Free(i, n) /\ TierAllows(i, n) /\ Enabled(i, n) /\ Follows(i, n)

-----------------------------------------------------------------------------
(* What the list of shards gives as the node of a copy: "source -> target" *)
(* while the copy moves.                                                   *)
NodeField(i, n) ==
    IF copies[i][n] = "moving"
    THEN <<n, "->", CHOOSE m \in Node : copies[i][m] = "target">> ELSE <<n>>

(* Mutant: the field is taken for a name as it is, so that a moving copy   *)
(* is on no node.                                                          *)
NodeOfWhole(field) == IF Len(field) = 1 THEN field[1] ELSE None

(* A moving shard still lives on the node it comes from: the part of the   *)
(* field before the arrow.                                                 *)
NodeOf(field) == Head(field)

(* The list of shards, one row for each copy; a copy that arrives has no   *)
(* row of its own.                                                         *)
AssignedRows(i) ==
    {[index |-> i, prirep |-> IF n = primary[i] THEN "p" ELSE "r",
      state |-> copies[i][n], node |-> NodeOf(NodeField(i, n)), number |-> 0] : n \in Assigned(i)}

UnassignedRows(i) ==
    {[index |-> i, prirep |-> "r", state |-> "UNASSIGNED", node |-> None, number |-> k] :
        k \in 1 .. UnassignedReplicas(i)}
    \cup IfSo(primary[i] = None,
              [index |-> i, prirep |-> "p", state |-> "UNASSIGNED", node |-> None, number |-> 0])

shards == UNION {AssignedRows(i) \cup UnassignedRows(i) : i \in indices}

With(state) == {r \in shards : r.state = state}
Unassigned == With("UNASSIGNED")

(* Cluster health: red is an index without an active primary, unless the   *)
(* primary is being created and nothing stops it.                          *)
IndexStatus(i) ==
    LET serves == primary[i] # None /\ copies[i][primary[i]] \in Active
        comes  == Creating(i) /\ (primary[i] # None \/ \E n \in Node : CanTakePrimary(i, n))
    IN  CASE serves /\ \A n \in Assigned(i) : copies[i][n] \in Active ->
               IF UnassignedReplicas(i) = 0 THEN "green" ELSE "yellow"
          [] ~serves /\ ~comes -> "red"
          [] OTHER -> "yellow"

Worst(status) ==
    IF "red" \in status THEN "red" ELSE IF "yellow" \in status THEN "yellow" ELSE "green"

health_status == Worst({IndexStatus(i) : i \in indices})
initializing_shards == Cardinality(With("init"))
active_shards == Cardinality(With("started") \cup With("moving"))
unassigned_shards == Cardinality(Unassigned)
unassigned_primary_shards == Cardinality({i \in indices : primary[i] = None})

(* A cluster setting: transient, else persistent, else what the nodes'     *)
(* elasticsearch.yml say.                                                  *)
Source(key) ==
    CASE setting.transient[key] # None -> "transient"
      [] setting.transient[key] = None /\ setting.persistent[key] # None -> "persistent"
      [] OTHER -> "default"

(* Mutant: what is persistent is stronger. *)
ValueOfPersistent(key) ==
    CASE setting.persistent[key] # None -> setting.persistent[key]
      [] setting.persistent[key] = None /\ Source(key) = "transient" -> setting.transient[key]
      [] OTHER -> IF key = "enable" THEN world.yml ELSE None

Value(key) ==
    IF Source(key) = "default" THEN (IF key = "enable" THEN world.yml ELSE None)
    ELSE setting[Source(key)][key]

-----------------------------------------------------------------------------
(* The rules.                                                              *)
r_cluster_status(status) ==
    CASE status = "red" -> {Naming("CLU-001", "CRITICAL", {})}
      [] status = "yellow" -> {Naming("CLU-001", "WARNING", {})}
      [] status = "green" -> {Naming("CLU-001", "OK", {})}
      [] OTHER -> {}    \* missing or unreadable

(* Primaries without a node, from health or, in older versions, from the   *)
(* list of shards.                                                         *)
unassigned_primaries(hasField) ==
    IF hasField THEN unassigned_primary_shards
    ELSE Cardinality({r \in Unassigned : r.prirep = "p"})

(* What Elasticsearch may answer to allocation explain: of one unassigned  *)
(* copy, whether a node can take it; nothing where the call failed.        *)
CanAllocate(i, taken) == [index |-> i, can_allocate |-> IF taken THEN "yes" ELSE "no"]

Explanations ==
    {{}} \cup {{CanAllocate(i, \E n \in Node : CanTakePrimary(i, n))} :
                  i \in {j \in indices : primary[j] = None}}
         \cup {{CanAllocate(i, \E n \in Node : CanTakeReplica(i, n))} :
                  i \in {j \in indices : UnassignedReplicas(j) > 0}}

r_unassigned_reason(allocation_explain) ==
    IfSo(Unassigned # {},
         Naming("CLU-002", IF \E r \in Unassigned : r.prirep = "p" THEN "CRITICAL" ELSE "WARNING", {}))
    \cup {Naming("CLU-003", IF e.can_allocate # "yes" THEN "WARNING" ELSE "INFO", {}) :
             e \in allocation_explain}

(* Mutant: nodes that only vote are counted like the others. *)
r_master_quorum_all_equal ==
    LET total == Cardinality(master_nodes)
    IN  CASE total = 1 /\ Cardinality(up) > 1 -> {Naming("CLU-006", "CRITICAL", master_nodes)}
          [] total = 2 -> {Naming("CLU-006", "WARNING", master_nodes)}
          [] OTHER -> {}

(* Too few nodes to lose one; no dedicated masters for many data nodes.    *)
r_master_quorum ==
    LET total == Cardinality(master_nodes)
        alone == total = 1 \/ Cardinality(electable) = 1
        apart == {n \in electable : is_dedicated_master(n)}
    IN  IF total = 0 THEN {Naming("CLU-006", "CRITICAL", {})}
        ELSE (CASE alone /\ Cardinality(up) > 1 -> {Naming("CLU-006", "CRITICAL", master_nodes)}
                [] ~(alone /\ Cardinality(up) > 1) /\ total = 2 ->
                     {Naming("CLU-006", "WARNING", master_nodes)}
                [] OTHER -> {})
             \cup IfSo(apart = {} /\ Cardinality(data_nodes) >= DedicatedFrom,
                       Naming("CLU-007", "WARNING", {}))

r_version_consistency ==
    IfSo(Cardinality({version[n] : n \in up}) > 1, Naming("CLU-008", "WARNING", {}))

(* Allocation that is not enabled in full and nodes that are excluded; any *)
(* transient setting.                                                      *)
r_risky_settings ==
    IfSo(Value("enable") \notin {None, "all"}, Naming("CLU-011.enable", "CRITICAL", {}))
    \cup IfSo(Value("exclude") # None, Naming("CLU-012", "WARNING", {}))
    \cup IfSo(\E key \in DOMAIN setting.transient : setting.transient[key] # None,
              Naming("CLU-013", "INFO", {}))

(* The shards that count against the limit of the nodes that are not       *)
(* frozen, from the counts of health, the list of shards and that of       *)
(* indices.                                                                *)
closed_shards == SumFunction([i \in closed |-> 1 + replicas[i]])

(* Mutant: closed indices count. *)
open_shards_and_closed ==
    Max({0, active_shards + unassigned_shards
            - Cardinality({r \in shards : world.indices[r.index].partial})})

open_shards ==
    Max({0, active_shards + unassigned_shards
            - Cardinality({r \in shards : world.indices[r.index].partial}) - closed_shards})

r_shard_capacity ==
    LET nodes == {n \in data_nodes : ~is_frozen_only(n)}
        limit == MaxPerNode * (IF data_nodes = {} THEN Cardinality(up) ELSE Cardinality(nodes))
    IN  IfSo(limit > 0 /\ 100 * open_shards >= CapacityWarn * limit,
             Naming("CLU-015", IF 100 * open_shards >= CapacityCrit * limit
                               THEN "CRITICAL" ELSE "WARNING", {}))

(* Zones of a tier.                                                        *)
InZone(tier, z) == {n \in data_nodes : tier_of(n) = tier /\ world.nodes[n].zone = z}
ZoneOf(n) == world.nodes[n].zone
Zones(nodes) == {ZoneOf(n) : n \in nodes} \ {None}

Uneven(tier) ==
    LET sizes == {Cardinality(InZone(tier, z)) : z \in Zones({n \in data_nodes : tier_of(n) = tier})}
    IN  /\ sizes # {}
        /\ \/ Max(sizes) - Min(sizes) >= 2
           \/ Max(sizes) > Min(sizes) /\ Max(sizes) >= 2 * Min(sizes)

r_zone_balance ==
    IF Cardinality(Zones(data_nodes)) < 2 THEN {}
    ELSE IfSo(\E n \in data_nodes : Uneven(tier_of(n)), Naming("CLU-018", "WARNING", {}))
         \cup IfSo(~world.awareness, Naming("CLU-019", "WARNING", {}))

r_recovery_inflight ==
    IfSo(With("init") \cup With("moving") # {}, Naming("CLU-020", "INFO", {}))

(* shards.py: more copies than data nodes, tiers that no node has.         *)
r_replica_unassignable ==
    LET nodes == Cardinality(IF data_nodes = {} THEN up ELSE data_nodes)
        many  == {i \in indices : /\ ~world.indices[i].auto
                                  /\ replicas[i] > 0 /\ replicas[i] > nodes - 1}
    IN  IfSo(many # {}, Naming("IDX-002", "WARNING", many))

Available ==
    UNION {IF "data" \in RolesOf(n) THEN Tiers ELSE RolesOf(n) \cap Tiers : n \in up}

Preferred(i) == {world.indices[i].tiers[k] : k \in DOMAIN world.indices[i].tiers}

r_tier_preference ==
    LET homeless == {i \in indices : Preferred(i) # {} /\ Preferred(i) \cap Available = {}}
    IN  IfSo(Available # {} /\ homeless # {}, Naming("IDX-009", "CRITICAL", homeless))

(* Shards of a node; one unit of heap each.                                *)
Count(n) == Cardinality({r \in shards : r.node = n})

r_shard_density(release) ==
    LET bad == {n \in up : ~is_frozen_only(n) /\ Count(n) >= PerHeapWarn}
    IN  IF \A n \in Node : {r \in shards : r.node = n} = {} THEN {}
        ELSE IF release > Legacy THEN {Naming("SHD-001", "INFO", {})}
        ELSE {Naming("SHD-001", CASE bad = {} -> "OK"
                                  [] \E n \in bad : Count(n) >= PerHeapCrit -> "CRITICAL"
                                  [] OTHER -> "WARNING", bad)}

Spread(nodes) == Max({Count(n) : n \in nodes}) - Min({Count(n) : n \in nodes})

r_shard_balance(release) ==
    LET Crooked(tier) ==
            LET nodes == {n \in data_nodes : tier_of(n) = tier}
            IN  /\ Cardinality(nodes) >= 2
                /\ 4 * Spread(nodes) * Cardinality(nodes) >= SumFunction([n \in nodes |-> Count(n)])
                /\ Spread(nodes) >= BalanceMin
    IN  IfSo(\E n \in data_nodes : tier_of(n) # {} /\ Crooked(tier_of(n)),
             Naming("SHD-006", IF release >= Balancing THEN "INFO" ELSE "WARNING", {}))

(* The copies that take writes, of the data stream; one that is moving is  *)
(* not STARTED and does not count.                                         *)
Writing(n) ==
    Cardinality({r \in With("started") : world.indices[r.index].stream /\ r.node = n})

WritesSkewed(tier) ==
    LET nodes == {n \in data_nodes : tier_of(n) = tier}
        sum   == SumFunction([n \in nodes |-> Writing(n)])
        diff  == Max({Writing(n) : n \in nodes}) - Min({Writing(n) : n \in nodes})
    IN  /\ tier # {"data_frozen"} /\ Cardinality(nodes) >= 2 /\ sum > 0
        /\ diff >= WriteSkewMin
        /\ 100 * diff * Cardinality(nodes) >= WriteSkewWarn * sum

r_write_hotspot ==
    IfSo(\E n \in data_nodes : WritesSkewed(tier_of(n)), Naming("SHD-016", "WARNING", {}))

(* The data stream: the worst status of its indices. *)
r_data_stream_health ==
    LET status == Worst({IndexStatus(i) : i \in {j \in indices : world.indices[j].stream}})
    IN  IfSo(status # "green", Naming("IDX-010", IF status = "red" THEN "CRITICAL" ELSE "WARNING", {}))

ClusterFindings(release, explain) ==
    r_cluster_status(health_status) \cup r_unassigned_reason(explain) \cup r_master_quorum \cup r_version_consistency
    \cup r_risky_settings \cup r_shard_capacity \cup r_zone_balance \cup r_recovery_inflight
    \cup r_replica_unassignable \cup r_tier_preference \cup r_shard_density(release)
    \cup r_shard_balance(release) \cup r_write_hotspot \cup r_data_stream_health

(* diff.py: the status against that of an earlier bundle. *)
order(status) == CASE status = "green" -> 0 [] status = "yellow" -> 1 [] OTHER -> 2

r_status_change(before) ==
    LET now   == health_status
        worse == order(now) > order(before)
    IN  IfSo(before # now,
             Naming("DIF-001", CASE worse /\ now = "red" -> "CRITICAL"
                                 [] worse /\ now # "red" -> "WARNING"
                                 [] OTHER -> "INFO", {}))

Reported(id) ==
    \E n \in up, e \in Explanations : \E f \in ClusterFindings(version[n], e) : f.id = id

-----------------------------------------------------------------------------
(* The voting configuration: an odd number of master-eligible nodes, never *)
(* below three again once it was three, preferably ones that are there.    *)
Odd(k) == IF k % 2 = 0 THEN Max({k - 1, 0}) ELSE k

Quorum(nodes, v) == 2 * Cardinality(nodes \cap v) > Cardinality(v)

Reconfigured(v, live) ==
    LET size  == IF Cardinality(v) >= 3 THEN Max({3, Odd(Cardinality(live))})
                 ELSE Odd(Cardinality(live))
        good  == {c \in SUBSET (live \cup v) :
                     /\ Cardinality(c) = size
                     /\ c \subseteq live \/ live \subseteq c
                     /\ c \cap live \subseteq v \/ v \cap live \subseteq c}
    IN  {c \in good : Quorum(live, c)}

HasMaster(nodes, v) ==
    Quorum(nodes, v) /\ \E n \in nodes : is_master_eligible(n) /\ ~is_voting_only(n)

-----------------------------------------------------------------------------
Start(i) == ~world.indices[i].later

Init ==
    /\ world \in Worlds
    /\ up = Node
    /\ version = [n \in Node |-> 1]
    /\ voting \in Reconfigured({}, master_nodes)
    /\ setting = [scope \in {"transient", "persistent"} |-> [enable |-> None, exclude |-> None]]
    /\ replicas = [i \in Index |-> world.indices[i].replicas]
    /\ indices = {i \in Index : Start(i)}
    /\ closed = {}
    /\ primary \in [Index -> Node \cup {None}]
    /\ copies = [i \in Index |-> [n \in Node |-> IF n = primary[i] THEN "started" ELSE None]]
    /\ \A i \in Index : IF Start(i) THEN primary[i] \in Node /\ TierAllows(i, primary[i])
                        ELSE primary[i] = None
    /\ fresh = {i \in Index : ~Start(i)}
    /\ insync = [i \in Index |-> {primary[i]} \ {None}]
    /\ events = 0

Happens ==
    /\ events < MaxEvents
    /\ events' = events + 1

Layout == <<primary, copies, fresh, insync>>
Nodes == <<up, version, voting>>
Settings == <<setting, replicas, indices, closed>>

(* auto_expand_replicas "0-1": a replica if there are two data nodes.      *)
Expanded(nodes) ==
    [i \in Index |-> IF world.indices[i].auto
                     THEN IF Cardinality({n \in nodes : is_data(n)}) >= 2 THEN 1 ELSE 0
                     ELSE replicas[i]]

(* The copies of index i when node n is gone: an active replica becomes    *)
(* the primary, a move to or from n ends, what was being copied from it is *)
(* lost.                                                                   *)
Promotes(i, n, heir) ==
    IF primary[i] # n THEN heir = primary[i]
    ELSE IF \E m \in Node \ {n} : copies[i][m] \in Active
         THEN heir \in Node \ {n} /\ copies[i][heir] \in Active
         ELSE heir = None

(* Mutant: a move goes on when the node it started from is gone. *)
AfterMovingOn(i, n, heir) ==
    [m \in Node |-> IF m = n \/ (copies[i][m] = "init" /\ heir = None) THEN None
                    ELSE copies[i][m]]

After(i, n, heir) ==
    [m \in Node |->
        CASE m = n -> None
          [] m # n /\ copies[i][m] = "target" -> IF copies[i][n] = "moving" THEN None ELSE "target"
          [] m # n /\ copies[i][m] = "moving" -> IF copies[i][n] = "target" THEN "started" ELSE "moving"
          [] m # n /\ copies[i][m] = "init" -> IF heir = None THEN None ELSE "init"
          [] OTHER -> copies[i][m]]

(* At most one copy of an index moves at a time. *)
Leave(n) ==
    /\ Happens
    /\ n \in up
    /\ up' = up \ {n}
    /\ HasMaster(up', voting)
    /\ LET live == {m \in up' : is_master_eligible(m)}
       IN  voting' \in (IF Reconfigured(voting, live) = {} THEN {voting} ELSE Reconfigured(voting, live))
    /\ primary' \in [Index -> Node \cup {None}]
    /\ \A i \in Index : Promotes(i, n, primary'[i])
    /\ copies' = [i \in Index |-> After(i, n, primary'[i])]
    /\ insync' = [i \in Index |-> IF primary'[i] # None /\ copies'[i][primary'[i]] \in Active
                                  THEN insync[i] \ {n} ELSE insync[i]]
    /\ replicas' = Expanded(up')
    /\ UNCHANGED <<world, version, setting, indices, closed, fresh>>

(* A node joins, perhaps upgraded; it may not be behind all the others.    *)
Join(n, v) ==
    /\ Happens
    /\ n \notin up
    /\ v \in version[n] .. MaxVersion /\ \E m \in up : v >= version[m]
    /\ up' = up \cup {n}
    /\ version' = [version EXCEPT ![n] = v]
    /\ LET live == {m \in up' : is_master_eligible(m)}
       IN  voting' \in Reconfigured(voting, live)
    /\ replicas' = Expanded(up')
    /\ UNCHANGED <<world, setting, indices, closed>> /\ UNCHANGED Layout

AssignPrimary(i, n) ==
    /\ i \in indices /\ CanTakePrimary(i, n)
    /\ primary' = [primary EXCEPT ![i] = n]
    /\ copies' = [copies EXCEPT ![i][n] = "init"]
    /\ UNCHANGED <<world, fresh, insync, events>> /\ UNCHANGED Nodes /\ UNCHANGED Settings

AssignReplica(i, n) ==
    /\ i \in indices /\ UnassignedReplicas(i) > 0 /\ CanTakeReplica(i, n)
    /\ copies' = [copies EXCEPT ![i][n] = "init"]
    /\ UNCHANGED <<world, primary, fresh, insync, events>> /\ UNCHANGED Nodes /\ UNCHANGED Settings

Recover(i, n) ==
    /\ copies[i][n] = "init"
    /\ copies' = [copies EXCEPT ![i][n] = "started"]
    /\ insync' = [insync EXCEPT ![i] = IF n = primary[i] THEN {n} ELSE @ \cup {n}]
    /\ fresh' = fresh \ {i}
    /\ UNCHANGED <<world, primary, events>> /\ UNCHANGED Nodes /\ UNCHANGED Settings

Move(i, n, m) ==
    /\ Happens
    /\ copies[i][n] = "started" /\ CanTakeReplica(i, m)
    /\ \A k \in Node : copies[i][k] # "moving"
    /\ copies' = [copies EXCEPT ![i][n] = "moving", ![i][m] = "target"]
    /\ UNCHANGED <<world, primary, fresh, insync>> /\ UNCHANGED Nodes /\ UNCHANGED Settings

Arrive(i, n, m) ==
    /\ copies[i][n] = "moving" /\ copies[i][m] = "target"
    /\ copies' = [copies EXCEPT ![i][n] = None, ![i][m] = "started"]
    /\ primary' = [primary EXCEPT ![i] = IF @ = n THEN m ELSE @]
    /\ insync' = [insync EXCEPT ![i] = (@ \ {n}) \cup {m}]
    /\ UNCHANGED <<world, fresh, events>> /\ UNCHANGED Nodes /\ UNCHANGED Settings

Create(i) ==
    /\ Happens
    /\ i \notin indices
    /\ indices' = indices \cup {i}
    /\ UNCHANGED <<world, setting, replicas, closed>> /\ UNCHANGED Layout /\ UNCHANGED Nodes

Close(i) ==
    /\ Happens
    /\ i \in indices \ closed /\ ~world.indices[i].stream
    /\ closed' = closed \cup {i}
    /\ UNCHANGED <<world, setting, replicas, indices>> /\ UNCHANGED Layout /\ UNCHANGED Nodes

SetReplicas(i, k) ==
    /\ Happens
    /\ i \in indices /\ ~world.indices[i].auto
    /\ k > replicas[i]
    /\ replicas' = [replicas EXCEPT ![i] = k]
    /\ UNCHANGED <<world, setting, indices, closed>> /\ UNCHANGED Layout /\ UNCHANGED Nodes

Put(scope, key, v) ==
    /\ Happens
    /\ setting[scope][key] # v
    /\ setting' = [setting EXCEPT ![scope][key] = v]
    /\ UNCHANGED <<world, replicas, indices, closed>> /\ UNCHANGED Layout /\ UNCHANGED Nodes

Next ==
    \/ \E n \in Node : \/ Leave(n)
                       \/ \E v \in 1 .. MaxVersion : Join(n, v)
    \/ \E i \in Index, n \in Node : \/ AssignPrimary(i, n) \/ AssignReplica(i, n) \/ Recover(i, n)
                                    \/ \E m \in Node : Move(i, n, m) \/ Arrive(i, n, m)
    \/ \E i \in Index : \/ Create(i) \/ Close(i)
                        \/ \E k \in 0 .. MaxReplicas : SetReplicas(i, k)
    \/ \E scope \in {"transient", "persistent"} :
          \/ \E v \in {None, "all", "primaries", "none"} : Put(scope, "enable", v)
          \/ \E v \in Node \cup {None} : Put(scope, "exclude", v)

Spec == Init /\ [][Next]_vars

-----------------------------------------------------------------------------
(* Types. *)
TypeOK ==
    /\ world \in Worlds
    /\ up \subseteq Node /\ version \in [Node -> 1 .. MaxVersion]
    /\ voting \subseteq {n \in Node : is_master_eligible(n)}
    /\ setting \in [{"transient", "persistent"} ->
                       [enable : {None, "all", "primaries", "none"}, exclude : Node \cup {None}]]
    /\ replicas \in [Index -> 0 .. MaxReplicas]
    /\ indices \subseteq Index /\ closed \subseteq indices /\ fresh \subseteq Index
    /\ primary \in [Index -> Node \cup {None}]
    /\ copies \in [Index -> [Node -> Held \cup {"target", None}]]
    /\ insync \in [Index -> SUBSET {n \in Node : is_data(n)}]
    /\ events \in 0 .. MaxEvents

(* Copies are on data nodes that are there, no more than there should be;  *)
(* a primary is on a node that holds one, and where there is none there is *)
(* no copy at all.  At most one copy of an index moves, to one node.       *)
CopiesFit ==
    \A i \in Index :
        /\ UnassignedReplicas(i) >= 0
        /\ world.indices[i].auto => replicas[i] <= 1
        /\ primary[i] # None => copies[i][primary[i]] \in Held
        /\ \A n \in Node : copies[i][n] # None =>
              n \in data_nodes /\ i \in indices /\ primary[i] # None
        /\ \A n, m \in Node : copies[i][n] = copies[i][m] /\ n # m =>
              copies[i][n] \notin {"moving", "target"}
        /\ (\E n \in Node : copies[i][n] = "moving") <=> \E n \in Node : copies[i][n] = "target"

(* The cluster has a master, and the voting configuration is the one that  *)
(* fits its nodes: of three or more nodes a majority of them, of two both  *)
(* with one that left or one of them.                                      *)
VotesFit ==
    LET size == Cardinality(voting)
        live == Cardinality(master_nodes)
    IN  /\ HasMaster(up, voting)
        /\ live >= 3 => voting \subseteq master_nodes /\ size >= 3
        /\ live = 2 => \/ size = 3 /\ master_nodes \subseteq voting
                       \/ size = 1 /\ voting \subseteq master_nodes
        /\ live = 1 => voting = master_nodes

(* The inductive invariant. *)
IInv == TypeOK /\ CopiesFit /\ VotesFit

(* Status and list tell one story: a red cluster has a primary that is     *)
(* unassigned (critical CLU-002) or being recovered (CLU-020), a primary   *)
(* that is unassigned is never green, allocation explain (CLU-003) has a   *)
(* copy to explain only where CLU-002 counts it, and the number of         *)
(* replicas that CLU-001 tells of is right, also in versions whose health  *)
(* has no field for primaries.  A status that got worse is as severe in    *)
(* DIF-001.  No status is no green.                                        *)
StatusAndListAgree ==
    LET Has(fs, id, severity) == \E f \in fs : f.id = id /\ f.severity = severity
        status == r_cluster_status(health_status)
    IN  \A explain \in Explanations :
        /\ Has(status, "CLU-001", "CRITICAL") =>
              Has(r_unassigned_reason(explain), "CLU-002", "CRITICAL") \/ r_recovery_inflight # {}
        /\ \A before \in {"green", "yellow", "red"} : \A f \in r_status_change(before) :
              f.severity # "INFO" => Has(status, "CLU-001", f.severity)
        /\ Has(r_unassigned_reason(explain), "CLU-002", "CRITICAL")
              <=> \E i \in indices : primary[i] = None
        /\ \A given \in {health_status, None} :
              Has(r_cluster_status(given), "CLU-001", "OK") => r_unassigned_reason(explain) = {}
        /\ (\E f \in r_unassigned_reason(explain) : f.id = "CLU-003")
              => \E f \in r_unassigned_reason(explain) : f.id = "CLU-002"
        /\ \A hasField \in BOOLEAN :
              unassigned_shards - unassigned_primaries(hasField)
                = SumFunction([i \in indices |-> UnassignedReplicas(i)])

(* CLU-006 is reported if and only if there is a node whose loss leaves    *)
(* the cluster without a master: without a quorum of the voting            *)
(* configuration, which still lists nodes that are gone, or without a node *)
(* that can be elected.                                                    *)
QuorumIsJudged ==
    Cardinality(up) > 1 =>
        ((\E f \in r_master_quorum : f.id = "CLU-006")
           <=> \E n \in master_nodes : ~HasMaster(up \ {n}, voting))

(* IDX-002, "replicas stay unassigned permanently": whatever is assigned   *)
(* and moved, an index it names lacks a copy.                              *)
ReplicasNeverFit ==
    \A f \in r_replica_unassignable : \A i \in f.affected :
        UnassignedReplicas(i) > 0 \/ primary[i] = None

(* IDX-009 names the indices that no node may take, and no others, unless  *)
(* there is no data node at all; the generic data role stands for every    *)
(* tier.                                                                   *)
TiersAreMissing ==
    data_nodes # {} => \A i \in indices :
        (\E f \in r_tier_preference : i \in f.affected)
          <=> /\ world.indices[i].tiers # <<>>
              /\ \A n \in up : \A k \in DOMAIN world.indices[i].tiers :
                    ~HasTier(n, world.indices[i].tiers[k])

(* A copy that no node can take has a reason in the report: allocation is  *)
(* not enabled or nodes are excluded (CLU-011, CLU-012), releases differ   *)
(* (CLU-008), there are fewer nodes than copies (IDX-002) or none of the   *)
(* tier (IDX-009), unless the data are on no node that is there, no node   *)
(* is left for data that are not frozen or only the tier is too small,     *)
(* which "is not checked".                                                 *)
Stuck(i) ==
    \/ /\ primary[i] = None
       /\ \A n \in Node : ~CanTakePrimary(i, n)
       /\ Creating(i)
    \/ /\ UnassignedReplicas(i) > 0
       /\ primary[i] # None /\ copies[i][primary[i]] = "started"
       /\ \A n \in Node : copies[i][n] \notin {"moving"} /\ ~CanTakeReplica(i, n)

UnassignedIsExplained ==
    \A i \in indices :
        Stuck(i) => \/ \E id \in {"CLU-008", "CLU-011.enable", "CLU-012"} : Reported(id)
                    \/ \E f \in r_replica_unassignable \cup r_tier_preference : i \in f.affected
                    \/ \A n \in data_nodes : is_frozen_only(n)
                    \/ Cardinality({n \in up : TierAllows(i, n)}) \in 1 .. replicas[i]

(* CLU-015 "counts the primary and replica shards of open indices,         *)
(* unassigned ones included", without those of partial mounts.  It never   *)
(* counts more, and it is exact while nothing is being recovered and no    *)
(* partial mount is closed.                                                *)
Counted == SumFunction([i \in {j \in indices \ closed : ~world.indices[j].partial}
                            |-> 1 + replicas[i]])

CapacityIsNeverOverstated ==
    /\ open_shards <= Counted
    /\ With("init") = {} /\ (\A i \in closed : ~world.indices[i].partial) => open_shards = Counted

(* In a tier that CLU-018 does not name no zone holds two thirds of the    *)
(* nodes: what is left when the zone is lost is more than a third.         *)
ZonesShareTheNodes ==
    (\A f \in r_zone_balance : f.id # "CLU-018") =>
        \A n \in data_nodes :
            LET zoned == {m \in data_nodes : tier_of(m) = tier_of(n) /\ ZoneOf(m) # None}
            IN  Cardinality(Zones(zoned)) >= 2 =>
                    \A z \in Zones(zoned) :
                        3 * Cardinality(InZone(tier_of(n), z)) < 2 * Cardinality(zoned)

(* A copy is counted once, also while it moves: of each node the counts    *)
(* of SHD-001 and SHD-006 are the copies that are on it, not those that    *)
(* are still arriving, and together they are the shards that health says   *)
(* are assigned.  SHD-016 leaves out those that move.                      *)
Bears(n) == {i \in indices : copies[i][n] \in Held}

ShardsAreCountedOnce ==
    /\ \A n \in Node : Count(n) = Cardinality(Bears(n))
    /\ SumFunction([n \in up |-> Count(n)]) = active_shards + initializing_shards
    /\ SumFunction([n \in up |-> Writing(n)])
         = Cardinality({r \in With("started") : world.indices[r.index].stream})

(* Health, shard list and cat indices are three accounts of the copies,    *)
(* and what is told from them is consistent.                               *)
AccountsAgree == StatusAndListAgree /\ CapacityIsNeverOverstated /\ ShardsAreCountedOnce

(* Which node or zone the cluster can lose is judged from the nodes that   *)
(* are there.                                                              *)
TopologyIsJudged == QuorumIsJudged /\ ZonesShareTheNodes

(* Copies without a node: the reasons given are true, and each copy that   *)
(* cannot be placed has one.                                               *)
PlacementIsExplained == ReplicasNeverFit /\ TiersAreMissing /\ UnassignedIsExplained
=============================================================================
