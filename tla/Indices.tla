------------------------------ MODULE Indices -------------------------------
(***************************************************************************)
(* Indices through their life and what the tool takes them for: which are  *)
(* written, which are finished, which are mounted snapshots, whose they    *)
(* are and what manages them (context.py), and the rules on indices and    *)
(* their shards that rest on it (shards.py, sharding.py).                  *)
(*                                                                         *)
(* Elasticsearch is external: series of indices are filled and rolled over *)
(* through a data stream, a failure store or an alias, finished indices    *)
(* are mounted from snapshots, blocked and deleted.  A name is a series, a *)
(* generation and the prefix that a mount (or a plain restore) gives it.   *)
(* A size is that of a primary shard, in units of which 2 is the least     *)
(* that is not small.                                                      *)
(***************************************************************************)
EXTENDS Findings, FiniteSetsExt, Sequences

CONSTANTS
    Series,     \* series of indices
    Kind,       \* series -> "stream", "failure", "alias" or "alone"
    Owner,      \* series -> "user", "dot" (a hidden name) or "managed" (by Elasticsearch)
    Old,        \* whether the version is from before streams tell who manages an index
    Trait,      \* what can be amiss with an index: a subset of Traits
    MaxGen,     \* bound: generations of a series
    MaxSize,    \* bound: class of size
    MaxEvents,  \* bound: events
    Primaries,  \* series -> number of primary shards
    SizeWarn, SizeCrit,       \* shard_size_gb_warn and _crit
    SmallCount, SmallPercent, \* small_shard_count_warn, small_shard_ratio_warn
    MinBacking,               \* ds_min_backing_indices
    Target,                   \* oversharding_target_shard_gb
    ExcessWarn, ExcessPercent,  \* oversharding_excess_warn and _ratio_warn
    ManyShards, MuchData,     \* oversharding_min_shards, oversharding_min_data_gb
    Rollover,   \* series -> conditions of its ILM policy's rollover, {} if it has none
    Retention,  \* series whose ILM policy has a delete phase
    Colder,     \* whether a tier is colder than hot
    MinGrowth,  \* index_growth_min_bytes
    Packaged,   \* streams of an Elastic integration package
    OneDataNode, \* whether a single node holds data
    ManyFields  \* whether the cluster has over 100 000 fields

(* The kinds of series there are, and the bounds of what happens to them.  *)
ASSUME SeriesAssumption ==
    /\ Kind \in [Series -> {"stream", "failure", "alias", "alone"}]
    /\ MaxGen \in Nat \ {0} /\ MaxSize \in Nat /\ MaxEvents \in Nat

Forms == {"index", "restored", "partial"}
Name == [series : Series, gen : 1 .. MaxGen, form : Forms]
File == {"settings", "aliases", "streams", "explain"}

(* Deleted documents or segments over the line, a limit of fields over the *)
(* default, dynamic fields beyond it ignored, a refresh interval under a   *)
(* second, merges slowed down, indexing throttled once or now, searches or *)
(* indexing over the warning or critical latency, failed operations.       *)
Traits == {"messy", "fields", "ignoring", "refresh", "merges", "throttled", "throttling",
           "search_warn", "search_crit", "index_warn", "index_crit", "failures"}

ASSUME TraitAssumption == Trait \subseteq Traits

ASSUME SiteAssumption == Packaged \subseteq Series /\ {OneDataNode, ManyFields} \subseteq BOOLEAN

VARIABLES
    index,      \* the indices there are: name -> record
    backing,    \* series of streams and failure stores -> sequence of names
    members,    \* alias, named as its series -> name -> is_write_index
    template,   \* series -> "ilm", "ilm_unpreferred" or "none"
    lifecycle,  \* series -> whether a data stream lifecycle is enabled
    events

vars == <<index, backing, members, template, lifecycle, events>>

Streams == {s \in Series : Kind[s] \in {"stream", "failure"}}
Of(s, g) == [series |-> s, gen |-> g, form |-> "index"]

New(s) ==
    [size |-> 0, mount |-> "no", block |-> "none", complete |-> FALSE, replicas |-> 1,
     traits |-> {}, ilm |-> template[s]]

Init ==
    /\ template \in {t \in [Series -> {"ilm", "none"}] :
                       \A s \in Series : Kind[s] \in {"failure", "alone"} => t[s] = "none"}
    /\ lifecycle = [s \in Series |-> Kind[s] \in {"stream", "failure"} /\ template[s] = "none"]
    /\ backing = [s \in Streams |-> <<Of(s, 1)>>]
    /\ index = [n \in {Of(s, 1) : s \in Series} |-> New(n.series)]
    /\ \E flag \in {"true", "none"} :
          members = [s \in Series |-> IF Kind[s] = "alias" THEN [n \in {Of(s, 1)} |-> flag]
                                      ELSE [n \in {} |-> flag]]
    /\ events = 0

Exists == DOMAIN index

(* What Elasticsearch does with a write: it goes to the last index of a    *)
(* stream, to the write index of an alias or to its only index.            *)
Receives(n) ==
    \/ \E s \in Streams : n = backing[s][Len(backing[s])]
    \/ \E s \in Series : /\ n \in DOMAIN members[s]
                         /\ \/ members[s][n] = "true"
                            \/ /\ members[s][n] = "none" /\ DOMAIN members[s] = {n}
                               /\ index[n].mount = "no"

(* What manages an index. *)
Manager(n) ==
    LET s == n.series
    IN  CASE index[n].ilm = "ilm" -> "ilm"
          [] index[n].ilm = "ilm_unpreferred" /\ ~lifecycle[s] -> "ilm"
          [] OTHER -> IF n.series \in Streams /\ lifecycle[s] THEN "dlm" ELSE "none"

-----------------------------------------------------------------------------
(* context.py: what the files say of an index.  read are the files of the  *)
(* bundle that could be read; the statistics always can.                   *)

(* Mutant: only a partial mount is a mount. *)
partial_mounts(read, n) == index[n].mount = "partial"

(* The settings decide; without them the prefix of the name.               *)
is_searchable_snapshot(read, n) ==
    IF "settings" \in read THEN index[n].mount # "no" ELSE n.form # "index"

is_partial_mount(read, n) ==
    IF "settings" \in read THEN index[n].mount = "partial" ELSE n.form = "partial"

(* The indices of hidden names and of streams that Elasticsearch manages   *)
(* for itself.                                                             *)
is_system_index(read, n) ==
    \/ Owner[n.series] = "dot"
    \/ /\ n.series \in Streams /\ Owner[n.series] = "managed" /\ "streams" \in read
       /\ \E k \in DOMAIN backing[n.series] : backing[n.series][k].gen = n.gen

Listed(read) == IF "streams" \in read THEN Streams ELSE {}
Aliases(read) == IF "aliases" \in read THEN {s \in Series : DOMAIN members[s] # {}} ELSE {}

OnlyMember(s, n) == DOMAIN members[s] = {n} /\ members[s][n] = "none"

(* index.lifecycle.rollover_alias: the alias that ILM rolls the index over with. *)
RolloverAlias(n) == Kind[n.series] = "alias" /\ index[n].ilm # "none"

(* Mutant: the only member of any alias is being filled. *)
explicit_of_alias(read) ==
    {backing[s][Len(backing[s])] : s \in Listed(read)}
    \cup UNION {{n \in DOMAIN members[s] : members[s][n] = "true" \/ OnlyMember(s, n)} :
                   s \in Aliases(read)}

(* What is being filled for sure: write indices, and the only index of a   *)
(* legacy rollover alias.                                                  *)
explicit_write_targets(read) ==
    {backing[s][Len(backing[s])] : s \in Listed(read)}
    \cup UNION {{n \in DOMAIN members[s] :
                   \/ members[s][n] = "true"
                   \/ /\ OnlyMember(s, n) /\ "settings" \in read
                      /\ RolloverAlias(n) /\ n.series = s /\ ~index[n].complete} :
                  s \in Aliases(read)}

(* What can take writes: also the only index of an alias, unless mounted.  *)
write_targets(read) ==
    explicit_write_targets(read)
    \cup UNION {{n \in DOMAIN members[s] : OnlyMember(s, n) /\ ~is_searchable_snapshot(read, n)} :
                  s \in Aliases(read)}

(* No longer written: marked complete, a past index of a stream, or beside *)
(* the write index of an alias.                                            *)
rolled_over(read, n) ==
    /\ n \notin write_targets(read)
    /\ \/ "settings" \in read /\ index[n].complete
       \/ \E s \in Listed(read) : \E k \in 1 .. Len(backing[s]) - 1 : backing[s][k] = n
       \/ \E s \in Aliases(read) :
             /\ n \in DOMAIN members[s] /\ members[s][n] # "true"
             /\ \E w \in DOMAIN members[s] : members[s][w] = "true"

(* Whether an ILM policy manages the index: ILM explain says so, else the  *)
(* settings name a policy, else the entry of the stream does.              *)
ilm_policy_of(read, n) ==
    CASE "explain" \in read  -> Manager(n) = "ilm"
      [] "explain" \notin read /\ "settings" \in read /\ index[n].ilm # "none" -> TRUE
      [] OTHER -> /\ "streams" \in read /\ Kind[n.series] = "stream"
                  /\ ~Old /\ Manager(n) = "ilm"

(* Whether a data stream lifecycle does: the entry says so (one of a       *)
(* failure store: unless it says ILM); before 8.11 the stream has a        *)
(* lifecycle and no policy.                                                *)
dlm_managed(read, n) ==
    CASE "streams" \notin read -> FALSE
      [] "streams" \in read /\ Kind[n.series] = "failure" -> Manager(n) # "ilm"
      [] "streams" \in read /\ Kind[n.series] = "stream" ->
           IF Old THEN lifecycle[n.series] /\ template[n.series] = "none" ELSE Manager(n) = "dlm"
      [] OTHER -> FALSE

-----------------------------------------------------------------------------
(* The rules; the names are those that the evidence lists.                 *)
Rows(i, s, names) == IfSo(names # {}, Naming(i, s, names))

(* A partial mount shows the size of its cache.                            *)
Size(n) == IF index[n].mount = "partial" THEN 0 ELSE index[n].size

With(t) == {n \in Exists : t \in index[n].traits}

r_shard_size(read) ==
    LET sized == {n \in Exists : ~is_partial_mount(read, n)}
    IN  Rows("SHD-002", "CRITICAL", {n \in sized : Size(n) >= SizeCrit})
        \cup Rows("SHD-003", "WARNING", {n \in sized : Size(n) \in SizeWarn .. SizeCrit - 1})

(* Small primaries of user indices; a write index is still being filled.   *)
r_small_shards(read) ==
    LET total == {n \in Exists : ~is_partial_mount(read, n)}
        small == {n \in total \ explicit_write_targets(read) : Size(n) < 2}
        user  == {n \in small : ~is_system_index(read, n)}
    IN  IfSo(/\ Cardinality(user) >= SmallCount
             /\ 100 * Cardinality(small) >= SmallPercent * Cardinality(total),
             Naming("SHD-004", "WARNING", user))

r_replica_zero(read) ==
    Rows("IDX-001", IF OneDataNode THEN "INFO" ELSE "WARNING",
         {n \in Exists : /\ ~is_system_index(read, n) /\ "settings" \in read
                         /\ index[n].mount = "no" /\ index[n].replicas = 0})

(* Deleted documents and segments. *)
r_deleted_docs(read) ==
    Rows("IDX-003", "WARNING", {n \in With("messy") : ~is_searchable_snapshot(read, n) /\ Size(n) > 0})
r_segments(read) ==
    Rows("IDX-004", "WARNING", {n \in With("messy") : ~is_searchable_snapshot(read, n) /\ Size(n) > 0})

(* Merges that were slowed down fell behind only if indexing was throttled. *)
r_merge_throttle ==
    LET slowed == With("merges")
    IN  IfSo(slowed # {},
             Naming("IDX-005", IF slowed \cap (With("throttled") \cup With("throttling")) # {}
                               THEN "WARNING" ELSE "INFO", slowed))

r_indexing_throttle ==
    LET now == With("throttling")
    IN  IfSo(now \cup With("throttled") # {},
             Naming("IDX-014", IF now # {} THEN "WARNING" ELSE "INFO", now \cup With("throttled")))

(* Slow searches and slow indexing of indices with operations enough; a    *)
(* frozen index is slow to search by design.                               *)
Lagging(i, warn, crit) ==
    Rows(i, IF crit # {} THEN "CRITICAL" ELSE "WARNING", warn \cup crit)

r_search_latency(read) ==
    LET rated == {n \in Exists : ~is_partial_mount(read, n)}
    IN  Lagging("PERF-001", rated \cap With("search_warn"), rated \cap With("search_crit"))
        \cup Lagging("PERF-002", With("index_warn"), With("index_crit"))

r_index_failures(read) ==
    IfSo(With("failures") # {},
         Naming("IDX-006", IF \E n \in With("failures") : ~is_system_index(read, n)
                           THEN "WARNING" ELSE "INFO", With("failures")))

(* The limit is no one's mistake where fields beyond it are ignored or an  *)
(* integration package set it.                                             *)
OfPackage(read, n) ==
    \E s \in Listed(read) \cap Packaged : \E k \in DOMAIN backing[s] : backing[s][k] = n

r_mapping_limits(read) ==
    LET raised == {n \in With("fields") : /\ "settings" \in read /\ ~is_system_index(read, n)
                                          /\ ~is_searchable_snapshot(read, n)}
        open   == {n \in raised \ With("ignoring") : ~OfPackage(read, n)}
    IN  Rows("MAP-001", IF open = {} THEN "INFO" ELSE "WARNING", raised)
        \cup IfSo(ManyFields, Naming("MAP-002", "INFO", {}))

r_refresh_interval(read) ==
    Rows("IDX-007", "INFO", {n \in With("refresh") : "settings" \in read /\ ~is_system_index(read, n)})

(* Mutant: what is not known to be finished is taken to be written. *)
r_read_only_blocks_unless_finished(read) ==
    LET blocked  == {n \in Exists : "settings" \in read /\ index[n].block # "none"}
        flood    == {n \in blocked : index[n].block = "flood"}
        rest     == {n \in blocked \ flood : ~is_searchable_snapshot(read, n)}
    IN  Rows("IDX-008", "CRITICAL", flood \cup {n \in rest : ~rolled_over(read, n)})

(* Blocks: left over from a full disk and on what is written they are      *)
(* critical, on a mount or a finished index expected, elsewhere to check.  *)
r_read_only_blocks(read) ==
    LET blocked  == {n \in Exists : "settings" \in read /\ index[n].block # "none"}
        flood    == {n \in blocked : index[n].block = "flood"}
        rest     == {n \in blocked \ flood : ~is_searchable_snapshot(read, n)}
        written  == rest \cap explicit_write_targets(read)
        check    == {n \in rest \ written : ~rolled_over(read, n) /\ ~is_system_index(read, n)}
        expected == blocked \ (flood \cup written \cup check)
    IN  Rows("IDX-008", "CRITICAL", flood \cup written)
        \cup Rows("IDX-011", "INFO", check)
        \cup IfSo(flood \cup written \cup check = {} /\ expected # {}, Naming("IDX-008", "OK", {}))

(* Too many shards for the size: primaries that a shrink to the least      *)
(* sufficient factor would save, with their copies.  Mounts keep the       *)
(* layout of the snapshot and are only counted.                            *)
Factors(p) == {f \in 1 .. p : p % f = 0}

Copies(n) == Primaries[n.series] * (1 + index[n].replicas)

Excess(n) ==
    LET p    == Primaries[n.series]
        need == Max({1, (Size(n) * p + Target - 1) \div Target})
    IN  (p - Min({f \in Factors(p) : f >= need})) * (1 + index[n].replicas)

SavedBy(names) == MapThenSumSet(Excess, names)
AllCopies == MapThenSumSet(Copies, Exists)

r_index_oversharding(read) ==
    LET sharded == {n \in Exists : /\ ~is_system_index(read, n) /\ ~is_partial_mount(read, n)
                                   /\ n \notin explicit_write_targets(read)
                                   /\ Primaries[n.series] >= 2 /\ Size(n) < 2}
        mounted == {n \in sharded : is_searchable_snapshot(read, n)}
        over    == {n \in sharded \ mounted : Size(n) > 0 /\ Excess(n) > 0}
    IN  CASE over # {} ->
               {Naming("OVS-001", IF \/ SavedBy(over) >= ExcessWarn
                                     \/ 100 * SavedBy(over) >= ExcessPercent * AllCopies
                                  THEN "WARNING" ELSE "INFO", over)}
          [] over = {} -> IfSo(mounted # {}, Naming("OVS-001", "INFO", {}))

ShardsOf(names) == MapThenSumSet(LAMBDA n : Primaries[n.series], names)
DataOf(names)   == MapThenSumSet(LAMBDA n : Size(n) * Primaries[n.series], names)

(* Sizes of the user's shards that hold documents and are no write index.  *)
r_shard_size_distribution(read) ==
    LET full  == {n \in Exists : /\ ~is_system_index(read, n) /\ ~is_partial_mount(read, n)
                                 /\ n \notin explicit_write_targets(read) /\ Size(n) > 0}
        small == {n \in full : Size(n) < 2}
    IN  IfSo(full # {},
             Naming("OVS-003", IF /\ ShardsOf(full) >= ManyShards /\ DataOf(full) >= MuchData
                                  /\ 100 * ShardsOf(small) >= SmallPercent * ShardsOf(full)
                               THEN "WARNING" ELSE "INFO", {}))

(* Streams whose finished indices are small: because only their age rolls  *)
(* them over, or because little is written to them.                        *)
Finished(read, s) ==
    {k \in 1 .. Len(backing[s]) - 1 : ~is_partial_mount(read, backing[s][k])}

(* The size in the middle, the upper one of two.                           *)
Median(read, s) ==
    CHOOSE m \in {Size(backing[s][k]) : k \in Finished(read, s)} :
        LET half == Cardinality(Finished(read, s)) \div 2
        IN  /\ Cardinality({k \in Finished(read, s) : Size(backing[s][k]) < m}) <= half
            /\ Cardinality({k \in Finished(read, s) : Size(backing[s][k]) <= m}) > half

SmallStreams(read) ==
    {s \in Listed(read) : /\ Kind[s] = "stream" /\ Owner[s] = "user"
                          /\ Cardinality(Finished(read, s)) >= MinBacking
                          /\ Median(read, s) < 2}

NextManager(s) ==
    IF template[s] = "ilm" \/ (template[s] = "ilm_unpreferred" /\ ~lifecycle[s]) THEN "ilm"
    ELSE IF lifecycle[s] THEN "dlm" ELSE "none"

AgeOnly(s) ==
    /\ template[s] # "none" /\ (Old \/ NextManager(s) # "dlm")
    /\ Rollover[s] = {"age"}

r_datastream_small_rollover(read) ==
    LET small == SmallStreams(read)
    IN  IfSo(small # {},
             Naming("OVS-002", IF \E s \in small : AgeOnly(s) THEN "WARNING" ELSE "INFO", {}))

(* deep.py: who uses the ILM policy of a series, by what its body says:    *)
(* indices of the user that name it and a stream whose template does.      *)
StreamUses(s) == Kind[s] = "stream" /\ Owner[s] # "dot" /\ template[s] # "none"

Users(read, s) ==
    {n \in Exists : n.series = s /\ index[n].ilm # "none" /\ ~is_system_index(read, n)}
    \cup (IF StreamUses(s) THEN {backing[s][Len(backing[s])]} ELSE {})

(* Policies without a condition on size, those of streams that ILM never   *)
(* rolls over among them.                                                  *)
Unsized(read) ==
    {s \in Series : /\ Users(read, s) # {} /\ Rollover[s] \cap {"size", "large"} = {}
                    /\ Rollover[s] = {} => StreamUses(s) /\ (Old \/ NextManager(s) # "dlm")}

r_ilm_policies(read) ==
    LET used == {s \in Series : Users(read, s) # {}}
    IN  IfSo(Unsized(read) # {}, Naming("ILM-004", "WARNING", {}))
        \cup IfSo(\E s \in used : "large" \in Rollover[s], Naming("ILM-005", "WARNING", {}))
        \cup IfSo(used \ Retention # {}, Naming("ILM-006", "INFO", {}))
        \cup IfSo(~Old /\ \E s \in used : "many docs" \in Rollover[s], Naming("ILM-007", "INFO", {}))

(* cost.py: finished indices that ILM holds in the hot phase, of those     *)
(* that were rolled over long ago.  Later phases of the model mount.       *)
HotPhase(n) == Manager(n) = "ilm" /\ index[n].mount = "no"

r_hot_rolled_over(read, aged) ==
    Rows("COST-001", "INFO",
         {n \in aged : /\ Colder /\ "explain" \in read /\ HotPhase(n)
                       /\ n \notin write_targets(read) /\ rolled_over(read, n)
                       /\ ~is_system_index(read, n)})

(* diff.py, with an earlier bundle that was collected at the start.        *)
Earlier == {Of(s, 1) : s \in Series}

(* Mutant: the prefix of a partial mount stays. *)
plain_restored(n) == IF n.form = "restored" THEN [n EXCEPT !.form = "index"] ELSE n

plain(n) == [n EXCEPT !.form = "index"]

UserName(n) == Owner[n.series] = "user" \/ (Owner[n.series] = "managed" /\ Kind[n.series] \notin {"stream", "failure"})
Missing == {n \in Earlier \ Exists : UserName(n)}
Appeared == {n \in Exists \ Earlier : UserName(n)}

(* Pairs of a name that is gone and a mount of it that is new; a name goes *)
(* to the mount that is first in order.                                    *)
MovesTo(n, m) ==
    /\ plain(n) = plain(m) /\ plain(m) # m
    /\ m.form = "restored" => ~\E k \in Appeared : k.form = "partial" /\ plain(k) = plain(m)

Moved == {pair \in Missing \X Appeared : MovesTo(pair[1], pair[2])}

Deleted == Missing \ {pair[1] : pair \in Moved}
Added == Appeared \ {pair[2] : pair \in Moved}

r_index_growth ==
    Rows("DIF-010", "INFO", {n \in Earlier \cap Exists : Size(n) > MinGrowth})
    \cup IfSo(Deleted \cup Added # {} \/ Moved # {}, Naming("DIF-011", "INFO", Deleted \cup Added))

IndexFindings(read) ==
    r_shard_size(read) \cup r_small_shards(read) \cup r_replica_zero(read)
    \cup r_deleted_docs(read) \cup r_segments(read) \cup r_merge_throttle
    \cup r_indexing_throttle \cup r_search_latency(read) \cup r_index_failures(read)
    \cup r_mapping_limits(read) \cup r_refresh_interval(read)
    \cup r_read_only_blocks(read) \cup r_index_oversharding(read)
    \cup r_shard_size_distribution(read) \cup r_datastream_small_rollover(read)

-----------------------------------------------------------------------------
(* What happens to indices. *)
Happens ==
    /\ events < MaxEvents
    /\ events' = events + 1

Unmanaged == UNCHANGED <<template, lifecycle>>

Set(n, rec) == index' = [index EXCEPT ![n] = rec] /\ UNCHANGED <<backing, members>>

Generations(s) == {n.gen : n \in {m \in Exists : m.series = s}}
Next_(s) == Of(s, Max(Generations(s)) + 1)

CanGrow(s) ==
    /\ \E n \in Exists : n.series = s
    /\ Max(Generations(s)) < MaxGen

(* Documents are written, through a stream or an alias or to the index.    *)
Write(n) ==
    /\ Happens
    /\ Receives(n) \/ Kind[n.series] = "alone"
    /\ index[n].block = "none" /\ index[n].size < MaxSize
    /\ Set(n, [index[n] EXCEPT !.size = @ + 1])
    /\ Unmanaged

(* A rollover; one by ILM marks the index complete.                        *)
Completed(n) == IF index[n].ilm # "none" THEN [index[n] EXCEPT !.complete = TRUE] ELSE index[n]

RollStream(s) ==
    LET old == backing[s][Len(backing[s])]
        new == Next_(s)
    IN  /\ Happens
        /\ CanGrow(s)
        /\ backing' = [backing EXCEPT ![s] = Append(@, new)]
        /\ index' = [n \in Exists \cup {new} |->
                        CASE n = new -> New(s) [] n = old -> Completed(old) [] OTHER -> index[n]]
        /\ UNCHANGED members /\ Unmanaged

(* An alias keeps the old index if it has a write index, else moves.       *)
RollAlias(s, old) ==
    LET new == Next_(s)
        kept == IF members[s][old] = "true" THEN DOMAIN members[s] ELSE {}
    IN  /\ Happens
        /\ old.series = s /\ old \in DOMAIN members[s] /\ Receives(old) /\ CanGrow(s)
        /\ members' = [members EXCEPT ![s] =
               [n \in kept \cup {new} |->
                  CASE n = new -> members[s][old]
                    [] n = old -> "false"
                    [] OTHER   -> members[s][n]]]
        /\ index' = [n \in Exists \cup {new} |->
                        CASE n = new -> New(s) [] n = old -> Completed(old) [] OTHER -> index[n]]
        /\ UNCHANGED backing /\ Unmanaged

(* An operator points an alias back to an older index.                     *)
SwitchAlias(s, n) ==
    /\ Happens
    /\ Kind[s] = "alias" /\ n.series = s /\ index[n].mount = "no" /\ ~Receives(n)
    /\ members' = [members EXCEPT ![s] =
           IF \E m \in DOMAIN members[s] : members[s][m] # "none"
           THEN [m \in DOMAIN members[s] \cup {n} |-> IF m = n THEN "true" ELSE "false"]
           ELSE [m \in {n} |-> "none"]]
    /\ UNCHANGED <<index, backing>> /\ Unmanaged

(* A read alias is put on an index, or taken from one.                     *)
ReadAlias(s, n) ==
    /\ Happens
    /\ Kind[s] = "alone" /\ Kind[n.series] = "alone"
    /\ members' = [members EXCEPT ![s] =
           IF n \in DOMAIN members[s] THEN [m \in DOMAIN members[s] \ {n} |-> members[s][m]]
           ELSE [m \in DOMAIN members[s] \cup {n} |-> "none"]]
    /\ UNCHANGED <<index, backing>> /\ Unmanaged

(* A finished index is mounted from its snapshot, in full or in part, and  *)
(* takes the place of the index; of the alias it is a plain member.        *)
Mount(n, mount) ==
    LET new == [n EXCEPT !.form = IF mount = "full" THEN "restored" ELSE "partial"]
    IN  /\ Happens
        /\ ~Receives(n) /\ Kind[n.series] \in {"stream", "alias"}
        /\ Kind[n.series] = "alias" => index[n].complete
        /\ index[n].mount \notin {mount, "partial"}
        /\ index' = [m \in (Exists \ {n}) \cup {new} |->
               IF m = new THEN [index[n] EXCEPT !.mount = mount, !.block = "write", !.replicas = 0]
               ELSE index[m]]
        /\ backing' = [s \in Streams |-> [k \in DOMAIN backing[s] |->
                          IF backing[s][k] = n THEN new ELSE backing[s][k]]]
        /\ members' = [s \in Series |->
               IF n \notin DOMAIN members[s] THEN members[s]
               ELSE [m \in (DOMAIN members[s] \ {n}) \cup {new} |->
                        IF m = new THEN "none" ELSE members[s][m]]]
        /\ Unmanaged

(* A plain restore of an index beside itself: a renamed index, no mount.   *)
Restore(n) ==
    LET new == [n EXCEPT !.form = "restored"]
    IN  /\ Happens
        /\ Kind[n.series] = "alone" /\ n.form = "index" /\ new \notin Exists
        /\ index' = [m \in Exists \cup {new} |-> IF m = new THEN index[n] ELSE index[m]]
        /\ UNCHANGED <<backing, members>> /\ Unmanaged

Block(n, block) ==
    /\ Happens
    /\ index[n].block # block /\ index[n].mount = "no"
    /\ Set(n, [index[n] EXCEPT !.block = block])
    /\ Unmanaged

NoReplicas(n) ==
    /\ Happens
    /\ index[n].replicas > 0
    /\ Set(n, [index[n] EXCEPT !.replicas = 0])
    /\ Unmanaged

(* A trait comes; throttling ends and stays in the counters.               *)
Acquire(n, t) ==
    /\ Happens
    /\ t \notin index[n].traits
    /\ Set(n, [index[n] EXCEPT !.traits = @ \cup {t}])
    /\ Unmanaged

Unthrottle(n) ==
    /\ Happens
    /\ "throttling" \in index[n].traits
    /\ Set(n, [index[n] EXCEPT !.traits = (@ \ {"throttling"}) \cup {"throttled"}])
    /\ Unmanaged

(* Mutant: the stream still lists what was deleted. *)
DeleteUnlisted(n) ==
    /\ Happens
    /\ \A s \in Streams : n # backing[s][Len(backing[s])]
    /\ index' = [m \in Exists \ {n} |-> index[m]]
    /\ members' = [s \in Series |-> [m \in DOMAIN members[s] \ {n} |-> members[s][m]]]
    /\ UNCHANGED backing /\ Unmanaged

(* A list of names, each on it once, without n.                            *)
Without(names, n) ==
    IF \E k \in DOMAIN names : names[k] = n
    THEN LET at == CHOOSE k \in DOMAIN names : names[k] = n
         IN  [k \in 1 .. Len(names) - 1 |-> names[IF k < at THEN k ELSE k + 1]]
    ELSE names

(* Any index but the write index of a stream may be deleted.               *)
Delete(n) ==
    /\ Happens
    /\ \A s \in Streams : n # backing[s][Len(backing[s])]
    /\ index' = [m \in Exists \ {n} |-> index[m]]
    /\ backing' = [s \in Streams |-> Without(backing[s], n)]
    /\ members' = [s \in Series |-> [m \in DOMAIN members[s] \ {n} |-> members[s][m]]]
    /\ Unmanaged

(* The template of a series gets another policy; a stream gets or loses    *)
(* its lifecycle.                                                          *)
SetTemplate(s, t) ==
    /\ Happens
    /\ Kind[s] = "stream" /\ template[s] # t
    /\ template' = [template EXCEPT ![s] = t]
    /\ UNCHANGED <<index, backing, members, lifecycle>>

SetLifecycle(s) ==
    /\ Happens
    /\ Kind[s] = "stream"
    /\ lifecycle' = [lifecycle EXCEPT ![s] = ~@]
    /\ UNCHANGED <<index, backing, members, template>>

Next ==
    \/ \E n \in Exists :
         \/ Write(n) \/ Restore(n) \/ NoReplicas(n) \/ Unthrottle(n) \/ Delete(n)
         \/ \E mount \in {"full", "partial"} : Mount(n, mount)
         \/ \E block \in {"none", "write", "flood"} : Block(n, block)
         \/ \E t \in Trait : Acquire(n, t)
         \/ \E s \in Series : RollAlias(s, n) \/ SwitchAlias(s, n) \/ ReadAlias(s, n)
    \/ \E s \in Streams : RollStream(s) \/ SetLifecycle(s)
    \/ \E s \in Series, t \in {"ilm", "ilm_unpreferred", "none"} : SetTemplate(s, t)

Spec == Init /\ [][Next]_vars

-----------------------------------------------------------------------------
(* Types; streams and aliases hold indices there are, an alias has at most *)
(* one write index, and only what has a prefix is a mount.                 *)
TypeOK ==
    /\ events \in 0 .. MaxEvents
    /\ \A n \in Exists : /\ n \in Name /\ index[n].size \in 0 .. MaxSize
                         /\ index[n].traits \subseteq Traits
                         /\ (index[n].mount = "partial") = (n.form = "partial")
                         /\ index[n].mount = "full" => n.form = "restored"
    /\ \A s \in Streams : /\ backing[s] # <<>>
                          /\ \A k \in DOMAIN backing[s] : backing[s][k] \in Exists
    /\ \A s \in Series : /\ DOMAIN members[s] \subseteq Exists
                         /\ Cardinality({n \in DOMAIN members[s] : members[s][n] = "true"}) <= 1

(* "Indices that are being filled for sure": what is named takes writes,   *)
(* through rollovers, switched aliases, mounts and deletions, whichever    *)
(* files are missing; and what takes writes is known if the files are there. *)
FilledIsFilled ==
    /\ \A read \in SUBSET File : \A n \in explicit_write_targets(read) : Receives(n)
    /\ \A n \in Exists : Receives(n) => n \in write_targets(File)

(* What is taken for finished takes no write, even if it was marked        *)
(* complete before an operator pointed its alias back to it.               *)
FinishedIsFinished ==
    \A read \in SUBSET File : {"aliases", "streams", "settings"} \subseteq read =>
        \A n \in Exists : rolled_over(read, n) => ~Receives(n)

(* A mount is as the snapshot is: no advice to add replicas, merge, shrink *)
(* or change the mapping names one, also when only its name tells.         *)
MountsGetNoAdvice ==
    \A read \in SUBSET File :
        \A f \in r_replica_zero(read) \cup r_deleted_docs(read) \cup r_segments(read)
                   \cup r_mapping_limits(read) \cup r_index_oversharding(read) :
            \A n \in f.affected : index[n].mount = "no"

(* The index that a stream or a flagged alias writes to.                   *)
WriteIndex(n) ==
    \/ \E s \in Streams : n = backing[s][Len(backing[s])]
    \/ \E s \in Series : n \in DOMAIN members[s] /\ members[s][n] = "true"

(* A write block is critical on each index that a stream or a flagged      *)
(* alias writes to, and only on indices that take writes.                  *)
BlocksAreJudged ==
    LET bad == UNION {f.affected : f \in {g \in r_read_only_blocks(File) : g.severity = "CRITICAL"}}
    IN  \A n \in Exists : index[n].block = "write" =>
            /\ WriteIndex(n) => n \in bad
            /\ n \in bad => Receives(n)

(* A file that could not be read makes nothing critical.                   *)
CriticalOf(read) == {f \in IndexFindings(read) : f.severity = "CRITICAL"}

MissingFilesAlarmNobody ==
    LET all == CriticalOf(File)
    IN  \A read \in SUBSET File : \A f \in CriticalOf(read) :
            \E g \in all : g.id = f.id /\ f.affected \subseteq g.affected

(* An index that is still being filled is not counted as small, nor as     *)
(* oversharded, nor is it to leave the hot tier, if it can be known.       *)
FilledIsNotSmall ==
    \A f \in r_small_shards(File) \cup r_index_oversharding(File)
               \cup r_hot_rolled_over(File, Exists) :
        \A n \in f.affected : ~WriteIndex(n)

(* What is said to manage an index does: ILM, a lifecycle or neither, also *)
(* while a stream is moved from one to the other.                          *)
ManagerIsKnown ==
    ~Old => \A read \in SUBSET File : {"explain", "streams"} \subseteq read =>
        \A n \in Exists :
            /\ ilm_policy_of(read, n) = (Manager(n) = "ilm")
            /\ dlm_managed(read, n) = (Manager(n) = "dlm")

(* What OVS-002 blames on the age, ILM-004 names: a stream that takes on   *)
(* a policy which no index of it has yet is a user of the policy.          *)
BlamedPoliciesAreNamed ==
    (\E f \in r_datastream_small_rollover(File) : f.severity = "WARNING") =>
        /\ \E f \in r_ilm_policies(File) : f.id = "ILM-004"
        /\ SmallStreams(File) \cap Unsized(File) # {}

(* DIF-011: an index of the earlier bundle that is there as a mount was    *)
(* not deleted and its mount is not new, however often it was mounted;     *)
(* an index of the user that is there in no form was deleted.              *)
MountsAreNoChange ==
    LET told == UNION {f.affected : f \in {g \in r_index_growth : g.id = "DIF-011"}}
        There(n) == \E m \in Exists : m.series = n.series /\ m.gen = n.gen
    IN  /\ \A n \in Earlier : n \in told <=> UserName(n) /\ ~There(n)
        /\ \A m \in Exists : index[m].mount # "no" /\ m.gen = 1 => m \notin told

(* What the program takes an index to be, filled, finished and managed,    *)
(* is what it is.                                                          *)
IndicesAreUnderstood == FilledIsFilled /\ FinishedIsFinished /\ ManagerIsKnown

(* What the rules say of an index fits what it is.                         *)
AdviceFitsTheIndex ==
    MountsGetNoAdvice /\ BlocksAreJudged /\ FilledIsNotSmall /\ BlamedPoliciesAreNamed
=============================================================================
