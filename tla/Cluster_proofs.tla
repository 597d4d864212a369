--------------------------- MODULE Cluster_proofs ----------------------------
(***************************************************************************)
(* Proofs about Cluster, for every world of nodes and indices and every    *)
(* bound: what the inductive invariant says of the copies and of the       *)
(* voting configuration is kept by every step, the rules' judgement of     *)
(* quorum, zones, placement and capacity follows from it, and a copy that  *)
(* moves changes nothing the rules say of density and balance.             *)
(***************************************************************************)
EXTENDS Cluster, SetTheorems

(* What is known of every world. *)
LEMMA TheWorld ==
  ASSUME world \in Worlds
  PROVE  /\ IsFiniteSet(Node) /\ IsFiniteSet(Index) /\ None \notin Node
         /\ \A n \in Node : RolesOf(n) \subseteq Roles
         /\ \E n \in Node : is_master_eligible(n) /\ ~is_voting_only(n)
BY WorldAssumption DEF Node, Index, RolesOf, is_master_eligible, is_voting_only

LEMMA TheIndices ==
  ASSUME world \in Worlds, NEW i \in Index
  PROVE  /\ world.indices[i].tiers \in Seq(Tiers)
         /\ ~world.indices[i].partial =>
               \A k \in DOMAIN world.indices[i].tiers :
                  world.indices[i].tiers[k] # "data_frozen"
         /\ world.indices[i].replicas \in 0 .. MaxReplicas
         /\ world.indices[i].auto => world.indices[i].replicas \in {0, 1}
<1>1. 1 <= MaxReplicas /\ MaxReplicas \in Nat
  BY BoundsAssumption
<1>2. world.indices[i].replicas \in 0 .. (IF world.indices[i].auto THEN 1 ELSE MaxReplicas)
  BY WorldAssumption DEF Index
<1>3. /\ world.indices[i].tiers \in Seq(Tiers)
      /\ ~world.indices[i].partial =>
            \A k \in DOMAIN world.indices[i].tiers : world.indices[i].tiers[k] # "data_frozen"
  BY WorldAssumption DEF Index
<1> QED
  BY <1>1, <1>2, <1>3

-----------------------------------------------------------------------------
(* Types.                                                                  *)
LEMMA ExpandedTypes ==
  ASSUME TypeOK, NEW nodes
  PROVE  /\ Expanded(nodes) \in [Index -> 0 .. MaxReplicas]
         /\ \A i \in Index : world.indices[i].auto => Expanded(nodes)[i] \in {0, 1}
         /\ \A i \in Index : ~world.indices[i].auto => Expanded(nodes)[i] = replicas[i]
<1>1. 1 \in 0 .. MaxReplicas /\ 0 \in 0 .. MaxReplicas
  BY BoundsAssumption
<1>2. \A i \in Index : replicas[i] \in 0 .. MaxReplicas
  BY DEF TypeOK
<1> QED
  BY <1>1, <1>2 DEF Expanded

LEMMA ReconfiguredTypes ==
  ASSUME NEW v, NEW live, NEW c \in Reconfigured(v, live)
  PROVE  c \subseteq live \cup v /\ Quorum(live, c)
BY DEF Reconfigured

LEMMA HoldersAreData ==
  ASSUME CopiesFit, NEW i \in Index, NEW n \in Node, copies[i][n] # None
  PROVE  /\ n \in up /\ is_data(n) /\ n \in data_nodes
         /\ i \in indices /\ primary[i] # None
BY DEF CopiesFit, data_nodes

LEMMA TypesAreKept ==
  ASSUME TypeOK, CopiesFit, Next
  PROVE  TypeOK'
<1> USE DEF Node, Index
<1> DEFINE S == Held \cup {"target", None}
<1>0. /\ {"init", "started", "moving", "target", None} = S
      /\ world \in Worlds
  BY DEF Held, TypeOK
<1>1. ASSUME NEW n \in Node, Leave(n)
      PROVE  TypeOK'
  <2>1. /\ UNCHANGED <<world, version, setting, indices, closed, fresh>>
        /\ up' = up \ {n} /\ events < MaxEvents /\ events' = events + 1
        /\ primary' \in [Index -> Node \cup {None}]
        /\ copies' = [i \in Index |-> After(i, n, primary'[i])]
        /\ replicas' = Expanded(up')
    BY <1>1 DEF Leave, Happens
  <2>2. voting' \subseteq {m \in Node : is_master_eligible(m)}
    <3> DEFINE live == {m \in up' : is_master_eligible(m)}
    <3>1. voting' = voting \/ voting' \in Reconfigured(voting, live)
      BY <1>1 DEF Leave
    <3>2. live \subseteq {m \in Node : is_master_eligible(m)}
      BY <2>1 DEF TypeOK
    <3>3. voting' \subseteq live \cup voting
      BY <3>1, ReconfiguredTypes
    <3> QED
      BY <3>2, <3>3 DEF TypeOK
  <2>3. copies' \in [Index -> [Node -> S]]
    <3>1. \A i \in Index : After(i, n, primary'[i]) \in [Node -> S]
      BY <1>0 DEF After, TypeOK
    <3> QED
      BY <2>1, <3>1
  <2>4. insync' \in [Index -> SUBSET {m \in Node : is_data(m)}]
    BY <1>1 DEF Leave, TypeOK
  <2>5. replicas' \in [Index -> 0 .. MaxReplicas]
    BY <2>1, ExpandedTypes
  <2>6. events' \in 0 .. MaxEvents
    BY <2>1, BoundsAssumption DEF TypeOK
  <2> QED
    BY <2>1, <2>2, <2>3, <2>4, <2>5, <2>6 DEF TypeOK, is_master_eligible, is_data, RolesOf
<1>2. ASSUME NEW n \in Node, NEW v \in 1 .. MaxVersion, Join(n, v)
      PROVE  TypeOK'
  <2>1. /\ UNCHANGED <<world, setting, indices, closed, fresh, primary, copies, insync>>
        /\ up' = up \cup {n} /\ events < MaxEvents /\ events' = events + 1
        /\ version' = [version EXCEPT ![n] = v]
        /\ replicas' = Expanded(up')
    BY <1>2 DEF Join, Happens, Layout
  <2>2. voting' \subseteq {m \in Node : is_master_eligible(m)}
    <3> DEFINE live == {m \in up' : is_master_eligible(m)}
    <3>1. voting' \in Reconfigured(voting, live)
      BY <1>2 DEF Join
    <3>2. live \subseteq {m \in Node : is_master_eligible(m)}
      BY <2>1 DEF TypeOK
    <3>3. voting' \subseteq live \cup voting
      BY <3>1, ReconfiguredTypes
    <3> QED
      BY <3>2, <3>3 DEF TypeOK
  <2>3. version' \in [Node -> 1 .. MaxVersion]
    BY <2>1 DEF TypeOK
  <2>5. replicas' \in [Index -> 0 .. MaxReplicas]
    BY <2>1, ExpandedTypes
  <2>6. events' \in 0 .. MaxEvents
    BY <2>1, BoundsAssumption DEF TypeOK
  <2> QED
    BY <2>1, <2>2, <2>3, <2>5, <2>6 DEF TypeOK, is_master_eligible, is_data, RolesOf
<1>3. ASSUME NEW i \in Index, NEW n \in Node, AssignPrimary(i, n)
      PROVE  TypeOK'
  <2>1. /\ UNCHANGED <<world, fresh, insync, events, up, version, voting, setting, replicas,
                       indices, closed>>
        /\ primary' = [primary EXCEPT ![i] = n]
        /\ copies' = [copies EXCEPT ![i][n] = "init"]
    BY <1>3 DEF AssignPrimary, Nodes, Settings
  <2>2. primary' \in [Index -> Node \cup {None}]
    BY <2>1 DEF TypeOK
  <2>3. copies' \in [Index -> [Node -> S]]
    BY <1>0, <2>1 DEF TypeOK
  <2> QED
    BY <2>1, <2>2, <2>3 DEF TypeOK, is_master_eligible, is_data, RolesOf
<1>4. ASSUME NEW i \in Index, NEW n \in Node, AssignReplica(i, n)
      PROVE  TypeOK'
  <2>1. /\ UNCHANGED <<world, fresh, insync, events, up, version, voting, setting, replicas,
                       indices, closed, primary>>
        /\ copies' = [copies EXCEPT ![i][n] = "init"]
    BY <1>4 DEF AssignReplica, Nodes, Settings
  <2>3. copies' \in [Index -> [Node -> S]]
    BY <1>0, <2>1 DEF TypeOK
  <2> QED
    BY <2>1, <2>3 DEF TypeOK, is_master_eligible, is_data, RolesOf
<1>5. ASSUME NEW i \in Index, NEW n \in Node, Recover(i, n), is_data(n)
      PROVE  TypeOK'
  <2>1. /\ UNCHANGED <<world, primary, events, up, version, voting, setting, replicas,
                       indices, closed>>
        /\ copies' = [copies EXCEPT ![i][n] = "started"] /\ fresh' = fresh \ {i}
        /\ insync' = [insync EXCEPT ![i] = IF n = primary[i] THEN {n} ELSE @ \cup {n}]
    BY <1>5 DEF Recover, Nodes, Settings
  <2>2. insync' \in [Index -> SUBSET {m \in Node : is_data(m)}]
    BY <1>5, <2>1 DEF TypeOK
  <2>3. copies' \in [Index -> [Node -> S]]
    BY <1>0, <2>1 DEF TypeOK
  <2> QED
    BY <2>1, <2>2, <2>3 DEF TypeOK, is_master_eligible, is_data, RolesOf
<1>6. ASSUME NEW i \in Index, NEW n \in Node, NEW m \in Node, Move(i, n, m)
      PROVE  TypeOK'
  <2>1. /\ UNCHANGED <<world, primary, fresh, insync, up, version, voting, setting, replicas,
                       indices, closed>>
        /\ events < MaxEvents /\ events' = events + 1
        /\ copies' = [copies EXCEPT ![i][n] = "moving", ![i][m] = "target"]
    BY <1>6 DEF Move, Happens, Nodes, Settings
  <2>2. events' \in 0 .. MaxEvents
    BY <2>1, BoundsAssumption DEF TypeOK
  <2>3. copies' \in [Index -> [Node -> S]]
    BY <1>0, <2>1 DEF TypeOK
  <2> QED
    BY <2>1, <2>2, <2>3 DEF TypeOK, is_master_eligible, is_data, RolesOf
<1>7. ASSUME NEW i \in Index, NEW n \in Node, NEW m \in Node, Arrive(i, n, m), is_data(m)
      PROVE  TypeOK'
  <2>1. /\ UNCHANGED <<world, events, fresh, up, version, voting, setting, replicas,
                       indices, closed>>
        /\ copies' = [copies EXCEPT ![i][n] = None, ![i][m] = "started"]
        /\ primary' = [primary EXCEPT ![i] = IF @ = n THEN m ELSE @]
        /\ insync' = [insync EXCEPT ![i] = (@ \ {n}) \cup {m}]
    BY <1>7 DEF Arrive, Nodes, Settings
  <2>2. insync' \in [Index -> SUBSET {k \in Node : is_data(k)}]
    BY <1>7, <2>1 DEF TypeOK
  <2>3. copies' \in [Index -> [Node -> S]]
    BY <1>0, <2>1 DEF TypeOK
  <2>4. primary' \in [Index -> Node \cup {None}]
    BY <2>1 DEF TypeOK
  <2> QED
    BY <2>1, <2>2, <2>3, <2>4 DEF TypeOK, is_master_eligible, is_data, RolesOf
<1>8. ASSUME NEW i \in Index, Create(i)
      PROVE  TypeOK'
  <2>1. /\ UNCHANGED <<world, primary, copies, fresh, insync, up, version, voting, setting,
                       replicas, closed>>
        /\ events < MaxEvents /\ events' = events + 1 /\ indices' = indices \cup {i}
    BY <1>8 DEF Create, Happens, Nodes, Layout
  <2>2. events' \in 0 .. MaxEvents
    BY <2>1, BoundsAssumption DEF TypeOK
  <2> QED
    BY <2>1, <2>2 DEF TypeOK, is_master_eligible, is_data, RolesOf
<1>9. ASSUME NEW i \in Index, Close(i)
      PROVE  TypeOK'
  <2>1. /\ UNCHANGED <<world, primary, copies, fresh, insync, up, version, voting, setting,
                       replicas, indices>>
        /\ events < MaxEvents /\ events' = events + 1 /\ closed' = closed \cup {i}
        /\ i \in indices
    BY <1>9 DEF Close, Happens, Nodes, Layout
  <2>2. events' \in 0 .. MaxEvents
    BY <2>1, BoundsAssumption DEF TypeOK
  <2> QED
    BY <2>1, <2>2 DEF TypeOK, is_master_eligible, is_data, RolesOf
<1>10. ASSUME NEW i \in Index, NEW k \in 0 .. MaxReplicas, SetReplicas(i, k)
       PROVE  TypeOK'
  <2>1. /\ UNCHANGED <<world, primary, copies, fresh, insync, up, version, voting, setting,
                       indices, closed>>
        /\ events < MaxEvents /\ events' = events + 1
        /\ replicas' = [replicas EXCEPT ![i] = k]
    BY <1>10 DEF SetReplicas, Happens, Nodes, Layout
  <2>2. events' \in 0 .. MaxEvents
    BY <2>1, BoundsAssumption DEF TypeOK
  <2>3. replicas' \in [Index -> 0 .. MaxReplicas]
    BY <2>1 DEF TypeOK
  <2> QED
    BY <2>1, <2>2, <2>3 DEF TypeOK, is_master_eligible, is_data, RolesOf
<1>11. ASSUME NEW scope \in {"transient", "persistent"},
              \/ \E v \in {None, "all", "primaries", "none"} : Put(scope, "enable", v)
              \/ \E v \in Node \cup {None} : Put(scope, "exclude", v)
       PROVE  TypeOK'
  <2> DEFINE R == [enable : {None, "all", "primaries", "none"}, exclude : Node \cup {None}]
  <2>1. /\ UNCHANGED <<world, primary, copies, fresh, insync, up, version, voting, replicas,
                       indices, closed>>
        /\ events < MaxEvents /\ events' = events + 1
    BY <1>11 DEF Put, Happens, Nodes, Layout
  <2>2. events' \in 0 .. MaxEvents
    BY <2>1, BoundsAssumption DEF TypeOK
  <2>3. setting \in [{"transient", "persistent"} -> R] /\ setting[scope] \in R
    BY DEF TypeOK
  <2>4. \E r \in R : setting' = [setting EXCEPT ![scope] = r]
    <3>1. CASE \E v \in {None, "all", "primaries", "none"} : Put(scope, "enable", v)
      <4>1. PICK v \in {None, "all", "primaries", "none"} :
                 setting' = [setting EXCEPT ![scope]["enable"] = v]
        BY <3>1 DEF Put
      <4>2. [setting[scope] EXCEPT !["enable"] = v] \in R
        BY <2>3
      <4> HIDE DEF R
      <4> QED
        BY <4>1, <4>2
    <3>2. CASE \E v \in Node \cup {None} : Put(scope, "exclude", v)
      <4>1. PICK v \in Node \cup {None} :
                 setting' = [setting EXCEPT ![scope]["exclude"] = v]
        BY <3>2 DEF Put
      <4>2. [setting[scope] EXCEPT !["exclude"] = v] \in R
        BY <2>3
      <4> HIDE DEF R
      <4> QED
        BY <4>1, <4>2
    <3> QED
      BY <1>11, <3>1, <3>2
  <2>5. setting' \in [{"transient", "persistent"} -> R]
    <3> HIDE DEF R
    <3> QED
      BY <2>3, <2>4
  <2> QED
    BY <2>1, <2>2, <2>5 DEF TypeOK, is_master_eligible, is_data, RolesOf
<1>12. ASSUME NEW i \in Index, NEW n \in Node, Recover(i, n)
       PROVE  is_data(n)
  BY <1>12, HoldersAreData DEF Recover, None
<1>13. ASSUME NEW i \in Index, NEW n \in Node, NEW m \in Node, Arrive(i, n, m)
       PROVE  is_data(m)
  BY <1>13, HoldersAreData DEF Arrive, None
<1> QED
  BY <1>1, <1>2, <1>3, <1>4, <1>5, <1>6, <1>7, <1>8, <1>9, <1>10, <1>11, <1>12, <1>13
     DEF Next

-----------------------------------------------------------------------------
(* Copies.  What CopiesFit says of one index: its nodes are N, its primary *)
(* is on p, the copies are c, k replicas are wanted and the data nodes are *)
(* D.                                                                      *)
States == Held \cup {"target", None}
Holders(N, c) == {n \in N : c[n] \in Held}
Lacking(p) == IF p = None THEN 1 ELSE 0
Enough(N, p, c, k) == 1 + k - Cardinality(Holders(N, c)) - Lacking(p) >= 0
Placed(N, p, c, exists, D) ==
    /\ p # None => c[p] \in Held
    /\ \A n \in N : c[n] # None => n \in D /\ exists /\ p # None
Moving(N, c) ==
    /\ \A n, m \in N : c[n] = c[m] /\ n # m => c[n] \notin {"moving", "target"}
    /\ (\E n \in N : c[n] = "moving") <=> \E n \in N : c[n] = "target"

Fits(N, auto, p, c, k, exists, D) ==
    Enough(N, p, c, k) /\ (auto => k <= 1) /\ Placed(N, p, c, exists, D) /\ Moving(N, c)

LEMMA FitIs ==
  CopiesFit <=> \A i \in Index : Fits(Node, world.indices[i].auto, primary[i], copies[i],
                                     replicas[i], i \in indices, data_nodes)
BY DEF CopiesFit, Fits, Enough, Placed, Moving, Lacking, Holders, UnassignedReplicas, Assigned

LEMMA FitIsNext ==
  ASSUME UNCHANGED world
  PROVE  CopiesFit' <=> \A i \in Index : Fits(Node, world.indices[i].auto, primary'[i], copies'[i],
                                             replicas'[i], i \in indices', data_nodes')
<1>1. Node' = Node /\ Index' = Index
  BY DEF Node, Index
<1> QED
  BY <1>1 DEF CopiesFit, Fits, Enough, Placed, Moving, Lacking, Holders, UnassignedReplicas,
              Assigned

(* Wanted copies when the number of data nodes changes. *)
LEMMA RoomIsKept ==
  ASSUME NEW N, IsFiniteSet(N), NEW D, D \subseteq N, NEW c, NEW b,
         NEW p, NEW q, NEW k \in Nat, NEW j \in Nat, NEW auto,
         Enough(N, p, c, k), Holders(N, b) \subseteq Holders(N, c), Holders(N, b) \subseteq D,
         q = None => Holders(N, b) = {},
         auto => k <= 1 /\ j = IF Cardinality(D) >= 2 THEN 1 ELSE 0,
         ~auto => j = k
  PROVE  Enough(N, q, b, j)
<1> DEFINE x == Cardinality(Holders(N, c))
           y == Cardinality(Holders(N, b))
           z == Cardinality(D)
<1>1. x \in Nat /\ y \in Nat /\ z \in Nat /\ y <= x /\ y <= z
  BY FS_Subset, FS_CardinalityType DEF Holders
<1>2. q = None => y = 0
  BY FS_EmptySet
<1>3. Lacking(p) \in {0, 1} /\ Lacking(q) \in {0, 1} /\ (Lacking(q) = 1 => q = None)
  BY DEF Lacking
<1>4. 1 + k - x - Lacking(p) >= 0
  BY DEF Enough
<1> HIDE DEF x, y, z
<1>5. 1 + j - y - Lacking(q) >= 0
  <2>1. CASE auto
    <3>1. k <= 1 /\ (z >= 2 => j = 1) /\ (~(z >= 2) => j = 0)
      BY <2>1 DEF z
    <3> QED
      BY <1>1, <1>2, <1>3, <1>4, <3>1
  <2>2. CASE ~auto
    BY <1>1, <1>2, <1>3, <1>4, <2>2
  <2> QED
    BY <2>1, <2>2
<1> QED
  BY <1>5 DEF Enough, y

(* A node leaves. *)
LEMMA LeaveFits ==
  ASSUME NEW N, IsFiniteSet(N), NEW D, D \subseteq N, NEW n \in N, NEW p, NEW q,
         NEW c \in [N -> States], NEW b \in [N -> States], None \notin N,
         NEW k \in Nat, NEW j \in Nat, NEW auto, NEW exists,
         Fits(N, auto, p, c, k, exists, D),
         p \in N \cup {None}, q \in N \cup {None},
         IF p # n THEN q = p
         ELSE IF \E m \in N \ {n} : c[m] \in Active THEN q \in N \ {n} /\ c[q] \in Active
         ELSE q = None,
         \A m \in N : b[m] =
            CASE m = n -> None
              [] m # n /\ c[m] = "target" -> IF c[n] = "moving" THEN None ELSE "target"
              [] m # n /\ c[m] = "moving" -> IF c[n] = "target" THEN "started" ELSE "moving"
              [] m # n /\ c[m] = "init" -> IF q = None THEN None ELSE "init"
              [] OTHER -> c[m],
         auto => j = IF Cardinality(D \ {n}) >= 2 THEN 1 ELSE 0,
         ~auto => j = k
  PROVE  Fits(N, auto, q, b, j, exists, D \ {n})
<1> USE DEF Held, Active, States, None
<1>1. Placed(N, p, c, exists, D) /\ Moving(N, c)
  BY DEF Fits
<1>2. b[n] = None
  OBVIOUS
<1>3. ASSUME NEW m \in N, m # n
      PROVE  /\ c[m] = "target" => b[m] = IF c[n] = "moving" THEN None ELSE "target"
             /\ c[m] = "moving" => b[m] = IF c[n] = "target" THEN "started" ELSE "moving"
             /\ c[m] = "init" => b[m] = IF q = None THEN None ELSE "init"
             /\ c[m] = "started" => b[m] = "started"
             /\ c[m] = None => b[m] = None
             /\ c[m] \in {"target", "moving", "init", "started", None}
  BY <1>3
<1>4. \A m \in N : b[m] # None => m # n /\ c[m] # None
  BY <1>2, <1>3
<1>5. q = None => \A m \in N : b[m] = None
  <2> SUFFICES ASSUME q = None, NEW m \in N, m # n
               PROVE  b[m] = None
    BY <1>2
  <2>1. CASE p = None
    <3>1. c[m] = None
      BY <1>1, <2>1 DEF Placed
    <3> QED
      BY <1>3, <3>1
  <2>2. CASE p # None
    <3>1. p = n /\ c[m] \notin Active
      BY <2>2
    <3>2. c[m] = "target" => c[n] = "moving"
      <4>1. ASSUME c[m] = "target" PROVE \E x \in N : c[x] = "moving"
        BY <1>1, <4>1 DEF Moving
      <4> QED
        BY <2>2, <4>1
    <3> QED
      BY <1>3, <3>1, <3>2
  <2> QED
    BY <2>1, <2>2
<1>6. Placed(N, q, b, exists, D \ {n})
  <2>1. q # None => b[q] \in Held
    <3> SUFFICES ASSUME q # None PROVE b[q] \in Held
      OBVIOUS
    <3>1. q \in N /\ q # n /\ c[q] \in Held
      BY <1>1 DEF Placed
    <3> QED
      BY <1>3, <3>1
  <2>2. ASSUME NEW m \in N, b[m] # None
        PROVE  m \in D \ {n} /\ exists /\ q # None
    BY <1>1, <1>4, <1>5, <2>2 DEF Placed
  <2> QED
    BY <2>1, <2>2 DEF Placed
<1>7. Moving(N, b)
  <2>1. \A m \in N : /\ b[m] = "moving" => m # n /\ c[m] = "moving" /\ c[n] # "target"
                     /\ b[m] = "target" => m # n /\ c[m] = "target" /\ c[n] # "moving"
    BY <1>2, <1>3
  <2>2. \A m, x \in N : b[m] = b[x] /\ m # x => b[m] \notin {"moving", "target"}
    BY <1>1, <2>1 DEF Moving
  <2>3. ASSUME NEW m \in N, b[m] = "moving" PROVE \E x \in N : b[x] = "target"
    <3>1. PICK x \in N : c[x] = "target"
      BY <1>1, <2>1, <2>3 DEF Moving
    <3>2. x # n /\ c[n] # "moving"
      BY <1>1, <2>1, <2>3, <3>1 DEF Moving
    <3> QED
      BY <1>3, <3>1, <3>2
  <2>4. ASSUME NEW m \in N, b[m] = "target" PROVE \E x \in N : b[x] = "moving"
    <3>1. PICK x \in N : c[x] = "moving"
      BY <1>1, <2>1, <2>4 DEF Moving
    <3>2. x # n /\ c[n] # "target"
      BY <1>1, <2>1, <2>4, <3>1 DEF Moving
    <3> QED
      BY <1>3, <3>1, <3>2
  <2> QED
    BY <2>2, <2>3, <2>4 DEF Moving
<1>8. Enough(N, q, b, j)
  <2>1. Enough(N, p, c, k)
    BY DEF Fits
  <2>2. Holders(N, b) \subseteq Holders(N, c)
    BY <1>2, <1>3 DEF Holders
  <2>3. Holders(N, b) \subseteq D \ {n}
    BY <1>6 DEF Holders, Placed
  <2>4. q = None => Holders(N, b) = {}
    BY <1>5 DEF Holders
  <2>5. auto => k <= 1
    BY DEF Fits
  <2>6. D \ {n} \subseteq N
    OBVIOUS
  <2> QED
    BY <2>1, <2>2, <2>3, <2>4, <2>5, <2>6, RoomIsKept
<1>9. auto => j <= 1
  OBVIOUS
<1> QED
  BY <1>6, <1>7, <1>8, <1>9 DEF Fits

(* A node joins. *)
LEMMA JoinFits ==
  ASSUME NEW N, IsFiniteSet(N), NEW D, NEW E, D \subseteq E, E \subseteq N, NEW p,
         NEW c \in [N -> States], NEW k \in Nat, NEW j \in Nat, NEW auto, NEW exists,
         Fits(N, auto, p, c, k, exists, D),
         auto => j = IF Cardinality(E) >= 2 THEN 1 ELSE 0,
         ~auto => j = k
  PROVE  Fits(N, auto, p, c, j, exists, E)
<1>1. Placed(N, p, c, exists, E)
  BY DEF Fits, Placed
<1>2. Moving(N, c) /\ (auto => j <= 1)
  BY DEF Fits
<1>3. Holders(N, c) \subseteq E /\ (p = None => Holders(N, c) = {})
  BY <1>1 DEF Holders, Placed, Held, None
<1>4. Enough(N, p, c, k) /\ (auto => k <= 1)
  BY DEF Fits
<1>5. Enough(N, p, c, j)
  BY <1>3, <1>4, RoomIsKept
<1> QED
  BY <1>1, <1>2, <1>5 DEF Fits

(* A primary is assigned. *)
LEMMA PrimaryFits ==
  ASSUME NEW N, IsFiniteSet(N), NEW D, NEW n \in N, n \in D, NEW c \in [N -> States],
         NEW b, b = [c EXCEPT ![n] = "init"], n # None,
         NEW k \in Nat, NEW auto, NEW exists, exists,
         Fits(N, auto, None, c, k, exists, D)
  PROVE  Fits(N, auto, n, b, k, exists, D)
<1> USE DEF Held, States, None
<1>1. \A m \in N : c[m] = None
  BY DEF Fits, Placed
<1>2. \A m \in N : b[m] = IF m = n THEN "init" ELSE None
  BY <1>1
<1>3. Holders(N, b) = {n}
  BY <1>2 DEF Holders
<1>4. Enough(N, n, b, k)
  <2>1. Cardinality(Holders(N, b)) = 1
    BY <1>3, FS_Singleton
  <2>2. Lacking(n) = 0
    BY DEF Lacking
  <2> QED
    BY <2>1, <2>2 DEF Enough
<1>5. Placed(N, n, b, exists, D) /\ Moving(N, b)
  BY <1>2 DEF Placed, Moving
<1> QED
  BY <1>4, <1>5 DEF Fits

(* A replica is assigned. *)
LEMMA ReplicaFits ==
  ASSUME NEW N, IsFiniteSet(N), NEW D, NEW n \in N, n \in D, NEW c \in [N -> States],
         NEW b, b = [c EXCEPT ![n] = "init"], c[n] = None, NEW p \in N, None \notin N,
         NEW k \in Nat, NEW auto, NEW exists, exists,
         1 + k - Cardinality(Holders(N, c)) - Lacking(p) > 0,
         Fits(N, auto, p, c, k, exists, D)
  PROVE  Fits(N, auto, p, b, k, exists, D)
<1> USE DEF Held, States, None
<1>1. \A m \in N : b[m] = IF m = n THEN "init" ELSE c[m]
  OBVIOUS
<1>2. Holders(N, b) = Holders(N, c) \cup {n} /\ n \notin Holders(N, c)
  BY <1>1 DEF Holders
<1>3. Cardinality(Holders(N, b)) = Cardinality(Holders(N, c)) + 1
      /\ Cardinality(Holders(N, c)) \in Nat
  <2>1. IsFiniteSet(Holders(N, c))
    BY FS_Subset DEF Holders
  <2> QED
    BY <1>2, <2>1, FS_AddElement, FS_CardinalityType
<1>4. Enough(N, p, b, k)
  <2>1. Lacking(p) = 0
    BY DEF Lacking
  <2> QED
    BY <1>3, <2>1 DEF Enough
<1>5. Placed(N, p, b, exists, D)
  BY <1>1 DEF Placed, Fits
<1>6. Moving(N, b)
  BY <1>1 DEF Moving, Fits
<1> QED
  BY <1>4, <1>5, <1>6 DEF Fits

(* A copy is recovered. *)
LEMMA RecoverFits ==
  ASSUME NEW N, NEW D, NEW n \in N, NEW c \in [N -> States],
         NEW b, b = [c EXCEPT ![n] = "started"], c[n] = "init", NEW p,
         NEW k, NEW auto, NEW exists, Fits(N, auto, p, c, k, exists, D),
         p \in N \cup {None}
  PROVE  Fits(N, auto, p, b, k, exists, D)
<1> USE DEF Held, States, None
<1>1. \A m \in N : b[m] = IF m = n THEN "started" ELSE c[m]
  OBVIOUS
<1>2. Holders(N, b) = Holders(N, c)
  BY <1>1 DEF Holders
<1>3. Enough(N, p, b, k)
  BY <1>2 DEF Enough, Fits
<1>4. Placed(N, p, b, exists, D)
  BY <1>1 DEF Placed, Fits
<1>5. Moving(N, b)
  BY <1>1 DEF Moving, Fits
<1> QED
  BY <1>3, <1>4, <1>5 DEF Fits

(* A copy starts to move. *)
LEMMA MoveFits ==
  ASSUME NEW N, NEW D, NEW n \in N, NEW m \in N, NEW c \in [N -> States],
         NEW b, b = [c EXCEPT ![n] = "moving", ![m] = "target"],
         c[n] = "started", c[m] = None, \A x \in N : c[x] # "moving", m \in D, NEW p,
         NEW k, NEW auto, NEW exists, Fits(N, auto, p, c, k, exists, D),
         p \in N \cup {None}
  PROVE  Fits(N, auto, p, b, k, exists, D) /\ Holders(N, b) = Holders(N, c)
<1> USE DEF Held, States, None
<1>1. \A x \in N : b[x] = IF x = m THEN "target" ELSE IF x = n THEN "moving" ELSE c[x]
  OBVIOUS
<1>2. Holders(N, b) = Holders(N, c)
  BY <1>1 DEF Holders
<1>3. Enough(N, p, b, k)
  BY <1>2 DEF Enough, Fits
<1>4. Placed(N, p, b, exists, D)
  BY <1>1 DEF Placed, Fits
<1>5. Moving(N, b)
  <2>1. \A x \in N : c[x] # "moving" /\ c[x] # "target"
    BY DEF Fits, Moving
  <2>2. \A x, y \in N : b[x] = b[y] /\ x # y => b[x] \notin {"moving", "target"}
    BY <1>1, <2>1
  <2>3. b[n] = "moving" /\ b[m] = "target"
    BY <1>1
  <2> QED
    BY <2>2, <2>3 DEF Moving
<1> QED
  BY <1>2, <1>3, <1>4, <1>5 DEF Fits

(* A copy arrives. *)
LEMMA ArriveFits ==
  ASSUME NEW N, IsFiniteSet(N), NEW D, NEW n \in N, NEW m \in N, NEW c \in [N -> States],
         NEW b, b = [c EXCEPT ![n] = None, ![m] = "started"],
         c[n] = "moving", c[m] = "target", NEW p, NEW q, q = IF p = n THEN m ELSE p,
         None \notin N,
         NEW k, NEW auto, NEW exists, Fits(N, auto, p, c, k, exists, D),
         p \in N \cup {None}
  PROVE  Fits(N, auto, q, b, k, exists, D)
<1> USE DEF Held, States, None
<1>1. n # m /\ \A x \in N : b[x] = IF x = m THEN "started" ELSE IF x = n THEN None ELSE c[x]
  OBVIOUS
<1>2. /\ Holders(N, b) = (Holders(N, c) \ {n}) \cup {m}
      /\ n \in Holders(N, c) /\ m \notin Holders(N, c) \ {n}
  BY <1>1 DEF Holders
<1>3. Cardinality(Holders(N, b)) = Cardinality(Holders(N, c))
  <2>1. IsFiniteSet(Holders(N, c)) /\ IsFiniteSet(Holders(N, c) \ {n})
    BY FS_Subset DEF Holders
  <2>2. Cardinality(Holders(N, c) \ {n}) = Cardinality(Holders(N, c)) - 1
    BY <1>2, <2>1, FS_RemoveElement
  <2>3. Cardinality(Holders(N, b)) = Cardinality(Holders(N, c) \ {n}) + 1
    BY <1>2, <2>1, FS_AddElement
  <2>4. Cardinality(Holders(N, c)) \in Nat
    BY <2>1, FS_CardinalityType
  <2> QED
    BY <2>2, <2>3, <2>4
<1>4. Lacking(q) = Lacking(p)
  BY DEF Lacking
<1>5. Enough(N, q, b, k)
  BY <1>3, <1>4 DEF Enough, Fits
<1>6. Placed(N, q, b, exists, D)
  <2>1. q # None => b[q] \in Held
    BY <1>1 DEF Placed, Fits
  <2>2. \A x \in N : b[x] # None => c[x] # None
    BY <1>1
  <2>3. q = None => p = None
    OBVIOUS
  <2> QED
    BY <2>1, <2>2, <2>3 DEF Placed, Fits
<1>7. Moving(N, b)
  <2>1. \A x \in N : c[x] \in {"moving", "target"} => x \in {n, m}
    BY DEF Fits, Moving
  <2>2. \A x \in N : b[x] # "moving" /\ b[x] # "target"
    BY <1>1, <2>1
  <2> QED
    BY <2>2 DEF Moving
<1> QED
  BY <1>5, <1>6, <1>7 DEF Fits

(* Every step keeps the copies fit. *)
LEMMA CopiesAreKept ==
  ASSUME TypeOK, CopiesFit, Next
  PROVE  CopiesFit'
<1> DEFINE auto(i) == world.indices[i].auto
           F(i, p, c, k, ins, D) == Fits(Node, auto(i), p, c, k, i \in ins, D)
<1>1. /\ IsFiniteSet(Node) /\ None \notin Node /\ data_nodes \subseteq Node
      /\ \A i \in Index : /\ primary[i] \in Node \cup {None} /\ copies[i] \in [Node -> States]
                          /\ replicas[i] \in Nat
  BY TheWorld DEF TypeOK, data_nodes, States
<1>2. \A i \in Index : F(i, primary[i], copies[i], replicas[i], indices, data_nodes)
  BY FitIs
<1>3. SUFFICES /\ UNCHANGED world
               /\ \A i \in Index : F(i, primary'[i], copies'[i], replicas'[i], indices', data_nodes')
  BY FitIsNext
<1>4. TypeOK'
  BY TypesAreKept
<1>5. UNCHANGED world => Node' = Node /\ Index' = Index
  BY DEF Node, Index
<1> HIDE DEF auto
<1>6. ASSUME UNCHANGED <<world, up, copies, primary>>,
             \A i \in Index : /\ replicas'[i] >= replicas[i] /\ replicas'[i] \in Nat
                              /\ auto(i) => replicas'[i] = replicas[i],
             indices \subseteq indices'
      PROVE  \A i \in Index : F(i, primary'[i], copies'[i], replicas'[i], indices', data_nodes')
  <2>1. data_nodes' = data_nodes
    BY <1>6 DEF data_nodes, is_data, RolesOf
  <2> TAKE i \in Index
  <2>2. F(i, primary[i], copies[i], replicas[i], indices, data_nodes)
    BY <1>2
  <2>3. Enough(Node, primary[i], copies[i], replicas'[i])
    <3>1. Cardinality(Holders(Node, copies[i])) \in Nat
      BY <1>1, FS_Subset, FS_CardinalityType DEF Holders
    <3>2. Lacking(primary[i]) \in {0, 1}
      BY DEF Lacking
    <3>3. replicas'[i] >= replicas[i] /\ replicas'[i] \in Nat /\ replicas[i] \in Nat
      BY <1>1, <1>6
    <3>4. Enough(Node, primary[i], copies[i], replicas[i])
      BY <2>2 DEF Fits
    <3> QED
      BY <3>1, <3>2, <3>3, <3>4 DEF Enough
  <2>4. Placed(Node, primary[i], copies[i], i \in indices', data_nodes)
    BY <1>6, <2>2 DEF Fits, Placed
  <2>5. auto(i) => replicas'[i] <= 1
    BY <1>6, <2>2 DEF Fits
  <2> QED
    BY <1>6, <2>1, <2>2, <2>3, <2>4, <2>5 DEF Fits
<1>7. ASSUME NEW n \in Node, Leave(n)
      PROVE  /\ UNCHANGED world
             /\ \A i \in Index : F(i, primary'[i], copies'[i], replicas'[i], indices', data_nodes')
  <2>1. /\ UNCHANGED <<world, indices>> /\ up' = up \ {n}
        /\ primary' \in [Index -> Node \cup {None}]
        /\ \A i \in Index : Promotes(i, n, primary'[i])
        /\ copies' = [i \in Index |-> After(i, n, primary'[i])]
        /\ replicas' = Expanded(up')
    BY <1>7 DEF Leave
  <2>2. data_nodes' = data_nodes \ {n} /\ data_nodes \ {n} = {m \in up' : is_data(m)}
    BY <2>1 DEF data_nodes, is_data, RolesOf
  <2> SUFFICES ASSUME NEW i \in Index
               PROVE  F(i, primary'[i], copies'[i], replicas'[i], indices', data_nodes')
    BY <2>1
  <2>3. copies'[i] \in [Node -> States] /\ replicas'[i] \in Nat /\ primary'[i] \in Node \cup {None}
    <3>1. Node' = Node /\ Index' = Index
      BY <1>5, <2>1
    <3>2. /\ copies' \in [Index' -> [Node' -> States]] /\ replicas' \in [Index' -> 0 .. MaxReplicas]
          /\ primary' \in [Index' -> Node' \cup {None}]
      BY <1>4 DEF TypeOK, States
    <3> QED
      BY <3>1, <3>2
  <2>4. /\ auto(i) => replicas'[i] = IF Cardinality(data_nodes \ {n}) >= 2 THEN 1 ELSE 0
        /\ ~auto(i) => replicas'[i] = replicas[i]
    BY <2>1, <2>2 DEF Expanded, auto
  <2>5. copies'[i] = After(i, n, primary'[i])
    BY <2>1
  <2>6. \A m \in Node : copies'[i][m] =
            CASE m = n -> None
              [] m # n /\ copies[i][m] = "target" ->
                    IF copies[i][n] = "moving" THEN None ELSE "target"
              [] m # n /\ copies[i][m] = "moving" ->
                    IF copies[i][n] = "target" THEN "started" ELSE "moving"
              [] m # n /\ copies[i][m] = "init" -> IF primary'[i] = None THEN None ELSE "init"
              [] OTHER -> copies[i][m]
    BY <2>5 DEF After
  <2>7. IF primary[i] # n THEN primary'[i] = primary[i]
        ELSE IF \E m \in Node \ {n} : copies[i][m] \in Active
             THEN primary'[i] \in Node \ {n} /\ copies[i][primary'[i]] \in Active
             ELSE primary'[i] = None
    BY <2>1 DEF Promotes
  <2>8. Fits(Node, auto(i), primary[i], copies[i], replicas[i], i \in indices, data_nodes)
    BY <1>2
  <2>9. Fits(Node, auto(i), primary'[i], copies'[i], replicas'[i], i \in indices, data_nodes \ {n})
    BY <1>1, <2>3, <2>4, <2>6, <2>7, <2>8, LeaveFits
  <2> QED
    BY <2>1, <2>2, <2>9
<1>8. ASSUME NEW n \in Node, NEW v \in 1 .. MaxVersion, Join(n, v)
      PROVE  /\ UNCHANGED world
             /\ \A i \in Index : F(i, primary'[i], copies'[i], replicas'[i], indices', data_nodes')
  <2>1. /\ UNCHANGED <<world, indices, primary, copies>> /\ up' = up \cup {n}
        /\ replicas' = Expanded(up')
    BY <1>8 DEF Join, Layout
  <2> DEFINE E == {m \in up' : is_data(m)}
  <2>2. data_nodes' = E /\ data_nodes \subseteq E /\ E \subseteq Node
    BY <2>1 DEF data_nodes, is_data, RolesOf, TypeOK
  <2> SUFFICES ASSUME NEW i \in Index
               PROVE  F(i, primary'[i], copies'[i], replicas'[i], indices', data_nodes')
    BY <2>1
  <2>3. replicas'[i] \in Nat
    <3>1. Index' = Index
      BY <1>5, <2>1
    <3>2. replicas' \in [Index' -> 0 .. MaxReplicas]
      BY <1>4 DEF TypeOK
    <3> QED
      BY <3>1, <3>2
  <2>4. /\ auto(i) => replicas'[i] = IF Cardinality(E) >= 2 THEN 1 ELSE 0
        /\ ~auto(i) => replicas'[i] = replicas[i]
    BY <2>1 DEF Expanded, auto
  <2>5. Fits(Node, auto(i), primary[i], copies[i], replicas[i], i \in indices, data_nodes)
    BY <1>2
  <2>6. Fits(Node, auto(i), primary[i], copies[i], replicas'[i], i \in indices, E)
    <3> HIDE DEF E
    <3> QED
      BY <1>1, <2>2, <2>3, <2>4, <2>5, JoinFits
  <2> QED
    BY <2>1, <2>2, <2>6
<1>9. ASSUME NEW i \in Index, UNCHANGED <<world, up, replicas, indices>>,
             primary' \in [Index -> Node \cup {None}], copies' \in [Index -> [Node -> States]],
             \A j \in Index : j # i => primary'[j] = primary[j] /\ copies'[j] = copies[j],
             F(i, primary'[i], copies'[i], replicas[i], indices, data_nodes)
      PROVE  \A j \in Index : F(j, primary'[j], copies'[j], replicas'[j], indices', data_nodes')
  <2>1. data_nodes' = data_nodes
    BY <1>9 DEF data_nodes, is_data, RolesOf
  <2> TAKE j \in Index
  <2>2. CASE j = i
    BY <1>9, <2>1, <2>2
  <2>3. CASE j # i
    <3>1. F(j, primary[j], copies[j], replicas[j], indices, data_nodes)
      BY <1>2
    <3> QED
      BY <1>9, <2>1, <2>3, <3>1
  <2> QED
    BY <2>2, <2>3
<1>10. ASSUME NEW i \in Index, NEW n \in Node, AssignPrimary(i, n)
       PROVE  /\ UNCHANGED world
              /\ \A j \in Index : F(j, primary'[j], copies'[j], replicas'[j], indices', data_nodes')
  <2>1. /\ UNCHANGED <<world, up, replicas, indices>> /\ i \in indices /\ primary[i] = None
        /\ primary' = [primary EXCEPT ![i] = n] /\ copies' = [copies EXCEPT ![i][n] = "init"]
        /\ CanTakePrimary(i, n)
    BY <1>10 DEF AssignPrimary, CanTakePrimary, Nodes, Settings
  <2>2. n \in data_nodes
    <3>1. n \in up /\ (TierAllows(i, n) \/ n \in insync[i])
      BY <2>1 DEF CanTakePrimary, Free
    <3>2. is_data(n)
      BY <3>1 DEF TypeOK, TierAllows
    <3> QED
      BY <3>1, <3>2 DEF data_nodes
  <2>3. /\ primary' \in [Index -> Node \cup {None}] /\ copies' \in [Index -> [Node -> States]]
        /\ primary'[i] = n /\ copies'[i] = [copies[i] EXCEPT ![n] = "init"]
        /\ \A j \in Index : j # i => primary'[j] = primary[j] /\ copies'[j] = copies[j]
    BY <2>1 DEF TypeOK, States, Held
  <2>4. Fits(Node, auto(i), None, copies[i], replicas[i], i \in indices, data_nodes)
    BY <1>2, <2>1
  <2>5. Fits(Node, auto(i), n, copies'[i], replicas[i], i \in indices, data_nodes)
    BY <1>1, <2>1, <2>2, <2>3, <2>4, PrimaryFits
  <2> QED
    BY <1>9, <2>1, <2>3, <2>5
<1>11. ASSUME NEW i \in Index, NEW n \in Node, AssignReplica(i, n)
       PROVE  /\ UNCHANGED world
              /\ \A j \in Index : F(j, primary'[j], copies'[j], replicas'[j], indices', data_nodes')
  <2>1. /\ UNCHANGED <<world, up, replicas, indices, primary>> /\ i \in indices
        /\ primary[i] # None /\ copies[i][n] = None /\ UnassignedReplicas(i) > 0
        /\ copies' = [copies EXCEPT ![i][n] = "init"]
        /\ n \in data_nodes
    BY <1>11 DEF AssignReplica, CanTakeReplica, Free, TierAllows, Follows, data_nodes, Nodes, Settings
  <2>3. /\ primary' \in [Index -> Node \cup {None}] /\ copies' \in [Index -> [Node -> States]]
        /\ copies'[i] = [copies[i] EXCEPT ![n] = "init"] /\ primary[i] \in Node
        /\ \A j \in Index : j # i => primary'[j] = primary[j] /\ copies'[j] = copies[j]
    BY <2>1 DEF TypeOK, States, Held
  <2>4. Fits(Node, auto(i), primary[i], copies[i], replicas[i], i \in indices, data_nodes)
    BY <1>2
  <2>5. 1 + replicas[i] - Cardinality(Holders(Node, copies[i])) - Lacking(primary[i]) > 0
    BY <2>1 DEF UnassignedReplicas, Assigned, Holders, Lacking
  <2>6. Fits(Node, auto(i), primary[i], copies'[i], replicas[i], i \in indices, data_nodes)
    BY <1>1, <2>1, <2>3, <2>4, <2>5, ReplicaFits
  <2> QED
    BY <1>9, <2>1, <2>3, <2>6
<1>12. ASSUME NEW i \in Index, NEW n \in Node, Recover(i, n)
       PROVE  /\ UNCHANGED world
              /\ \A j \in Index : F(j, primary'[j], copies'[j], replicas'[j], indices', data_nodes')
  <2>1. /\ UNCHANGED <<world, up, replicas, indices, primary>> /\ copies[i][n] = "init"
        /\ copies' = [copies EXCEPT ![i][n] = "started"]
    BY <1>12 DEF Recover, Nodes, Settings
  <2>3. /\ primary' \in [Index -> Node \cup {None}] /\ copies' \in [Index -> [Node -> States]]
        /\ copies'[i] = [copies[i] EXCEPT ![n] = "started"]
        /\ \A j \in Index : j # i => primary'[j] = primary[j] /\ copies'[j] = copies[j]
    BY <2>1 DEF TypeOK, States, Held
  <2>4. Fits(Node, auto(i), primary[i], copies[i], replicas[i], i \in indices, data_nodes)
    BY <1>2
  <2>6. Fits(Node, auto(i), primary[i], copies'[i], replicas[i], i \in indices, data_nodes)
    BY <1>1, <2>1, <2>3, <2>4, RecoverFits
  <2> QED
    BY <1>9, <2>1, <2>3, <2>6
<1>13. ASSUME NEW i \in Index, NEW n \in Node, NEW m \in Node, Move(i, n, m)
       PROVE  /\ UNCHANGED world
              /\ \A j \in Index : F(j, primary'[j], copies'[j], replicas'[j], indices', data_nodes')
  <2>1. /\ UNCHANGED <<world, up, replicas, indices, primary>>
        /\ copies[i][n] = "started" /\ copies[i][m] = None /\ m \in data_nodes
        /\ \A x \in Node : copies[i][x] # "moving"
        /\ copies' = [copies EXCEPT ![i][n] = "moving", ![i][m] = "target"]
    BY <1>13 DEF Move, CanTakeReplica, Free, TierAllows, data_nodes, Nodes, Settings
  <2>3. /\ primary' \in [Index -> Node \cup {None}] /\ copies' \in [Index -> [Node -> States]]
        /\ copies'[i] = [copies[i] EXCEPT ![n] = "moving", ![m] = "target"]
        /\ \A j \in Index : j # i => primary'[j] = primary[j] /\ copies'[j] = copies[j]
    BY <2>1 DEF TypeOK, States, Held
  <2>4. Fits(Node, auto(i), primary[i], copies[i], replicas[i], i \in indices, data_nodes)
    BY <1>2
  <2>6. Fits(Node, auto(i), primary[i], copies'[i], replicas[i], i \in indices, data_nodes)
    BY <1>1, <2>1, <2>3, <2>4, MoveFits
  <2> QED
    BY <1>9, <2>1, <2>3, <2>6
<1>14. ASSUME NEW i \in Index, NEW n \in Node, NEW m \in Node, Arrive(i, n, m)
       PROVE  /\ UNCHANGED world
              /\ \A j \in Index : F(j, primary'[j], copies'[j], replicas'[j], indices', data_nodes')
  <2>1. /\ UNCHANGED <<world, up, replicas, indices>>
        /\ copies[i][n] = "moving" /\ copies[i][m] = "target"
        /\ copies' = [copies EXCEPT ![i][n] = None, ![i][m] = "started"]
        /\ primary' = [primary EXCEPT ![i] = IF @ = n THEN m ELSE @]
    BY <1>14 DEF Arrive, Nodes, Settings
  <2>3. /\ primary' \in [Index -> Node \cup {None}] /\ copies' \in [Index -> [Node -> States]]
        /\ copies'[i] = [copies[i] EXCEPT ![n] = None, ![m] = "started"]
        /\ primary'[i] = IF primary[i] = n THEN m ELSE primary[i]
        /\ \A j \in Index : j # i => primary'[j] = primary[j] /\ copies'[j] = copies[j]
    BY <2>1 DEF TypeOK, States, Held
  <2>4. Fits(Node, auto(i), primary[i], copies[i], replicas[i], i \in indices, data_nodes)
    BY <1>2
  <2>6. Fits(Node, auto(i), primary'[i], copies'[i], replicas[i], i \in indices, data_nodes)
    BY <1>1, <2>1, <2>3, <2>4, ArriveFits
  <2> QED
    BY <1>9, <2>1, <2>3, <2>6
<1>15. ASSUME \E i \in Index : Create(i) \/ Close(i) \/ \E k \in 0 .. MaxReplicas : SetReplicas(i, k)
       PROVE  /\ UNCHANGED world
              /\ \A j \in Index : F(j, primary'[j], copies'[j], replicas'[j], indices', data_nodes')
  <2>1. PICK i \in Index : Create(i) \/ Close(i) \/ \E k \in 0 .. MaxReplicas : SetReplicas(i, k)
    BY <1>15
  <2>2. UNCHANGED <<world, up, copies, primary>> /\ indices \subseteq indices'
    BY <2>1 DEF Create, Close, SetReplicas, Layout, Nodes
  <2>3. \A j \in Index : /\ replicas'[j] >= replicas[j] /\ replicas'[j] \in Nat
                         /\ auto(j) => replicas'[j] = replicas[j]
    <3>1. CASE UNCHANGED replicas
      BY <1>1, <3>1
    <3>2. CASE \E k \in 0 .. MaxReplicas : SetReplicas(i, k)
      <4>1. PICK k \in 0 .. MaxReplicas : SetReplicas(i, k)
        BY <3>2
      <4>2. k > replicas[i] /\ ~auto(i) /\ replicas' = [replicas EXCEPT ![i] = k]
        BY <4>1 DEF SetReplicas, auto
      <4>3. replicas \in [Index -> 0 .. MaxReplicas]
        BY DEF TypeOK
      <4> QED
        BY <1>1, <4>2, <4>3
    <3> QED
      BY <2>1, <3>1, <3>2 DEF Create, Close
  <2> QED
    BY <1>6, <2>2, <2>3
<1>16. ASSUME NEW scope \in {"transient", "persistent"},
              \/ \E v \in {None, "all", "primaries", "none"} : Put(scope, "enable", v)
              \/ \E v \in Node \cup {None} : Put(scope, "exclude", v)
       PROVE  /\ UNCHANGED world
              /\ \A j \in Index : F(j, primary'[j], copies'[j], replicas'[j], indices', data_nodes')
  <2>1. UNCHANGED <<world, up, copies, primary, replicas, indices>>
    BY <1>16 DEF Put, Layout, Nodes
  <2> QED
    BY <1>1, <1>6, <2>1
<1> QED
  BY <1>7, <1>8, <1>10, <1>11, <1>12, <1>13, <1>14, <1>15, <1>16 DEF Next

-----------------------------------------------------------------------------
(* Votes.  Between two sets there is one of every size between theirs.     *)
LEMMA SetsBetween ==
  ASSUME NEW B, IsFiniteSet(B), NEW A, A \subseteq B, NEW s \in Nat,
         Cardinality(A) <= s, s <= Cardinality(B)
  PROVE  \E C \in SUBSET B : A \subseteq C /\ Cardinality(C) = s
<1> DEFINE S == B \ A
           Q == {T \in SUBSET S : s <= Cardinality(A \cup T) =>
                    \E C \in SUBSET B : A \subseteq C /\ Cardinality(C) = s}
<1>0. IsFiniteSet(A) /\ IsFiniteSet(S) /\ Cardinality(A) \in Nat
  BY FS_Subset, FS_CardinalityType
<1>1. {} \in Q
  <2>1. A \cup {} = A
    OBVIOUS
  <2>2. s <= Cardinality(A) => s = Cardinality(A)
    BY <1>0
  <2> QED
    BY <2>1, <2>2
<1>2. ASSUME NEW T \in SUBSET S, NEW x \in T, T \ {x} \in Q PROVE T \in Q
  <2> SUFFICES ASSUME s <= Cardinality(A \cup T)
               PROVE  \E C \in SUBSET B : A \subseteq C /\ Cardinality(C) = s
    OBVIOUS
  <2> DEFINE U == A \cup (T \ {x})
  <2>1. IsFiniteSet(U) /\ x \notin U /\ A \cup T = U \cup {x} /\ Cardinality(U) \in Nat
    <3>1. U \subseteq B
      OBVIOUS
    <3>2. IsFiniteSet(U)
      BY <3>1, FS_Subset
    <3> QED
      BY <3>2, FS_CardinalityType
  <2>2. Cardinality(A \cup T) = Cardinality(U) + 1
    BY <2>1, FS_AddElement
  <2>3. CASE s <= Cardinality(U)
    BY <1>2, <2>3
  <2>4. CASE ~(s <= Cardinality(U))
    <3>1. s = Cardinality(A \cup T)
      <4> HIDE DEF U
      <4> QED
        BY <2>1, <2>2, <2>4
    <3> QED
      BY <3>1
  <2> QED
    BY <2>3, <2>4
<1>3. \A T \in SUBSET S : T \in Q
  <2> HIDE DEF Q, S
  <2> QED
    BY <1>0, <1>1, <1>2, SetsByElements
<1>4. S \in Q /\ A \cup S = B
  BY <1>3
<1> QED
  BY <1>4

LEMMA GreaterOfTwo ==
  ASSUME NEW a \in Int, NEW b \in Int
  PROVE  /\ Max({a, b}) = IF a >= b THEN a ELSE b
         /\ Max({a, b}) \in Int
<1> DEFINE m == IF a >= b THEN a ELSE b
<1>1. m \in {a, b} /\ \A y \in {a, b} : m >= y
  OBVIOUS
<1>2. \A x \in {a, b} : (\A y \in {a, b} : x >= y) => x = m
  OBVIOUS
<1>3. Max({a, b}) = m
  BY <1>1, <1>2 DEF Max
<1> QED
  BY <1>3

LEMMA OddIs ==
  ASSUME NEW k \in Nat
  PROVE  /\ Odd(k) \in Nat /\ Odd(k) <= k
         /\ k >= 3 => Odd(k) >= 3
         /\ k \in {1, 2} => Odd(k) = 1
<1>1. Odd(k) = IF k % 2 = 0 THEN (IF k - 1 >= 0 THEN k - 1 ELSE 0) ELSE k
  BY GreaterOfTwo DEF Odd
<1> QED
  BY <1>1

(* What a voting configuration is chosen from. *)
Size(v, live) ==
    IF Cardinality(v) >= 3 THEN (IF Odd(Cardinality(live)) >= 3 THEN Odd(Cardinality(live)) ELSE 3)
                           ELSE Odd(Cardinality(live))

LEMMA Chosen ==
  ASSUME NEW v, NEW live, IsFiniteSet(live), NEW c
  PROVE  c \in Reconfigured(v, live) <=>
            /\ c \subseteq live \cup v /\ Cardinality(c) = Size(v, live)
            /\ c \subseteq live \/ live \subseteq c
            /\ c \cap live \subseteq v \/ v \cap live \subseteq c
            /\ Quorum(live, c)
<1>1. Odd(Cardinality(live)) \in Int
  BY OddIs, FS_CardinalityType
<1>2. Max({3, Odd(Cardinality(live))})
        = IF Odd(Cardinality(live)) >= 3 THEN Odd(Cardinality(live)) ELSE 3
  <2>1. Max({3, Odd(Cardinality(live))})
          = IF 3 >= Odd(Cardinality(live)) THEN 3 ELSE Odd(Cardinality(live))
    BY <1>1, GreaterOfTwo
  <2> QED
    BY <1>1, <2>1
<1> QED
  BY <1>2 DEF Reconfigured, Size

(* The new configuration, if there is one, fits the nodes that are there. *)
Fitting(v, live) ==
    /\ Cardinality(live) >= 3 => v \subseteq live /\ Cardinality(v) >= 3
    /\ Cardinality(live) = 2 => \/ Cardinality(v) = 3 /\ live \subseteq v
                                \/ Cardinality(v) = 1 /\ v \subseteq live
    /\ Cardinality(live) = 1 => v = live

LEMMA NewVotesFit ==
  ASSUME NEW v, NEW live, IsFiniteSet(live), IsFiniteSet(v), NEW c \in Reconfigured(v, live)
  PROVE  Fitting(c, live)
<1> DEFINE k == Cardinality(live)
           s == Cardinality(c)
<1>1. /\ c \subseteq live \cup v /\ s = Size(v, live)
      /\ c \subseteq live \/ live \subseteq c
      /\ 2 * Cardinality(live \cap c) > s
  BY Chosen DEF Quorum
<1>2. IsFiniteSet(c) /\ k \in Nat /\ s \in Nat /\ Cardinality(live \cap c) \in Nat
      /\ Cardinality(live \cap c) <= k
  <2>1. IsFiniteSet(live \cup v) /\ live \cap c \subseteq live
    BY FS_Union
  <2>2. IsFiniteSet(c) /\ IsFiniteSet(live \cap c) /\ Cardinality(live \cap c) <= k
    BY <1>1, <2>1, FS_Subset
  <2> QED
    BY <2>2, FS_CardinalityType
<1>3. c \subseteq live => s <= k /\ (s = k => c = live)
  BY FS_Subset
<1>4. live \subseteq c => k <= s /\ (s = k => c = live)
  BY <1>2, FS_Subset
<1>5. /\ Odd(k) \in Nat /\ Odd(k) <= k /\ (k >= 3 => Odd(k) >= 3)
      /\ k \in {1, 2} => Odd(k) = 1
  BY <1>2, OddIs
<1>6. s = IF Cardinality(v) >= 3 THEN (IF Odd(k) >= 3 THEN Odd(k) ELSE 3) ELSE Odd(k)
  BY <1>1 DEF Size
<1> HIDE DEF k, s
<1>7. ASSUME k >= 3
      PROVE  c \subseteq live /\ s >= 3
  <2>1. s = Odd(k)
    BY <1>5, <1>6, <1>7
  <2>2. s >= 3 /\ s <= k
    BY <1>5, <1>7, <2>1
  <2> QED
    BY <1>1, <1>2, <1>4, <2>2
<1>8. ASSUME k = 2
      PROVE  (s = 3 /\ live \subseteq c) \/ (s = 1 /\ c \subseteq live)
  <2>1. s = 3 \/ s = 1
    BY <1>5, <1>6, <1>8
  <2> QED
    BY <1>1, <1>2, <1>3, <1>4, <1>8, <2>1
<1>9. ASSUME k = 1
      PROVE  c = live
  <2>1. s = 3 \/ s = 1
    BY <1>5, <1>6, <1>9
  <2>2. s # 3
    BY <1>1, <1>2, <1>9
  <2> QED
    BY <1>1, <1>2, <1>3, <1>4, <1>9, <2>1, <2>2
<1> QED
  BY <1>7, <1>8, <1>9 DEF Fitting, k, s

(* There is one, unless a single node is left of three that voted. *)
LEMMA NewVotesExist ==
  ASSUME NEW v, NEW live, IsFiniteSet(live), IsFiniteSet(v), live # {},
         Cardinality(live) >= 2 \/ Cardinality(v) < 3
  PROVE  Reconfigured(v, live) # {}
<1> DEFINE k == Cardinality(live)
           s == Size(v, live)
           both == v \cap live
<1>1. /\ k \in Nat /\ k # 0 /\ Cardinality(v) \in Nat
      /\ IsFiniteSet(both) /\ Cardinality(both) \in Nat /\ Cardinality(both) <= k
  <2>1. IsFiniteSet(both) /\ Cardinality(both) <= k
    BY FS_Subset
  <2> QED
    BY <2>1, FS_CardinalityType, FS_EmptySet
<1>2. /\ Odd(k) \in Nat /\ Odd(k) <= k /\ (k >= 3 => Odd(k) >= 3)
      /\ k \in {1, 2} => Odd(k) = 1
  BY <1>1, OddIs
<1>3. s = IF Cardinality(v) >= 3 THEN (IF Odd(k) >= 3 THEN Odd(k) ELSE 3) ELSE Odd(k)
  BY DEF Size
<1> HIDE DEF k, s
<1>4. CASE s <= k
  <2>0. s \in Nat /\ s # 0
    BY <1>1, <1>2, <1>3
  <2>1. \E c \in SUBSET live : Cardinality(c) = s /\ (c \subseteq v \/ both \subseteq c)
    <3>1. CASE Cardinality(both) <= s
      <4>1. both \subseteq live
        OBVIOUS
      <4> HIDE DEF both
      <4>2. \E c \in SUBSET live : both \subseteq c /\ Cardinality(c) = s
        BY <1>1, <1>4, <2>0, <3>1, <4>1, SetsBetween DEF k
      <4> QED
        BY <4>2
    <3>2. CASE ~(Cardinality(both) <= s)
      <4>1. {} \subseteq both /\ Cardinality({}) <= s /\ s <= Cardinality(both)
        BY <1>1, <2>0, <3>2, FS_EmptySet
      <4>2. \E c \in SUBSET both : {} \subseteq c /\ Cardinality(c) = s
        <5> HIDE DEF both
        <5> QED
          BY <1>1, <2>0, <4>1, SetsBetween
      <4> QED
        BY <4>2
    <3> QED
      BY <3>1, <3>2
  <2>2. PICK c \in SUBSET live : Cardinality(c) = s /\ (c \subseteq v \/ both \subseteq c)
    BY <2>1
  <2>3. Quorum(live, c)
    <3>1. live \cap c = c
      OBVIOUS
    <3>2. 2 * s > s
      BY <2>0
    <3> QED
      BY <2>2, <3>1, <3>2 DEF Quorum
  <2>4. c \cap live \subseteq v \/ v \cap live \subseteq c
    BY <2>2
  <2>5. c \in Reconfigured(v, live)
    BY <2>2, <2>3, <2>4, Chosen DEF s
  <2> QED
    BY <2>5
<1>5. CASE ~(s <= k)
  <2>1. s = 3 /\ k = 2 /\ Cardinality(v) >= 3
    BY <1>1, <1>2, <1>3, <1>5 DEF k
  <2>2. /\ IsFiniteSet(live \cup v) /\ live \subseteq live \cup v
        /\ v \subseteq live \cup v /\ Cardinality(live \cup v) \in Nat
        /\ Cardinality(v) <= Cardinality(live \cup v)
    <3>1. IsFiniteSet(live \cup v)
      BY FS_Union
    <3> QED
      BY <3>1, FS_Subset, FS_CardinalityType
  <2>3. \E c \in SUBSET (live \cup v) : live \subseteq c /\ Cardinality(c) = 3
    <3> DEFINE B == live \cup v
    <3>1. Cardinality(live) <= 3 /\ 3 <= Cardinality(B) /\ live \subseteq B /\ IsFiniteSet(B)
      BY <1>1, <2>1, <2>2 DEF k
    <3> HIDE DEF B
    <3>2. \E c \in SUBSET B : live \subseteq c /\ Cardinality(c) = 3
      BY <3>1, SetsBetween
    <3> QED
      BY <3>2 DEF B
  <2>4. PICK c \in SUBSET (live \cup v) : live \subseteq c /\ Cardinality(c) = 3
    BY <2>3
  <2>5. Quorum(live, c)
    <3>1. live \cap c = live
      BY <2>4
    <3> QED
      BY <2>1, <2>4, <3>1 DEF Quorum, k
  <2>6. c \in Reconfigured(v, live)
    BY <2>1, <2>4, <2>5, Chosen DEF s
  <2> QED
    BY <2>6
<1> QED
  BY <1>4, <1>5

LEMMA VotesAre ==
  VotesFit <=> HasMaster(up, voting) /\ Fitting(voting, master_nodes)
<1> DEFINE size == Cardinality(voting)
           live == Cardinality(master_nodes)
<1>1. VotesFit <=> /\ HasMaster(up, voting)
                   /\ live >= 3 => voting \subseteq master_nodes /\ size >= 3
                   /\ live = 2 => (size = 3 /\ master_nodes \subseteq voting)
                                    \/ (size = 1 /\ voting \subseteq master_nodes)
                   /\ live = 1 => voting = master_nodes
  BY DEF VotesFit
<1>2. Fitting(voting, master_nodes) <=>
                   /\ live >= 3 => voting \subseteq master_nodes /\ size >= 3
                   /\ live = 2 => (size = 3 /\ master_nodes \subseteq voting)
                                    \/ (size = 1 /\ voting \subseteq master_nodes)
                   /\ live = 1 => voting = master_nodes
  BY DEF Fitting
<1> QED
  BY <1>1, <1>2

(* A master needs votes of nodes that are there, and a new configuration   *)
(* has those.                                                              *)
LEMMA Elected ==
  ASSUME TypeOK, NEW nodes \in SUBSET Node, NEW v \in SUBSET Node, NEW live,
         live = {m \in nodes : is_master_eligible(m)},
         \E m \in nodes : is_master_eligible(m) /\ ~is_voting_only(m),
         NEW c \in Reconfigured(v, live)
  PROVE  HasMaster(nodes, c) /\ Fitting(c, live) /\ live # {} /\ IsFiniteSet(live)
<1>1. IsFiniteSet(Node) /\ IsFiniteSet(nodes) /\ IsFiniteSet(live) /\ IsFiniteSet(v) /\ live # {}
  <2>1. IsFiniteSet(Node) /\ live \subseteq Node
    BY TheWorld DEF TypeOK
  <2> QED
    BY <2>1, FS_Subset
<1>2. Quorum(live, c) /\ c \subseteq live \cup v
  BY ReconfiguredTypes
<1>3. Quorum(nodes, c)
  <2>1. live \cap c \subseteq nodes \cap c /\ IsFiniteSet(nodes \cap c) /\ IsFiniteSet(c)
    <3>1. IsFiniteSet(live \cup v) /\ nodes \cap c \subseteq nodes
      BY <1>1, FS_Union
    <3> QED
      BY <1>1, <1>2, <3>1, FS_Subset
  <2>2. /\ Cardinality(live \cap c) <= Cardinality(nodes \cap c)
        /\ Cardinality(live \cap c) \in Nat /\ Cardinality(nodes \cap c) \in Nat
        /\ Cardinality(c) \in Nat
    BY <2>1, FS_Subset, FS_CardinalityType
  <2> QED
    BY <1>2, <2>2 DEF Quorum
<1>4. Fitting(c, live)
  BY <1>1, NewVotesFit
<1> QED
  BY <1>1, <1>3, <1>4 DEF HasMaster

(* Every step keeps the voting configuration fit. *)
LEMMA VotesAreKept ==
  ASSUME TypeOK, VotesFit, Next
  PROVE  VotesFit'
<1>1. HasMaster(up, voting) /\ Fitting(voting, master_nodes)
  BY VotesAre
<1>2. voting \subseteq Node /\ up \subseteq Node
      /\ \A m \in voting : is_master_eligible(m)
  BY DEF TypeOK
<1>3. ASSUME UNCHANGED <<world, up, voting>> PROVE VotesFit'
  BY <1>3 DEF VotesFit, HasMaster, master_nodes, is_master_eligible, is_voting_only, RolesOf
<1>4. ASSUME UNCHANGED world, NEW nodes \in SUBSET Node, up' = nodes, NEW live,
             live = {m \in nodes : is_master_eligible(m)},
             HasMaster(nodes, voting'), Fitting(voting', live)
      PROVE  VotesFit'
  <2>1. master_nodes' = live
    BY <1>4 DEF master_nodes, is_master_eligible, RolesOf
  <2>2. HasMaster(up, voting)'
    BY <1>4 DEF HasMaster, is_master_eligible, is_voting_only, RolesOf
  <2>3. Fitting(voting, master_nodes)'
    BY <1>4, <2>1 DEF Fitting
  <2> QED
    BY <2>2, <2>3 DEF VotesFit, Fitting
<1>5. ASSUME NEW n \in Node, Leave(n)
      PROVE  VotesFit'
  <2> DEFINE nodes == up \ {n}
             live == {m \in nodes : is_master_eligible(m)}
  <2>1. /\ UNCHANGED world /\ up' = nodes /\ HasMaster(nodes, voting)
        /\ voting' \in (IF Reconfigured(voting, live) = {} THEN {voting}
                        ELSE Reconfigured(voting, live))
    BY <1>5 DEF Leave
  <2>2. nodes \in SUBSET Node /\ live \subseteq Node
    BY <1>2
  <2>3. \E m \in nodes : is_master_eligible(m) /\ ~is_voting_only(m)
    BY <2>1 DEF HasMaster
  <2>4. IsFiniteSet(live) /\ live # {} /\ IsFiniteSet(voting)
    <3>1. IsFiniteSet(Node)
      BY TheWorld DEF TypeOK
    <3> QED
      BY <1>2, <2>2, <2>3, <3>1, FS_Subset
  <2>5. Reconfigured(voting, live) # {}
    <3>1. CASE Cardinality(live) >= 2 \/ Cardinality(voting) < 3
      <4> HIDE DEF live
      <4> QED
        BY <2>4, <3>1, NewVotesExist
    <3>2. CASE ~(Cardinality(live) >= 2 \/ Cardinality(voting) < 3)
      <4>1. nodes \cap voting \subseteq live
        BY <1>2
      <4>2. Cardinality(nodes \cap voting) <= Cardinality(live)
        BY <2>4, <4>1, FS_Subset
      <4>3. /\ Cardinality(nodes \cap voting) \in Nat /\ Cardinality(live) \in Nat
            /\ Cardinality(voting) \in Nat
        BY <2>4, <4>1, FS_Subset, FS_CardinalityType
      <4>4. 2 * Cardinality(nodes \cap voting) > Cardinality(voting)
        BY <2>1 DEF HasMaster, Quorum
      <4> HIDE DEF nodes, live
      <4> QED
        BY <3>2, <4>2, <4>3, <4>4
    <3> QED
      BY <3>1, <3>2
  <2>6. voting' \in Reconfigured(voting, live)
    BY <2>1, <2>5
  <2>7. HasMaster(nodes, voting') /\ Fitting(voting', live)
    <3> HIDE DEF nodes
    <3> QED
      BY <1>2, <2>2, <2>3, <2>6, Elected
  <2> HIDE DEF nodes
  <2> QED
    BY <1>4, <2>1, <2>2, <2>7
<1>6. ASSUME NEW n \in Node, NEW v \in 1 .. MaxVersion, Join(n, v)
      PROVE  VotesFit'
  <2> DEFINE nodes == up \cup {n}
             live == {m \in nodes : is_master_eligible(m)}
  <2>1. UNCHANGED world /\ up' = nodes /\ voting' \in Reconfigured(voting, live)
    BY <1>6 DEF Join
  <2>2. nodes \in SUBSET Node
    BY <1>2
  <2>3. \E m \in nodes : is_master_eligible(m) /\ ~is_voting_only(m)
    BY <1>1 DEF HasMaster
  <2>4. HasMaster(nodes, voting') /\ Fitting(voting', live)
    <3> HIDE DEF nodes
    <3> QED
      BY <1>2, <2>1, <2>2, <2>3, Elected
  <2> HIDE DEF nodes
  <2> QED
    BY <1>4, <2>1, <2>2, <2>4
<1>7. ASSUME NEW i \in Index, NEW n \in Node,
             \/ AssignPrimary(i, n) \/ AssignReplica(i, n) \/ Recover(i, n)
             \/ \E m \in Node : Move(i, n, m) \/ Arrive(i, n, m)
      PROVE  UNCHANGED <<world, up, voting>>
  BY <1>7 DEF AssignPrimary, AssignReplica, Recover, Move, Arrive, Nodes
<1>8. ASSUME NEW i \in Index, Create(i) \/ Close(i) \/ \E k \in 0 .. MaxReplicas : SetReplicas(i, k)
      PROVE  UNCHANGED <<world, up, voting>>
  BY <1>8 DEF Create, Close, SetReplicas, Nodes
<1>9. ASSUME NEW scope, NEW key, NEW v, Put(scope, key, v)
      PROVE  UNCHANGED <<world, up, voting>>
  BY <1>9 DEF Put, Nodes
<1> QED
  BY <1>3, <1>5, <1>6, <1>7, <1>8, <1>9 DEF Next

-----------------------------------------------------------------------------
(* The start.                                                              *)
LEMMA InitIsTyped ==
  ASSUME Init
  PROVE  TypeOK
<1>1. /\ world \in Worlds /\ up = Node /\ closed = {} /\ events = 0
      /\ version = [n \in Node |-> 1]
      /\ setting = [scope \in {"transient", "persistent"} |-> [enable |-> None, exclude |-> None]]
      /\ indices = {i \in Index : Start(i)} /\ fresh = {i \in Index : ~Start(i)}
      /\ primary \in [Index -> Node \cup {None}]
      /\ voting \in Reconfigured({}, master_nodes)
  BY DEF Init
<1>2. voting \subseteq {n \in Node : is_master_eligible(n)}
  <2>1. voting \subseteq master_nodes \cup {}
    BY <1>1, ReconfiguredTypes
  <2> QED
    BY <1>1, <2>1 DEF master_nodes
<1>3. replicas \in [Index -> 0 .. MaxReplicas]
  <2>1. \A i \in Index : world.indices[i].replicas \in 0 .. MaxReplicas
    BY <1>1, TheIndices
  <2>2. replicas = [i \in Index |-> world.indices[i].replicas]
    BY DEF Init
  <2> QED
    BY <2>1, <2>2
<1>4. copies \in [Index -> [Node -> Held \cup {"target", None}]]
  <2>1. copies = [i \in Index |-> [n \in Node |-> IF n = primary[i] THEN "started" ELSE None]]
    BY DEF Init
  <2> QED
    BY <2>1 DEF Held
<1>5. insync \in [Index -> SUBSET {n \in Node : is_data(n)}]
  <2>1. insync = [i \in Index |-> {primary[i]} \ {None}]
    BY DEF Init
  <2>2. \A i \in Index : primary[i] # None => primary[i] \in Node /\ is_data(primary[i])
    BY DEF Init, TierAllows
  <2> QED
    BY <2>1, <2>2
<1>6. version \in [Node -> 1 .. MaxVersion] /\ events \in 0 .. MaxEvents
  BY <1>1, BoundsAssumption
<1>7. setting \in [{"transient", "persistent"} ->
                     [enable : {None, "all", "primaries", "none"}, exclude : Node \cup {None}]]
  BY <1>1
<1> QED
  BY <1>1, <1>2, <1>3, <1>4, <1>5, <1>6, <1>7 DEF TypeOK

LEMMA InitFits ==
  ASSUME Init, TypeOK
  PROVE  CopiesFit
<1> USE DEF Held, None
<1>1. SUFFICES ASSUME NEW i \in Index
               PROVE  Fits(Node, world.indices[i].auto, primary[i], copies[i], replicas[i],
                           i \in indices, data_nodes)
  BY FitIs
<1>2. /\ up = Node /\ replicas[i] = world.indices[i].replicas
      /\ \A n \in Node : copies[i][n] = IF n = primary[i] THEN "started" ELSE None
      /\ i \in indices <=> Start(i)
      /\ IF Start(i) THEN primary[i] \in Node /\ TierAllows(i, primary[i]) ELSE primary[i] = None
  BY DEF Init
<1>3. primary[i] # None => primary[i] \in Node /\ is_data(primary[i]) /\ i \in indices
  BY <1>2 DEF TierAllows
<1>4. Placed(Node, primary[i], copies[i], i \in indices, data_nodes)
  <2>1. \A n \in Node : copies[i][n] # None =>
           n = primary[i] /\ primary[i] # None /\ n \in data_nodes /\ i \in indices
    <3>1. None \notin Node
      BY TheWorld DEF TypeOK
    <3> QED
      BY <1>2, <1>3, <3>1 DEF data_nodes
  <2>2. primary[i] # None => copies[i][primary[i]] \in Held
    BY <1>2, <1>3
  <2> QED
    BY <2>1, <2>2 DEF Placed
<1>5. Moving(Node, copies[i])
  BY <1>2 DEF Moving
<1>6. Enough(Node, primary[i], copies[i], replicas[i])
  <2>1. replicas[i] \in Nat /\ None \notin Node
    BY TheWorld DEF TypeOK
  <2>2. CASE primary[i] = None
    <3>1. Holders(Node, copies[i]) = {}
      BY <1>2, <2>1, <2>2 DEF Holders
    <3>2. Cardinality(Holders(Node, copies[i])) = 0 /\ Lacking(primary[i]) = 1
      BY <2>2, <3>1, FS_EmptySet DEF Lacking
    <3> QED
      BY <2>1, <3>2 DEF Enough
  <2>3. CASE primary[i] # None
    <3>1. Holders(Node, copies[i]) = {primary[i]}
      BY <1>2, <1>3, <2>3 DEF Holders
    <3>2. Cardinality(Holders(Node, copies[i])) = 1
      BY <3>1, FS_Singleton
    <3>3. Lacking(primary[i]) = 0
      BY <2>3 DEF Lacking
    <3> QED
      BY <2>1, <3>2, <3>3 DEF Enough
  <2> QED
    BY <2>2, <2>3
<1>7. world.indices[i].auto => replicas[i] <= 1
  <2>1. world \in Worlds
    BY DEF TypeOK
  <2> QED
    BY <1>2, <2>1, TheIndices
<1> QED
  BY <1>4, <1>5, <1>6, <1>7 DEF Fits

LEMMA InitVotes ==
  ASSUME Init, TypeOK
  PROVE  VotesFit
<1>1. up = Node /\ voting \in Reconfigured({}, master_nodes)
  BY DEF Init
<1>2. \E m \in up : is_master_eligible(m) /\ ~is_voting_only(m)
  BY <1>1, TheWorld DEF TypeOK
<1>3. master_nodes = {m \in up : is_master_eligible(m)} /\ up \in SUBSET Node /\ {} \in SUBSET Node
  BY <1>1 DEF master_nodes
<1>4. HasMaster(up, voting) /\ Fitting(voting, master_nodes)
  BY <1>1, <1>2, <1>3, Elected
<1> QED
  BY <1>4, VotesAre

(* The invariant of the cluster: nodes and settings of their types, no     *)
(* copy where none may be and none too many, and a voting configuration    *)
(* that a master can be elected with and that fits the nodes there are.    *)
THEOREM ClusterInvariant == Spec => []IInv
<1>1. Init => IInv
  BY InitIsTyped, InitFits, InitVotes DEF IInv
<1>2. IInv /\ [Next]_vars => IInv'
  <2>1. ASSUME IInv, Next PROVE IInv'
    BY <2>1, TypesAreKept, CopiesAreKept, VotesAreKept DEF IInv
  <2>2. ASSUME IInv, UNCHANGED vars PROVE IInv'
    <3>1. UNCHANGED <<world, up, version, voting, setting, replicas, indices, closed, primary,
                      copies, fresh, insync, events>>
      BY <2>2 DEF vars
    <3>2. Node' = Node /\ Index' = Index /\ master_nodes' = master_nodes /\ data_nodes' = data_nodes
      BY <3>1 DEF Node, Index, master_nodes, data_nodes, is_data, is_master_eligible, RolesOf
    <3>3. TypeOK'
      BY <2>2, <3>1, <3>2 DEF IInv, TypeOK, is_master_eligible, is_data, RolesOf
    <3>4. CopiesFit'
      <4>1. CopiesFit
        BY <2>2 DEF IInv
      <4>2. \A i \in Index : UnassignedReplicas(i)' = UnassignedReplicas(i)
        BY <3>1, <3>2 DEF UnassignedReplicas, Assigned
      <4> QED
        BY <3>1, <3>2, <4>1, <4>2 DEF CopiesFit
    <3>5. VotesFit'
      BY <2>2, <3>1, <3>2 DEF IInv, VotesFit, HasMaster, is_master_eligible, is_voting_only, RolesOf
    <3> QED
      BY <3>3, <3>4, <3>5 DEF IInv
  <2> QED
    BY <2>1, <2>2
<1> QED
  BY <1>1, <1>2, PTL DEF Spec

-----------------------------------------------------------------------------
(* Topology.                                                               *)
LEMMA SetsAreFinite ==
  ASSUME TypeOK
  PROVE  /\ IsFiniteSet(Node) /\ IsFiniteSet(up) /\ IsFiniteSet(master_nodes)
         /\ IsFiniteSet(data_nodes) /\ IsFiniteSet(voting) /\ IsFiniteSet(electable)
         /\ IsFiniteSet(Index) /\ IsFiniteSet(indices) /\ IsFiniteSet(closed)
<1>1. IsFiniteSet(Node) /\ IsFiniteSet(Index)
  BY TheWorld DEF TypeOK
<1>2. /\ up \subseteq Node /\ master_nodes \subseteq Node /\ data_nodes \subseteq Node
      /\ voting \subseteq Node /\ electable \subseteq Node
      /\ indices \subseteq Index /\ closed \subseteq Index
  BY DEF TypeOK, master_nodes, data_nodes, electable
<1> QED
  BY <1>1, <1>2, FS_Subset

(* Which losses CLU-006 stands for: that of one of two votes, or of the    *)
(* only node that can be elected.                                          *)
LEMMA QuorumJudged ==
  ASSUME TypeOK, VotesFit
  PROVE  QuorumIsJudged
<1> SUFFICES ASSUME Cardinality(up) > 1
             PROVE  (\E f \in r_master_quorum : f.id = "CLU-006")
                      <=> \E n \in master_nodes : ~HasMaster(up \ {n}, voting)
  BY DEF QuorumIsJudged
<1> DEFINE total == Cardinality(master_nodes)
           few == total = 1 \/ Cardinality(electable) = 1 \/ total = 2
<1>1. HasMaster(up, voting) /\ Fitting(voting, master_nodes)
  BY VotesAre
<1>2. /\ IsFiniteSet(up) /\ IsFiniteSet(master_nodes) /\ IsFiniteSet(voting)
      /\ IsFiniteSet(electable)
      /\ total \in Nat /\ Cardinality(electable) \in Nat /\ Cardinality(voting) \in Nat
  BY SetsAreFinite, FS_CardinalityType
<1>3. electable # {} /\ electable \subseteq master_nodes /\ master_nodes # {}
  BY <1>1 DEF HasMaster, electable, master_nodes
<1>4. total # 0 /\ Cardinality(electable) # 0
  BY <1>2, <1>3, FS_EmptySet
<1>5. (\E f \in r_master_quorum : f.id = "CLU-006") <=> few
  <2> DEFINE alone == total = 1 \/ Cardinality(electable) = 1
             first == CASE alone /\ Cardinality(up) > 1 -> {Naming("CLU-006", "CRITICAL", master_nodes)}
                        [] ~(alone /\ Cardinality(up) > 1) /\ total = 2 ->
                             {Naming("CLU-006", "WARNING", master_nodes)}
                        [] OTHER -> {}
             apart == {n \in electable : is_dedicated_master(n)}
             second == IfSo(apart = {} /\ Cardinality(data_nodes) >= DedicatedFrom,
                            Naming("CLU-007", "WARNING", {}))
  <2>1. r_master_quorum = first \cup second
    BY <1>4 DEF r_master_quorum
  <2>2. \A f \in second : f.id = "CLU-007"
    BY DEF IfSo, Naming
  <2>3. few => \E f \in first : f.id = "CLU-006"
    <3>1. CASE alone
      BY <3>1 DEF Naming
    <3>2. CASE ~alone
      BY <3>2 DEF Naming
    <3> QED
      BY <3>1, <3>2
  <2>4. ~few => first = {}
    OBVIOUS
  <2> HIDE DEF first, second
  <2>5. few \/ ~few
    OBVIOUS
  <2> HIDE DEF few
  <2> QED
    BY <2>1, <2>2, <2>3, <2>4, <2>5
<1>6. ASSUME few
      PROVE  \E n \in master_nodes : ~HasMaster(up \ {n}, voting)
  <2>1. CASE Cardinality(electable) = 1
    <3>1. PICK n : electable = {n}
      BY <1>2, <2>1, FS_Singleton
    <3>2. ~\E m \in up \ {n} : is_master_eligible(m) /\ ~is_voting_only(m)
      BY <3>1 DEF electable, master_nodes
    <3> QED
      BY <1>3, <3>1, <3>2 DEF HasMaster
  <2>2. CASE total = 1
    <3>1. PICK n : master_nodes = {n}
      BY <1>2, <2>2, FS_Singleton
    <3>2. ~\E m \in up \ {n} : is_master_eligible(m)
      BY <3>1 DEF master_nodes
    <3> QED
      BY <3>1, <3>2 DEF HasMaster
  <2>3. CASE total = 2
    <3>0. \A n : IsFiniteSet((up \ {n}) \cap voting)
                 /\ Cardinality((up \ {n}) \cap voting) \in Nat
      <4> TAKE n
      <4>1. (up \ {n}) \cap voting \subseteq up
        OBVIOUS
      <4> QED
        BY <1>2, <4>1, FS_Subset, FS_CardinalityType
    <3>1. CASE Cardinality(voting) = 3 /\ master_nodes \subseteq voting
      <4>1. PICK n \in master_nodes : TRUE
        BY <1>3
      <4>2. (up \ {n}) \cap voting \subseteq master_nodes \ {n}
        BY DEF TypeOK, master_nodes
      <4>3. Cardinality((up \ {n}) \cap voting) <= 1
        <5>1. IsFiniteSet(master_nodes \ {n}) /\ Cardinality(master_nodes \ {n}) = total - 1
          BY <1>2, FS_RemoveElement
        <5>2. total - 1 = 1
          BY <2>3
        <5>3. Cardinality((up \ {n}) \cap voting) <= Cardinality(master_nodes \ {n})
          BY <4>2, <5>1, FS_Subset
        <5> QED
          BY <5>1, <5>2, <5>3
      <4>4. ~Quorum(up \ {n}, voting)
        <5> DEFINE c == Cardinality((up \ {n}) \cap voting)
        <5>1. c \in Nat /\ c <= 1
          BY <3>0, <4>3
        <5> HIDE DEF c
        <5>2. ~(2 * c > 3)
          BY <5>1
        <5> QED
          BY <3>1, <5>2 DEF Quorum, c
      <4> QED
        BY <4>4 DEF HasMaster
    <3>2. CASE Cardinality(voting) = 1 /\ voting \subseteq master_nodes
      <4>1. PICK n : voting = {n}
        BY <1>2, <3>2, FS_Singleton
      <4>2. (up \ {n}) \cap voting = {} /\ n \in master_nodes
        BY <3>2, <4>1
      <4>3. ~Quorum(up \ {n}, voting)
        BY <3>2, <4>2, FS_EmptySet DEF Quorum
      <4> QED
        BY <4>2, <4>3 DEF HasMaster
    <3> QED
      BY <1>1, <2>3, <3>1, <3>2 DEF Fitting
  <2> QED
    BY <1>6, <2>1, <2>2, <2>3
<1>7. ASSUME ~few, NEW n \in master_nodes
      PROVE  HasMaster(up \ {n}, voting)
  <2>1. total >= 3 /\ Cardinality(electable) >= 2
    BY <1>2, <1>4, <1>7
  <2>2. voting \subseteq master_nodes /\ Cardinality(voting) >= 3
    BY <1>1, <2>1 DEF Fitting
  <2>3. \E m \in up \ {n} : is_master_eligible(m) /\ ~is_voting_only(m)
    <3>1. IsFiniteSet(electable \ {n}) /\ electable \ {n} # {}
      <4>1. CASE n \in electable
        <5>1. Cardinality(electable \ {n}) = Cardinality(electable) - 1
          BY <1>2, <4>1, FS_RemoveElement
        <5>2. Cardinality(electable \ {n}) # 0
          BY <1>2, <2>1, <5>1
        <5> QED
          BY <1>2, <5>2, FS_EmptySet, FS_Subset
      <4>2. CASE n \notin electable
        BY <1>2, <1>3, <4>2, FS_Subset
      <4> QED
        BY <4>1, <4>2
    <3> QED
      BY <3>1 DEF electable, master_nodes
  <2>4. (up \ {n}) \cap voting = voting \ {n}
    BY <2>2 DEF master_nodes
  <2>5. Cardinality(voting \ {n}) >= Cardinality(voting) - 1
        /\ Cardinality(voting \ {n}) \in Nat
    <3>1. IsFiniteSet(voting \ {n})
      BY <1>2, FS_Subset
    <3>2. CASE n \in voting
      BY <1>2, <3>1, <3>2, FS_RemoveElement, FS_CardinalityType
    <3>3. CASE n \notin voting
      <4>1. voting \ {n} = voting
        BY <3>3
      <4> QED
        BY <1>2, <4>1
    <3> QED
      BY <3>2, <3>3
  <2>6. Quorum(up \ {n}, voting)
    BY <1>2, <2>2, <2>4, <2>5 DEF Quorum
  <2> QED
    BY <2>3, <2>6 DEF HasMaster
<1> HIDE DEF few
<1> QED
  BY <1>5, <1>6, <1>7

LEMMA LeastAndGreatest ==
  ASSUME NEW S, S \subseteq Int, IsFiniteSet(S), S # {}
  PROVE  /\ Max(S) \in S /\ \A x \in S : Max(S) >= x
         /\ Min(S) \in S /\ \A x \in S : Min(S) <= x
<1>1. \E c \in S : \A j \in S : c >= j
  BY ThereIsAGreatest
<1>2. \E c \in S : \A j \in S : c <= j
  BY ThereIsALeast
<1> QED
  BY <1>1, <1>2 DEF Max, Min

(* Zones of a tier that are not said to be uneven differ by one node at    *)
(* most, and none has twice the nodes of another.                          *)
LEMMA ZonesShare ==
  ASSUME TypeOK
  PROVE  ZonesShareTheNodes
<1> SUFFICES ASSUME \A f \in r_zone_balance : f.id # "CLU-018",
                    NEW n \in data_nodes, NEW zoned,
                    zoned = {m \in data_nodes : tier_of(m) = tier_of(n) /\ ZoneOf(m) # None},
                    Cardinality(Zones(zoned)) >= 2,
                    NEW z \in Zones(zoned)
             PROVE  3 * Cardinality(InZone(tier_of(n), z)) < 2 * Cardinality(zoned)
  BY DEF ZonesShareTheNodes
<1> DEFINE tier == tier_of(n)
           peers == {m \in data_nodes : tier_of(m) = tier}
           size(x) == Cardinality(InZone(tier, x))
           sizes == {size(x) : x \in Zones(peers)}
<1>1. IsFiniteSet(data_nodes) /\ IsFiniteSet(zoned) /\ IsFiniteSet(peers)
  <2>1. IsFiniteSet(data_nodes)
    BY SetsAreFinite
  <2> QED
    BY <2>1, FS_Subset
<1>2. \A x : IsFiniteSet(InZone(tier, x)) /\ size(x) \in Nat
  <2> TAKE x
  <2>1. InZone(tier, x) \subseteq data_nodes
    BY DEF InZone
  <2> QED
    BY <1>1, <2>1, FS_Subset, FS_CardinalityType
<1>3. Zones(zoned) = Zones(peers) /\ Zones(zoned) \subseteq Zones(data_nodes)
  BY DEF Zones
<1>4. IsFiniteSet(Zones(data_nodes)) /\ IsFiniteSet(Zones(zoned))
  <2>1. IsFiniteSet({ZoneOf(m) : m \in data_nodes})
    <3> DEFINE f == [m \in data_nodes |-> ZoneOf(m)]
    <3>1. IsFiniteSet({f[m] : m \in data_nodes})
      BY <1>1, ImagesAreFinite
    <3>2. {f[m] : m \in data_nodes} = {ZoneOf(m) : m \in data_nodes}
      OBVIOUS
    <3> QED
      BY <3>1, <3>2
  <2> QED
    BY <1>3, <2>1, FS_Subset DEF Zones
<1>5. Cardinality(Zones(data_nodes)) >= 2
  <2>1. Cardinality(Zones(zoned)) <= Cardinality(Zones(data_nodes))
    BY <1>3, <1>4, FS_Subset
  <2>2. Cardinality(Zones(zoned)) \in Nat /\ Cardinality(Zones(data_nodes)) \in Nat
    BY <1>4, FS_CardinalityType
  <2> QED
    BY <2>1, <2>2
<1>6. ~Uneven(tier)
  <2> SUFFICES ASSUME Uneven(tier) PROVE FALSE
    OBVIOUS
  <2>1. ~(Cardinality(Zones(data_nodes)) < 2)
    BY <1>4, <1>5, FS_CardinalityType
  <2>2. \E m \in data_nodes : Uneven(tier_of(m))
    OBVIOUS
  <2>3. Naming("CLU-018", "WARNING", {}) \in r_zone_balance
    BY <2>1, <2>2 DEF r_zone_balance, IfSo
  <2>4. Naming("CLU-018", "WARNING", {}).id = "CLU-018"
    BY DEF Naming
  <2> QED
    BY <2>3, <2>4
<1>7. PICK y \in Zones(zoned) : y # z
  <2>1. Cardinality({z}) = 1 /\ Cardinality(Zones(zoned)) \in Nat
    BY <1>4, FS_Singleton, FS_CardinalityType
  <2>2. Zones(zoned) # {z}
    BY <2>1
  <2> QED
    BY <2>2
<1>8. sizes \subseteq Int /\ IsFiniteSet(sizes) /\ size(z) \in sizes /\ size(y) \in sizes
  <2>0. z \in Zones(peers) /\ y \in Zones(peers)
    BY <1>3
  <2>1. size(z) \in sizes /\ size(y) \in sizes /\ sizes \subseteq Int
    <3> HIDE DEF peers
    <3> QED
      BY <1>2, <2>0
  <2>2. IsFiniteSet(sizes)
    <3> DEFINE f == [x \in Zones(peers) |-> size(x)]
    <3>1. IsFiniteSet({f[x] : x \in Zones(peers)})
      BY <1>3, <1>4, ImagesAreFinite
    <3>2. {f[x] : x \in Zones(peers)} = sizes
      OBVIOUS
    <3> QED
      BY <3>1, <3>2
  <2> QED
    BY <2>1, <2>2
<1>9. /\ ~(Max(sizes) - Min(sizes) >= 2)
      /\ ~(Max(sizes) > Min(sizes) /\ Max(sizes) >= 2 * Min(sizes))
  BY <1>6, <1>8 DEF Uneven
<1>10. size(y) # 0
  <2>1. PICK m \in zoned : ZoneOf(m) = y
    BY DEF Zones
  <2>2. m \in InZone(tier, y)
    BY <2>1 DEF InZone, ZoneOf
  <2> QED
    BY <1>2, <2>2, FS_EmptySet
<1>11. size(z) + size(y) <= Cardinality(zoned)
  <2> DEFINE A == InZone(tier, z)
             B == InZone(tier, y)
  <2>1. IsFiniteSet(A) /\ IsFiniteSet(B)
    BY <1>2
  <2>2. A \cap B = {} /\ A \cup B \subseteq zoned
    <3>1. z # None /\ y # None
      BY DEF Zones
    <3> QED
      BY <1>7, <3>1 DEF InZone, ZoneOf
  <2> HIDE DEF A, B
  <2>3. Cardinality(A \cup B) = Cardinality(A) + Cardinality(B)
    <3>1. Cardinality(A \cup B) = Cardinality(A) + Cardinality(B) - Cardinality(A \cap B)
      BY <2>1, FS_Union
    <3> QED
      <4>1. Cardinality(A \cap B) = 0
        BY <2>2, FS_EmptySet
      <4>2. Cardinality(A) \in Nat /\ Cardinality(B) \in Nat
        BY <2>1, FS_CardinalityType
      <4> QED
        BY <3>1, <4>1, <4>2
  <2>4. Cardinality(A \cup B) <= Cardinality(zoned)
    BY <1>1, <2>2, FS_Subset
  <2> QED
    BY <2>3, <2>4 DEF A, B
<1>12. /\ Max(sizes) >= size(z) /\ Min(sizes) <= size(y)
       /\ Max(sizes) \in Int /\ Min(sizes) \in Int /\ Max(sizes) >= Min(sizes)
  <2> HIDE DEF sizes, size
  <2>1. /\ Max(sizes) \in sizes /\ \A x \in sizes : Max(sizes) >= x
        /\ Min(sizes) \in sizes /\ \A x \in sizes : Min(sizes) <= x
    BY <1>8, LeastAndGreatest
  <2> QED
    BY <1>8, <2>1
<1>13. size(z) \in Nat /\ size(y) \in Nat /\ Cardinality(zoned) \in Nat
  BY <1>1, <1>2, FS_CardinalityType
<1>14. 3 * size(z) < 2 * Cardinality(zoned)
  <2> DEFINE a == size(z)
             b == size(y)
             all == Cardinality(zoned)
             most == Max(sizes)
             least == Min(sizes)
  <2>1. /\ a \in Nat /\ b \in Nat /\ all \in Nat /\ most \in Int /\ least \in Int
        /\ b # 0 /\ a + b <= all /\ most >= a /\ least <= b /\ most >= least
        /\ most - least < 2 /\ (most > least => most < 2 * least)
    BY <1>9, <1>10, <1>11, <1>12, <1>13
  <2> HIDE DEF a, b, all, most, least
  <2>2. a < 2 * b
    BY <2>1
  <2>3. 3 * a < 2 * all
    BY <2>1, <2>2
  <2> QED
    BY <2>3 DEF a, all
<1> QED
  BY <1>14

(* The rules on nodes and zones are right about what can be lost: CLU-006  *)
(* is reported if and only if there is a node whose loss leaves no master, *)
(* and where CLU-018 is silent no zone holds two thirds of a tier.         *)
THEOREM TopologyIsJudgedThm == Spec => []TopologyIsJudged
<1>1. IInv => TopologyIsJudged
  BY QuorumJudged, ZonesShare DEF IInv, TopologyIsJudged
<1> QED
  BY <1>1, ClusterInvariant, PTL

-----------------------------------------------------------------------------
(* Placement.                                                              *)
LEMMA AssignedCopies ==
  ASSUME TypeOK, CopiesFit, NEW i \in Index
  PROVE  /\ Assigned(i) \subseteq data_nodes /\ IsFiniteSet(Assigned(i))
         /\ Cardinality(Assigned(i)) \in Nat
         /\ replicas[i] \in Nat /\ UnassignedReplicas(i) \in Nat
         /\ UnassignedReplicas(i) + Cardinality(Assigned(i)) + Lacking(primary[i]) = 1 + replicas[i]
<1>1. Assigned(i) \subseteq data_nodes
  BY HoldersAreData DEF Assigned, Held, None
<1>2. IsFiniteSet(Assigned(i)) /\ Cardinality(Assigned(i)) \in Nat
  BY <1>1, SetsAreFinite, FS_Subset, FS_CardinalityType
<1>3. replicas[i] \in Nat
  BY DEF TypeOK
<1>4. UnassignedReplicas(i) = 1 + replicas[i] - Cardinality(Assigned(i)) - Lacking(primary[i])
  BY DEF UnassignedReplicas, Lacking
<1>5. UnassignedReplicas(i) >= 0
  BY DEF CopiesFit
<1>6. Lacking(primary[i]) \in {0, 1}
  BY DEF Lacking
<1> QED
  BY <1>1, <1>2, <1>3, <1>4, <1>5, <1>6

(* Every assigned copy of an index is on a data node of its own. *)
LEMMA ReplicasDoNotFit ==
  ASSUME TypeOK, CopiesFit
  PROVE  ReplicasNeverFit
<1> DEFINE nodes == Cardinality(IF data_nodes = {} THEN up ELSE data_nodes)
           many == {i \in indices : /\ ~world.indices[i].auto
                                    /\ replicas[i] > 0 /\ replicas[i] > nodes - 1}
<1>1. \A f \in r_replica_unassignable : f.affected = many
  BY DEF r_replica_unassignable, IfSo, Naming
<1>2. ASSUME NEW i \in many, primary[i] # None
      PROVE  UnassignedReplicas(i) > 0
  <2>1. i \in Index
    BY DEF TypeOK
  <2>2. /\ Assigned(i) \subseteq data_nodes /\ Cardinality(Assigned(i)) \in Nat
        /\ replicas[i] \in Nat
        /\ UnassignedReplicas(i) + Cardinality(Assigned(i)) + Lacking(primary[i])
             = 1 + replicas[i]
        /\ UnassignedReplicas(i) \in Nat
    BY <2>1, AssignedCopies
  <2>3. primary[i] \in data_nodes
    <3>1. primary[i] \in Node /\ copies[i][primary[i]] \in Held
      BY <1>2, <2>1 DEF TypeOK, CopiesFit
    <3> QED
      BY <2>1, <3>1, HoldersAreData DEF Held, None
  <2>4. nodes = Cardinality(data_nodes)
    BY <2>3
  <2>5. Cardinality(Assigned(i)) <= Cardinality(data_nodes) /\ Cardinality(data_nodes) \in Nat
    BY <2>2, SetsAreFinite, FS_Subset, FS_CardinalityType
  <2>6. Lacking(primary[i]) = 0
    BY <1>2 DEF Lacking
  <2>7. replicas[i] > Cardinality(data_nodes) - 1
    BY <2>4
  <2> QED
    BY <2>2, <2>5, <2>6, <2>7
<1> HIDE DEF many
<1> QED
  BY <1>1, <1>2 DEF ReplicasNeverFit

(* A tier is available if a node has it, by name or as a generic data node. *)
LEMMA AvailableTiers ==
  ASSUME NEW t \in Tiers
  PROVE  t \in Available <=> \E n \in up : HasTier(n, t)
BY DEF Available, HasTier

LEMMA SomeTierIsAvailable ==
  ASSUME data_nodes # {}
  PROVE  Available # {}
<1>1. PICK n \in up : is_data(n)
  BY DEF data_nodes
<1>2. CASE "data" \in RolesOf(n)
  <2>1. "data_hot" \in Available
    BY <1>2 DEF Available, Tiers
  <2> QED
    BY <2>1
<1>3. CASE "data" \notin RolesOf(n)
  <2>1. PICK t \in Tiers : t \in RolesOf(n)
    BY <1>1, <1>3 DEF is_data
  <2>2. t \in Available
    BY <1>3, <2>1 DEF Available
  <2> QED
    BY <2>2
<1> QED
  BY <1>2, <1>3

LEMMA HomelessAreNamed ==
  ASSUME TypeOK, data_nodes # {}, NEW i \in indices
  PROVE  (\E f \in r_tier_preference : i \in f.affected)
           <=> /\ world.indices[i].tiers # <<>>
               /\ \A n \in up : \A k \in DOMAIN world.indices[i].tiers :
                     ~HasTier(n, world.indices[i].tiers[k])
<1> DEFINE pref == world.indices[i].tiers
           homeless == {j \in indices : Preferred(j) # {} /\ Preferred(j) \cap Available = {}}
<1>1. pref \in Seq(Tiers)
  BY TheIndices DEF TypeOK
<1>2. Preferred(i) # {} <=> pref # <<>>
  <2>1. Preferred(i) = {pref[k] : k \in DOMAIN pref}
    BY DEF Preferred
  <2>2. DOMAIN pref = 1 .. Len(pref) /\ Len(pref) \in Nat
    BY <1>1
  <2>3. pref # <<>> <=> Len(pref) # 0
    BY <1>1
  <2>4. Len(pref) # 0 <=> 1 .. Len(pref) # {}
    <3> DEFINE n == Len(pref)
    <3>1. n \in Nat
      BY <2>2
    <3> HIDE DEF n
    <3>2. n # 0 => 1 \in 1 .. n
      BY <3>1
    <3>3. ASSUME NEW k \in 1 .. n PROVE n # 0
      BY <3>1
    <3> QED
      BY <3>2, <3>3 DEF n
  <2> QED
    BY <2>1, <2>2, <2>3, <2>4
<1>3. Preferred(i) \cap Available = {} <=> \A n \in up : \A k \in DOMAIN pref : ~HasTier(n, pref[k])
  <2>1. \A k \in DOMAIN pref : pref[k] \in Tiers
    BY <1>1
  <2>2. \A k \in DOMAIN pref : pref[k] \in Available <=> \E n \in up : HasTier(n, pref[k])
    BY <2>1, AvailableTiers
  <2> QED
    BY <2>2 DEF Preferred
<1>4. (\E f \in r_tier_preference : i \in f.affected) <=> i \in homeless
  <2>1. Available # {}
    BY SomeTierIsAvailable
  <2>2. r_tier_preference = IF homeless # {} THEN {Naming("IDX-009", "CRITICAL", homeless)} ELSE {}
    BY <2>1 DEF r_tier_preference, IfSo
  <2>3. Naming("IDX-009", "CRITICAL", homeless).affected = homeless
    BY DEF Naming
  <2> HIDE DEF homeless
  <2> QED
    BY <2>2, <2>3
<1> QED
  BY <1>2, <1>3, <1>4

LEMMA TiersMiss ==
  ASSUME TypeOK
  PROVE  TiersAreMissing
BY HomelessAreNamed DEF TiersAreMissing

(* Where CLU-008, CLU-011 and CLU-012 are silent nothing but tiers and the *)
(* number of nodes keeps a copy from a node.                               *)
LEMMA SilentMeans ==
  ASSUME TypeOK, NEW n \in up,
         \A id \in {"CLU-008", "CLU-011.enable", "CLU-012"} : ~Reported(id)
  PROVE  /\ \A m \in up : version[m] = version[n]
         /\ Effective("enable") \in {None, "all"} /\ Effective("exclude") = None
<1>1. \A f \in r_version_consistency \cup r_risky_settings :
         f.id \notin {"CLU-008", "CLU-011.enable", "CLU-012"}
  <2>1. {} \in Explanations
    BY DEF Explanations
  <2> QED
    BY <2>1 DEF Reported, ClusterFindings
<1>2. \A m \in up : version[m] = version[n]
  <2> DEFINE f == [m \in up |-> version[m]]
             S == {version[m] : m \in up}
  <2>1. ~(Cardinality(S) > 1)
    <3>1. Cardinality(S) > 1 => Naming("CLU-008", "WARNING", {}) \in r_version_consistency
      BY DEF r_version_consistency, IfSo
    <3> QED
      BY <1>1, <3>1 DEF Naming
  <2>2. IsFiniteSet(S)
    <3>1. IsFiniteSet({f[m] : m \in up})
      BY SetsAreFinite, ImagesAreFinite
    <3>2. {f[m] : m \in up} = S
      OBVIOUS
    <3> QED
      BY <3>1, <3>2
  <2>3. ASSUME NEW m \in up, version[m] # version[n] PROVE FALSE
    <3> DEFINE T == {version[m]} \cup {version[n]}
    <3>1. Cardinality(T) = 2
      <4> DEFINE A == {version[m]}
      <4>1. version[n] \notin A
        BY <2>3
      <4>2. IsFiniteSet(A) /\ Cardinality(A) = 1
        BY FS_Singleton
      <4> HIDE DEF A
      <4>3. Cardinality(A \cup {version[n]}) = Cardinality(A) + 1
        BY <4>1, <4>2, FS_AddElement
      <4> QED
        BY <4>2, <4>3 DEF A
    <3>2. T \subseteq S
      OBVIOUS
    <3> HIDE DEF S, T
    <3>3. Cardinality(T) <= Cardinality(S) /\ Cardinality(S) \in Nat
      BY <2>2, <3>2, FS_Subset, FS_CardinalityType
    <3> QED
      BY <2>1, <3>1, <3>3
  <2> QED
    BY <2>3
<1>3. Value("enable") \in {None, "all"} /\ Value("exclude") = None
  <2>1. Value("enable") \notin {None, "all"} =>
           Naming("CLU-011.enable", "CRITICAL", {}) \in r_risky_settings
    BY DEF r_risky_settings, IfSo
  <2>2. Value("exclude") # None => Naming("CLU-012", "WARNING", {}) \in r_risky_settings
    BY DEF r_risky_settings, IfSo
  <2> QED
    BY <1>1, <2>1, <2>2 DEF Naming
<1>4. \A key \in {"enable", "exclude"} : Effective(key) = Value(key)
  <2> TAKE key \in {"enable", "exclude"}
  <2>1. DOMAIN setting = {"transient", "persistent"}
    BY DEF TypeOK
  <2>2. setting.transient = setting["transient"] /\ setting.persistent = setting["persistent"]
    OBVIOUS
  <2> QED
    BY <2>1, <2>2 DEF Effective, Value, Source
<1> QED
  BY <1>2, <1>3, <1>4

(* A tier says where every index may go that IDX-009 does not name, if    *)
(* there is a data node that is not for the frozen tier only.             *)
LEMMA SomeNodeIsAllowed ==
  ASSUME TypeOK, NEW i \in indices, NEW m \in data_nodes, ~is_frozen_only(m),
         \A f \in r_tier_preference : i \notin f.affected
  PROVE  \E n \in up : TierAllows(i, n)
<1> DEFINE pref == world.indices[i].tiers
           there(k) == \E n \in up : HasTier(n, pref[k])
           S == {k \in DOMAIN pref : there(k)}
<1>1. i \in Index /\ m \in up /\ is_data(m)
  BY DEF TypeOK, data_nodes
<1>2. pref \in Seq(Tiers)
      /\ (~world.indices[i].partial => \A k \in DOMAIN pref : pref[k] # "data_frozen")
  BY <1>1, TheIndices DEF TypeOK
<1>3. CASE pref = <<>>
  BY <1>1, <1>3 DEF TierAllows
<1>4. CASE pref # <<>>
  <2>1. S # {}
    BY <1>4, HomelessAreNamed
  <2>2. S \subseteq Int /\ IsFiniteSet(S)
    <3>1. DOMAIN pref = 1 .. Len(pref) /\ Len(pref) \in Nat
      BY <1>2
    <3>2. IsFiniteSet(1 .. Len(pref))
      BY <3>1, FS_Interval
    <3>3. S \subseteq 1 .. Len(pref)
      BY <3>1
    <3> QED
      BY <3>1, <3>2, <3>3, FS_Subset
  <2>3. PICK k \in S : \A j \in S : k <= j
    <3> HIDE DEF S
    <3> QED
      BY <2>1, <2>2, ThereIsALeast
  <2>4. PICK n \in up : HasTier(n, pref[k])
    BY <2>3
  <2>5. k \in DOMAIN pref /\ pref[k] \in Tiers
    BY <1>2, <2>3
  <2>6. is_data(n)
    BY <2>4, <2>5 DEF HasTier, is_data
  <2>7. ~world.indices[i].partial => ~is_frozen_only(n)
    <3>1. CASE "data" \in RolesOf(n)
      BY <3>1 DEF is_frozen_only, tier_of
    <3>2. CASE "data" \notin RolesOf(n) /\ pref[k] # "data_frozen"
      <4>1. pref[k] \in RolesOf(n) /\ pref[k] \in {"data_hot", "data_warm"}
        BY <2>4, <2>5, <3>2 DEF HasTier, Tiers
      <4>2. pref[k] = "data_warm" => "data_warm" \in RolesOf(n) \cap Tiers
        BY <4>1 DEF Tiers
      <4> QED
        BY <3>2, <4>1, <4>2 DEF is_frozen_only, tier_of
    <3> QED
      BY <1>2, <2>5, <3>1, <3>2
  <2>8. ASSUME NEW j \in 1 .. k - 1
        PROVE  ~there(j)
    <3>1. DOMAIN pref = 1 .. Len(pref) /\ Len(pref) \in Nat /\ k \in 1 .. Len(pref)
      BY <1>2, <2>5
    <3>2. j \in DOMAIN pref /\ ~(k <= j)
      <4> DEFINE len == Len(pref)
      <4>1. len \in Nat /\ k \in 1 .. len
        BY <3>1
      <4> HIDE DEF len
      <4>2. j \in 1 .. len /\ ~(k <= j)
        BY <4>1
      <4> QED
        BY <3>1, <4>2 DEF len
    <3> QED
      BY <2>3, <3>2
  <2> QED
    BY <2>4, <2>5, <2>6, <2>7, <2>8 DEF TierAllows
<1> QED
  BY <1>3, <1>4

LEMMA UnassignedExplained ==
  ASSUME TypeOK, CopiesFit, VotesFit
  PROVE  UnassignedIsExplained
<1> SUFFICES ASSUME NEW i \in indices, Stuck(i),
                    \A id \in {"CLU-008", "CLU-011.enable", "CLU-012"} : ~Reported(id),
                    \A f \in r_tier_preference : i \notin f.affected,
                    NEW m \in data_nodes, ~is_frozen_only(m)
             PROVE  Cardinality({n \in up : TierAllows(i, n)}) \in 1 .. replicas[i]
  BY DEF UnassignedIsExplained
<1> DEFINE A == {n \in up : TierAllows(i, n)}
<1>1. i \in Index /\ up \subseteq Node /\ m \in up
  BY DEF TypeOK, data_nodes
<1>2. /\ \A n \in up : version[n] = version[m]
      /\ Effective("enable") \in {None, "all"} /\ Effective("exclude") = None
  BY <1>1, SilentMeans
<1>3. \A n \in Node : Enabled(i, n)
  BY <1>2, TheWorld DEF Enabled, TypeOK
<1>4. A # {}
  BY SomeNodeIsAllowed
<1>5. ASSUME primary[i] = None, \A n \in Node : ~CanTakePrimary(i, n), Creating(i)
      PROVE  FALSE
  <2>1. PICK n \in up : TierAllows(i, n)
    BY <1>4
  <2>2. copies[i][n] = None
    BY <1>1, <1>5, <2>1 DEF CopiesFit
  <2> QED
    BY <1>1, <1>3, <1>5, <2>1, <2>2 DEF CanTakePrimary, Free
<1>6. ASSUME UnassignedReplicas(i) > 0, primary[i] # None, copies[i][primary[i]] = "started",
             \A n \in Node : copies[i][n] # "moving" /\ ~CanTakeReplica(i, n)
      PROVE  Cardinality(A) \in 1 .. replicas[i]
  <2>1. primary[i] \in up
    <3>1. primary[i] \in Node
      BY <1>1, <1>6 DEF TypeOK
    <3> QED
      BY <1>1, <1>6, <3>1, HoldersAreData DEF None
  <2>2. \A n \in up : Follows(i, n)
    <3>1. \A n \in up : version[n] \in Int
      BY <1>1 DEF TypeOK
    <3>2. \A n \in up : version[n] = version[primary[i]]
      BY <1>2, <2>1
    <3>3. \A n \in up : version[n] >= version[primary[i]]
      BY <3>1, <3>2
    <3> QED
      BY <1>6, <3>3 DEF Follows, Active
  <2>3. A \subseteq Assigned(i)
    <3> SUFFICES ASSUME NEW n \in A PROVE copies[i][n] \in Held
      BY <1>1 DEF Assigned
    <3>1. copies[i][n] # None
      BY <1>1, <1>3, <1>6, <2>2 DEF CanTakeReplica, Free
    <3>2. copies[i][n] \notin {"moving", "target"}
      BY <1>1, <1>6 DEF CopiesFit
    <3>3. copies[i][n] \in Held \cup {"target", None}
      BY <1>1 DEF TypeOK
    <3> QED
      BY <3>1, <3>2, <3>3
  <2>4. /\ IsFiniteSet(Assigned(i)) /\ Cardinality(Assigned(i)) \in Nat
        /\ replicas[i] \in Nat /\ UnassignedReplicas(i) \in Nat
        /\ UnassignedReplicas(i) + Cardinality(Assigned(i)) + Lacking(primary[i])
             = 1 + replicas[i]
    BY <1>1, AssignedCopies
  <2>5. Lacking(primary[i]) = 0
    BY <1>6 DEF Lacking
  <2>6. IsFiniteSet(A) /\ Cardinality(A) \in Nat /\ Cardinality(A) # 0
        /\ Cardinality(A) <= Cardinality(Assigned(i))
    <3> HIDE DEF A
    <3> QED
      BY <1>4, <2>3, <2>4, FS_Subset, FS_CardinalityType, FS_EmptySet
  <2> HIDE DEF A
  <2> QED
    BY <1>6, <2>4, <2>5, <2>6
<1> QED
  BY <1>5, <1>6 DEF Stuck

(* The reasons given for copies without a node are true, and each copy     *)
(* that cannot be placed has one.                                          *)
THEOREM PlacementIsExplainedThm == Spec => []PlacementIsExplained
<1>1. IInv => PlacementIsExplained
  BY ReplicasDoNotFit, TiersMiss, UnassignedExplained DEF IInv, PlacementIsExplained
<1> QED
  BY <1>1, ClusterInvariant, PTL

-----------------------------------------------------------------------------
(* The list of shards and the counts of health.                            *)
RowOf(i, n) ==
    [index |-> i, prirep |-> IF n = primary[i] THEN "p" ELSE "r",
     state |-> copies[i][n], node |-> n, number |-> 0]

ReplicaRow(i, k) ==
    [index |-> i, prirep |-> "r", state |-> "UNASSIGNED", node |-> None, number |-> k]

PrimaryRow(i) ==
    [index |-> i, prirep |-> "p", state |-> "UNASSIGNED", node |-> None, number |-> 0]

Rows(i) == AssignedRows(i) \cup UnassignedRows(i)

(* The part before the arrow is the node the copy is on, moving or not. *)
LEMMA TheSourceComesFirst ==
  ASSUME NEW i, NEW n
  PROVE  NodeOf(NodeField(i, n)) = n
BY DEF NodeOf, NodeField

(* What a row of the list says. *)
LEMMA RowsAre ==
  ASSUME NEW i
  PROVE  /\ AssignedRows(i) = {RowOf(i, n) : n \in Assigned(i)}
         /\ UnassignedRows(i) = {ReplicaRow(i, k) : k \in 1 .. UnassignedReplicas(i)}
                                  \cup (IF primary[i] = None THEN {PrimaryRow(i)} ELSE {})
         /\ \A r \in AssignedRows(i) : r.index = i /\ r.state \in Held
         /\ \A r \in UnassignedRows(i) : r.index = i /\ r.state = "UNASSIGNED"
<1>1. AssignedRows(i) = {RowOf(i, n) : n \in Assigned(i)}
  BY TheSourceComesFirst DEF AssignedRows, RowOf
<1>2. UnassignedRows(i) = {ReplicaRow(i, k) : k \in 1 .. UnassignedReplicas(i)}
                            \cup (IF primary[i] = None THEN {PrimaryRow(i)} ELSE {})
  BY DEF UnassignedRows, ReplicaRow, PrimaryRow, IfSo
<1>3. \A r \in AssignedRows(i) : r.index = i /\ r.state \in Held
  BY <1>1 DEF RowOf, Assigned
<1>4. \A r \in UnassignedRows(i) : r.index = i /\ r.state = "UNASSIGNED"
  BY <1>2 DEF ReplicaRow, PrimaryRow
<1> QED
  BY <1>1, <1>2, <1>3, <1>4

(* The parts of the list, by index. *)
LEMMA PartsOfTheList ==
  /\ shards = UNION {Rows(i) : i \in indices}
  /\ Unassigned = UNION {UnassignedRows(i) : i \in indices}
  /\ \A s \in Held : With(s) = UNION {{r \in AssignedRows(i) : r.state = s} : i \in indices}
<1>1. shards = UNION {Rows(i) : i \in indices}
  BY DEF shards, Rows
<1>2. Unassigned = UNION {UnassignedRows(i) : i \in indices}
  BY <1>1, RowsAre DEF Unassigned, With, Rows, Held
<1>3. ASSUME NEW s \in Held
      PROVE  With(s) = UNION {{r \in AssignedRows(i) : r.state = s} : i \in indices}
  BY <1>1, RowsAre DEF With, Rows, Held
<1> QED
  BY <1>1, <1>2, <1>3

(* How many rows an index has. *)
LEMMA RowsAreCounted ==
  ASSUME TypeOK, CopiesFit, NEW i \in Index
  PROVE  /\ IsFiniteSet(UnassignedRows(i))
         /\ Cardinality(UnassignedRows(i)) = UnassignedReplicas(i) + Lacking(primary[i])
         /\ IsFiniteSet(AssignedRows(i)) /\ Cardinality(AssignedRows(i)) = Cardinality(Assigned(i))
         /\ IsFiniteSet(Rows(i)) /\ Cardinality(Rows(i)) = 1 + replicas[i]
<1> DEFINE spare == 1 .. UnassignedReplicas(i)
           R == {ReplicaRow(i, k) : k \in spare}
<1>1. /\ IsFiniteSet(Assigned(i)) /\ Cardinality(Assigned(i)) \in Nat
      /\ replicas[i] \in Nat /\ UnassignedReplicas(i) \in Nat
      /\ UnassignedReplicas(i) + Cardinality(Assigned(i)) + Lacking(primary[i]) = 1 + replicas[i]
  BY AssignedCopies
<1>2. IsFiniteSet(R) /\ Cardinality(R) = UnassignedReplicas(i)
  <2> DEFINE f == [k \in spare |-> ReplicaRow(i, k)]
  <2>1. IsFiniteSet(spare) /\ Cardinality(spare) = UnassignedReplicas(i)
    <3> DEFINE u == UnassignedReplicas(i)
    <3>1. u \in Nat
      BY <1>1
    <3> HIDE DEF u
    <3>2. IsFiniteSet(1 .. u) /\ Cardinality(1 .. u) = IF 1 > u THEN 0 ELSE u - 1 + 1
      BY <3>1, FS_Interval
    <3>3. Cardinality(1 .. u) = u
      BY <3>1, <3>2
    <3> QED
      BY <3>2, <3>3 DEF u
  <2>2. \A k, j \in spare : f[k] = f[j] => k = j
    BY DEF ReplicaRow
  <2>3. {f[k] : k \in spare} = R
    OBVIOUS
  <2> HIDE DEF f, spare, R
  <2>4. IsFiniteSet({f[k] : k \in spare}) /\ Cardinality({f[k] : k \in spare}) = Cardinality(spare)
    BY <2>1, <2>2, ImagesAreAsLarge
  <2> QED
    BY <2>1, <2>3, <2>4
<1>3. IsFiniteSet(UnassignedRows(i))
      /\ Cardinality(UnassignedRows(i)) = UnassignedReplicas(i) + Lacking(primary[i])
  <2>1. UnassignedRows(i) = R \cup (IF primary[i] = None THEN {PrimaryRow(i)} ELSE {})
    BY RowsAre
  <2>2. PrimaryRow(i) \notin R
    BY DEF PrimaryRow, ReplicaRow
  <2> HIDE DEF R
  <2>3. CASE primary[i] = None
    <3>1. UnassignedRows(i) = R \cup {PrimaryRow(i)}
      BY <2>1, <2>3
    <3>2. IsFiniteSet(UnassignedRows(i)) /\ Cardinality(UnassignedRows(i)) = Cardinality(R) + 1
      BY <1>2, <2>2, <3>1, FS_AddElement
    <3> QED
      BY <1>2, <2>3, <3>2 DEF Lacking
  <2>4. CASE primary[i] # None
    <3>1. UnassignedRows(i) = R
      BY <2>1, <2>4
    <3>2. Lacking(primary[i]) = 0
      BY <2>4 DEF Lacking
    <3> QED
      BY <1>1, <1>2, <3>1, <3>2
  <2> QED
    BY <2>3, <2>4
<1>4. IsFiniteSet(AssignedRows(i)) /\ Cardinality(AssignedRows(i)) = Cardinality(Assigned(i))
  <2> DEFINE f == [n \in Assigned(i) |-> RowOf(i, n)]
  <2>1. \A n, m \in Assigned(i) : f[n] = f[m] => n = m
    BY DEF RowOf
  <2>2. {f[n] : n \in Assigned(i)} = AssignedRows(i)
    BY RowsAre
  <2> HIDE DEF f
  <2>3. IsFiniteSet({f[n] : n \in Assigned(i)})
        /\ Cardinality({f[n] : n \in Assigned(i)}) = Cardinality(Assigned(i))
    BY <1>1, <2>1, ImagesAreAsLarge
  <2> QED
    BY <2>2, <2>3
<1>5. IsFiniteSet(Rows(i)) /\ Cardinality(Rows(i)) = 1 + replicas[i]
  <2> DEFINE A == AssignedRows(i)
             B == UnassignedRows(i)
  <2>1. A \cap B = {}
    BY RowsAre DEF Held
  <2> HIDE DEF A, B
  <2>2. IsFiniteSet(A) /\ IsFiniteSet(B)
    BY <1>3, <1>4 DEF A, B
  <2>3. IsFiniteSet(A \cup B)
        /\ Cardinality(A \cup B) = Cardinality(A) + Cardinality(B) - Cardinality(A \cap B)
    BY <2>2, FS_Union
  <2>4. Cardinality(A \cap B) = 0
    BY <2>1, FS_EmptySet
  <2>5. Cardinality(A) = Cardinality(Assigned(i))
        /\ Cardinality(B) = UnassignedReplicas(i) + Lacking(primary[i])
    BY <1>3, <1>4 DEF A, B
  <2>6. Lacking(primary[i]) \in Nat
    BY DEF Lacking
  <2>7. Rows(i) = A \cup B
    BY DEF A, B, Rows
  <2>8. Cardinality(A \cup B) = 1 + replicas[i]
    BY <1>1, <2>3, <2>4, <2>5, <2>6
  <2> QED
    BY <2>3, <2>7, <2>8
<1> QED
  BY <1>3, <1>4, <1>5

(* A set of rows with a part for each index is as large as its parts are. *)
LEMMA PartsAddUp ==
  ASSUME TypeOK, NEW F, NEW g,
         \A i \in indices : /\ IsFiniteSet(F[i]) /\ g[i] = Cardinality(F[i])
                            /\ \A r \in F[i] : r.index = i
  PROVE  /\ IsFiniteSet(UNION {F[i] : i \in indices})
         /\ Cardinality(UNION {F[i] : i \in indices}) = SumFunctionOnSet(g, indices)
<1>1. \A i, j \in indices : i # j => F[i] \cap F[j] = {}
  OBVIOUS
<1>2. IsFiniteSet(indices)
  BY SetsAreFinite
<1>3. \A i \in indices : IsFiniteSet(F[i]) /\ g[i] = Cardinality(F[i])
  OBVIOUS
<1> DEFINE S == indices
<1> HIDE DEF S
<1>4. /\ IsFiniteSet(S)
      /\ \A x \in S : IsFiniteSet(F[x]) /\ g[x] = Cardinality(F[x])
      /\ \A x, y \in S : x # y => F[x] \cap F[y] = {}
  BY <1>1, <1>2, <1>3 DEF S
<1>5. /\ IsFiniteSet(UNION {F[x] : x \in S})
      /\ Cardinality(UNION {F[x] : x \in S}) = SumFunctionOnSet(g, S)
  BY ONLY <1>4, UnionsAddUp
<1> QED
  BY <1>5 DEF S

LEMMA UnassignedAre ==
  ASSUME TypeOK, CopiesFit
  PROVE  unassigned_shards
           = SumFunctionOnSet([i \in indices |-> UnassignedReplicas(i) + Lacking(primary[i])], indices)
<1> DEFINE F == [i \in indices |-> UnassignedRows(i)]
           g == [i \in indices |-> UnassignedReplicas(i) + Lacking(primary[i])]
<1>1. \A i \in indices : /\ IsFiniteSet(F[i]) /\ g[i] = Cardinality(F[i])
                         /\ \A r \in F[i] : r.index = i
  BY RowsAre, RowsAreCounted DEF TypeOK
<1>2. Unassigned = UNION {F[i] : i \in indices}
  BY PartsOfTheList
<1> HIDE DEF F, g
<1>3. Cardinality(UNION {F[i] : i \in indices}) = SumFunctionOnSet(g, indices)
  BY <1>1, PartsAddUp
<1> QED
  BY <1>2, <1>3 DEF unassigned_shards, g

(* Both ways of counting the primaries without a node give their number. *)
LEMMA PrimariesAre ==
  ASSUME TypeOK, CopiesFit, NEW hasField \in BOOLEAN
  PROVE  unassigned_primaries(hasField)
           = SumFunctionOnSet([i \in indices |-> Lacking(primary[i])], indices)
<1> DEFINE lost == {i \in indices : primary[i] = None}
           F == [i \in indices |-> IF primary[i] = None THEN {PrimaryRow(i)} ELSE {}]
           g == [i \in indices |-> Lacking(primary[i])]
           f == [i \in lost |-> PrimaryRow(i)]
           rows == {r \in Unassigned : r.prirep = "p"}
<1>1. rows = {f[i] : i \in lost}
  <2>1. \A i : \A r \in UnassignedRows(i) :
           r.prirep = "p" <=> primary[i] = None /\ r = PrimaryRow(i)
    BY RowsAre DEF ReplicaRow, PrimaryRow
  <2>2. \A i : primary[i] = None => PrimaryRow(i) \in UnassignedRows(i)
    BY RowsAre
  <2>3. ASSUME NEW r \in rows PROVE \E i \in lost : r = f[i]
    <3>1. PICK i \in indices : r \in UnassignedRows(i)
      BY PartsOfTheList
    <3> QED
      BY <2>1, <3>1
  <2>4. ASSUME NEW i \in lost PROVE f[i] \in rows
    <3>1. PrimaryRow(i) \in Unassigned
      BY <2>2, PartsOfTheList
    <3> QED
      BY <3>1 DEF PrimaryRow
  <2> QED
    BY <2>3, <2>4
<1>2. rows = UNION {F[i] : i \in indices}
  BY <1>1
<1>3. \A i \in indices : /\ IsFiniteSet(F[i]) /\ g[i] = Cardinality(F[i])
                         /\ \A r \in F[i] : r.index = i
  <2> SUFFICES ASSUME NEW i \in indices
               PROVE  /\ IsFiniteSet(F[i]) /\ g[i] = Cardinality(F[i])
                      /\ \A r \in F[i] : r.index = i
    OBVIOUS
  <2>1. CASE primary[i] = None
    <3>1. F[i] = {PrimaryRow(i)} /\ g[i] = 1
      BY <2>1 DEF Lacking
    <3>2. PrimaryRow(i).index = i
      BY DEF PrimaryRow
    <3> HIDE DEF F, g
    <3>3. IsFiniteSet(F[i]) /\ Cardinality(F[i]) = 1
      BY <3>1, FS_Singleton
    <3> QED
      BY <3>1, <3>2, <3>3
  <2>2. CASE primary[i] # None
    <3>1. F[i] = {} /\ g[i] = 0
      BY <2>2 DEF Lacking
    <3> HIDE DEF F, g
    <3> QED
      BY <3>1, FS_EmptySet
  <2> QED
    BY <2>1, <2>2
<1>4. Cardinality(rows) = SumFunctionOnSet(g, indices)
  <2> HIDE DEF F, g, rows
  <2>1. Cardinality(UNION {F[i] : i \in indices}) = SumFunctionOnSet(g, indices)
    BY <1>3, PartsAddUp
  <2> QED
    BY <1>2, <2>1
<1>5. Cardinality(rows) = Cardinality(lost)
  <2>1. \A i, j \in lost : f[i] = f[j] => i = j
    BY DEF PrimaryRow
  <2>2. IsFiniteSet(lost)
    BY SetsAreFinite, FS_Subset
  <2> HIDE DEF f, lost, rows
  <2>3. Cardinality({f[i] : i \in lost}) = Cardinality(lost)
    BY <2>1, <2>2, ImagesAreAsLarge
  <2> QED
    BY <1>1, <2>3
<1> QED
  BY <1>4, <1>5 DEF unassigned_primaries, unassigned_primary_shards

LEMMA StatusAndListDoAgree ==
  ASSUME TypeOK, CopiesFit
  PROVE  StatusAndListAgree
<1> USE DEF Naming, IfSo
<1>1. indices \subseteq Index
  BY DEF TypeOK
<1>2. ASSUME NEW explain
      PROVE  /\ (\E f \in r_unassigned_reason(explain) :
                     f.id = "CLU-002" /\ f.severity = "CRITICAL")
                   <=> \E i \in indices : primary[i] = None
             /\ Unassigned # {} => \E f \in r_unassigned_reason(explain) : f.id = "CLU-002"
  <2>1. (\E r \in Unassigned : r.prirep = "p") <=> \E i \in indices : primary[i] = None
    <3>1. \A i : \A r \in UnassignedRows(i) : r.prirep = "p" => primary[i] = None
      BY RowsAre DEF ReplicaRow
    <3>2. \A i : primary[i] = None =>
             PrimaryRow(i) \in UnassignedRows(i) /\ PrimaryRow(i).prirep = "p"
      BY RowsAre DEF PrimaryRow
    <3> QED
      BY <3>1, <3>2, PartsOfTheList
  <2> DEFINE critical == \E r \in Unassigned : r.prirep = "p"
             reason == [id |-> "CLU-002", affected |-> {},
                        severity |-> IF critical THEN "CRITICAL" ELSE "WARNING"]
             told == {[id |-> "CLU-003", affected |-> {},
                       severity |-> IF e.can_allocate # "yes" THEN "WARNING" ELSE "INFO"] :
                         e \in explain}
  <2>2. r_unassigned_reason(explain) = (IF Unassigned # {} THEN {reason} ELSE {}) \cup told
    BY DEF r_unassigned_reason
  <2>3. reason.id = "CLU-002" /\ (reason.severity = "CRITICAL" <=> critical)
    OBVIOUS
  <2>4. critical => Unassigned # {}
    OBVIOUS
  <2>5. \A f \in told : f.id # "CLU-002"
    OBVIOUS
  <2> HIDE DEF reason, critical, told
  <2>6. (\E f \in r_unassigned_reason(explain) : f.id = "CLU-002" /\ f.severity = "CRITICAL")
          <=> critical
    BY <2>2, <2>3, <2>4, <2>5
  <2>7. Unassigned # {} => \E f \in r_unassigned_reason(explain) : f.id = "CLU-002"
    BY <2>2, <2>3
  <2> QED
    BY <2>1, <2>6, <2>7 DEF critical
<1>3. \A f \in r_cluster_status(health_status) :
         f.severity = "CRITICAL" => health_status = "red"
  BY DEF r_cluster_status
<1>4. health_status = "red" => \E i \in indices : IndexStatus(i) = "red"
  BY DEF health_status, Worst
<1>5. ASSUME NEW i \in indices, IndexStatus(i) = "red", NEW explain
      PROVE  (\E f \in r_unassigned_reason(explain) :
                  f.id = "CLU-002" /\ f.severity = "CRITICAL")
                \/ r_recovery_inflight # {}
  <2>1. CASE primary[i] = None
    BY <1>2, <2>1
  <2>2. CASE primary[i] # None
    <3>1. ~(primary[i] # None /\ copies[i][primary[i]] \in Active)
      BY <1>5 DEF IndexStatus
    <3>2. copies[i][primary[i]] = "init" /\ primary[i] \in Node
      BY <1>1, <2>2, <3>1 DEF CopiesFit, TypeOK, Held, Active
    <3>3. RowOf(i, primary[i]) \in AssignedRows(i) /\ RowOf(i, primary[i]).state = "init"
      BY <3>2, RowsAre DEF Assigned, RowOf, Held
    <3>4. With("init") # {}
      BY <3>3, PartsOfTheList DEF Held
    <3> QED
      BY <3>4 DEF r_recovery_inflight
  <2> QED
    BY <2>1, <2>2
<1>6. ASSUME NEW before \in {"green", "yellow", "red"}, NEW f \in r_status_change(before),
             f.severity # "INFO"
      PROVE  \E e \in r_cluster_status(health_status) :
                e.id = "CLU-001" /\ e.severity = f.severity
  <2>1. health_status \in {"green", "yellow", "red"}
    BY DEF health_status, Worst
  <2>2. order(health_status) > order(before)
        /\ f.severity = IF health_status = "red" THEN "CRITICAL" ELSE "WARNING"
    BY <1>6, <2>1 DEF r_status_change
  <2>3. health_status # "green"
    BY <2>2 DEF order
  <2> QED
    BY <2>1, <2>2, <2>3 DEF r_cluster_status
<1>a. health_status = "green" => \A i \in indices : UnassignedReplicas(i) = 0 /\ primary[i] # None
  <2> SUFFICES ASSUME health_status = "green"
               PROVE  \A i \in indices : UnassignedReplicas(i) = 0 /\ primary[i] # None
    OBVIOUS
  <2>2. \A i \in indices : IndexStatus(i) \notin {"red", "yellow"}
    BY DEF health_status, Worst
  <2> QED
    BY <2>2 DEF IndexStatus
<1>b. (\A i \in indices : UnassignedReplicas(i) = 0 /\ primary[i] # None)
        <=> Unassigned = {}
  <2>1. ASSUME \A i \in indices : UnassignedReplicas(i) = 0 /\ primary[i] # None
        PROVE  Unassigned = {}
    <3>1. 1 .. 0 = {}
      OBVIOUS
    <3>2. \A i \in indices : UnassignedRows(i) = {}
      BY <2>1, <3>1, RowsAre
    <3> QED
      BY <3>2, PartsOfTheList
  <2>2. ASSUME Unassigned = {}
        PROVE  \A i \in indices : UnassignedReplicas(i) = 0 /\ primary[i] # None
    <3> SUFFICES ASSUME NEW i \in indices
                 PROVE  UnassignedReplicas(i) = 0 /\ primary[i] # None
      OBVIOUS
    <3>1. UnassignedRows(i) = {}
      BY <2>2, PartsOfTheList
    <3>2. UnassignedReplicas(i) \in Nat
      BY <1>1, AssignedCopies
    <3>3. ~(1 \in 1 .. UnassignedReplicas(i)) /\ primary[i] # None
      BY <3>1, RowsAre
    <3> QED
      BY <3>2, <3>3
  <2> QED
    BY <2>1, <2>2
<1>7. ASSUME NEW explain \in Explanations
      PROVE  /\ explain # {} => Unassigned # {}
             /\ health_status = "green" => r_unassigned_reason(explain) = {}
  <2>1. explain # {} => Unassigned # {}
    <3> SUFFICES ASSUME explain # {}, Unassigned = {} PROVE FALSE
      OBVIOUS
    <3>1. \A i \in indices : UnassignedReplicas(i) = 0 /\ primary[i] # None
      BY <1>b
    <3>2. {j \in indices : primary[j] = None} = {} /\ {j \in indices : UnassignedReplicas(j) > 0} = {}
      BY <3>1
    <3> QED
      BY <3>2, Zenon DEF Explanations
  <2>2. explain = {} /\ Unassigned = {} => r_unassigned_reason(explain) = {}
    BY DEF r_unassigned_reason
  <2> QED
    BY <1>a, <1>b, <2>1, <2>2
<1>9. \A given \in {health_status, None} :
         (\E f \in r_cluster_status(given) : f.severity = "OK") => health_status = "green"
  BY DEF r_cluster_status, None
<1>10. ASSUME NEW explain \in Explanations,
              \E f \in r_unassigned_reason(explain) : f.id = "CLU-003"
       PROVE  \E f \in r_unassigned_reason(explain) : f.id = "CLU-002"
  <2>1. explain # {}
    BY <1>10 DEF r_unassigned_reason
  <2> QED
    BY <1>2, <1>7, <2>1
<1>8. ASSUME NEW hasField \in BOOLEAN
      PROVE  unassigned_shards - unassigned_primaries(hasField)
               = SumFunction([i \in indices |-> UnassignedReplicas(i)])
  <2> DEFINE f == [i \in indices |-> UnassignedReplicas(i)]
             g == [i \in indices |-> Lacking(primary[i])]
             h == [i \in indices |-> UnassignedReplicas(i) + Lacking(primary[i])]
  <2>1. \A i \in indices : f[i] \in Int /\ g[i] \in Int /\ h[i] = f[i] + g[i]
    BY <1>1, AssignedCopies DEF Lacking
  <2>2. SumFunction(f) = SumFunctionOnSet(f, indices)
    BY DEF SumFunction
  <2>3. unassigned_shards = SumFunctionOnSet(h, indices)
        /\ unassigned_primaries(hasField) = SumFunctionOnSet(g, indices)
    BY UnassignedAre, PrimariesAre
  <2>4. IsFiniteSet(indices)
    BY SetsAreFinite
  <2> HIDE DEF f, g, h
  <2>5. SumFunctionOnSet(h, indices) = SumFunctionOnSet(f, indices) + SumFunctionOnSet(g, indices)
    BY <2>1, <2>4, SumsAdd
  <2>6. SumFunctionOnSet(f, indices) \in Int /\ SumFunctionOnSet(g, indices) \in Int
    BY <2>1, <2>4, SumIsInt
  <2>7. unassigned_shards - unassigned_primaries(hasField) = SumFunction(f)
    BY <2>2, <2>3, <2>5, <2>6
  <2> QED
    BY <2>7 DEF f
<1> HIDE DEF Naming, IfSo
<1> QED
  BY <1>2, <1>3, <1>4, <1>5, <1>6, <1>7, <1>8, <1>9, <1>10 DEF StatusAndListAgree

(* The copies of an index that are active, and those being recovered. *)
ActiveRows(i) == {r \in AssignedRows(i) : r.state \in Active}
InitRows(i) == {r \in AssignedRows(i) : r.state = "init"}

LEMMA ActiveAndInit ==
  ASSUME TypeOK, CopiesFit, NEW i \in Index
  PROVE  /\ IsFiniteSet(ActiveRows(i)) /\ Cardinality(ActiveRows(i)) \in Nat
         /\ IsFiniteSet(InitRows(i)) /\ Cardinality(InitRows(i)) \in Nat
         /\ Cardinality(ActiveRows(i)) + Cardinality(InitRows(i))
              + Cardinality(UnassignedRows(i)) = 1 + replicas[i]
         /\ Cardinality(UnassignedRows(i)) \in Nat
<1> DEFINE A == ActiveRows(i)
           B == InitRows(i)
           C == UnassignedRows(i)
<1>1. A \cup B = AssignedRows(i) /\ A \cap B = {}
  <2>1. \A r \in AssignedRows(i) : r.state \in Active \/ r.state = "init"
    BY RowsAre DEF Held, Active
  <2>2. "init" \notin Active
    BY DEF Active
  <2> QED
    BY <2>1, <2>2 DEF ActiveRows, InitRows
<1>2. /\ IsFiniteSet(AssignedRows(i)) /\ IsFiniteSet(C)
      /\ Cardinality(AssignedRows(i)) + Cardinality(C) = 1 + replicas[i]
  <2>1. /\ IsFiniteSet(AssignedRows(i)) /\ Cardinality(AssignedRows(i)) = Cardinality(Assigned(i))
        /\ IsFiniteSet(C) /\ Cardinality(C) = UnassignedReplicas(i) + Lacking(primary[i])
    BY RowsAreCounted
  <2>2. /\ Cardinality(Assigned(i)) \in Nat /\ replicas[i] \in Nat /\ UnassignedReplicas(i) \in Nat
        /\ UnassignedReplicas(i) + Cardinality(Assigned(i)) + Lacking(primary[i]) = 1 + replicas[i]
    BY AssignedCopies
  <2>3. Lacking(primary[i]) \in Nat
    BY DEF Lacking
  <2> HIDE DEF C
  <2> QED
    BY <2>1, <2>2, <2>3
<1>3. A \subseteq AssignedRows(i) /\ B \subseteq AssignedRows(i)
  BY DEF ActiveRows, InitRows
<1> HIDE DEF A, B, C
<1>4. IsFiniteSet(A) /\ IsFiniteSet(B)
  BY <1>2, <1>3, FS_Subset
<1>5. Cardinality(A \cup B) = Cardinality(A) + Cardinality(B) - Cardinality(A \cap B)
  BY <1>4, FS_Union
<1>6. Cardinality(A \cap B) = 0
  BY <1>1, FS_EmptySet
<1>7. Cardinality(A) \in Nat /\ Cardinality(B) \in Nat /\ Cardinality(C) \in Nat
  BY <1>2, <1>4, FS_CardinalityType
<1>8. Cardinality(A) + Cardinality(B) + Cardinality(C) = 1 + replicas[i]
  <2>1. Cardinality(AssignedRows(i)) = Cardinality(A) + Cardinality(B)
    BY <1>1, <1>5, <1>6, <1>7
  <2> QED
    BY <1>2, <2>1
<1> QED
  BY <1>4, <1>7, <1>8 DEF A, B, C

(* Counted, from the sums over the indices: what is on partial mounts and  *)
(* what is closed is taken off, what is being recovered is not counted.    *)
LEMMA CapacityAddsUp ==
  ASSUME TypeOK, CopiesFit
  PROVE  CapacityIsNeverOverstated
<1> DEFINE size == [i \in indices |-> 1 + replicas[i]]
           act  == [i \in indices |-> Cardinality(ActiveRows(i))]
           una  == [i \in indices |-> Cardinality(UnassignedRows(i))]
           par  == [i \in indices |-> IF world.indices[i].partial THEN 1 + replicas[i] ELSE 0]
           clo  == [i \in indices |-> IF i \in closed THEN 1 + replicas[i] ELSE 0]
           cnt  == [i \in indices |-> IF i \in closed \/ world.indices[i].partial
                                      THEN 0 ELSE 1 + replicas[i]]
           seen  == [i \in indices |-> act[i] + una[i]]
           taken == [i \in indices |-> par[i] + clo[i]]
           most  == [i \in indices |-> cnt[i] + taken[i]]
           T(f)  == SumFunctionOnSet(f, indices)
           partials == {r \in shards : world.indices[r.index].partial}
<1>1. IsFiniteSet(indices) /\ indices \subseteq Index /\ closed \subseteq indices
  BY SetsAreFinite DEF TypeOK
<1>2. \A i \in indices : replicas[i] \in Nat
  BY <1>1, AssignedCopies
<1>3. active_shards = T(act)
  <2> DEFINE F == [i \in indices |-> ActiveRows(i)]
  <2>1. \A i \in indices : /\ IsFiniteSet(F[i]) /\ act[i] = Cardinality(F[i])
                           /\ \A r \in F[i] : r.index = i
    BY <1>1, ActiveAndInit, RowsAre DEF ActiveRows
  <2>2. With("started") \cup With("moving") = UNION {F[i] : i \in indices}
    <3>1. /\ With("started") = UNION {{r \in AssignedRows(i) : r.state = "started"} : i \in indices}
          /\ With("moving") = UNION {{r \in AssignedRows(i) : r.state = "moving"} : i \in indices}
      BY PartsOfTheList DEF Held
    <3> QED
      BY <3>1 DEF ActiveRows, Active
  <2> HIDE DEF F, act
  <2>3. Cardinality(UNION {F[i] : i \in indices}) = SumFunctionOnSet(act, indices)
    BY <2>1, PartsAddUp
  <2> QED
    BY <2>2, <2>3 DEF active_shards
<1>4. unassigned_shards = T(una)
  <2> DEFINE F == [i \in indices |-> UnassignedRows(i)]
  <2>1. \A i \in indices : /\ IsFiniteSet(F[i]) /\ una[i] = Cardinality(F[i])
                           /\ \A r \in F[i] : r.index = i
    BY <1>1, RowsAreCounted, RowsAre
  <2>2. Unassigned = UNION {F[i] : i \in indices}
    BY PartsOfTheList
  <2> HIDE DEF F, una
  <2>3. Cardinality(UNION {F[i] : i \in indices}) = SumFunctionOnSet(una, indices)
    BY <2>1, PartsAddUp
  <2> QED
    BY <2>2, <2>3 DEF unassigned_shards
<1>5. Cardinality(partials) = T(par)
  <2> DEFINE F == [i \in indices |-> IF world.indices[i].partial THEN Rows(i) ELSE {}]
  <2>0. \A i : \A r \in Rows(i) : r.index = i
    BY RowsAre DEF Rows
  <2>1. \A i \in indices : /\ IsFiniteSet(F[i]) /\ par[i] = Cardinality(F[i])
                           /\ \A r \in F[i] : r.index = i
    BY <1>1, <2>0, RowsAreCounted, FS_EmptySet
  <2>2. partials = UNION {F[i] : i \in indices}
    <3>1. shards = UNION {Rows(i) : i \in indices}
      BY PartsOfTheList
    <3>2. ASSUME NEW r \in partials PROVE \E i \in indices : r \in F[i]
      BY <2>0, <3>1
    <3>3. ASSUME NEW i \in indices, NEW r \in F[i] PROVE r \in partials
      <4>1. world.indices[i].partial /\ r \in Rows(i)
        OBVIOUS
      <4> QED
        BY <2>0, <3>1, <4>1
    <3> QED
      BY <3>2, <3>3
  <2> HIDE DEF F, par, partials
  <2>3. Cardinality(UNION {F[i] : i \in indices}) = SumFunctionOnSet(par, indices)
    BY <2>1, PartsAddUp
  <2> QED
    BY <2>2, <2>3
<1>6. closed_shards = T(clo)
  <2> DEFINE f == [i \in closed |-> 1 + replicas[i]]
  <2>1. closed_shards = SumFunctionOnSet(f, closed)
    BY DEF closed_shards, SumFunction
  <2>2. \A i \in indices : clo[i] \in Int /\ clo[i] = IF i \in closed THEN f[i] ELSE 0
    BY <1>2
  <2> HIDE DEF f, clo
  <2> QED
    BY <1>1, <2>1, <2>2, SumOfPart
<1>7. Counted = T(cnt)
  <2> DEFINE R == {j \in indices \ closed : ~world.indices[j].partial}
             f == [i \in R |-> 1 + replicas[i]]
  <2>1. Counted = SumFunctionOnSet(f, R)
    BY DEF Counted, SumFunction
  <2>2. \A i \in indices : cnt[i] \in Int /\ cnt[i] = IF i \in R THEN f[i] ELSE 0
    BY <1>2
  <2>3. R \subseteq indices
    OBVIOUS
  <2> HIDE DEF f, cnt, R
  <2> QED
    BY <1>1, <2>1, <2>2, <2>3, SumOfPart
<1>8. \A i \in indices :
         /\ act[i] \in Int /\ una[i] \in Int /\ par[i] \in Int /\ clo[i] \in Int
         /\ cnt[i] \in Nat /\ seen[i] = act[i] + una[i] /\ taken[i] = par[i] + clo[i]
         /\ most[i] = cnt[i] + taken[i]
  BY <1>1, <1>2, ActiveAndInit
<1>9. \A i \in indices : seen[i] <= most[i]
  <2> SUFFICES ASSUME NEW i \in indices PROVE seen[i] <= most[i]
    OBVIOUS
  <2>1. /\ act[i] + Cardinality(InitRows(i)) + una[i] = 1 + replicas[i]
        /\ Cardinality(InitRows(i)) \in Nat /\ act[i] \in Nat /\ una[i] \in Nat
    BY <1>1, ActiveAndInit
  <2>2. most[i] >= 1 + replicas[i]
    BY <1>2
  <2> QED
    BY <1>2, <1>8, <2>1, <2>2
<1>10. ASSUME With("init") = {}, \A i \in closed : ~world.indices[i].partial
       PROVE  \A i \in indices : seen[i] = most[i]
  <2> SUFFICES ASSUME NEW i \in indices PROVE seen[i] = most[i]
    OBVIOUS
  <2>1. /\ act[i] + Cardinality(InitRows(i)) + una[i] = 1 + replicas[i]
        /\ act[i] \in Nat /\ una[i] \in Nat
    BY <1>1, ActiveAndInit
  <2>2. InitRows(i) = {}
    BY <1>10, PartsOfTheList DEF InitRows, Held
  <2>3. Cardinality(InitRows(i)) = 0
    BY <2>2, FS_EmptySet
  <2>4. most[i] = 1 + replicas[i]
    BY <1>2, <1>10
  <2> QED
    BY <1>2, <1>8, <2>1, <2>3, <2>4
<1> DEFINE open == active_shards + unassigned_shards - Cardinality(partials) - closed_shards
<1>11. open_shards = Max({0, open})
  BY DEF open_shards
<1> HIDE DEF size, act, una, par, clo, cnt, seen, taken, most
<1>12. /\ T(seen) = T(act) + T(una) /\ T(taken) = T(par) + T(clo) /\ T(most) = T(cnt) + T(taken)
       /\ T(act) \in Int /\ T(una) \in Int /\ T(par) \in Int /\ T(clo) \in Int
  <2>1. T(seen) = T(act) + T(una)
    BY <1>1, <1>8, SumsAdd
  <2>2. T(taken) = T(par) + T(clo)
    BY <1>1, <1>8, SumsAdd
  <2>3. \A i \in indices : cnt[i] \in Int /\ taken[i] \in Int /\ most[i] = cnt[i] + taken[i]
    BY <1>8
  <2>4. T(most) = T(cnt) + T(taken)
    BY <1>1, <2>3, SumsAdd
  <2> QED
    BY <1>1, <1>8, <2>1, <2>2, <2>4, SumIsInt
<1>13. T(cnt) \in Nat /\ T(seen) <= T(most)
  <2>1. T(cnt) \in Nat
    BY <1>1, <1>8, SumIsNat
  <2>2. \A i \in indices : seen[i] \in Int /\ most[i] \in Int /\ seen[i] <= most[i]
    BY <1>8, <1>9
  <2> QED
    BY <1>1, <2>1, <2>2, SumsGrow
<1>14. ASSUME With("init") = {}, \A i \in closed : ~world.indices[i].partial
       PROVE  T(seen) = T(most)
  <2>1. \A i \in indices : seen[i] \in Int /\ seen[i] = most[i]
    BY <1>8, <1>10, <1>14
  <2> QED
    BY <1>1, <2>1, SumsAgree
<1>15. open = T(seen) - T(taken)
  BY <1>3, <1>4, <1>5, <1>6, <1>12
<1> HIDE DEF T, open, partials
<1>16. open \in Int /\ open <= T(cnt) /\ (T(seen) = T(most) => open = T(cnt))
  BY <1>12, <1>13, <1>15
<1>17. open_shards = IF 0 >= open THEN 0 ELSE open
  BY <1>11, <1>16, GreaterOfTwo
<1> QED
  BY <1>7, <1>13, <1>14, <1>16, <1>17 DEF CapacityIsNeverOverstated

(* Rows that name their node.  Those of a node are as many as indices that *)
(* have a copy there, and the rows of all nodes are all rows.              *)
LEMMA CountsAre ==
  ASSUME TypeOK, NEW x \in Node
  PROVE  Count(x) = Cardinality(Bears(x))
<1> DEFINE B == Bears(x)
           f == [i \in B |-> RowOf(i, x)]
           rows == {r \in shards : r.node = x}
<1>1. B = {i \in indices : x \in Assigned(i)}
  BY DEF Bears, Assigned
<1>2. x # None
  BY TheWorld DEF TypeOK
<1>3. rows = {f[i] : i \in B}
  <2>1. ASSUME NEW r \in rows PROVE \E i \in B : r = f[i]
    <3>1. PICK i \in indices : r \in Rows(i)
      BY PartsOfTheList
    <3>2. r \notin UnassignedRows(i)
      BY <1>2, RowsAre DEF ReplicaRow, PrimaryRow
    <3>3. PICK n \in Assigned(i) : r = RowOf(i, n)
      BY <3>1, <3>2, RowsAre DEF Rows
    <3>4. n = x
      BY <3>3 DEF RowOf
    <3> QED
      BY <1>1, <3>3, <3>4
  <2>2. ASSUME NEW i \in B PROVE f[i] \in rows
    <3>1. RowOf(i, x) \in shards
      BY <1>1, RowsAre, PartsOfTheList DEF Rows
    <3> QED
      BY <3>1 DEF RowOf
  <2> QED
    BY <2>1, <2>2
<1>4. Cardinality({f[i] : i \in B}) = Cardinality(B)
  <2>1. \A i, j \in B : f[i] = f[j] => i = j
    BY DEF RowOf
  <2>2. IsFiniteSet(B)
    BY <1>1, SetsAreFinite, FS_Subset
  <2> HIDE DEF f, B
  <2> QED
    BY <2>1, <2>2, ImagesAreAsLarge
<1>5. Count(x) = Cardinality(rows)
  BY DEF Count
<1> QED
  BY <1>3, <1>4, <1>5

LEMMA RowsByNode ==
  ASSUME NEW R, IsFiniteSet(R), IsFiniteSet(up), \A r \in R : r.node \in up, NEW g,
         \A n \in up : g[n] = Cardinality({r \in R : r.node = n})
  PROVE  SumFunctionOnSet(g, up) = Cardinality(R)
<1> DEFINE F == [n \in up |-> {r \in R : r.node = n}]
           S == up
<1>1. \A n \in S : IsFiniteSet(F[n]) /\ g[n] = Cardinality(F[n])
  BY FS_Subset
<1>2. \A n, m \in S : n # m => F[n] \cap F[m] = {}
  OBVIOUS
<1>3. UNION {F[n] : n \in S} = R
  <2>1. \A r \in R : r \in F[r.node]
    OBVIOUS
  <2> QED
    BY <2>1
<1> HIDE DEF F
<1>4. IsFiniteSet(S)
  OBVIOUS
<1> HIDE DEF S
<1>5. Cardinality(UNION {F[n] : n \in S}) = SumFunctionOnSet(g, S)
  BY ONLY <1>1, <1>2, <1>4, UnionsAddUp
<1> QED
  BY <1>3, <1>5 DEF S

(* The rows with a node are those of health: started, moving and init. *)
LEMMA AssignedAre ==
  ASSUME TypeOK, CopiesFit
  PROVE  /\ IsFiniteSet(UNION {AssignedRows(i) : i \in indices})
         /\ Cardinality(UNION {AssignedRows(i) : i \in indices})
              = active_shards + initializing_shards
         /\ \A r \in UNION {AssignedRows(i) : i \in indices} : r.node \in up
         /\ UNION {AssignedRows(i) : i \in indices}
              = With("started") \cup With("moving") \cup With("init")
<1> DEFINE A == UNION {AssignedRows(i) : i \in indices}
           B == With("started") \cup With("moving")
           C == With("init")
<1>1. A = B \cup C
  <2>1. /\ With("started") = UNION {{r \in AssignedRows(i) : r.state = "started"} : i \in indices}
        /\ With("moving") = UNION {{r \in AssignedRows(i) : r.state = "moving"} : i \in indices}
        /\ With("init") = UNION {{r \in AssignedRows(i) : r.state = "init"} : i \in indices}
    BY PartsOfTheList DEF Held
  <2>2. \A i : \A r \in AssignedRows(i) : r.state \in {"init", "started", "moving"}
    BY RowsAre DEF Held
  <2> QED
    BY <2>1, <2>2
<1>2. B \cap C = {}
  BY DEF With
<1>3. IsFiniteSet(A)
  <2> DEFINE F == [i \in indices |-> AssignedRows(i)]
             g == [i \in indices |-> Cardinality(Assigned(i))]
  <2>1. \A i \in indices : /\ IsFiniteSet(F[i]) /\ g[i] = Cardinality(F[i])
                            /\ \A r \in F[i] : r.index = i
    BY RowsAre, RowsAreCounted DEF TypeOK
  <2>2. A = UNION {F[i] : i \in indices}
    OBVIOUS
  <2> HIDE DEF F, g, A
  <2>3. IsFiniteSet(UNION {F[i] : i \in indices})
    BY <2>1, PartsAddUp
  <2> QED
    BY <2>2, <2>3
<1>4. ASSUME NEW r \in A PROVE r.node \in up
  <2>1. PICK i \in indices : r \in AssignedRows(i)
    OBVIOUS
  <2>2. PICK n \in Assigned(i) : r = RowOf(i, n)
    BY <2>1, RowsAre
  <2>3. i \in Index /\ n \in Node /\ copies[i][n] # None
    BY <2>2 DEF TypeOK, Assigned, Held, None
  <2>4. n \in up
    BY <2>3 DEF CopiesFit, data_nodes
  <2> QED
    BY <2>2, <2>4 DEF RowOf
<1> HIDE DEF A, B, C
<1>5. IsFiniteSet(B) /\ IsFiniteSet(C)
  BY <1>1, <1>3, FS_Subset
<1>6. Cardinality(A) = Cardinality(B) + Cardinality(C)
  <2>1. Cardinality(B \cup C) = Cardinality(B) + Cardinality(C) - Cardinality(B \cap C)
    BY <1>5, FS_Union
  <2>2. Cardinality(B \cap C) = 0
    BY <1>2, FS_EmptySet
  <2>3. Cardinality(B) \in Nat /\ Cardinality(C) \in Nat
    BY <1>5, FS_CardinalityType
  <2> QED
    BY <1>1, <2>1, <2>2, <2>3
<1>7. active_shards = Cardinality(B) /\ initializing_shards = Cardinality(C)
  BY DEF active_shards, initializing_shards, B, C
<1>8. A = UNION {AssignedRows(i) : i \in indices}
      /\ B = With("started") \cup With("moving") /\ C = With("init")
  BY DEF A, B, C
<1> QED
  BY <1>1, <1>3, <1>4, <1>6, <1>7, <1>8

LEMMA NodesAddUp ==
  ASSUME TypeOK, CopiesFit
  PROVE  ShardsAreCountedOnce
<1> DEFINE A == UNION {AssignedRows(i) : i \in indices}
           W == {r \in With("started") : world.indices[r.index].stream}
           g == [n \in up |-> Count(n)]
           h == [n \in up |-> Writing(n)]
<1>1. IsFiniteSet(up) /\ up \subseteq Node
  BY SetsAreFinite DEF TypeOK
<1>2. /\ IsFiniteSet(A) /\ Cardinality(A) = active_shards + initializing_shards
      /\ \A r \in A : r.node \in up
      /\ With("started") \subseteq A
  BY AssignedAre
<1>3. \A n \in up : Count(n) = Cardinality({r \in A : r.node = n})
  <2> SUFFICES ASSUME NEW n \in up PROVE {r \in shards : r.node = n} = {r \in A : r.node = n}
    BY DEF Count
  <2>1. n # None
    BY <1>1, TheWorld DEF TypeOK
  <2>2. \A i : \A r \in UnassignedRows(i) : r.node = None
    BY RowsAre DEF ReplicaRow, PrimaryRow
  <2> QED
    BY <2>1, <2>2, PartsOfTheList DEF Rows
<1>4. \A n \in up : Writing(n) = Cardinality({r \in W : r.node = n})
  <2> SUFFICES ASSUME NEW n \in up
               PROVE  {r \in With("started") : world.indices[r.index].stream /\ r.node = n}
                        = {r \in W : r.node = n}
    BY DEF Writing
  <2> QED
    OBVIOUS
<1>5. W \subseteq A
  BY <1>2
<1> HIDE DEF A, W
<1>6. IsFiniteSet(W) /\ \A r \in W : r.node \in up
  BY <1>2, <1>5, FS_Subset
<1>7. \A n \in up : g[n] = Cardinality({r \in A : r.node = n})
  BY <1>3
<1>8. \A n \in up : h[n] = Cardinality({r \in W : r.node = n})
  BY <1>4
<1>9. SumFunction(g) = SumFunctionOnSet(g, up) /\ SumFunction(h) = SumFunctionOnSet(h, up)
  BY DEF SumFunction
<1> HIDE DEF g, h
<1>10. SumFunction(g) = active_shards + initializing_shards
  BY <1>1, <1>2, <1>7, <1>9, RowsByNode
<1>11. SumFunction(h) = Cardinality(W)
  BY <1>1, <1>6, <1>8, <1>9, RowsByNode
<1> QED
  BY <1>10, <1>11, CountsAre DEF g, h, W, ShardsAreCountedOnce

(* Health, the list of shards and the list of indices are consistent in    *)
(* what is told from them: a red cluster has its primary, the number of    *)
(* replicas without a node is right in every version, CLU-015 counts no    *)
(* shard that does not count, and each node's shards are counted once,     *)
(* also those that move.                                                   *)
THEOREM AccountsAgreeThm == Spec => []AccountsAgree
<1>1. IInv => AccountsAgree
  BY StatusAndListDoAgree, CapacityAddsUp, NodesAddUp DEF IInv, AccountsAgree
<1> QED
  BY <1>1, ClusterInvariant, PTL
=============================================================================
