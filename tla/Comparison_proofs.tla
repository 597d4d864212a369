-------------------------- MODULE Comparison_proofs --------------------------
(***************************************************************************)
(* What the counter rules of diff.py conclude is true, for every number of *)
(* nodes and counters and every value of the slack that is not smaller     *)
(* than the time a collection takes (SlackAssumption).  Every theorem      *)
(* follows from the inductive invariant of ClusterHistory: the linear      *)
(* arithmetic of the two uptimes, the two dates and the lag between a date *)
(* and its stats call.                                                     *)
(***************************************************************************)
EXTENDS Throughput, SetTheorems, TLAPS

LEMMA ZeroType == Zero \in [Counter -> Nat]
  BY DEF Zero

(* Counters stay counters, and the counters of the other nodes stay as     *)
(* they are.                                                               *)
LEMMA CountsType ==
  ASSUME TypeOK, NEW n \in Node, NEW by \in [Counter -> Nat], Counts(n, by)
  PROVE  /\ count' \in [Node -> [Counter -> Nat]]
         /\ since' \in [Node -> [Counter -> Nat]]
         /\ \A m \in Node, k \in Counter :
              /\ count'[m][k] = IF m = n THEN count[m][k] + by[k] ELSE count[m][k]
              /\ since'[m][k] = IF m = n THEN since[m][k] + by[k] ELSE since[m][k]
<1>1. count \in [Node -> [Counter -> Nat]] /\ since \in [Node -> [Counter -> Nat]]
  BY DEF TypeOK
<1>2. /\ [k \in Counter |-> count[n][k] + by[k]] \in [Counter -> Nat]
      /\ [k \in Counter |-> since[n][k] + by[k]] \in [Counter -> Nat]
  BY <1>1
<1> QED
  BY <1>1, <1>2 DEF Counts

(* Every variable keeps its type: in particular no counter and no uptime   *)
(* ever becomes negative.                                                  *)
LEMMA TypeStep == TypeOK /\ [Next]_vars => TypeOK'
<1> SUFFICES ASSUME TypeOK, [Next]_vars
             PROVE  TypeOK'
  OBVIOUS
<1> USE HistoryAssumption, ZeroType DEF TypeOK
<1>1. CASE Tick
  <2>1. now' = now + 1 /\ UNCHANGED <<member, started, count, phase, base, cur, since, bounced>>
    BY <1>1 DEF Tick, collector
  <2>2. now' \in Nat
    BY <2>1
  <2> QED
    BY <2>1, <2>2
<1>2. ASSUME NEW n \in Node, NEW k \in Pool \cup Breaker \cup Work, Event(n, k)
      PROVE  TypeOK'
  <2>1. [Zero EXCEPT ![k] = 1] \in [Counter -> Nat]
    OBVIOUS
  <2>2. Counts(n, [Zero EXCEPT ![k] = 1])
    BY <1>2 DEF Event
  <2>3. UNCHANGED <<now, member, started, phase, base, cur, bounced>>
    BY <1>2 DEF Event, collector
  <2> QED
    BY <2>1, <2>2, <2>3, CountsType
<1>3. ASSUME NEW n \in Node, NEW d \in GcDuration, OldGc(n, d)
      PROVE  TypeOK'
  <2>1. [Zero EXCEPT ![GcCount] = 1, ![GcTime] = d] \in [Counter -> Nat]
    OBVIOUS
  <2>2. Counts(n, [Zero EXCEPT ![GcCount] = 1, ![GcTime] = d])
    BY <1>3 DEF OldGc
  <2>3. UNCHANGED <<now, member, started, phase, base, cur, bounced>>
    BY <1>3 DEF OldGc, collector
  <2> QED
    BY <2>1, <2>2, <2>3, CountsType
<1>4. ASSUME NEW n \in Node, StopNode(n)
      PROVE  TypeOK'
  BY <1>4 DEF StopNode, collector
<1>5. ASSUME NEW n \in Node, StartNode(n)
      PROVE  TypeOK'
  BY <1>5 DEF StartNode, collector
<1>6. ASSUME NEW dated \in BOOLEAN, NEW infos \in {member, {}}, OpenBase(dated, infos)
      PROVE  TypeOK'
  BY <1>6 DEF Phases, OpenBase, Opened, EmptyBundle, Bundle, cluster
<1>7. ASSUME NEW dated \in BOOLEAN, NEW infos \in {member, {}}, OpenCur(dated, infos)
      PROVE  TypeOK'
  BY <1>7 DEF Phases, OpenCur, Opened, EmptyBundle, Bundle, cluster
<1>8. ASSUME NEW who \in SUBSET Node, NEW b \in Bundle, who \subseteq CanAnswer
      PROVE  Filled(b, who) \in Bundle
  <2>1. \A n \in who : started[n] \in Nat /\ now - started[n] \in Nat
    BY <1>8 DEF CanAnswer
  <2>2. [n \in Node |-> IF n \in who THEN now - started[n] ELSE 0] \in [Node -> Nat]
    BY <2>1
  <2> QED
    BY <2>1, <2>2 DEF Filled, Bundle
<1>9. ASSUME NEW who \in SUBSET Node, ReadBase(who)
      PROVE  TypeOK'
  BY <1>8, <1>9 DEF Phases, ReadBase, cluster
<1>10. ASSUME NEW who \in SUBSET Node, ReadCur(who)
       PROVE  TypeOK'
  BY <1>8, <1>10 DEF Phases, ReadCur, cluster
<1>11. CASE UNCHANGED vars
  BY <1>11 DEF vars
<1> QED
  BY <1>1, <1>2, <1>3, <1>4, <1>5, <1>6, <1>7, <1>9, <1>10, <1>11 DEF Next

LEMMA TypeInit == Init => TypeOK
<1> SUFFICES ASSUME Init
             PROVE  TypeOK
  OBVIOUS
<1> USE HistoryAssumption, ZeroType DEF Init, InitCluster, InitCollector
<1>1. EmptyBundle \in Bundle
  BY DEF EmptyBundle, Bundle
<1>2. started \in [Node -> Nat] /\ count \in [Node -> [Counter -> Nat]]
  OBVIOUS
<1> QED
  BY <1>1, <1>2 DEF TypeOK, Phases
-----------------------------------------------------------------------------
(* The clock never runs behind a start or a collection. *)
LEMMA ClockStep ==
  TypeOK /\ ClockInv /\ [Next]_vars => ClockInv'
<1> SUFFICES ASSUME TypeOK, ClockInv, [Next]_vars
             PROVE  ClockInv'
  OBVIOUS
<1>1. now \in Nat /\ MaxLag \in Nat /\ \A n \in Node : started[n] \in Nat
  BY HistoryAssumption DEF TypeOK
<1>2. /\ base.opened \in Nat /\ base.at \in Nat
      /\ cur.opened \in Nat /\ cur.at \in Nat
  BY DEF TypeOK, Bundle
<1>3. member \subseteq Node /\ started \in [Node -> Nat]
  BY DEF TypeOK
<1>4. StartedBefore /\ WithinLag /\ ReadBefore /\ InOrder
  BY DEF ClockInv
<1>5. CASE Tick
  <2>1. now' = now + 1 /\ UNCHANGED <<member, started, phase, base, cur>>
    BY <1>5 DEF Tick, collector
  <2>2. StartedBefore'
    BY <1>1, <1>3, <1>4, <2>1 DEF StartedBefore
  <2>3. Collecting' = Collecting /\ OpenedAt' = OpenedAt /\ OpenedAt \in Nat
    BY <1>2, <2>1 DEF Collecting, OpenedAt
  <2>4. Collecting => now < OpenedAt + MaxLag
    BY <1>5 DEF Tick
  <2>5. WithinLag'
    BY <1>1, <1>4, <2>1, <2>3, <2>4 DEF WithinLag
  <2>6. ReadBefore'
    <3>1. BaseIsRead' = BaseIsRead /\ base' = base
      BY <2>1 DEF BaseIsRead
    <3> QED
      BY <1>1, <1>2, <1>4, <2>1, <3>1 DEF ReadBefore
  <2> QED
    BY <1>4, <2>1, <2>2, <2>5, <2>6 DEF ClockInv, InOrder
<1>6. ASSUME UNCHANGED <<now, collector>>
      PROVE  WithinLag' /\ ReadBefore' /\ InOrder'
  BY <1>4, <1>6 DEF collector, WithinLag, ReadBefore, InOrder, Collecting, OpenedAt, BaseIsRead
<1>7. ASSUME NEW n \in Node, NEW k \in Pool \cup Breaker \cup Work, Event(n, k)
      PROVE  ClockInv'
  BY <1>4, <1>6, <1>7 DEF Event, ClockInv, StartedBefore
<1>8. ASSUME NEW n \in Node, NEW d \in GcDuration, OldGc(n, d)
      PROVE  ClockInv'
  BY <1>4, <1>6, <1>8 DEF OldGc, ClockInv, StartedBefore
<1>9. ASSUME NEW n \in Node, StopNode(n)
      PROVE  ClockInv'
  <2>1. StartedBefore'
    BY <1>1, <1>3, <1>4, <1>9 DEF StopNode, StartedBefore
  <2> QED
    BY <1>6, <1>9, <2>1 DEF StopNode, ClockInv
<1>10. ASSUME NEW n \in Node, StartNode(n)
       PROVE  ClockInv'
  <2>1. StartedBefore'
    BY <1>1, <1>3, <1>4, <1>10 DEF StartNode, StartedBefore
  <2> QED
    BY <1>6, <1>10, <2>1 DEF StartNode, ClockInv
<1>11. ASSUME UNCHANGED cluster
       PROVE  StartedBefore'
  BY <1>4, <1>11 DEF cluster, StartedBefore
<1>12. ASSUME NEW dated \in BOOLEAN, NEW infos \in {member, {}}, OpenBase(dated, infos)
       PROVE  ClockInv'
  <2>1. phase' = "opening base" /\ base'.opened = now /\ now' = now
    BY <1>12 DEF OpenBase, Opened, EmptyBundle, cluster
  <2>2. WithinLag'
    <3>1. OpenedAt' = now
      BY <2>1 DEF OpenedAt
    <3>2. now <= now /\ now <= now + MaxLag
      BY <1>1
    <3>3. OpenedAt' <= now' /\ now' <= OpenedAt' + MaxLag
      BY <2>1, <3>1, <3>2
    <3> QED
      BY <3>3 DEF WithinLag
  <2> QED
    BY <1>11, <1>12, <2>1, <2>2 DEF OpenBase, ClockInv, ReadBefore, InOrder, BaseIsRead
<1>13. ASSUME NEW dated \in BOOLEAN, NEW infos \in {member, {}}, OpenCur(dated, infos)
       PROVE  ClockInv'
  <2>1. /\ phase = "between" /\ phase' = "opening cur"
        /\ cur'.opened = now /\ now' = now /\ base' = base
    BY <1>13 DEF OpenCur, Opened, EmptyBundle, cluster
  <2>2. WithinLag'
    <3>1. OpenedAt' = now
      BY <2>1 DEF OpenedAt
    <3>2. now <= now /\ now <= now + MaxLag
      BY <1>1
    <3>3. OpenedAt' <= now' /\ now' <= OpenedAt' + MaxLag
      BY <2>1, <3>1, <3>2
    <3> QED
      BY <3>3 DEF WithinLag
  <2>3. ReadBefore' /\ InOrder'
    BY <1>4, <2>1 DEF ReadBefore, InOrder, BaseIsRead
  <2> QED
    BY <1>11, <1>13, <2>2, <2>3 DEF OpenCur, ClockInv
<1>14. ASSUME NEW who \in SUBSET Node, ReadBase(who)
       PROVE  ClockInv'
  <2>1. base \in Bundle /\ UNCHANGED cluster /\ now' = now
    BY <1>14 DEF ReadBase, TypeOK, cluster
  <2>2. phase' = "between" /\ base'.at = now
    BY <1>14, <2>1 DEF ReadBase, Filled, Bundle
  <2>3. WithinLag' /\ InOrder'
    BY <2>2 DEF WithinLag, Collecting, InOrder
  <2>4. ReadBefore'
    BY <1>1, <2>1, <2>2 DEF ReadBefore
  <2> QED
    BY <1>11, <2>1, <2>3, <2>4 DEF ClockInv
<1>15. ASSUME NEW who \in SUBSET Node, ReadCur(who)
       PROVE  ClockInv'
  <2>1. cur \in Bundle /\ UNCHANGED <<cluster, base>> /\ now' = now
    BY <1>15 DEF ReadCur, TypeOK, cluster
  <2>2. phase = "opening cur" /\ phase' = "done" /\ cur'.opened = cur.opened
    BY <1>15, <2>1 DEF ReadCur, Filled, Bundle
  <2>3. WithinLag'
    BY <2>2 DEF WithinLag, Collecting
  <2>4. ReadBefore' /\ InOrder'
    BY <1>4, <2>1, <2>2 DEF ReadBefore, BaseIsRead, InOrder
  <2> QED
    BY <1>11, <2>1, <2>3, <2>4 DEF ClockInv
<1>16. CASE UNCHANGED vars
  BY <1>6, <1>11, <1>16 DEF vars, cluster, collector, ClockInv
<1> QED
  BY <1>5, <1>7, <1>8, <1>9, <1>10, <1>12, <1>13, <1>14, <1>15, <1>16 DEF Next

(* A stats call returns the time since the start of the process that       *)
(* answers, and nothing of the nodes that do not answer.                   *)
LEMMA FilledIsSound ==
  ASSUME TypeOK, ClockInv, NEW b \in Bundle, NEW who \in SUBSET Node, who \subseteq CanAnswer,
         b.opened <= now, now <= b.opened + MaxLag
  PROVE  Sound(Filled(b, who))
<1>1. \A n \in who : started[n] \in Nat /\ now - started[n] \in Nat \ {0}
  BY DEF CanAnswer, TypeOK
<1>2. now \in Nat /\ b.opened \in Nat
  BY DEF TypeOK, Bundle
<1>3. /\ Filled(b, who).at = now /\ Filled(b, who).opened = b.opened
      /\ Filled(b, who).answered = who /\ who \subseteq Filled(b, who).listed
      /\ Filled(b, who).uptime = [n \in Node |-> IF n \in who THEN now - started[n] ELSE 0]
      /\ Filled(b, who).count = [n \in Node |-> IF n \in who THEN count[n] ELSE Zero]
      /\ Filled(b, who).began = [n \in Node |-> IF n \in who THEN started[n] ELSE 0]
  BY DEF Filled, Bundle
<1> QED
  BY <1>1, <1>2, <1>3 DEF Sound

LEMMA BundleStep ==
  TypeOK /\ ClockInv /\ BundleInv /\ [Next]_vars => BundleInv'
<1> SUFFICES ASSUME TypeOK, ClockInv, BundleInv, [Next]_vars
             PROVE  BundleInv'
  OBVIOUS
<1>0. base \in Bundle /\ cur \in Bundle
  BY DEF TypeOK
<1>1. ASSUME UNCHANGED collector
      PROVE  BundleInv'
  BY <1>1 DEF collector, BundleInv, BaseIsRead, Sound
<1>2. CASE Tick
  BY <1>1, <1>2 DEF Tick
<1>3. ASSUME NEW n \in Node, NEW k \in Pool \cup Breaker \cup Work, Event(n, k)
      PROVE  BundleInv'
  BY <1>1, <1>3 DEF Event
<1>4. ASSUME NEW n \in Node, NEW d \in GcDuration, OldGc(n, d)
      PROVE  BundleInv'
  BY <1>1, <1>4 DEF OldGc
<1>5. ASSUME NEW n \in Node, StopNode(n) \/ StartNode(n)
      PROVE  BundleInv'
  BY <1>1, <1>5 DEF StopNode, StartNode
<1>6. ASSUME NEW dated \in BOOLEAN, NEW infos \in {member, {}}, OpenBase(dated, infos)
      PROVE  BundleInv'
  BY <1>6 DEF OpenBase, BundleInv, BaseIsRead
<1>7. ASSUME NEW dated \in BOOLEAN, NEW infos \in {member, {}}, OpenCur(dated, infos)
      PROVE  BundleInv'
  BY <1>7 DEF OpenCur, BundleInv, BaseIsRead, Sound
<1>8. ASSUME NEW who \in SUBSET Node, ReadBase(who)
      PROVE  BundleInv'
  <2>1. base.opened <= now /\ now <= base.opened + MaxLag
    BY <1>8 DEF ReadBase, ClockInv, WithinLag, Collecting, OpenedAt
  <2>2. Sound(base')
    BY <1>0, <1>8, <2>1, FilledIsSound DEF ReadBase
  <2> QED
    BY <1>8, <2>2 DEF ReadBase, BundleInv, Sound
<1>9. ASSUME NEW who \in SUBSET Node, ReadCur(who)
      PROVE  BundleInv'
  <2>1. cur.opened <= now /\ now <= cur.opened + MaxLag
    BY <1>9 DEF ReadCur, ClockInv, WithinLag, Collecting, OpenedAt
  <2>2. Sound(cur')
    BY <1>0, <1>9, <2>1, FilledIsSound DEF ReadCur
  <2> QED
    BY <1>9, <2>2 DEF ReadCur, BundleInv, BaseIsRead, Sound
<1>10. CASE UNCHANGED vars
  BY <1>1, <1>10 DEF vars, collector
<1> QED
  BY <1>2, <1>3, <1>4, <1>5, <1>6, <1>7, <1>8, <1>9, <1>10 DEF Next
-----------------------------------------------------------------------------
(* Events that are counted twice, in the counter and in the ghost, keep    *)
(* what the process is relative to the earlier bundle.                     *)
LEMMA CountedTwice ==
  ASSUME TypeOK, HistoryInv, NEW n \in Node, NEW by \in [Counter -> Nat],
         Running, Counts(n, by),
         UNCHANGED <<phase, member, started, base, cur, bounced>>
  PROVE  HistoryInv'
<1>0. \A m \in Node, k \in Counter :
        /\ count'[m][k] = IF m = n THEN count[m][k] + by[k] ELSE count[m][k]
        /\ since'[m][k] = IF m = n THEN since[m][k] + by[k] ELSE since[m][k]
  BY CountsType
<1>1. phase' # "done"
  BY DEF Running
<1>2. ASSUME phase \in {"between", "opening cur"}, NEW m \in member
      PROVE  Continues(m, started[m], count[m])'
  <2>1. m \in Node /\ Continues(m, started[m], count[m])
    BY <1>2 DEF HistoryInv, TypeOK
  <2>2. ASSUME NEW k \in Counter
        PROVE  count[m][k] \in Nat /\ since[m][k] \in Nat /\ by[k] \in Nat
    BY <2>1 DEF TypeOK
  <2>3. ASSUME NEW k \in Counter, count[m][k] <= since[m][k]
        PROVE  count'[m][k] <= since'[m][k]
    BY <1>0, <2>1, <2>2, <2>3
  <2>4. ASSUME NEW k \in Counter, m \in base.answered, count[m][k] = base.count[m][k] + since[m][k]
        PROVE  count'[m][k] = base.count[m][k] + since'[m][k]
    <3>1. base.count[m][k] \in Nat
      BY <2>1 DEF TypeOK, Bundle
    <3> QED
      BY <1>0, <2>1, <2>2, <2>4, <3>1
  <2> QED
    BY <2>1, <2>3, <2>4 DEF Continues
<1>3. phase \in {"between", "opening cur"} => base'.answered \ bounced' \subseteq member'
  BY DEF HistoryInv
<1> QED
  BY <1>1, <1>2, <1>3 DEF HistoryInv

LEMMA HistoryStep ==
  TypeOK /\ TypeOK' /\ ClockInv /\ HistoryInv /\ [Next]_vars => HistoryInv'
<1> SUFFICES ASSUME TypeOK, TypeOK', ClockInv, HistoryInv, [Next]_vars
             PROVE  HistoryInv'
  OBVIOUS
<1>1. CASE Tick
  BY <1>1 DEF Tick, collector, HistoryInv, Continues
<1>2. ASSUME NEW n \in Node, NEW k \in Pool \cup Breaker \cup Work, Event(n, k)
      PROVE  HistoryInv'
  <2>1. [Zero EXCEPT ![k] = 1] \in [Counter -> Nat]
    BY ZeroType
  <2>2. Running /\ Counts(n, [Zero EXCEPT ![k] = 1])
    BY <1>2 DEF Event
  <2>3. UNCHANGED <<phase, member, started, base, cur, bounced>>
    BY <1>2 DEF Event, collector
  <2> QED
    BY <2>1, <2>2, <2>3, CountedTwice
<1>3. ASSUME NEW n \in Node, NEW d \in GcDuration, OldGc(n, d)
      PROVE  HistoryInv'
  <2>1. [Zero EXCEPT ![GcCount] = 1, ![GcTime] = d] \in [Counter -> Nat]
    BY ZeroType, HistoryAssumption
  <2>2. Running /\ Counts(n, [Zero EXCEPT ![GcCount] = 1, ![GcTime] = d])
    BY <1>3 DEF OldGc
  <2>3. UNCHANGED <<phase, member, started, base, cur, bounced>>
    BY <1>3 DEF OldGc, collector
  <2> QED
    BY <2>1, <2>2, <2>3, CountedTwice
<1>4. ASSUME NEW n \in Node, StopNode(n)
      PROVE  HistoryInv'
  <2>1. /\ member' = member \ {n} /\ bounced' = bounced \cup {n}
        /\ \A m \in member' : started'[m] = started[m] /\ count'[m] = count[m]
        /\ UNCHANGED <<phase, base, cur, since>> /\ phase # "done"
    BY <1>4 DEF StopNode, Running, collector, TypeOK
  <2>2. ASSUME phase \in {"between", "opening cur"}, NEW m \in member'
        PROVE  Continues(m, started[m], count[m])'
    <3>1. m # n /\ Continues(m, started[m], count[m])
      BY <2>1, <2>2 DEF HistoryInv
    <3> QED
      BY <2>1, <3>1 DEF Continues
  <2>3. phase \in {"between", "opening cur"} => base'.answered \ bounced' \subseteq member'
    BY <2>1 DEF HistoryInv
  <2> QED
    BY <2>1, <2>2, <2>3 DEF HistoryInv
<1>5. ASSUME NEW n \in Node, StartNode(n)
      PROVE  HistoryInv'
  <2>1. /\ member' = member \cup {n} /\ bounced' = bounced \cup {n}
        /\ started'[n] = now /\ count'[n] = Zero
        /\ \A m \in member : started'[m] = started[m] /\ count'[m] = count[m]
        /\ UNCHANGED <<phase, base, cur, since>> /\ phase # "done" /\ n \notin member
    BY <1>5 DEF StartNode, Running, collector, TypeOK
  <2>2. phase \in {"between", "opening cur"} => now >= base.at
    <3>1. now \in Nat /\ base.at \in Nat
      BY DEF TypeOK, Bundle
    <3> QED
      BY <3>1 DEF ClockInv, ReadBefore, BaseIsRead
  <2>3. \A k \in Counter : Zero[k] <= since[n][k]
    BY DEF TypeOK, Zero
  <2>4. phase \in {"between", "opening cur"} => Continues(n, started[n], count[n])'
    BY <2>1, <2>2, <2>3 DEF Continues
  <2>5. \A m \in member : m # n
    BY <2>1
  <2>6. phase \in {"between", "opening cur"} =>
           \A m \in member : Continues(m, started[m], count[m])'
    BY <2>1, <2>5 DEF HistoryInv, Continues
  <2> QED
    BY <2>1, <2>4, <2>6 DEF HistoryInv
<1>6. ASSUME NEW dated \in BOOLEAN, NEW infos \in {member, {}}, OpenBase(dated, infos)
      PROVE  HistoryInv'
  BY <1>6 DEF OpenBase, HistoryInv
<1>7. ASSUME NEW dated \in BOOLEAN, NEW infos \in {member, {}}, OpenCur(dated, infos)
      PROVE  HistoryInv'
  BY <1>7 DEF OpenCur, cluster, HistoryInv, Continues
<1>8. ASSUME NEW who \in SUBSET Node, ReadBase(who)
      PROVE  HistoryInv'
  <2>1. base \in Bundle /\ count \in [Node -> [Counter -> Nat]] /\ member \subseteq Node
    BY DEF TypeOK
  <2>2. /\ base'.answered = who
        /\ \A m \in who : base'.began[m] = started[m] /\ base'.count[m] = count[m]
    BY <1>8, <2>1 DEF ReadBase, Filled, Bundle
  <2>3. /\ phase' = "between" /\ bounced' = {} /\ who \subseteq member
        /\ UNCHANGED <<member, started, count>>
        /\ \A m \in Node, k \in Counter : since'[m][k] = 0
    BY <1>8 DEF ReadBase, CanAnswer, cluster, Zero
  <2>4. ASSUME NEW m \in member, m \in who
        PROVE  \A k \in Counter : count'[m][k] = base'.count[m][k] + since'[m][k]
    BY <2>1, <2>2, <2>3, <2>4
  <2>5. ASSUME NEW m \in member
        PROVE  Continues(m, started[m], count[m])'
    BY <2>2, <2>3, <2>4 DEF Continues
  <2> QED
    BY <2>2, <2>3, <2>5 DEF HistoryInv
<1>9. ASSUME NEW who \in SUBSET Node, ReadCur(who)
      PROVE  HistoryInv'
  <2>1. cur \in Bundle
    BY DEF TypeOK
  <2>2. /\ cur'.answered = who
        /\ \A m \in who : cur'.began[m] = started[m] /\ cur'.count[m] = count[m]
    BY <1>9, <2>1 DEF ReadCur, Filled, Bundle
  <2>3. /\ phase = "opening cur" /\ phase' = "done" /\ who \subseteq member
        /\ base' = base /\ since' = since /\ bounced' = bounced
    BY <1>9 DEF ReadCur, CanAnswer
  <2>4. \A m \in who : Continues(m, started[m], count[m])
    BY <2>3 DEF HistoryInv
  <2>5. ASSUME NEW m \in who
        PROVE  Continues(m, cur.began[m], cur.count[m])'
    <3>1. Continues(m, started[m], count[m])
      BY <2>4
    <3> QED
      BY <2>2, <2>3, <3>1 DEF Continues
  <2> QED
    BY <2>2, <2>3, <2>5 DEF HistoryInv
<1>10. CASE UNCHANGED vars
  BY <1>10 DEF vars, HistoryInv, Continues
<1> QED
  BY <1>1, <1>2, <1>3, <1>4, <1>5, <1>6, <1>7, <1>8, <1>9, <1>10 DEF Next

(* What is counted is counted in both places, and the time in old GC stays *)
(* within what the process ran.                                            *)
LEMMA GcTimeCounted ==
  ASSUME TypeOK, GcInv, NEW n \in member, NEW by \in [Counter -> Nat],
         Running, Counts(n, by),
         UNCHANGED <<now, phase, member, started, base, cur>>,
         by[GcTime] # 0 => /\ count[n][GcTime] + by[GcTime] <= now - started[n]
                           /\ base.at # 0 => since[n][GcTime] + by[GcTime] <= now - base.at
  PROVE  GcInv'
<1>1. GcTime \in Counter /\ n \in Node /\ member \subseteq Node
  BY DEF Counter, TypeOK
<1>2. \A m \in Node :
        /\ count'[m][GcTime] = IF m = n THEN count[m][GcTime] + by[GcTime] ELSE count[m][GcTime]
        /\ since'[m][GcTime] = IF m = n THEN since[m][GcTime] + by[GcTime] ELSE since[m][GcTime]
  BY <1>1, CountsType
<1>3. \A m \in Node : count[m][GcTime] \in Nat /\ since[m][GcTime] \in Nat /\ by[GcTime] \in Nat
  BY <1>1 DEF TypeOK
<1>4. phase # "done"
  BY DEF Running
<1>5. ASSUME NEW m \in member
      PROVE  count'[m][GcTime] <= now - started[m]
  <2>1. count[m][GcTime] <= now - started[m]
    BY DEF GcInv
  <2>2. CASE by[GcTime] = 0
    <3>1. count'[m][GcTime] = count[m][GcTime]
      BY <1>1, <1>2, <1>3, <2>2
    <3> QED
      BY <2>1, <3>1
  <2>3. CASE by[GcTime] # 0
    BY <1>1, <1>2, <2>1, <2>3
  <2> QED
    BY <2>2, <2>3
<1>6. ASSUME BaseIsRead, base.at # 0, NEW m \in Node
      PROVE  since'[m][GcTime] <= now - base.at
  <2>1. since[m][GcTime] <= now - base.at
    BY <1>6 DEF GcInv
  <2>2. CASE by[GcTime] = 0
    <3>1. since'[m][GcTime] = since[m][GcTime]
      BY <1>2, <1>3, <2>2
    <3> QED
      BY <2>1, <3>1
  <2>3. CASE by[GcTime] # 0
    BY <1>2, <1>6, <2>1, <2>3
  <2> QED
    BY <2>2, <2>3
<1>7. /\ member' = member /\ now' = now /\ started' = started /\ base' = base
      /\ phase' = phase
  OBVIOUS
<1> QED
  BY <1>4, <1>5, <1>6, <1>7 DEF GcInv, BaseIsRead

LEMMA GcStep ==
  TypeOK /\ ClockInv /\ GcInv /\ [Next]_vars => GcInv'
<1> SUFFICES ASSUME TypeOK, ClockInv, GcInv, [Next]_vars
             PROVE  GcInv'
  OBVIOUS
<1>0. /\ GcTime \in Counter /\ Zero[GcTime] = 0 /\ Zero \in [Counter -> Nat]
      /\ member \subseteq Node /\ now \in Nat /\ base.at \in Nat
      /\ \A m \in Node : /\ started[m] \in Nat /\ count[m][GcTime] \in Nat
                         /\ since[m][GcTime] \in Nat
  BY ZeroType DEF Counter, Zero, TypeOK, Bundle
<1>1. CASE Tick
  <2>1. /\ now' = now + 1 /\ phase # "done"
        /\ UNCHANGED <<member, started, count, phase, base, cur, since>>
    BY <1>1 DEF Tick, collector, Running
  <2>2. \A m \in member' : count'[m][GcTime] <= now' - started'[m]
    BY <1>0, <2>1 DEF GcInv
  <2>3. BaseIsRead' /\ base'.at # 0 => \A m \in Node : since'[m][GcTime] <= now' - base'.at
    <3>1. BaseIsRead' = BaseIsRead
      BY <2>1 DEF BaseIsRead
    <3> QED
      BY <1>0, <2>1, <3>1 DEF GcInv
  <2> QED
    BY <2>1, <2>2, <2>3 DEF GcInv
<1>2. ASSUME NEW n \in Node, NEW k \in Pool \cup Breaker \cup Work, Event(n, k)
      PROVE  GcInv'
  <2> DEFINE by == [Zero EXCEPT ![k] = 1]
  <2>1. by \in [Counter -> Nat] /\ by[GcTime] = 0
    BY <1>0, HistoryAssumption DEF Zero
  <2>2. n \in member /\ Running /\ Counts(n, by)
    BY <1>2 DEF Event
  <2>3. UNCHANGED <<now, phase, member, started, base, cur>>
    BY <1>2 DEF Event, collector
  <2> HIDE DEF by
  <2> QED
    BY <2>1, <2>2, <2>3, GcTimeCounted
<1>3. ASSUME NEW n \in Node, NEW d \in GcDuration, OldGc(n, d)
      PROVE  GcInv'
  <2> DEFINE by == [Zero EXCEPT ![GcCount] = 1, ![GcTime] = d]
  <2>1. by \in [Counter -> Nat] /\ by[GcTime] = d
    BY <1>0, HistoryAssumption
  <2>2. n \in member /\ Running /\ Counts(n, by)
    BY <1>3 DEF OldGc
  <2>3. UNCHANGED <<now, phase, member, started, base, cur>>
    BY <1>3 DEF OldGc, collector
  <2>4. /\ count[n][GcTime] + d <= now - started[n]
        /\ base.at # 0 => since[n][GcTime] + d <= now - base.at
    BY <1>3 DEF OldGc
  <2> HIDE DEF by
  <2> QED
    BY <2>1, <2>2, <2>3, <2>4, GcTimeCounted
<1>4. ASSUME NEW n \in Node, StopNode(n)
      PROVE  GcInv'
  <2>1. /\ member' = member \ {n} /\ UNCHANGED <<now, phase, base, cur, since>>
        /\ \A m \in member' : started'[m] = started[m] /\ count'[m] = count[m]
        /\ phase # "done"
    BY <1>0, <1>4 DEF StopNode, collector, Running, TypeOK
  <2> QED
    BY <2>1 DEF GcInv, BaseIsRead
<1>5. ASSUME NEW n \in Node, StartNode(n)
      PROVE  GcInv'
  <2>1. /\ member' = member \cup {n} /\ UNCHANGED <<now, phase, base, cur, since>>
        /\ started'[n] = now /\ count'[n] = Zero
        /\ \A m \in member : started'[m] = started[m] /\ count'[m] = count[m]
        /\ phase # "done"
    BY <1>0, <1>5 DEF StartNode, collector, Running, TypeOK
  <2>2. count'[n][GcTime] <= now - started'[n]
    BY <1>0, <2>1
  <2> QED
    BY <2>1, <2>2 DEF GcInv, BaseIsRead
<1>6. ASSUME NEW dated \in BOOLEAN, NEW infos \in {member, {}}, OpenBase(dated, infos)
      PROVE  GcInv'
  BY <1>6 DEF OpenBase, cluster, GcInv, BaseIsRead
<1>7. ASSUME NEW dated \in BOOLEAN, NEW infos \in {member, {}}, OpenCur(dated, infos)
      PROVE  GcInv'
  BY <1>7 DEF OpenCur, cluster, GcInv, BaseIsRead
<1>8. ASSUME NEW who \in SUBSET Node, ReadBase(who)
      PROVE  GcInv'
  <2>1. UNCHANGED <<now, member, started, count>> /\ phase' = "between"
    BY <1>8 DEF ReadBase, cluster
  <2>2. base'.at = now
    BY <1>8 DEF ReadBase, Filled, TypeOK, Bundle
  <2>3. \A m \in Node : since'[m][GcTime] = 0
    BY <1>0, <1>8 DEF ReadBase
  <2>4. \A m \in Node : since'[m][GcTime] <= now' - base'.at
    BY <1>0, <2>1, <2>2, <2>3
  <2> QED
    BY <2>1, <2>4 DEF GcInv
<1>9. ASSUME NEW who \in SUBSET Node, ReadCur(who)
      PROVE  GcInv'
  <2>1. /\ UNCHANGED <<now, member, started, count, base, since>> /\ phase' = "done"
        /\ phase = "opening cur" /\ who \subseteq member
    BY <1>9 DEF ReadCur, cluster, CanAnswer
  <2>2. /\ cur'.at = now /\ cur'.answered = who
        /\ \A m \in who : cur'.uptime[m] = now - started[m] /\ cur'.count[m] = count[m]
    BY <1>0, <1>9, <2>1 DEF ReadCur, Filled, TypeOK, Bundle
  <2>3. BaseIsRead
    BY <2>1 DEF BaseIsRead
  <2> QED
    BY <2>1, <2>2, <2>3 DEF GcInv
<1>10. CASE UNCHANGED vars
  BY <1>10 DEF vars, GcInv, BaseIsRead
<1> QED
  BY <1>1, <1>2, <1>3, <1>4, <1>5, <1>6, <1>7, <1>8, <1>9, <1>10 DEF Next

(* The inductive invariant: types, clock, bundles and history together.    *)
THEOREM HistoryInvariant == Spec => []IInv
<1>1. Init => IInv
  <2>1. Init => TypeOK
    BY TypeInit
  <2>2. Init => ClockInv
    BY HistoryAssumption, TypeInit
       DEF Init, InitCluster, InitCollector, ClockInv, StartedBefore, WithinLag,
           ReadBefore, InOrder, Collecting, BaseIsRead, TypeOK
  <2>3. Init => BundleInv /\ HistoryInv
    BY DEF Init, InitCollector, BundleInv, HistoryInv, BaseIsRead
  <2>4. Init => GcInv
    BY DEF Init, InitCluster, InitCollector, GcInv, BaseIsRead
  <2> QED
    BY <2>1, <2>2, <2>3, <2>4 DEF IInv
<1>2. IInv /\ [Next]_vars => IInv'
  BY TypeStep, ClockStep, BundleStep, HistoryStep, GcStep DEF IInv
<1> QED
  BY <1>1, <1>2, PTL DEF Spec
-----------------------------------------------------------------------------

LEMMA SlackBounds ==
  ASSUME TypeOK
  PROVE  Known => Elapsed \in Nat /\ Slack \in Nat /\ MaxLag <= Slack
<1> SUFFICES ASSUME Known
             PROVE  Elapsed \in Nat /\ Slack \in Nat /\ MaxLag <= Slack
  OBVIOUS
<1>1. Elapsed \in Nat
  BY DEF Known, Elapsed, TypeOK, Bundle
<1>2. Elapsed \div SlackShare \in Nat
  BY <1>1, SlackAssumption
<1>3. MinSlack \in Nat /\ MaxLag \in Nat /\ MaxLag <= MinSlack
  BY SlackAssumption, HistoryAssumption
<1> QED
  BY <1>1, <1>2, <1>3 DEF Slack

(* The two processes of a node that answered in both bundles, in numbers.  *)
LEMMA TwoAnswers ==
  ASSUME IInv, Compares, NEW n \in Answered
  PROVE  /\ n \in Node
         /\ base.uptime[n] \in Nat \ {0} /\ cur.uptime[n] \in Nat \ {0}
         /\ base.began[n] \in Nat /\ cur.began[n] \in Nat
         /\ base.at \in Nat /\ cur.at \in Nat
         /\ base.opened \in Nat /\ cur.opened \in Nat
         /\ base.uptime[n] + base.began[n] = base.at
         /\ cur.uptime[n] + cur.began[n] = cur.at
         /\ base.opened <= base.at /\ base.at <= base.opened + MaxLag
         /\ cur.opened <= cur.at /\ cur.at <= cur.opened + MaxLag
         /\ base.at <= cur.opened
         /\ n \in bounced => cur.began[n] >= base.at
         /\ n \notin bounced => cur.began[n] = base.began[n]
<1>1. /\ n \in Node /\ base \in Bundle /\ cur \in Bundle
      /\ n \in base.answered /\ n \in cur.answered
  BY DEF IInv, TypeOK, Answered, Bundle
<1>2. Sound(base) /\ Sound(cur)
  BY DEF IInv, BundleInv, BaseIsRead, Compares
<1>3. base.at <= cur.opened
  BY DEF IInv, ClockInv, InOrder, Compares
<1>4. Continues(n, cur.began[n], cur.count[n])
  BY <1>1 DEF IInv, HistoryInv, Compares
<1>5. /\ base.uptime[n] \in Nat /\ cur.uptime[n] \in Nat
      /\ base.began[n] \in Nat /\ cur.began[n] \in Nat
      /\ base.at \in Nat /\ cur.at \in Nat
      /\ base.opened \in Nat /\ cur.opened \in Nat
  BY <1>1 DEF Bundle
<1>6. /\ base.uptime[n] > 0 /\ base.uptime[n] + base.began[n] = base.at
      /\ cur.uptime[n] > 0 /\ cur.uptime[n] + cur.began[n] = cur.at
  BY <1>1, <1>2 DEF Sound
<1>7. /\ base.opened <= base.at /\ base.at <= base.opened + MaxLag
      /\ cur.opened <= cur.at /\ cur.at <= cur.opened + MaxLag
  BY <1>2 DEF Sound
<1>8. /\ n \in bounced => cur.began[n] >= base.at
      /\ n \notin bounced => cur.began[n] = base.began[n]
  BY <1>1, <1>4 DEF Continues
<1> QED
  BY <1>1, <1>3, <1>5, <1>6, <1>7, <1>8

(* A node that kept running gained in uptime what passed between the two   *)
(* stats calls, which differs from the interval by less than the slack.    *)
LEMMA RunningIsNotRestarted ==
  ASSUME IInv, Compares, NEW n \in Answered, Restarted(n)
  PROVE  n \in bounced
<1> SUFFICES ASSUME n \notin bounced
             PROVE  FALSE
  OBVIOUS
<1>1. MaxLag \in Nat
  BY HistoryAssumption
<1>2. TypeOK
  BY DEF IInv
<1>3. cur.uptime[n] >= base.uptime[n]
  BY <1>1, TwoAnswers
<1>4. ASSUME Known
      PROVE  ~(cur.uptime[n] + Slack < base.uptime[n] + Elapsed)
  <2>1. Slack \in Nat /\ MaxLag <= Slack
    BY <1>2, <1>4, SlackBounds
  <2> QED
    BY <1>1, <2>1, TwoAnswers DEF Elapsed
<1>5. base.uptime[n] \in Nat /\ cur.uptime[n] \in Nat
  BY TwoAnswers
<1> QED
  BY <1>3, <1>4, <1>5 DEF Restarted

(* DIF-002 names only nodes that restarted. *)
THEOREM RestartsAreRealThm == Spec => []RestartsAreReal
<1>1. IInv => RestartsAreReal
  <2> SUFFICES ASSUME IInv, Compares, NEW n \in RestartedNodes
               PROVE  n \in bounced
    BY DEF RestartsAreReal
  <2>1. Restarted(n) /\ n \in base.listed
    BY DEF RestartedNodes
  <2>2. n \in Node
    BY <2>1 DEF IInv, TypeOK, Bundle
  <2>3. Sound(base) /\ Sound(cur)
    BY DEF IInv, BundleInv, BaseIsRead, Compares
  <2>4. n \in Answered
    BY <2>1, <2>2, <2>3 DEF Restarted, Sound, Answered
  <2> QED
    BY <2>1, <2>4, RunningIsNotRestarted
<1> QED
  BY <1>1, HistoryInvariant, PTL

(* A restarted process has been up for less than the interval, so an       *)
(* earlier uptime above the slack gives it away.                           *)
LEMMA LongUpShows ==
  ASSUME IInv, Compares, Known, NEW n \in Answered, n \in bounced, LongUp(n)
  PROVE  Restarted(n)
<1>1. MaxLag \in Nat
  BY HistoryAssumption
<1>2. Slack \in Nat /\ Elapsed \in Nat
  BY SlackBounds DEF IInv
<1>3. base.uptime[n] > Slack + MaxLag
  BY DEF LongUp
<1>4. cur.uptime[n] + Slack < base.uptime[n] + Elapsed
  BY <1>1, <1>2, <1>3, TwoAnswers DEF Elapsed
<1> QED
  BY <1>4, TwoAnswers DEF Restarted

(* No restart of a node with a long enough uptime goes unnoticed. *)
THEOREM RestartsAreNoticedThm == Spec => []RestartsAreNoticed
<1>1. IInv => RestartsAreNoticed
  BY LongUpShows DEF RestartsAreNoticed
<1> QED
  BY <1>1, HistoryInvariant, PTL
-----------------------------------------------------------------------------
(* The counters of a node that answered in both bundles, in numbers.       *)
LEMMA TwoCounts ==
  ASSUME IInv, Compares, NEW n \in Answered, NEW k \in Counter
  PROVE  /\ base.count[n][k] \in Nat /\ cur.count[n][k] \in Nat /\ since[n][k] \in Nat
         /\ n \in base.listed
         /\ n \in bounced => cur.count[n][k] <= since[n][k]
         /\ n \notin bounced => cur.count[n][k] = base.count[n][k] + since[n][k]
<1>1. /\ n \in Node /\ base \in Bundle /\ cur \in Bundle
      /\ n \in base.answered /\ n \in cur.answered
  BY DEF IInv, TypeOK, Answered, Bundle
<1>2. n \in base.listed
  BY <1>1 DEF IInv, BundleInv, BaseIsRead, Compares, Sound
<1>3. Continues(n, cur.began[n], cur.count[n])
  BY <1>1 DEF IInv, HistoryInv, Compares
<1>4. base.count[n][k] \in Nat /\ cur.count[n][k] \in Nat /\ since[n][k] \in Nat
  BY <1>1 DEF IInv, TypeOK, Bundle
<1> QED
  BY <1>1, <1>2, <1>3, <1>4 DEF Continues

(* Growth is never more than what took place: a node that is reset to 0    *)
(* did restart, and any other counter starts from its earlier value.       *)
LEMMA GrowthWithin ==
  ASSUME IInv, Compares, NEW n \in Answered, NEW k \in Counter
  PROVE  /\ Difference(n, k) \in Int /\ since[n][k] \in Nat
         /\ Difference(n, k) <= since[n][k]
<1>1. CASE Restarted(n)
  <2>1. n \in bounced
    BY <1>1, RunningIsNotRestarted
  <2>2. Difference(n, k) = cur.count[n][k] - 0
    BY <1>1 DEF Difference, Before
  <2> QED
    BY <2>1, <2>2, TwoCounts
<1>2. CASE ~Restarted(n)
  <2>1. Difference(n, k) = cur.count[n][k] - base.count[n][k]
    BY <1>2, TwoCounts DEF Difference, Before
  <2> QED
    BY <2>1, TwoCounts
<1> QED
  BY <1>1, <1>2

(* Old history is never reported as growth. *)
THEOREM GrowthIsRealThm == Spec => []GrowthIsReal
<1>1. IInv => GrowthIsReal
  BY GrowthWithin DEF GrowthIsReal
<1> QED
  BY <1>1, HistoryInvariant, PTL

LEMMA ExactGrowth ==
  ASSUME IInv, Compares, Known, NEW n \in Answered, LongUp(n), NEW k \in Counter
  PROVE  Difference(n, k) = IF n \in bounced THEN cur.count[n][k] ELSE since[n][k]
<1>1. CASE n \in bounced
  <2>1. Difference(n, k) = cur.count[n][k] - 0
    BY <1>1, LongUpShows DEF Difference, Before
  <2> QED
    BY <1>1, <2>1, TwoCounts
<1>2. CASE n \notin bounced
  <2>1. ~Restarted(n)
    BY <1>2, RunningIsNotRestarted
  <2>2. Difference(n, k) = cur.count[n][k] - base.count[n][k]
    BY <2>1, TwoCounts DEF Difference, Before
  <2> QED
    BY <1>2, <2>2, TwoCounts
<1> QED
  BY <1>1, <1>2

(* For a node up for longer than the slack the growth is exact. *)
THEOREM GrowthIsCompleteThm == Spec => []GrowthIsComplete
<1>1. IInv => GrowthIsComplete
  BY ExactGrowth DEF GrowthIsComplete
<1> QED
  BY <1>1, HistoryInvariant, PTL

(* The old GC time of an interval is not negative. *)
THEOREM GcTimeNeverRunsBackThm == Spec => []GcTimeNeverRunsBack
<1>1. IInv => GcTimeNeverRunsBack
  <2> SUFFICES ASSUME IInv, Compares, Known, NEW n \in Answered, LongUp(n)
               PROVE  GcTimeGrowth(n) >= 0
    BY DEF GcTimeNeverRunsBack
  <2>1. GcTime \in Counter
    BY DEF Counter
  <2>2. Difference(n, GcTime) \in Nat
    BY <2>1, ExactGrowth, TwoCounts
  <2> QED
    BY <2>2 DEF GcTimeGrowth
<1> QED
  BY <1>1, HistoryInvariant, PTL

(* DIF-004 calls rejections past history only when the running processes   *)
(* have stopped rejecting, for nodes up for longer than the slack.         *)
THEOREM PastHistoryHasStoppedThm == Spec => []PastHistoryHasStopped
<1>1. IInv => PastHistoryHasStopped
  <2> SUFFICES ASSUME IInv, Compares, Known, "DIF-004" \in Findings,
                      NEW n \in cur.listed, n \in Answered, LongUp(n), NEW k \in Pool
               PROVE  Recent(n, k) = 0
    BY DEF PastHistoryHasStopped
  <2>1. Grown(Pool) = {}
    BY DEF Findings, PastHistory
  <2>2. k \in Counter
    BY DEF Counter
  <2>3. Difference(n, k) = Recent(n, k) /\ Recent(n, k) \in Nat
    BY <2>2, ExactGrowth, TwoCounts DEF Recent, IsAllNew, Answered
  <2>4. n \in Compared
    BY <2>2, TwoCounts DEF Compared
  <2>5. ~(Difference(n, k) > 0)
    <3>1. <<n, k>> \in Compared \X Pool /\ <<n, k>>[1] = n /\ <<n, k>>[2] = k
      BY <2>4
    <3>2. ~(Difference(<<n, k>>[1], <<n, k>>[2]) > 0)
      BY <2>1, <3>1, Zenon DEF Grown
    <3> QED
      BY <3>1, <3>2
  <2> QED
    BY <2>3, <2>5
<1> QED
  BY <1>1, HistoryInvariant, PTL

(* A node that joined contributes what it counted after a recent start. *)
THEOREM JoinedGrowthIsRecentThm == Spec => []JoinedGrowthIsRecent
<1>1. IInv => JoinedGrowthIsRecent
  <2> SUFFICES ASSUME IInv, Compares, NEW n \in Compared, n \notin base.listed
               PROVE  cur.began[n] + Slack + MaxLag >= base.at
    BY DEF JoinedGrowthIsRecent
  <2>1. /\ cur.uptime[n] # 0 /\ Known /\ cur.uptime[n] <= Elapsed + Slack
    BY DEF Compared, JoinedFresh
  <2>2. n \in Node /\ base \in Bundle /\ cur \in Bundle
    BY DEF IInv, TypeOK, Compared, Bundle
  <2>3. Sound(base) /\ Sound(cur)
    BY DEF IInv, BundleInv, BaseIsRead, Compares
  <2>4. cur.uptime[n] + cur.began[n] = cur.at
    BY <2>1, <2>2, <2>3 DEF Sound
  <2>5. /\ base.opened <= base.at /\ base.at <= base.opened + MaxLag
        /\ cur.opened <= cur.at
    BY <2>3 DEF Sound
  <2>6. /\ cur.uptime[n] \in Nat /\ cur.began[n] \in Nat
        /\ base.at \in Nat /\ cur.at \in Nat /\ base.opened \in Nat /\ cur.opened \in Nat
    BY <2>2 DEF Bundle
  <2>7. Slack \in Nat /\ MaxLag \in Nat
    BY <2>1, SlackBounds, HistoryAssumption DEF IInv
  <2> QED
    BY <2>1, <2>4, <2>5, <2>6, <2>7 DEF Elapsed
<1> QED
  BY <1>1, HistoryInvariant, PTL

-----------------------------------------------------------------------------
(* Restarts are told in both directions: the nodes that are reported as    *)
(* restarted (DIF-002) restarted, and no long-running node is missed.      *)
THEOREM RestartsAreToldThm == Spec => []RestartsAreTold
<1>1. RestartsAreReal /\ RestartsAreNoticed => RestartsAreTold
  BY DEF RestartsAreTold
<1> QED
  BY <1>1, RestartsAreRealThm, RestartsAreNoticedThm, PTL

(* Growth in DIF-004 to DIF-007 is what happened between the two stats     *)
(* calls, for any number of nodes, counters, lag and slack.                *)
THEOREM GrowthIsExactThm == Spec => []GrowthIsExact
<1>1. /\ GrowthIsReal /\ GrowthIsComplete
      /\ GcTimeNeverRunsBack /\ PastHistoryHasStopped
      => GrowthIsExact
  BY DEF GrowthIsExact
<1> QED
  BY <1>1, GrowthIsRealThm, GrowthIsCompleteThm, GcTimeNeverRunsBackThm,
     PastHistoryHasStoppedThm, PTL

-----------------------------------------------------------------------------
(* The growth of a counter of any node that is compared is at most what    *)
(* the process that runs now counted, and exactly that if it shows.        *)
LEMMA GrowthIsRecent ==
  ASSUME IInv, Compares, NEW n \in Compared, NEW k \in Counter
  PROVE  /\ n \in Node /\ Difference(n, k) \in Int /\ Recent(n, k) \in Nat
         /\ Difference(n, k) <= Recent(n, k)
<1>1. /\ n \in Node /\ base \in Bundle /\ cur \in Bundle
      /\ base.count[n][k] \in Nat /\ cur.count[n][k] \in Nat /\ since[n][k] \in Nat
  BY DEF IInv, TypeOK, Compared, Bundle
<1>2. Before(n, k) \in Nat
  BY <1>1 DEF Before
<1>3. Difference(n, k) \in Int /\ Difference(n, k) <= cur.count[n][k]
  BY <1>1, <1>2 DEF Difference
<1>4. CASE IsAllNew(n)
  BY <1>1, <1>3, <1>4 DEF Recent
<1>5. CASE ~IsAllNew(n)
  <2>1. Recent(n, k) = since[n][k] /\ n \in base.answered
    BY <1>5 DEF Recent, IsAllNew
  <2>2. CASE n \in cur.answered
    BY <1>1, <2>1, <2>2, GrowthWithin DEF Answered
  <2>3. CASE n \notin cur.answered
    <3>1. cur.count[n][k] = 0
      BY <1>1, <2>3 DEF IInv, BundleInv, Compares, Sound, Zero
    <3> QED
      BY <1>1, <1>3, <2>1, <3>1
  <2> QED
    BY <2>2, <2>3
<1> QED
  BY <1>4, <1>5

LEMMA ShownGrowthIsRecent ==
  ASSUME IInv, Compares, Known, NEW n \in Compared,
         n \in base.listed => n \in Answered /\ LongUp(n), NEW k \in Counter
  PROVE  Difference(n, k) = Recent(n, k)
<1>1. CASE n \in base.listed
  <2>1. n \in Answered /\ LongUp(n) /\ n \in base.answered
    BY <1>1 DEF Answered
  <2> QED
    BY <2>1, ExactGrowth DEF Recent, IsAllNew
<1>2. CASE n \notin base.listed
  <2>1. n \notin base.answered /\ cur.count[n][k] \in Nat
    BY <1>2, GrowthIsRecent DEF IInv, TypeOK, BundleInv, BaseIsRead, Compares, Sound, Bundle
  <2> QED
    BY <1>2, <2>1 DEF Difference, Before, Recent, IsAllNew
<1> QED
  BY <1>1, <1>2

(* What a delta rule totals, the counters that grew, is at most what took  *)
(* place on all the nodes it compares, and the same if all of it shows.    *)
LEMMA TotalIsRecent ==
  ASSUME IInv, Compares, NEW kinds, IsFiniteSet(kinds), kinds \subseteq Counter
  PROVE  /\ Total(kinds) \in Int /\ RecentTotal(kinds) \in Nat
         /\ Total(kinds) <= RecentTotal(kinds)
         /\ GrowthShows => Total(kinds) = RecentTotal(kinds)
         /\ Grown(kinds) = {} => Total(kinds) = 0
<1> DEFINE All == Compared \X kinds
           G == Grown(kinds)
           f == [r \in G |-> Difference(r[1], r[2])]
           g == [r \in All |-> Recent(r[1], r[2])]
<1>1. IsFiniteSet(All) /\ G \in SUBSET All /\ IsFiniteSet(G)
  <2>1. Compared \subseteq Node /\ IsFiniteSet(Node)
    BY HistoryAssumption DEF Compared, IInv, TypeOK, Bundle
  <2>2. IsFiniteSet(Compared)
    BY <2>1, FS_Subset
  <2>3. IsFiniteSet(Compared \X kinds)
    BY <2>2, FS_Product
  <2>4. Grown(kinds) \subseteq Compared \X kinds
    BY DEF Grown
  <2>5. IsFiniteSet(Grown(kinds))
    BY <2>3, <2>4, FS_Subset
  <2> QED
    BY <2>3, <2>4, <2>5
<1>2. ASSUME NEW r \in All
      PROVE  /\ Difference(r[1], r[2]) \in Int /\ Recent(r[1], r[2]) \in Nat
             /\ Difference(r[1], r[2]) <= Recent(r[1], r[2])
             /\ GrowthShows => Difference(r[1], r[2]) = Recent(r[1], r[2])
             /\ r \notin G => ~(Difference(r[1], r[2]) > 0)
  <2>1. r[1] \in Compared /\ r[2] \in Counter
    OBVIOUS
  <2>2. GrowthShows => Difference(r[1], r[2]) = Recent(r[1], r[2])
    BY <2>1, ShownGrowthIsRecent DEF GrowthShows
  <2>3. r \notin G => ~(Difference(r[1], r[2]) > 0)
    BY DEF Grown
  <2> QED
    BY <2>1, <2>2, <2>3, GrowthIsRecent
<1>3. Total(kinds) = SumFunctionOnSet(f, G) /\ RecentTotal(kinds) = SumFunctionOnSet(g, All)
  BY DEF Total, RecentTotal, SumFunction
<1>4. /\ \A r \in G : f[r] \in Int /\ g[r] \in Int /\ f[r] <= g[r]
      /\ \A r \in All : g[r] \in Nat /\ g[r] \in Int
      /\ GrowthShows => /\ \A r \in G : f[r] = g[r]
                       /\ \A r \in All \ G : g[r] = 0
  <2>1. /\ \A r \in G : r \in All /\ f[r] = Difference(r[1], r[2])
        /\ \A r \in All : g[r] = Recent(r[1], r[2])
    BY <1>1
  <2> HIDE DEF f, g, G, All
  <2> QED
    BY <1>2, <2>1
<1> HIDE DEF f, g, G, All
<1>5. SumFunctionOnSet(f, G) \in Int /\ SumFunctionOnSet(g, All) \in Nat
  BY <1>1, <1>4, SumIsInt, SumIsNat
<1>6. SumFunctionOnSet(g, G) \in Int /\ SumFunctionOnSet(g, G) <= SumFunctionOnSet(g, All)
  BY <1>1, <1>4, SumIsInt, SumOfSome
<1>7. SumFunctionOnSet(f, G) <= SumFunctionOnSet(g, G)
  BY <1>1, <1>4, SumsGrow
<1>8. ASSUME GrowthShows
      PROVE  SumFunctionOnSet(f, G) = SumFunctionOnSet(g, All)
  <2>1. SumFunctionOnSet(f, G) = SumFunctionOnSet(g, G)
    BY <1>1, <1>4, <1>8, SumsAgree
  <2>2. SumFunctionOnSet(g, All) = SumFunctionOnSet(g, G)
    BY <1>1, <1>4, <1>8, SumWithoutZeros
  <2> QED
    BY <2>1, <2>2
<1>9. G = {} => SumFunctionOnSet(f, G) = 0
  BY SumOfNothing
<1> QED
  BY <1>3, <1>5, <1>6, <1>7, <1>8, <1>9 DEF G

(* A critical DIF-005 or DIF-007 stands for as many events of the running  *)
(* processes as its threshold says, and is raised whenever they show.      *)
LEMMA CriticalsAreEarned == IInv => VerdictsAreEarned
<1> SUFFICES ASSUME IInv, Compares
             PROVE  /\ RejectionsCritical => RecentTotal(Pool) >= RejectedCrit
                    /\ BreakersCritical => RecentTotal(Breaker) >= BreakerCrit
                    /\ GrowthShows /\ RecentTotal(Pool) > 0
                         /\ RecentTotal(Pool) >= RejectedCrit => RejectionsCritical
                    /\ GrowthShows /\ RecentTotal(Breaker) > 0
                         /\ RecentTotal(Breaker) >= BreakerCrit => BreakersCritical
  BY DEF VerdictsAreEarned
<1>1. /\ IsFiniteSet(Pool) /\ Pool \subseteq Counter
      /\ IsFiniteSet(Breaker) /\ Breaker \subseteq Counter
  BY HistoryAssumption DEF Counter
<1>2. RejectedCrit \in Nat /\ BreakerCrit \in Nat
  BY SlackAssumption
<1>3. /\ Total(Pool) \in Int /\ RecentTotal(Pool) \in Nat
      /\ Total(Pool) <= RecentTotal(Pool)
      /\ GrowthShows => Total(Pool) = RecentTotal(Pool)
      /\ Grown(Pool) = {} => Total(Pool) = 0
  BY <1>1, TotalIsRecent
<1>4. /\ Total(Breaker) \in Int /\ RecentTotal(Breaker) \in Nat
      /\ Total(Breaker) <= RecentTotal(Breaker)
      /\ GrowthShows => Total(Breaker) = RecentTotal(Breaker)
      /\ Grown(Breaker) = {} => Total(Breaker) = 0
  BY <1>1, TotalIsRecent
<1> QED
  BY <1>2, <1>3, <1>4 DEF RejectionsCritical, BreakersCritical

(* Old GC is too much for a shorter time if it is for a longer one, and    *)
(* more of it is too much if less is.                                      *)
LEMMA TooMuchIsMonotone ==
  ASSUME NEW c \in Int, NEW d \in Int, NEW t \in Int, NEW u \in Int,
         NEW span \in Int, NEW time \in Int,
         c <= d, t <= u, time <= span, TooMuchGc(c, t, span)
  PROVE  TooMuchGc(d, u, time)
<1>1. GcPerHour \in Nat /\ Hour \in Nat /\ GcShareNum \in Nat /\ GcShareDen \in Nat
  BY SlackAssumption
<1>2. ASSUME NEW a \in Nat, NEW x \in Int, NEW y \in Int, x <= y
      PROVE  x * a <= y * a /\ a * x <= a * y /\ x * a \in Int /\ y * a \in Int
             /\ a * x \in Int /\ a * y \in Int
  <2>1. PICK z \in Nat : y = x + z
    <3>1. y - x \in Nat /\ y = x + (y - x)
      BY <1>2
    <3> QED
      BY <3>1
  <2>2. z * a \in Nat /\ y * a = x * a + z * a
    BY <2>1
  <2>3. a * x = x * a /\ a * y = y * a /\ x * a \in Int /\ y * a \in Int
    OBVIOUS
  <2> QED
    BY <2>2, <2>3
<1>3. /\ c * Hour <= d * Hour /\ GcPerHour * time <= GcPerHour * span
      /\ t * GcShareDen <= u * GcShareDen /\ GcShareNum * time <= GcShareNum * span
      /\ c * Hour \in Int /\ d * Hour \in Int
      /\ GcPerHour * time \in Int /\ GcPerHour * span \in Int
      /\ t * GcShareDen \in Int /\ u * GcShareDen \in Int
      /\ GcShareNum * time \in Int /\ GcShareNum * span \in Int
  BY <1>1, <1>2
<1>4. c * Hour >= GcPerHour * span \/ t * GcShareDen >= GcShareNum * span
  BY DEF TooMuchGc
<1>5. d * Hour >= GcPerHour * time \/ u * GcShareDen >= GcShareNum * time
  <2> DEFINE c1 == c * Hour  d1 == d * Hour  s1 == GcPerHour * span  t1 == GcPerHour * time
             c2 == t * GcShareDen  d2 == u * GcShareDen
             s2 == GcShareNum * span  t2 == GcShareNum * time
  <2>1. /\ c1 <= d1 /\ t1 <= s1 /\ c2 <= d2 /\ t2 <= s2
        /\ c1 \in Int /\ d1 \in Int /\ s1 \in Int /\ t1 \in Int
        /\ c2 \in Int /\ d2 \in Int /\ s2 \in Int /\ t2 \in Int
        /\ (c1 >= s1 \/ c2 >= s2)
    BY <1>3, <1>4
  <2> HIDE DEF c1, d1, s1, t1, c2, d2, s2, t2
  <2>2. d1 >= t1 \/ d2 >= t2
    BY <2>1
  <2> QED
    BY <2>2 DEF d1, t1, d2, t2
<1> QED
  BY <1>5 DEF TooMuchGc

(* What a rate of a node divides by is the time its process had, up to the *)
(* lag of the two stats calls.                                             *)
LEMMA SpanIsRecent ==
  ASSUME IInv, Compares, NEW n \in Compared, HasSpan(n), n \in cur.answered,
         n \in base.answered \/ n \notin base.listed
  PROVE  /\ Span(n) \in Int /\ RecentTime(n) \in Int /\ MaxLag \in Nat
         /\ RecentTime(n) - MaxLag <= Span(n)
         /\ Known /\ (n \in base.listed => LongUp(n)) => Span(n) <= RecentTime(n) + MaxLag
<1>1. /\ n \in Node /\ base \in Bundle /\ cur \in Bundle /\ MaxLag \in Nat
  BY HistoryAssumption DEF IInv, TypeOK, Compared, Bundle
<1>2. Sound(base) /\ Sound(cur)
  BY DEF IInv, BundleInv, BaseIsRead, Compares
<1>3. /\ cur.uptime[n] \in Nat /\ cur.uptime[n] > 0 /\ cur.began[n] \in Nat
      /\ cur.uptime[n] + cur.began[n] = cur.at
      /\ base.opened \in Nat /\ base.at \in Nat /\ cur.opened \in Nat /\ cur.at \in Nat
      /\ base.opened <= base.at /\ base.at <= base.opened + MaxLag
      /\ cur.opened <= cur.at /\ cur.at <= cur.opened + MaxLag
  BY <1>1, <1>2 DEF Sound, Bundle
<1>4. CASE n \notin base.listed \/ Restarted(n)
  <2>1. IsAllNew(n)
    <3>1. CASE n \notin base.listed
      BY <1>2, <3>1 DEF Sound, IsAllNew
    <3>2. CASE n \in base.listed /\ Restarted(n)
      <4>1. n \in Answered
        BY <3>2 DEF Answered
      <4> QED
        BY <3>2, <4>1, RunningIsNotRestarted DEF IsAllNew
    <3> QED
      BY <1>4, <3>1, <3>2
  <2>2. Span(n) = cur.uptime[n] /\ RecentTime(n) = cur.uptime[n]
    BY <1>3, <1>4, <2>1 DEF Span, RecentTime
  <2> QED
    BY <1>1, <1>3, <2>2
<1>5. CASE n \in base.listed /\ ~Restarted(n)
  <2>1. n \in Answered /\ Known /\ Span(n) = Elapsed
    BY <1>5 DEF Answered, HasSpan, Span
  <2>2. CASE n \in bounced
    <3>1. RecentTime(n) = cur.uptime[n]
      BY <2>2 DEF RecentTime, IsAllNew
    <3>2. cur.began[n] >= base.at
      BY <2>1, <2>2 DEF IInv, HistoryInv, Compares, Answered, Continues
    <3>3. ~LongUp(n)
      BY <1>5, <2>1, <2>2, LongUpShows
    <3> QED
      BY <1>1, <1>3, <1>5, <2>1, <3>1, <3>2, <3>3 DEF Elapsed
  <2>3. CASE n \notin bounced
    <3>1. RecentTime(n) = cur.at - base.at
      BY <2>1, <2>3 DEF RecentTime, IsAllNew, Answered
    <3> QED
      BY <1>1, <1>3, <2>1, <3>1 DEF Elapsed
  <2> QED
    BY <2>2, <2>3
<1> QED
  BY <1>4, <1>5

(* A collection that grew was counted by a process that answered.          *)
LEMMA GrownHasAnswered ==
  ASSUME IInv, Compares, NEW n \in Compared, NEW k \in Counter, Difference(n, k) > 0
  PROVE  n \in cur.answered
<1> SUFFICES ASSUME n \notin cur.answered PROVE FALSE
  OBVIOUS
<1>1. /\ n \in Node /\ base.count[n][k] \in Nat /\ cur.count[n][k] = 0
  BY DEF IInv, TypeOK, Compared, Bundle, BundleInv, Compares, Sound, Zero
<1>2. Before(n, k) \in Nat
  BY <1>1 DEF Before
<1> QED
  BY <1>1, <1>2 DEF Difference

(* DIF-006 warns of old GC that took place, and of all of it that shows.   *)
LEMMA GcWarningsAreEarned == IInv => GcWarningIsEarned
<1> SUFFICES ASSUME IInv, Compares
             PROVE  /\ r_gc_delta = "WARNING" =>
                         \E n \in Compared :
                            \/ n \in base.listed \ base.answered
                            \/ /\ Recent(n, GcCount) > 0
                               /\ TooMuchGc(Recent(n, GcCount), Recent(n, GcTime),
                                            RecentTime(n) - MaxLag)
                    /\ \A n \in Compared :
                         /\ Known /\ (n \in base.listed => n \in Answered /\ LongUp(n))
                         /\ Recent(n, GcCount) > 0
                         /\ TooMuchGc(Recent(n, GcCount), Recent(n, GcTime),
                                      RecentTime(n) + MaxLag)
                         => r_gc_delta = "WARNING"
  BY DEF GcWarningIsEarned
<1> DEFINE Bad(n) == HasSpan(n) /\ TooMuchGc(Difference(n, GcCount), GcTimeGrowth(n), Span(n))
<1>1. GcCount \in Counter /\ GcTime \in Counter
  BY DEF Counter
<1>2. r_gc_delta = "WARNING" <=> \E n \in GcRows : Bad(n)
  <2>1. CASE GcRows = {}
    BY <2>1 DEF r_gc_delta
  <2>2. CASE GcRows # {} /\ \E n \in GcRows : Bad(n)
    BY <2>2 DEF r_gc_delta
  <2>3. CASE GcRows # {} /\ ~\E n \in GcRows : Bad(n)
    BY <2>3 DEF r_gc_delta
  <2> QED
    BY <2>1, <2>2, <2>3
<1>3. ASSUME r_gc_delta = "WARNING"
      PROVE  \E n \in Compared :
                \/ n \in base.listed \ base.answered
                \/ /\ Recent(n, GcCount) > 0
                   /\ TooMuchGc(Recent(n, GcCount), Recent(n, GcTime), RecentTime(n) - MaxLag)
  <2>1. PICK n \in GcRows : Bad(n)
    BY <1>2, <1>3
  <2>2. n \in Compared /\ Difference(n, GcCount) > 0
    BY DEF GcRows
  <2>3. /\ Difference(n, GcCount) \in Int /\ Recent(n, GcCount) \in Nat
        /\ Difference(n, GcCount) <= Recent(n, GcCount)
        /\ GcTimeGrowth(n) \in Int /\ Recent(n, GcTime) \in Nat
        /\ GcTimeGrowth(n) <= Recent(n, GcTime)
    BY <1>1, <2>2, GrowthIsRecent DEF GcTimeGrowth
  <2>4. n \in cur.answered
    BY <1>1, <2>2, GrownHasAnswered
  <2>5. CASE n \in base.answered \/ n \notin base.listed
    <3>1. /\ Span(n) \in Int /\ RecentTime(n) \in Int /\ MaxLag \in Nat
          /\ RecentTime(n) - MaxLag <= Span(n)
      BY <2>1, <2>2, <2>4, <2>5, SpanIsRecent
    <3>2. RecentTime(n) - MaxLag \in Int
      BY <3>1
    <3>3. TooMuchGc(Recent(n, GcCount), Recent(n, GcTime), RecentTime(n) - MaxLag)
      BY <2>1, <2>3, <3>1, <3>2, TooMuchIsMonotone
    <3> QED
      BY <2>2, <2>3, <3>3
  <2>6. CASE n \in base.listed \ base.answered
    BY <2>2, <2>6
  <2> QED
    BY <2>5, <2>6
<1>4. ASSUME NEW n \in Compared, Known, n \in base.listed => n \in Answered /\ LongUp(n),
             Recent(n, GcCount) > 0,
             TooMuchGc(Recent(n, GcCount), Recent(n, GcTime), RecentTime(n) + MaxLag)
      PROVE  r_gc_delta = "WARNING"
  <2>1. /\ Difference(n, GcCount) = Recent(n, GcCount) /\ Recent(n, GcCount) \in Nat
        /\ GcTimeGrowth(n) = Recent(n, GcTime) /\ Recent(n, GcTime) \in Nat
    BY <1>1, <1>4, ShownGrowthIsRecent, GrowthIsRecent DEF GcTimeGrowth
  <2>2. n \in GcRows
    BY <1>4, <2>1 DEF GcRows
  <2>3. n \in cur.answered
    BY <1>1, <1>4, <2>1, GrownHasAnswered
  <2>4. HasSpan(n) /\ (n \in base.answered \/ n \notin base.listed)
    BY <1>4 DEF HasSpan, Answered
  <2>5. /\ Span(n) \in Int /\ RecentTime(n) \in Int /\ MaxLag \in Nat
        /\ Span(n) <= RecentTime(n) + MaxLag
    BY <1>4, <2>3, <2>4, SpanIsRecent
  <2>6. RecentTime(n) + MaxLag \in Int
    BY <2>5
  <2>7. TooMuchGc(Difference(n, GcCount), GcTimeGrowth(n), Span(n))
    BY <1>4, <2>1, <2>5, <2>6, TooMuchIsMonotone
  <2> QED
    BY <1>2, <2>2, <2>4, <2>7
<1> QED
  BY <1>3, <1>4

(* The old GC time of a node fits into the span it is divided by: the      *)
(* interval for a node that kept running, the uptime of a new process.     *)
LEMMA GcSharesAreShares == IInv => GcShareIsAShare
<1> SUFFICES ASSUME IInv, Compares, Known, NEW n \in GcRows,
                    n \in base.answered \/ n \notin base.listed
             PROVE  GcTimeGrowth(n) <= Span(n) + MaxLag
  BY DEF GcShareIsAShare
<1>1. /\ n \in Node /\ base \in Bundle /\ cur \in Bundle /\ MaxLag \in Nat
      /\ GcTime \in Counter /\ GcCount \in Counter
  BY HistoryAssumption DEF IInv, TypeOK, GcRows, Compared, Bundle, Counter
<1>2. Sound(base) /\ Sound(cur)
  BY DEF IInv, BundleInv, BaseIsRead, Compares
<1>3. Difference(n, GcCount) > 0
  BY DEF GcRows
<1>4. /\ \A k \in Counter : cur.count[n][k] \in Nat /\ base.count[n][k] \in Nat
      /\ cur.uptime[n] \in Nat
  BY <1>1 DEF Bundle
<1>5. n \in cur.answered
  <2> SUFFICES ASSUME n \notin cur.answered PROVE FALSE
    OBVIOUS
  <2>1. cur.count[n][GcCount] = 0
    BY <1>1, <1>2 DEF Sound, Zero
  <2>2. Before(n, GcCount) \in Nat
    BY <1>1, <1>4 DEF Before
  <2> QED
    BY <1>3, <2>1, <2>2 DEF Difference
<1>6. cur.at = now /\ cur.count[n][GcTime] <= cur.uptime[n] /\ cur.uptime[n] > 0
  BY <1>1, <1>2, <1>5 DEF IInv, GcInv, Compares, Sound
<1>7. CASE n \notin base.listed \/ Restarted(n)
  <2>1. GcTimeGrowth(n) = cur.count[n][GcTime] - 0
    BY <1>7 DEF GcTimeGrowth, Difference, Before
  <2>2. Span(n) = cur.uptime[n]
    BY <1>4, <1>6, <1>7 DEF Span
  <2> QED
    BY <1>1, <1>4, <1>6, <2>1, <2>2
<1>8. CASE n \in base.listed /\ ~Restarted(n)
  <2>1. n \in Answered
    BY <1>5, <1>8 DEF Answered
  <2>2. Span(n) = Elapsed
    BY <1>8 DEF Span
  <2>3. since[n][GcTime] <= cur.at - base.at
    <3>1. base.at # 0
      BY <2>1, TwoAnswers
    <3> QED
      BY <1>1, <1>6, <3>1 DEF IInv, GcInv, BaseIsRead, Compares
  <2>4. GcTimeGrowth(n) \in Int /\ since[n][GcTime] \in Nat /\ GcTimeGrowth(n) <= since[n][GcTime]
    BY <1>1, <2>1, GrowthWithin DEF GcTimeGrowth
  <2> QED
    BY <1>1, <2>1, <2>2, <2>3, <2>4, TwoAnswers DEF Elapsed
<1> QED
  BY <1>7, <1>8

(* DIF-005 and DIF-007 are critical for events that took place, summed     *)
(* over any number of nodes, and for all of them that show.                *)
THEOREM VerdictsAreEarnedThm == Spec => []VerdictsAreEarned
<1> QED
  BY CriticalsAreEarned, HistoryInvariant, PTL

(* The shares and the severity of DIF-006 are those of the processes that  *)
(* ran, for any thresholds.                                                *)
THEOREM GcVerdictIsEarnedThm == Spec => []GcVerdictIsEarned
<1>1. IInv => GcVerdictIsEarned
  BY GcWarningsAreEarned, GcSharesAreShares DEF GcVerdictIsEarned
<1> QED
  BY <1>1, HistoryInvariant, PTL

-----------------------------------------------------------------------------
(* What max(0, x) is. *)
LEMMA MaxWithZero ==
  ASSUME NEW x \in Int
  PROVE  Max({0, x}) = IF x > 0 THEN x ELSE 0
<1>1. /\ Max({0, x}) \in {0, x} /\ \A y \in {0, x} : Max({0, x}) >= y
  <2>1. \E y \in {0, x} : \A z \in {0, x} : y >= z
    OBVIOUS
  <2> QED
    BY <2>1 DEF Max
<1> QED
  BY <1>1

(* The growth of a counter of a node that is not taken for a restarted     *)
(* one, as the table and DIF-009 show it, is at most what it counted; if   *)
(* its restarts show it is the same.                                       *)
LEMMA ShownGrowth ==
  ASSUME IInv, Compares, NEW n \in Answered, ~Restarted(n), NEW k \in Counter
  PROVE  LET shown == Max({0, cur.count[n][k] - base.count[n][k]})
         IN  /\ shown \in Nat /\ since[n][k] \in Nat /\ shown <= since[n][k]
             /\ n \notin bounced => shown = since[n][k]
<1> DEFINE d == cur.count[n][k] - base.count[n][k]
<1>1. d \in Int /\ since[n][k] \in Nat
  BY TwoCounts
<1>2. d = Difference(n, k)
  BY TwoCounts DEF Difference, Before
<1>3. d <= since[n][k]
  BY <1>2, GrowthWithin
<1>4. n \notin bounced => d = since[n][k]
  BY TwoCounts
<1>5. Max({0, d}) = IF d > 0 THEN d ELSE 0
  BY <1>1, MaxWithZero
<1> HIDE DEF d
<1>6. /\ Max({0, d}) \in Nat /\ Max({0, d}) <= since[n][k]
      /\ n \notin bounced => Max({0, d}) = since[n][k]
  BY <1>1, <1>3, <1>4, <1>5
<1> QED
  BY <1>1, <1>6 DEF d

(* The nodes of the operations per second, in numbers.  A node that did    *)
(* not answer the later stats call did nothing.                            *)
LEMMA DoneWithin ==
  ASSUME IInv, Compares, NEW n \in Rated, NEW k \in Work
  PROVE  /\ n \in Node /\ Done(n, k) \in Nat /\ since[n][k] \in Nat
         /\ n \in base.answered => Done(n, k) <= since[n][k]
<1>1. /\ n \in Node /\ k \in Counter /\ base \in Bundle /\ cur \in Bundle /\ ~Restarted(n)
      /\ since[n][k] \in Nat
  BY DEF Rated, IInv, TypeOK, Bundle, Counter
<1>2. base.count[n][k] \in Nat /\ cur.count[n][k] \in Nat
  BY <1>1 DEF Bundle
<1>3. Done(n, k) \in Nat
  <2> DEFINE d == cur.count[n][k] - base.count[n][k]
  <2>1. d \in Int
    BY <1>2
  <2>2. Max({0, d}) = IF d > 0 THEN d ELSE 0
    BY <2>1, MaxWithZero
  <2> HIDE DEF d
  <2>3. Max({0, d}) \in Nat
    BY <2>1, <2>2
  <2> QED
    BY <2>3 DEF d, Done
<1>4. CASE n \in Answered
  BY <1>1, <1>3, <1>4, ShownGrowth DEF Done
<1>5. CASE n \in base.answered /\ n \notin cur.answered
  <2>1. cur.count[n][k] = 0
    BY <1>1, <1>5 DEF IInv, BundleInv, Compares, Sound, Zero
  <2> DEFINE d == cur.count[n][k] - base.count[n][k]
  <2>2. d \in Int /\ ~(d > 0)
    BY <1>2, <2>1
  <2>3. Max({0, d}) = 0
    <3> HIDE DEF d
    <3> QED
      BY <2>2, MaxWithZero
  <2>4. Done(n, k) = 0
    BY <2>3 DEF Done
  <2> QED
    BY <1>1, <1>3, <2>4
<1> QED
  BY <1>1, <1>3, <1>4, <1>5 DEF Answered

(* If all show, the nodes that are rated are those that kept running.      *)
LEMMA RatedAreKept ==
  ASSUME IInv, Compares, AllShow
  PROVE  Rated = Kept /\ \A n \in Kept, k \in Work : Done(n, k) = since[n][k]
<1>1. ASSUME NEW n \in base.listed \cap cur.listed
      PROVE  n \in Answered /\ (Restarted(n) <=> n \in bounced)
  BY RunningIsNotRestarted, LongUpShows DEF AllShow
<1>2. Rated = Kept
  BY <1>1 DEF Rated, Kept
<1>3. ASSUME NEW n \in Kept, NEW k \in Work
      PROVE  Done(n, k) = since[n][k]
  <2>1. k \in Counter /\ n \in Answered /\ ~Restarted(n) /\ n \notin bounced
    BY <1>1 DEF Kept, Counter
  <2> QED
    BY <2>1, ShownGrowth DEF Done
<1> QED
  BY <1>2, <1>3

LEMMA ListedAreFinite ==
  ASSUME IInv
  PROVE  IsFiniteSet(base.listed \cap cur.listed) /\ IsFiniteSet(Rated)
<1>1. base.listed \cap cur.listed \subseteq Node /\ IsFiniteSet(Node)
  BY HistoryAssumption DEF IInv, TypeOK, Bundle
<1>2. Rated \subseteq Node
  BY <1>1 DEF Rated
<1> QED
  BY <1>1, <1>2, FS_Subset

(* The totals of DIF-009. *)
LEMMA WorkWasDone == IInv => WorkIsWhatWasDone
<1> DEFINE Both == base.listed \cap cur.listed
           Really(nodes, k) == SumFunction([n \in nodes |-> since[n][k]])
<1> SUFFICES ASSUME IInv, Compares, NEW k \in Work
             PROVE  /\ Both \subseteq base.answered => WorkOf(k) <= Really(Both, k)
                    /\ AllShow => WorkOf(k) = Really(Kept, k)
  BY DEF WorkIsWhatWasDone
<1>1. ASSUME Both \subseteq base.answered
      PROVE  WorkOf(k) <= Really(Both, k)
  <2> DEFINE f == [n \in Rated |-> Done(n, k)]
             g == [n \in Both |-> since[n][k]]
  <2>1. /\ WorkOf(k) = SumFunctionOnSet(f, Rated)
        /\ Really(Both, k) = SumFunctionOnSet(g, Both)
    BY DEF WorkOf, SumFunction
  <2>2. Rated \in SUBSET Both /\ IsFiniteSet(Both) /\ IsFiniteSet(Rated)
    BY ListedAreFinite DEF Rated
  <2>3. /\ \A n \in Rated : f[n] = Done(n, k)
        /\ \A n \in Both : g[n] = since[n][k]
    OBVIOUS
  <2>4. \A n \in Both : since[n][k] \in Nat
    <3>1. Both \subseteq Node /\ k \in Counter
      BY DEF IInv, TypeOK, Bundle, Counter
    <3> QED
      BY <3>1 DEF IInv, TypeOK
  <2>5. \A n \in Rated : Done(n, k) \in Nat /\ Done(n, k) <= since[n][k]
    BY <1>1, <2>2, DoneWithin
  <2> HIDE DEF f, g, Both
  <2>6. /\ \A n \in Both : g[n] \in Nat
        /\ \A n \in Rated : f[n] \in Int /\ g[n] \in Int /\ f[n] <= g[n]
    BY <2>2, <2>3, <2>4, <2>5
  <2>7. SumFunctionOnSet(f, Rated) <= SumFunctionOnSet(g, Rated)
    BY <2>2, <2>6, SumsGrow
  <2>8. SumFunctionOnSet(g, Rated) <= SumFunctionOnSet(g, Both)
    BY <2>2, <2>6, SumOfSome
  <2>9. /\ SumFunctionOnSet(f, Rated) \in Int /\ SumFunctionOnSet(g, Rated) \in Int
        /\ SumFunctionOnSet(g, Both) \in Nat
    BY <2>2, <2>6, SumIsInt, SumIsNat
  <2>10. SumFunctionOnSet(f, Rated) <= SumFunctionOnSet(g, Both)
    BY <2>7, <2>8, <2>9
  <2> QED
    BY <2>1, <2>10
<1>2. ASSUME AllShow
      PROVE  WorkOf(k) = Really(Kept, k)
  <2>1. [n \in Rated |-> Done(n, k)] = [n \in Kept |-> since[n][k]]
    BY <1>2, RatedAreKept
  <2> QED
    BY <2>1 DEF WorkOf
<1> QED
  BY <1>1, <1>2

(* A tier whose values are apart did something, so there is a total.       *)
LEMMA SkewNeedsWork ==
  ASSUME IInv, Compares, Indexing \in Work, SkewedTiers # {}
  PROVE  WorkOf(Indexing) > 0
<1> DEFINE whole == [n \in Rated |-> Done(n, Indexing)]
<1>1. PICK tier \in SkewedTiers : TRUE
  OBVIOUS
<1> DEFINE some == {m \in Rated : Tier[m] = tier}
           part == [n \in some |-> Done(n, Indexing)]
<1>2. SumFunctionOnSet(part, some) > 0
  BY <1>1 DEF SkewedTiers, Apart, SumFunction
<1>3. \A n \in Rated : Done(n, Indexing) \in Nat
  BY DoneWithin
<1>4. IsFiniteSet(Rated) /\ some \in SUBSET Rated /\ IsFiniteSet(some)
  BY ListedAreFinite, FS_Subset
<1>5. /\ \A n \in Rated : whole[n] \in Nat
      /\ \A n \in some : part[n] \in Int /\ part[n] = whole[n]
  BY <1>3
<1>6. WorkOf(Indexing) = SumFunctionOnSet(whole, Rated)
  BY DEF WorkOf, SumFunction
<1> HIDE DEF whole, part, some
<1>7. SumFunctionOnSet(part, some) = SumFunctionOnSet(whole, some)
  BY <1>4, <1>5, SumsAgree
<1>8. SumFunctionOnSet(whole, some) <= SumFunctionOnSet(whole, Rated)
  BY <1>4, <1>5, SumOfSome
<1>9. SumFunctionOnSet(whole, some) \in Nat /\ SumFunctionOnSet(whole, Rated) \in Nat
  BY <1>4, <1>5, SumIsNat
<1> QED
  BY <1>2, <1>6, <1>7, <1>8, <1>9

(* The skew of DIF-009. *)
LEMMA SkewWasReal == IInv => SkewIsReal
<1> DEFINE Real == {tier \in {Tier[n] : n \in Kept} :
                      Apart([n \in {m \in Kept : Tier[m] = tier} |-> since[n][Indexing]])}
<1> SUFFICES ASSUME IInv, Compares, AllShow, Indexing \in Work
             PROVE  r_throughput = "WARNING" <=> Real # {}
  BY DEF SkewIsReal
<1>1. Rated = Kept /\ \A n \in Kept : Done(n, Indexing) = since[n][Indexing]
  BY RatedAreKept
<1>2. ASSUME NEW tier
      PROVE  [n \in {m \in Rated : Tier[m] = tier} |-> Done(n, Indexing)]
               = [n \in {m \in Kept : Tier[m] = tier} |-> since[n][Indexing]]
  BY <1>1
<1>3. SkewedTiers = Real
  BY <1>1, <1>2 DEF SkewedTiers
<1>4. Known
  BY DEF AllShow
<1>5. r_throughput = "WARNING" <=> (\E k \in Work : WorkOf(k) > 0) /\ SkewedTiers # {}
  <2>1. CASE \A k \in Work : WorkOf(k) = 0
    <3>1. ~(\E k \in Work : WorkOf(k) > 0)
      BY <2>1
    <3>2. r_throughput # "WARNING"
      BY <1>4, <2>1, <3>1 DEF r_throughput
    <3> QED
      BY <3>1, <3>2
  <2>2. CASE ~(\A k \in Work : WorkOf(k) = 0)
    BY <1>4, <2>2 DEF r_throughput
  <2> QED
    BY <2>1, <2>2
<1>6. SkewedTiers # {} => \E k \in Work : WorkOf(k) > 0
  BY SkewNeedsWork
<1> QED
  BY <1>3, <1>5, <1>6

(* DIF-009 is about the interval: no operation from before it is in its    *)
(* totals, none of a node that kept running is missing, and what it calls  *)
(* skew is uneven work and not a restart.                                  *)
THEOREM ThroughputIsRealThm == Spec => []ThroughputIsReal
<1>1. IInv => ThroughputIsReal
  BY WorkWasDone, SkewWasReal DEF ThroughputIsReal
<1> QED
  BY <1>1, HistoryInvariant, PTL

-----------------------------------------------------------------------------
(* The rejections of a node: their growth is at most what it rejected.     *)
LEMMA RejectionsOf ==
  ASSUME IInv, Compares, NEW n \in Answered, ~Restarted(n)
  PROVE  LET now_   == Rejected(cur, n)
             then   == Rejected(base, n)
             really == SumFunction([k \in Pool |-> since[n][k]])
         IN  /\ now_ \in Nat /\ then \in Nat /\ really \in Nat
             /\ now_ <= then + really
             /\ n \notin bounced => now_ = then + really
<1> DEFINE f == [k \in Pool |-> cur.count[n][k]]
           g == [k \in Pool |-> base.count[n][k]]
           h == [k \in Pool |-> since[n][k]]
           both == [k \in Pool |-> g[k] + h[k]]
<1>1. IsFiniteSet(Pool)
  BY HistoryAssumption
<1>2. ASSUME NEW k \in Pool
      PROVE  /\ f[k] \in Nat /\ g[k] \in Nat /\ h[k] \in Nat
             /\ f[k] <= g[k] + h[k]
             /\ n \notin bounced => f[k] = g[k] + h[k]
  <2>1. k \in Counter
    BY DEF Counter
  <2>2. /\ f[k] \in Nat /\ g[k] \in Nat /\ h[k] \in Nat
        /\ n \notin bounced => f[k] = g[k] + h[k]
    BY <2>1, TwoCounts
  <2>3. f[k] - g[k] <= h[k]
    <3>1. Difference(n, k) = f[k] - g[k]
      BY <2>1, TwoCounts DEF Difference, Before
    <3> QED
      BY <2>1, <3>1, GrowthWithin
  <2> HIDE DEF f, g, h
  <2> QED
    BY <2>2, <2>3
<1>3. /\ SumFunctionOnSet(f, Pool) = Rejected(cur, n)
      /\ SumFunctionOnSet(g, Pool) = Rejected(base, n)
      /\ SumFunctionOnSet(h, Pool) = SumFunction([k \in Pool |-> since[n][k]])
  BY DEF Rejected, SumFunction
<1>4. \A k \in Pool : both[k] = g[k] + h[k]
  OBVIOUS
<1> HIDE DEF f, g, h, both
<1>5. /\ SumFunctionOnSet(f, Pool) \in Nat /\ SumFunctionOnSet(g, Pool) \in Nat
      /\ SumFunctionOnSet(h, Pool) \in Nat
  BY <1>1, <1>2, SumIsNat
<1>6. \A k \in Pool : f[k] \in Int /\ g[k] \in Int /\ h[k] \in Int /\ both[k] \in Int /\ f[k] <= both[k]
  BY <1>2, <1>4
<1>7. SumFunctionOnSet(both, Pool) = SumFunctionOnSet(g, Pool) + SumFunctionOnSet(h, Pool)
  BY <1>1, <1>4, <1>6, SumsAdd
<1>8. SumFunctionOnSet(f, Pool) <= SumFunctionOnSet(both, Pool)
  BY <1>1, <1>6, SumsGrow
<1>9. n \notin bounced => SumFunctionOnSet(f, Pool) = SumFunctionOnSet(both, Pool)
  <2> SUFFICES ASSUME n \notin bounced
               PROVE  SumFunctionOnSet(f, Pool) = SumFunctionOnSet(both, Pool)
    OBVIOUS
  <2>1. \A k \in Pool : f[k] \in Int /\ f[k] = both[k]
    BY <1>2, <1>4
  <2> QED
    BY <1>1, <2>1, SumsAgree
<1> QED
  BY <1>3, <1>5, <1>7, <1>8, <1>9

(* The row of a node in both bundles, field by field. *)
LEMMA RowOf ==
  ASSUME NEW n, n \in base.listed \cap cur.listed
  PROVE  /\ Restarted(n) => node_changes(n).shows = "restarted"
         /\ ~Restarted(n) =>
              /\ node_changes(n).shows = "before and now"
              /\ node_changes(n).rejected = Max({0, Rejected(cur, n) - Rejected(base, n)})
              /\ node_changes(n).gc = Max({0, cur.count[n][GcCount] - base.count[n][GcCount]})
<1>1. ASSUME Restarted(n) PROVE node_changes(n).shows = "restarted"
  <2>1. node_changes(n) = [shows |-> "restarted"]
    BY <1>1 DEF node_changes
  <2> QED
    BY <2>1
<1>2. ASSUME ~Restarted(n)
      PROVE  /\ node_changes(n).shows = "before and now"
             /\ node_changes(n).rejected = Max({0, Rejected(cur, n) - Rejected(base, n)})
             /\ node_changes(n).gc = Max({0, cur.count[n][GcCount] - base.count[n][GcCount]})
  <2> DEFINE rejected == Max({0, Rejected(cur, n) - Rejected(base, n)})
             gc == Max({0, cur.count[n][GcCount] - base.count[n][GcCount]})
             work == [k \in Work |-> Done(n, k)]
  <2>1. node_changes(n) = [shows |-> "before and now", rejected |-> rejected,
                           gc |-> gc, work |-> work]
    BY <1>2 DEF node_changes
  <2> HIDE DEF rejected, gc, work
  <2>2. PICK row : row = node_changes(n)
    OBVIOUS
  <2>3. row = [shows |-> "before and now", rejected |-> rejected, gc |-> gc, work |-> work]
    BY <2>1, <2>2
  <2>4. row.shows = "before and now"
    BY <2>3
  <2>5. row.rejected = rejected
    BY <2>3
  <2>6. row.gc = gc
    BY <2>3
  <2> QED
    BY <2>2, <2>4, <2>5, <2>6 DEF rejected, gc
<1> QED
  BY <1>1, <1>2

(* The table of nodes shows what happened since the earlier stats call.    *)
LEMMA RowsAreTrue ==
  ASSUME IInv, Compares, NEW n \in Answered
  PROVE  LET row == node_changes(n)
             rejections == SumFunction([k \in Pool |-> since[n][k]])
         IN  /\ row.shows = "before and now" =>
                  row.rejected <= rejections /\ row.gc <= since[n][GcCount]
             /\ Known /\ LongUp(n) =>
                  /\ (row.shows = "restarted") = (n \in bounced)
                  /\ n \notin bounced => row.rejected = rejections /\ row.gc = since[n][GcCount]
<1>1. n \in base.listed \cap cur.listed /\ GcCount \in Counter
  <2>1. cur.answered \subseteq cur.listed /\ GcCount \in Counter
    BY DEF IInv, BundleInv, Compares, Sound, Counter
  <2> QED
    BY <2>1, TwoCounts DEF Answered
<1>2. CASE Restarted(n)
  <2>1. n \in bounced /\ node_changes(n).shows = "restarted"
    BY <1>1, <1>2, RunningIsNotRestarted, RowOf
  <2> QED
    BY <2>1
<1>3. CASE ~Restarted(n)
  <2> DEFINE then == Rejected(base, n)
             now_ == Rejected(cur, n)
             really == SumFunction([k \in Pool |-> since[n][k]])
             row == node_changes(n)
  <2>1. /\ now_ \in Nat /\ then \in Nat /\ really \in Nat /\ now_ <= then + really
        /\ n \notin bounced => now_ = then + really
    BY <1>3, RejectionsOf
  <2>2. /\ row.gc <= since[n][GcCount]
        /\ n \notin bounced => row.gc = since[n][GcCount]
    <3>1. row.gc = Max({0, cur.count[n][GcCount] - base.count[n][GcCount]})
      BY <1>1, <1>3, RowOf
    <3> QED
      BY <1>1, <1>3, <3>1, ShownGrowth
  <2>3. row.rejected = Max({0, now_ - then}) /\ row.shows = "before and now"
    BY <1>1, <1>3, RowOf
  <2>4. Known /\ LongUp(n) => n \notin bounced
    BY <1>3, LongUpShows
  <2> HIDE DEF then, now_, really, row
  <2>5. now_ - then \in Int
    BY <2>1
  <2>6. Max({0, now_ - then}) = IF now_ - then > 0 THEN now_ - then ELSE 0
    BY <2>5, MaxWithZero
  <2>7. row.rejected <= really /\ (n \notin bounced => row.rejected = really)
    <3>1. row.rejected = IF now_ - then > 0 THEN now_ - then ELSE 0
      BY <2>3, <2>6
    <3>2. CASE now_ - then > 0
      BY <2>1, <3>1, <3>2
    <3>3. CASE ~(now_ - then > 0)
      BY <2>1, <3>1, <3>3
    <3> QED
      BY <3>2, <3>3
  <2>8. row.shows # "restarted"
    BY <2>3
  <2>9. Known /\ LongUp(n) => (row.shows = "restarted") = (n \in bounced)
    BY <2>4, <2>8
  <2>10. /\ row.shows = "before and now" => row.rejected <= really /\ row.gc <= since[n][GcCount]
         /\ Known /\ LongUp(n) =>
              /\ (row.shows = "restarted") = (n \in bounced)
              /\ n \notin bounced => row.rejected = really /\ row.gc = since[n][GcCount]
    BY <2>2, <2>7, <2>9
  <2> QED
    BY <2>10 DEF row, really
<1> QED
  BY <1>2, <1>3

(* No row tells of rejections or collections from before the earlier       *)
(* bundle, and those of nodes up for longer than the slack are complete.   *)
THEOREM TableShowsWhatHappenedThm == Spec => []TableShowsWhatHappened
<1>1. IInv => TableShowsWhatHappened
  BY RowsAreTrue DEF TableShowsWhatHappened
<1> QED
  BY <1>1, HistoryInvariant, PTL
=============================================================================
