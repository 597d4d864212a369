--------------------------- MODULE ClusterHistory ---------------------------
(***************************************************************************)
(* The outside world that esdoctor/diff.py reasons about: one              *)
(* Elasticsearch cluster whose nodes run, count events since their start,  *)
(* stop and start again, and the diagnostics collector that takes two      *)
(* bundles of it.  None of this is code of the repository.  It is modelled *)
(* from what the code reads: `jvm.uptime_in_millis` restarts with the      *)
(* process, the thread pool, breaker and GC counters restart at 0 with it, *)
(* `nodes.json` and `nodes_stats.json` are two separate calls made after   *)
(* the collection date was noted, and a node may fail to answer the second.*)
(*                                                                         *)
(* Time is counted in units of the collector's clock.  MaxTime and         *)
(* MaxCount bound the clock and the number of events for TLC; nothing that *)
(* is proved depends on their values.                                      *)
(***************************************************************************)
EXTENDS Integers, FiniteSets

CONSTANTS
    Node,       \* names of Elasticsearch nodes
    Pool,       \* thread pools: counters of rejected tasks
    Breaker,    \* circuit breakers: counters of trips
    Work,       \* operations, indexing or searches: counters of those done
    GcCount,    \* the counter of old GC collections
    GcTime,     \* the counter of time spent in old GC
    GcDuration, \* how long one old GC may take
    MaxLag,     \* longest time from the collection date to the stats call
    Epoch,      \* the time at which the model starts to watch the cluster
    Past,       \* what a node may have counted by then
    MaxTime,    \* bound on the clock
    MaxCount    \* bound on the events of a node since the earlier bundle

Counter == Pool \cup Breaker \cup Work \cup {GcCount, GcTime}

ASSUME HistoryAssumption ==
    /\ IsFiniteSet(Node) /\ IsFiniteSet(Pool) /\ IsFiniteSet(Breaker)
    /\ GcTime \notin Pool \cup Breaker \cup Work
    /\ MaxLag \in Nat
    /\ Epoch \in Nat
    /\ Past \subseteq [Counter -> Nat]
    /\ GcDuration \subseteq Nat
    /\ MaxTime \in Nat
    /\ MaxCount \in Nat

VARIABLES
    now,        \* the clock
    member,     \* nodes that are part of the cluster
    started,    \* when each node's process last started
    count,      \* cumulative counters, 0 again at every start
    phase,      \* how far the collector is
    base, cur,  \* the earlier and the later bundle
    since,      \* ghost: events of each node since the earlier stats call
    bounced     \* ghost: nodes that stopped or started since that call

cluster   == <<now, member, started, count>>
collector == <<phase, base, cur>>
vars == <<now, member, started, count, phase, base, cur, since, bounced>>

-----------------------------------------------------------------------------
Zero == [k \in Counter |-> 0]

(* A bundle.  listed: the nodes of nodes.json or nodes_stats.json;         *)
(* answered: those of nodes_stats.json.  A node that is listed but did not *)
(* answer reads as uptime None and counters 0, here 0 and Zero.  opened,   *)
(* at and began are ghosts: when the collection began, when the stats were *)
(* read and when the process that answered was started.                    *)
Bundle ==
    [dated : BOOLEAN, opened : Nat, at : Nat,
     listed : SUBSET Node, answered : SUBSET Node,
     uptime : [Node -> Nat], count : [Node -> [Counter -> Nat]],
     began : [Node -> Nat]]

EmptyBundle ==
    [dated |-> FALSE, opened |-> 0, at |-> 0, listed |-> {}, answered |-> {},
     uptime |-> [n \in Node |-> 0], count |-> [n \in Node |-> Zero],
     began |-> [n \in Node |-> 0]]

Phases == {"before", "opening base", "between", "opening cur", "done"}

-----------------------------------------------------------------------------
(* The cluster has a history when the collector first looks at it: nodes   *)
(* have been running for some time and have counted some events.           *)
InitCluster ==
    /\ now = Epoch
    /\ member \in SUBSET Node
    /\ started \in [Node -> 0 .. Epoch]
    /\ count \in [Node -> Past]
    /\ \A n \in Node \ member : started[n] = 0 /\ count[n] = Zero
    /\ \A n \in member : count[n][GcTime] <= Epoch - started[n]

InitCollector ==
    /\ phase = "before"
    /\ base = EmptyBundle
    /\ cur = EmptyBundle
    /\ since = [n \in Node |-> Zero]
    /\ bounced = {}

Init == InitCluster /\ InitCollector

(* What happened before the first look is in Init.  *)
Running == phase \notin {"before", "done"}

Collecting == phase \in {"opening base", "opening cur"}

OpenedAt == IF phase = "opening base" THEN base.opened ELSE cur.opened

(* A collection that was begun reaches its stats call within MaxLag. *)
Tick ==
    /\ Running
    /\ now < MaxTime
    /\ Collecting => now < OpenedAt + MaxLag
    /\ now' = now + 1
    /\ UNCHANGED <<member, started, count, collector, since, bounced>>

(* Node n counts `by`, in its counters and in the ghost. *)
Counts(n, by) ==
    /\ count' = [count EXCEPT ![n] = [k \in Counter |-> @[k] + by[k]]]
    /\ since' = [since EXCEPT ![n] = [k \in Counter |-> @[k] + by[k]]]

(* Node n rejects a task of a pool, trips a breaker or does an operation. *)
Event(n, k) ==
    /\ Running
    /\ n \in member
    /\ since[n][k] < MaxCount
    /\ Counts(n, [Zero EXCEPT ![k] = 1])
    /\ UNCHANGED <<now, member, started, collector, bounced>>

(* Node n ends an old GC that took d units of time: no process spends more *)
(* time in GC than it has run, nor since the earlier stats call.           *)
OldGc(n, d) ==
    /\ Running
    /\ n \in member
    /\ since[n][GcCount] < MaxCount
    /\ count[n][GcTime] + d <= now - started[n]
    /\ base.at # 0 => since[n][GcTime] + d <= now - base.at
    /\ Counts(n, [Zero EXCEPT ![GcCount] = 1, ![GcTime] = d])
    /\ UNCHANGED <<now, member, started, collector, bounced>>

(* The process of node n ends: a crash, a shutdown or a scale-in. *)
StopNode(n) ==
    /\ Running
    /\ n \in member
    /\ member' = member \ {n}
    /\ started' = [started EXCEPT ![n] = 0]
    /\ count' = [count EXCEPT ![n] = Zero]
    /\ bounced' = bounced \cup {n}
    /\ UNCHANGED <<now, collector, since>>

(* Node n starts, with its counters and its uptime at 0. *)
StartNode(n) ==
    /\ Running
    /\ n \notin member
    /\ member' = member \cup {n}
    /\ started' = [started EXCEPT ![n] = now]
    /\ count' = [count EXCEPT ![n] = Zero]
    /\ bounced' = bounced \cup {n}
    /\ UNCHANGED <<now, collector, since>>

-----------------------------------------------------------------------------
(* The collector notes its date (the manifest may lack it) and reads       *)
(* nodes.json; when that call fails the bundle lists no nodes yet.         *)
Opened(dated, infos) ==
    [EmptyBundle EXCEPT !.dated = dated, !.opened = now, !.listed = infos]

OpenBase(dated, infos) ==
    /\ phase = "before"
    /\ phase' = "opening base"
    /\ base' = Opened(dated, infos)
    /\ UNCHANGED <<cluster, cur, since, bounced>>

OpenCur(dated, infos) ==
    /\ phase = "between"
    /\ phase' = "opening cur"
    /\ cur' = Opened(dated, infos)
    /\ UNCHANGED <<cluster, base, since, bounced>>

(* Later it reads nodes_stats.json: the nodes in `who` answer, the others  *)
(* time out.  A node answers some time after its process started.          *)
CanAnswer == {n \in member : started[n] < now}

(* Mutant: the node list is that of nodes.json alone. *)
FilledFromInfos(b, who) ==
    [b EXCEPT !.at = now, !.answered = who,
              !.uptime = [n \in Node |-> IF n \in who THEN now - started[n] ELSE 0],
              !.count = [n \in Node |-> IF n \in who THEN count[n] ELSE Zero],
              !.began = [n \in Node |-> IF n \in who THEN started[n] ELSE 0]]

Filled(b, who) ==
    [b EXCEPT !.at = now, !.answered = who, !.listed = @ \cup who,
              !.uptime = [n \in Node |-> IF n \in who THEN now - started[n] ELSE 0],
              !.count = [n \in Node |-> IF n \in who THEN count[n] ELSE Zero],
              !.began = [n \in Node |-> IF n \in who THEN started[n] ELSE 0]]

ReadBase(who) ==
    /\ phase = "opening base"
    /\ who \subseteq CanAnswer
    /\ phase' = "between"
    /\ base' = Filled(base, who)
    /\ since' = [n \in Node |-> Zero]
    /\ bounced' = {}
    /\ UNCHANGED <<cluster, cur>>

ReadCur(who) ==
    /\ phase = "opening cur"
    /\ who \subseteq CanAnswer
    /\ phase' = "done"
    /\ cur' = Filled(cur, who)
    /\ UNCHANGED <<cluster, base, since, bounced>>

Next ==
    \/ Tick
    \/ \E n \in Node :
         \/ \E k \in Pool \cup Breaker \cup Work : Event(n, k)
         \/ \E d \in GcDuration : OldGc(n, d)
         \/ StopNode(n)
         \/ StartNode(n)
    \/ \E dated \in BOOLEAN, infos \in {member, {}} :
         OpenBase(dated, infos) \/ OpenCur(dated, infos)
    \/ \E who \in SUBSET Node : ReadBase(who) \/ ReadCur(who)

Spec == Init /\ [][Next]_vars
-----------------------------------------------------------------------------
(* The types. *)
TypeOK ==
    /\ now \in Nat
    /\ member \subseteq Node
    /\ started \in [Node -> Nat]
    /\ count \in [Node -> [Counter -> Nat]]
    /\ phase \in Phases
    /\ base \in Bundle
    /\ cur \in Bundle
    /\ since \in [Node -> [Counter -> Nat]]
    /\ bounced \subseteq Node

(* The facts about a bundle whose stats were read. *)
Sound(b) ==
    /\ b.opened <= b.at /\ b.at <= b.opened + MaxLag
    /\ b.answered \subseteq b.listed
    /\ \A n \in Node :
         IF n \in b.answered
         THEN b.uptime[n] > 0 /\ b.uptime[n] + b.began[n] = b.at
         ELSE b.uptime[n] = 0 /\ b.count[n] = Zero

BaseIsRead == phase \in {"between", "opening cur", "done"}

StartedBefore == \A n \in member : started[n] <= now

WithinLag == Collecting => OpenedAt <= now /\ now <= OpenedAt + MaxLag

ReadBefore == BaseIsRead => base.at <= now

InOrder == phase \in {"opening cur", "done"} => base.at <= cur.opened

ClockInv == StartedBefore /\ WithinLag /\ ReadBefore /\ InOrder

BundleInv ==
    /\ BaseIsRead => Sound(base)
    /\ phase = "done" => Sound(cur)

(* What a process with start s and counters c is, given the earlier bundle:*)
(* the one that answered then, plus what it counted since, or one that was *)
(* started since.                                                          *)
Continues(n, s, c) ==
    IF n \in bounced
    THEN s >= base.at /\ \A k \in Counter : c[k] <= since[n][k]
    ELSE n \in base.answered =>
           s = base.began[n] /\ \A k \in Counter : c[k] = base.count[n][k] + since[n][k]

(* The process of node n that runs now, or the one the later bundle saw.   *)
HistoryInv ==
    /\ phase \in {"between", "opening cur"} =>
         /\ \A n \in member : Continues(n, started[n], count[n])
         /\ base.answered \ bounced \subseteq member
    /\ phase = "done" => \A n \in cur.answered : Continues(n, cur.began[n], cur.count[n])

(* No process spends more time in old GC than it runs, and none does in    *)
(* the time since the earlier stats call, however often it restarts.       *)
GcInv ==
    /\ \A n \in member : count[n][GcTime] <= now - started[n]
    /\ BaseIsRead /\ base.at # 0 => \A n \in Node : since[n][GcTime] <= now - base.at
    /\ phase = "done" =>
         /\ cur.at = now
         /\ \A n \in cur.answered : cur.count[n][GcTime] <= cur.uptime[n]

(* The inductive invariant: what a bundle records is tied to the processes *)
(* that ran and to the events they counted.                                *)
IInv == TypeOK /\ ClockInv /\ BundleInv /\ HistoryInv /\ GcInv
=============================================================================
