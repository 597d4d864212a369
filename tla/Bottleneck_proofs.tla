-------------------------- MODULE Bottleneck_proofs --------------------------
(***************************************************************************)
(* What the node rules and the bottleneck summary say of present trouble   *)
(* and of history, for any number of nodes with any past, and beside       *)
(* whatever findings other rules make.  The invariant is the types of the  *)
(* processes and that an earlier bundle never reads more rejections than   *)
(* there are; the properties hold of every report that can be made in a    *)
(* state of these types, by what each rule finds (r_... below) and by the  *)
(* sums of counters that are never negative.                               *)
(***************************************************************************)
EXTENDS Bottleneck, SetTheorems

(* A process changes in one field and stays a process. *)
LEMMA FreshIsProcess == Fresh \in Process
<1>1. 0 \in 0 .. MaxUp
  BY NodesAssumption
<1> QED
  BY <1>1 DEF Fresh, Process, Level, Pool, Breaker

(* The processes change, none of them takes rejections back. *)
LEMMA ProcessesChange ==
  ASSUME TypeOK, NEW n \in Node, NEW p \in Process, Happens(n, p), before' = before,
         \A q \in Pool : p.rejected[q] >= proc[n].rejected[q]
  PROVE  TypeOK'
<1>1. /\ proc' = [proc EXCEPT ![n] = p] /\ events' = events + 1 /\ events < MaxEvents
      /\ machine' = machine /\ site' = site
  BY DEF Happens
<1>2. proc' \in [Node -> Process]
  BY <1>1 DEF TypeOK
<1>3. events' \in 0 .. MaxEvents
  BY <1>1, NodesAssumption DEF TypeOK
<1>4. ASSUME before # NoBundle, NEW m \in Node, NEW q \in Pool
      PROVE  before[m][q] <= proc'[m].rejected[q]
  <2>1. before[m][q] <= proc[m].rejected[q] /\ before[m][q] \in Nat
    BY <1>4 DEF TypeOK
  <2>2. CASE m = n
    <3>1. proc[n].rejected[q] \in Nat /\ p.rejected[q] \in Nat /\ proc'[m] = p
      BY <1>1, <2>2 DEF TypeOK, Process
    <3> QED
      BY <2>1, <2>2, <3>1
  <2>3. CASE m # n
    BY <1>1, <2>1, <2>3 DEF TypeOK
  <2> QED
    BY <2>2, <2>3
<1> QED
  BY <1>1, <1>2, <1>3, <1>4 DEF TypeOK

(* One field of a process changes. *)
LEMMA ProcessFields ==
  ASSUME NEW p \in Process
  PROVE  /\ p.up \in 0 .. MaxUp /\ p.queue \subseteq Pool /\ p.use \subseteq Breaker
         /\ p.rejected \in [Pool -> Nat] /\ p.trips \in [Breaker -> Nat]
         /\ p.oldGc \in Nat /\ p.refused \in Nat /\ p.processed \in [Pipeline -> Nat]
         /\ p.failed \in [Pipeline -> Nat] /\ p.flushes \in Nat /\ p.unparsed \in Nat /\ p.indexed \in Nat /\ p.searched \in Nat
BY DEF Process

LEMMA ChangeKeepsTypes ==
  ASSUME TypeOK, NEW n \in Node, NEW p \in Process, Change(n, p),
         p.rejected = proc[n].rejected
  PROVE  TypeOK'
<1>1. Happens(n, p) /\ before' = before
  BY DEF Change
<1>2. \A q \in Pool : p.rejected[q] >= proc[n].rejected[q]
  BY DEF TypeOK, Process
<1> QED
  BY <1>1, <1>2, ProcessesChange

(* The steps of one node. *)
LEMMA QueueSteps ==
  ASSUME TypeOK, NEW n \in Node, NEW p \in Pool, Wait(n, p) \/ Drain(n, p) \/ Reject(n, p)
  PROVE  TypeOK'
<1>1. PICK e : e = proc[n]
  OBVIOUS
<1>2. e \in Process
  BY <1>1 DEF TypeOK
<1>3. CASE Wait(n, p)
  <2>1. Change(n, [e EXCEPT !.queue = @ \cup {p}])
    BY <1>1, <1>3 DEF Wait
  <2>2. [e EXCEPT !.queue = @ \cup {p}] \in Process
    BY <1>2 DEF Process
  <2>3. [e EXCEPT !.queue = @ \cup {p}].rejected = e.rejected
    BY <1>2 DEF Process
  <2> QED
    BY <1>1, <2>1, <2>2, <2>3, ChangeKeepsTypes
<1>4. CASE Drain(n, p)
  <2>1. Change(n, [e EXCEPT !.queue = @ \ {p}])
    BY <1>1, <1>4 DEF Drain
  <2>2. [e EXCEPT !.queue = @ \ {p}] \in Process
    BY <1>2 DEF Process
  <2>3. [e EXCEPT !.queue = @ \ {p}].rejected = e.rejected
    BY <1>2 DEF Process
  <2> QED
    BY <1>1, <2>1, <2>2, <2>3, ChangeKeepsTypes
<1>5. CASE Reject(n, p)
  <2> DEFINE g == [e EXCEPT !.rejected[p] = @ + 1]
  <2>1. Happens(n, g) /\ before' = before
    BY <1>1, <1>5 DEF Reject, Change
  <2>2. e.rejected \in [Pool -> Nat]
    BY <1>2, ProcessFields
  <2>3. g = [e EXCEPT !.rejected = [e.rejected EXCEPT ![p] = @ + 1]]
    OBVIOUS
  <2>4. [e.rejected EXCEPT ![p] = @ + 1] \in [Pool -> Nat]
    BY <2>2
  <2>5. g \in Process
    BY <1>2, <2>4 DEF Process
  <2>6. g.rejected = [e.rejected EXCEPT ![p] = @ + 1]
    BY <1>2 DEF Process
  <2>7. \A q \in Pool : g.rejected[q] >= proc[n].rejected[q]
    <3> HIDE DEF g
    <3> QED
      BY <1>1, <2>2, <2>6
  <2> HIDE DEF g
  <2> QED
    BY <2>1, <2>5, <2>7, ProcessesChange
<1> QED
  BY <1>3, <1>4, <1>5

LEMMA BreakerSteps ==
  ASSUME TypeOK, NEW n \in Node, NEW k \in Breaker, Fill(n, k) \/ Free(n, k) \/ Trip(n, k)
  PROVE  TypeOK'
<1>1. PICK e : e = proc[n]
  OBVIOUS
<1>2. e \in Process
  BY <1>1 DEF TypeOK
<1>3. CASE Fill(n, k)
  <2>1. Change(n, [e EXCEPT !.use = @ \cup {k}])
    BY <1>1, <1>3 DEF Fill
  <2>2. [e EXCEPT !.use = @ \cup {k}] \in Process
    BY <1>2 DEF Process
  <2>3. [e EXCEPT !.use = @ \cup {k}].rejected = e.rejected
    BY <1>2 DEF Process
  <2> QED
    BY <1>1, <2>1, <2>2, <2>3, ChangeKeepsTypes
<1>4. CASE Free(n, k)
  <2>1. Change(n, [e EXCEPT !.use = @ \ {k}])
    BY <1>1, <1>4 DEF Free
  <2>2. [e EXCEPT !.use = @ \ {k}] \in Process
    BY <1>2 DEF Process
  <2>3. [e EXCEPT !.use = @ \ {k}].rejected = e.rejected
    BY <1>2 DEF Process
  <2> QED
    BY <1>1, <2>1, <2>2, <2>3, ChangeKeepsTypes
<1>5. CASE Trip(n, k)
  <2> DEFINE g == [e EXCEPT !.trips[k] = @ + 1]
  <2>1. Change(n, g)
    BY <1>1, <1>5 DEF Trip
  <2>2. e.trips \in [Breaker -> Nat]
    BY <1>2, ProcessFields
  <2>3. g = [e EXCEPT !.trips = [e.trips EXCEPT ![k] = @ + 1]]
    OBVIOUS
  <2>4. [e.trips EXCEPT ![k] = @ + 1] \in [Breaker -> Nat]
    BY <2>2
  <2>5. g \in Process
    BY <1>2, <2>4 DEF Process
  <2>6. g.rejected = e.rejected
    BY <1>2 DEF Process
  <2> HIDE DEF g
  <2> QED
    BY <1>1, <2>1, <2>5, <2>6, ChangeKeepsTypes
<1> QED
  BY <1>3, <1>4, <1>5

LEMMA LevelSteps ==
  ASSUME TypeOK, NEW n \in Node, NEW l \in Level,
         Press(n, l) \/ SetLoad(n, l) \/ Throttle(n, l) \/ Flush(n, l)
  PROVE  TypeOK'
<1>1. PICK e : e = proc[n]
  OBVIOUS
<1>2. e \in Process
  BY <1>1 DEF TypeOK
<1>3. \/ Change(n, [e EXCEPT !.pressure = l]) \/ Change(n, [e EXCEPT !.load = l])
      \/ Change(n, [e EXCEPT !.throttled = l])
      \/ Change(n, [e EXCEPT !.flushes = @ + 1, !.latency = l])
  BY <1>1 DEF Press, SetLoad, Throttle, Flush
<1>4. /\ [e EXCEPT !.pressure = l] \in Process /\ [e EXCEPT !.pressure = l].rejected = e.rejected
      /\ [e EXCEPT !.load = l] \in Process /\ [e EXCEPT !.load = l].rejected = e.rejected
  BY <1>2 DEF Process
<1>5. [e EXCEPT !.throttled = l] \in Process /\ [e EXCEPT !.throttled = l].rejected = e.rejected
  BY <1>2 DEF Process
<1>6. /\ [e EXCEPT !.flushes = @ + 1, !.latency = l] \in Process
      /\ [e EXCEPT !.flushes = @ + 1, !.latency = l].rejected = e.rejected
  <2>1. PICK k \in Nat : k = e.flushes + 1
    BY <1>2, ProcessFields
  <2>2. [e EXCEPT !.flushes = k, !.latency = l] \in Process
    BY <1>2 DEF Process
  <2>3. [e EXCEPT !.flushes = k, !.latency = l].rejected = e.rejected
    BY <1>2 DEF Process
  <2>4. [e EXCEPT !.flushes = @ + 1, !.latency = l] = [e EXCEPT !.flushes = k, !.latency = l]
    BY <2>1
  <2> QED
    BY <2>2, <2>3, <2>4
<1> QED
  BY <1>1, <1>3, <1>4, <1>5, <1>6, ChangeKeepsTypes

LEMMA CountingSteps ==
  ASSUME TypeOK, NEW n \in Node, OldGc(n) \/ Refuse(n) \/ Unparsable(n)
  PROVE  TypeOK'
<1>1. PICK e : e = proc[n]
  OBVIOUS
<1>2. e \in Process
  BY <1>1 DEF TypeOK
<1>3. \/ Change(n, [e EXCEPT !.oldGc = @ + 1]) \/ Change(n, [e EXCEPT !.refused = @ + 1])
      \/ Change(n, [e EXCEPT !.unparsed = @ + 1])
  BY <1>1 DEF OldGc, Refuse, Unparsable
<1>4. /\ [e EXCEPT !.oldGc = @ + 1] \in Process
      /\ [e EXCEPT !.oldGc = @ + 1].rejected = e.rejected
  BY <1>2 DEF Process
<1>5. /\ [e EXCEPT !.refused = @ + 1] \in Process
      /\ [e EXCEPT !.refused = @ + 1].rejected = e.rejected
  BY <1>2 DEF Process
<1>6. /\ [e EXCEPT !.unparsed = @ + 1] \in Process
      /\ [e EXCEPT !.unparsed = @ + 1].rejected = e.rejected
  BY <1>2 DEF Process
<1> QED
  BY <1>1, <1>3, <1>4, <1>5, <1>6, ChangeKeepsTypes

LEMMA WorkSteps ==
  ASSUME TypeOK, NEW n \in Node,
         \/ \E c \in {"idle", "busy"} : SetCpu(n, c)
         \/ \E p \in Pipeline, fails \in {0, 1} : Ingest(n, p, fails)
         \/ \E busy_ \in BOOLEAN : Search(n, busy_)
  PROVE  TypeOK'
<1>1. PICK e : e = proc[n]
  OBVIOUS
<1>2. e \in Process
  BY <1>1 DEF TypeOK
<1>3. ASSUME NEW c \in {"idle", "busy"}, SetCpu(n, c)
      PROVE  TypeOK'
  <2>1. Change(n, [e EXCEPT !.cpu = c])
    BY <1>1, <1>3 DEF SetCpu
  <2>2. [e EXCEPT !.cpu = c] \in Process /\ [e EXCEPT !.cpu = c].rejected = e.rejected
    BY <1>2 DEF Process
  <2> QED
    BY <1>1, <2>1, <2>2, ChangeKeepsTypes
<1>4. ASSUME NEW p \in Pipeline, NEW fails \in {0, 1}, Ingest(n, p, fails)
      PROVE  TypeOK'
  <2> DEFINE more == IF is_data(n) THEN 1 - fails ELSE 0
             done == [e.processed EXCEPT ![p] = @ + 1]
             bad == [e.failed EXCEPT ![p] = @ + fails]
             g == [e EXCEPT !.processed = done, !.failed = bad, !.indexed = @ + more]
  <2>1. Change(n, g)
    BY <1>1, <1>4 DEF Ingest
  <2>2. more \in {0, 1}
    OBVIOUS
  <2> HIDE DEF more
  <2>3. done \in [Pipeline -> Nat] /\ bad \in [Pipeline -> Nat] /\ e.indexed + more \in Nat
    BY <1>2, <2>2, ProcessFields
  <2> HIDE DEF done, bad
  <2>4. g \in Process /\ g.rejected = e.rejected
    BY <1>2, <2>3 DEF Process
  <2> HIDE DEF g
  <2> QED
    BY <1>1, <2>1, <2>4, ChangeKeepsTypes
<1>5. ASSUME NEW busy_ \in BOOLEAN, Search(n, busy_)
      PROVE  TypeOK'
  <2> DEFINE g == [e EXCEPT !.searched = @ + 1, !.searching = busy_]
  <2>1. Change(n, g)
    BY <1>1, <1>5 DEF Search
  <2>2. e.searched + 1 \in Nat
    BY <1>2, ProcessFields
  <2>3. g \in Process /\ g.rejected = e.rejected
    BY <1>2, <2>2 DEF Process
  <2> HIDE DEF g
  <2> QED
    BY <1>1, <2>1, <2>3, ChangeKeepsTypes
<1> QED
  BY <1>3, <1>4, <1>5

(* A restart resets the counters and what is kept of the earlier bundle.   *)
LEMMA RestartStep ==
  ASSUME TypeOK, NEW n \in Node, Restart(n)
  PROVE  TypeOK'
<1>1. /\ proc' = [proc EXCEPT ![n] = Fresh] /\ events' = events + 1 /\ events < MaxEvents
      /\ machine' = machine /\ site' = site
      /\ before' = IF before = NoBundle THEN NoBundle ELSE [before EXCEPT ![n] = Fresh.rejected]
  BY DEF Restart, Happens
<1>2. proc' \in [Node -> Process]
  BY <1>1, FreshIsProcess DEF TypeOK
<1>3. events' \in 0 .. MaxEvents
  BY <1>1, NodesAssumption DEF TypeOK
<1>4. Fresh.rejected \in [Pool -> Nat] /\ \A q \in Pool : Fresh.rejected[q] = 0
  BY DEF Fresh
<1>5. ASSUME before' # NoBundle
      PROVE  /\ before' \in [Node -> [Pool -> Nat]]
             /\ \A m \in Node : \A q \in Pool : before'[m][q] <= proc'[m].rejected[q]
  <2>1. /\ before' = [before EXCEPT ![n] = Fresh.rejected]
        /\ before \in [Node -> [Pool -> Nat]] /\ proc \in [Node -> Process]
        /\ \A m \in Node : \A q \in Pool : before[m][q] <= proc[m].rejected[q]
    BY <1>1, <1>5 DEF TypeOK
  <2>2. before' \in [Node -> [Pool -> Nat]]
    BY <1>4, <2>1
  <2>3. ASSUME NEW m \in Node, NEW q \in Pool
        PROVE  before'[m][q] <= proc'[m].rejected[q]
    <3>1. CASE m = n
      <4>1. before'[m] = Fresh.rejected /\ proc'[m] = Fresh
        BY <1>1, <2>1, <3>1
      <4> QED
        BY <1>4, <4>1
    <3>2. CASE m # n
      <4>1. before'[m] = before[m] /\ proc'[m] = proc[m]
        BY <1>1, <2>1, <3>2
      <4> QED
        BY <2>1, <4>1
    <3> QED
      BY <3>1, <3>2
  <2> QED
    BY <2>2, <2>3
<1> QED
  BY <1>1, <1>2, <1>3, <1>5 DEF TypeOK

LEMMA HourStep ==
  ASSUME TypeOK, Hour
  PROVE  TypeOK'
<1> DEFINE After(n) == [proc[n] EXCEPT !.up = IF @ < MaxUp THEN @ + 1 ELSE @]
<1>1. /\ proc' = [n \in Node |-> After(n)] /\ events' = events + 1 /\ events < MaxEvents
      /\ machine' = machine /\ site' = site /\ before' = before
  BY DEF Hour
<1>2. ASSUME NEW n \in Node
      PROVE  After(n) \in Process /\ After(n).rejected = proc[n].rejected
  <2>1. PICK e : e = proc[n]
    OBVIOUS
  <2>2. e \in Process
    BY <2>1 DEF TypeOK
  <2> DEFINE u == IF e.up < MaxUp THEN e.up + 1 ELSE e.up
  <2>3. u \in 0 .. MaxUp
    BY <2>2, ProcessFields, NodesAssumption
  <2>4. After(n) = [e EXCEPT !.up = u]
    BY <2>1
  <2> HIDE DEF u, After
  <2>5. [e EXCEPT !.up = u] \in Process /\ [e EXCEPT !.up = u].rejected = e.rejected
    BY <2>2, <2>3 DEF Process
  <2> QED
    BY <2>1, <2>4, <2>5
<1> HIDE DEF After
<1>3. proc' \in [Node -> Process] /\ \A n \in Node : proc'[n].rejected = proc[n].rejected
  BY <1>1, <1>2
<1>4. events' \in 0 .. MaxEvents
  BY <1>1, NodesAssumption DEF TypeOK
<1> QED
  BY <1>1, <1>3, <1>4 DEF TypeOK

LEMMA CollectStep ==
  ASSUME TypeOK, Collect
  PROVE  TypeOK'
<1>1. before' = [n \in Node |-> proc[n].rejected] /\ UNCHANGED <<machine, site, proc, events>>
  BY DEF Collect
<1>2. \A n \in Node : proc[n].rejected \in [Pool -> Nat]
  BY ProcessFields DEF TypeOK
<1>3. before' \in [Node -> [Pool -> Nat]]
  BY <1>1, <1>2
<1>4. \A n \in Node : \A q \in Pool : before'[n][q] <= proc'[n].rejected[q]
  <2> TAKE n \in Node
  <2> TAKE q \in Pool
  <2>1. proc[n].rejected[q] \in Nat /\ before'[n] = proc[n].rejected /\ proc' = proc
    BY <1>1, <1>2
  <2> QED
    BY <2>1
<1> QED
  BY <1>1, <1>3, <1>4 DEF TypeOK

LEMMA TypesStart == Init => TypeOK
<1> SUFFICES ASSUME Init PROVE TypeOK
  OBVIOUS
<1>1. proc \in [Node -> Process] /\ before = NoBundle /\ events = 0
  BY NodesAssumption DEF Init
<1>2. \E w \in Worlds : machine = w.machine /\ site = w.site
  BY DEF Init
<1>3. events \in 0 .. MaxEvents
  BY <1>1, NodesAssumption
<1> QED
  BY <1>1, <1>2, <1>3 DEF TypeOK

LEMMA TypesAreKept ==
  ASSUME TypeOK, [Next]_vars
  PROVE  TypeOK'
<1>1. CASE UNCHANGED vars
  BY <1>1 DEF vars, TypeOK
<1> QED
  BY <1>1, QueueSteps, BreakerSteps, LevelSteps, CountingSteps, WorkSteps, RestartStep,
     HourStep, CollectStep DEF Next

(* The other rules' findings do not change while the nodes run.            *)
NInv == TypeOK /\ others \in Others

(* The states in which a summary is made.                                  *)
THEOREM NodesInvariant == BSpec => []NInv
<1>1. BInit => NInv
  BY TypesStart DEF BInit, NInv
<1>2. NInv /\ [Next /\ UNCHANGED others]_allVars => NInv'
  BY TypesAreKept DEF allVars, NInv
<1> QED
  BY <1>1, <1>2, PTL DEF BSpec

(* The processes keep their types, and what an earlier bundle read of the  *)
(* rejections of a process is never more than it has now, restarts or not. *)
THEOREM NodesTypes == BSpec => []TypeOK
<1>1. NInv => TypeOK
  BY DEF NInv
<1> QED
  BY <1>1, NodesInvariant, PTL

-----------------------------------------------------------------------------
(* What a rule reports it reports under its own ids.                       *)
LEMMA OsIds ==
  ASSUME NEW who, NEW f \in r_os(who)
  PROVE  /\ f.id \in {"OS-001", "OS-002", "OS-003", "OS-004", "OS-005", "OS-006", "OS-007"}
         /\ f.id = "OS-001" => f \in Load(who)
         /\ f.id = "OS-003" => f \in Throttling(who)
<1>1. \A g \in Load(who) : g.id = "OS-001"
  BY DEF Load, IfSo, Naming
<1>2. \A g \in Throttling(who) : g.id = "OS-003"
  BY DEF Throttling, IfSo, Naming
<1>3. \A g \in Uptimes(who) : g.id \in {"OS-006", "OS-007"}
  BY DEF Uptimes, IfSo, Naming
<1>4. \/ f \in Load(who) \cup Throttling(who) \cup Uptimes(who)
      \/ f.id \in {"OS-002", "OS-004", "OS-005"}
  BY DEF r_os, IfSo, Naming
<1> QED
  BY <1>1, <1>2, <1>3, <1>4

LEMMA RuleIds ==
  ASSUME NEW who
  PROVE  /\ \A f \in r_heap_usage(who) : f.id = "JVM-001"
         /\ \A f \in r_heap_sizing(who) : f.id \in {"JVM-002", "JVM-003", "JVM-004"}
         /\ \A f \in r_gc(who) : f.id = "JVM-005"
         /\ \A f \in r_thread_pools(who) : f.id \in {"TP-001", "TP-002"}
         /\ \A f \in r_breakers(who) : f.id \in {"BRK-001", "BRK-002"}
         /\ \A f \in r_indexing_pressure(who) : f.id = "IP-001"
         /\ \A f \in r_fielddata(who) : f.id \in {"FD-001", "FD-002"}
         /\ \A f \in r_ingest_failures(who) : f.id = "ING-001"
         /\ \A f \in r_node_heterogeneity(who) : f.id \in {"NODE-001", "NODE-003"}
         /\ \A f \in r_write_latency(who) : f.id = "PERF-012"
         /\ \A f \in r_search_pool_wait(who) : f.id = "PERF-013"
         /\ \A f \in r_rejections_delta(who) : f.id \in {"DIF-004", "DIF-005"}
<1>1. \A f \in r_heap_usage(who) : f.id = "JVM-001"
  BY DEF r_heap_usage, NamingWorst, Naming
<1>2. \A f \in r_heap_sizing(who) : f.id \in {"JVM-002", "JVM-003", "JVM-004"}
  BY DEF r_heap_sizing, IfSo, Naming
<1>3. \A f \in r_gc(who) : f.id = "JVM-005"
  BY DEF r_gc, NamingWorst, Naming
<1>4. \A f \in r_thread_pools(who) : f.id \in {"TP-001", "TP-002"}
  BY DEF r_thread_pools, IfSo, Naming
<1>5. \A f \in r_breakers(who) : f.id \in {"BRK-001", "BRK-002"}
  BY DEF r_breakers, IfSo, Naming
<1>6. \A f \in r_indexing_pressure(who) : f.id = "IP-001"
  BY DEF r_indexing_pressure, IfSo, Naming
<1>7. \A f \in r_fielddata(who) : f.id \in {"FD-001", "FD-002"}
  BY DEF r_fielddata, IfSo, Naming
<1>8. \A f \in r_ingest_failures(who) : f.id = "ING-001"
  BY DEF r_ingest_failures, IfSo, Naming
<1>9. \A f \in r_node_heterogeneity(who) : f.id \in {"NODE-001", "NODE-003"}
  BY DEF r_node_heterogeneity, IfSo, Naming
<1>10. \A f \in r_write_latency(who) : f.id = "PERF-012"
  BY DEF r_write_latency, IfSo, Naming
<1>11. \A f \in r_search_pool_wait(who) : f.id = "PERF-013"
  BY DEF r_search_pool_wait, IfSo, Naming
<1>12. \A f \in r_rejections_delta(who) : f.id \in {"DIF-004", "DIF-005"}
  BY DEF r_rejections_delta, IfSo, Naming
<1> QED
  BY <1>1, <1>2, <1>3, <1>4, <1>5, <1>6, <1>7, <1>8, <1>9, <1>10, <1>11, <1>12

(* So the rule behind a finding can be told from its id.                   *)
LEMMA WhoReports ==
  ASSUME NEW who, NEW f \in NodeFindings(who)
  PROVE  /\ f.id \in NodeIds \ {"DIF-004", "DIF-005"}
         /\ f.id = "JVM-001" => f \in r_heap_usage(who)
         /\ f.id = "OS-001" => f \in Load(who)
         /\ f.id = "OS-003" => f \in Throttling(who)
         /\ f.id = "TP-001" => f \in r_thread_pools(who)
         /\ f.id = "BRK-001" => f \in r_breakers(who)
         /\ f.id = "IP-001" => f \in r_indexing_pressure(who)
<1>1. \/ f \in r_heap_usage(who) \/ f \in r_heap_sizing(who) \/ f \in r_gc(who)
      \/ f \in r_os(who) \/ f \in r_thread_pools(who) \/ f \in r_breakers(who)
      \/ f \in r_indexing_pressure(who) \/ f \in r_fielddata(who)
      \/ f \in r_ingest_failures(who) \/ f \in r_node_heterogeneity(who)
      \/ f \in r_write_latency(who) \/ f \in r_search_pool_wait(who)
  BY DEF NodeFindings
<1> QED
  BY <1>1, OsIds, RuleIds DEF NodeIds

(* Beside the node rules and the comparison no finding has their ids.      *)
LEMMA WhoElseReports ==
  ASSUME NInv, NEW f \in Findings(Node)
  PROVE  /\ f.id \in NodeIds \ {"DIF-004", "DIF-005"} => f \in NodeFindings(Node)
         /\ f.id \in {"DIF-004", "DIF-005"} => f \in r_rejections_delta(Node)
<1>1. f \in NodeFindings(Node) \/ f \in r_rejections_delta(Node) \/ f \in others
  BY DEF Findings
<1>2. f \in others => f.id \notin NodeIds
  BY OthersAssumption DEF NInv
<1>3. {"DIF-004", "DIF-005"} \subseteq NodeIds
  BY DEF NodeIds
<1> QED
  BY <1>1, <1>2, <1>3, WhoReports, RuleIds

-----------------------------------------------------------------------------
(* Of calm nodes no rule on a counter of the past is critical: a past of   *)
(* rejections, trips or throttling needs a present to be.                  *)
LEMMA PastIsNotCritical ==
  ASSUME NEW who, Calm(who), NEW f \in NodeFindings(who),
         f.id \in {"TP-001", "BRK-001", "OS-003"}
  PROVE  f.severity # "CRITICAL"
<1>1. CASE f.id = "TP-001"
  <2>1. f \in r_thread_pools(who)
    BY <1>1, WhoReports
  <2>2. ~\E n \in who : \E p \in proc[n].queue : proc[n].rejected[p] > 0
    BY DEF Calm
  <2> QED
    BY <1>1, <2>1, <2>2 DEF r_thread_pools, IfSo, Naming
<1>2. CASE f.id = "BRK-001"
  <2>1. f \in r_breakers(who)
    BY <1>2, WhoReports
  <2>2. \A nk \in who \X Breaker : ~LiveBreaker(nk[1], nk[2])
    <3>1. \A n \in who : \A k \in Breaker : ~LiveBreaker(n, k)
      BY DEF Calm, LiveBreaker
    <3> QED
      BY <3>1
  <2> QED
    BY <1>2, <2>1, <2>2 DEF r_breakers, IfSo, Naming
<1>3. CASE f.id = "OS-003"
  <2>1. f \in Throttling(who)
    BY <1>3, WhoReports
  <2>2. \A n \in who : ~busy(n)
    BY DEF Calm, busy
  <2> QED
    BY <2>1, <2>2 DEF Throttling, IfSo, Naming
<1> QED
  BY <1>1, <1>2, <1>3

LEMMA NoPastIsCritical == HistoryIsNeverCritical
<1> SUFFICES ASSUME NEW who \in SUBSET Node, Calm(who),
                    NEW i \in {"TP-001", "BRK-001", "OS-003"}
             PROVE  ~Critical(NodeFindings(who), i)
  BY DEF HistoryIsNeverCritical
<1> QED
  BY PastIsNotCritical DEF Critical

(* A breaker that would trip again on real memory is a heap that is full.  *)
LEMMA BreakersAgreeWithHeap == BreakersMeanHeap
<1> SUFFICES ASSUME NEW who \in SUBSET Node, Critical(r_breakers(who), "BRK-001"),
                    site.realMemory, \A n \in who : "request" \notin proc[n].use
             PROVE  Critical(r_heap_usage(who), "JVM-001")
  BY DEF BreakersMeanHeap
<1>1. PICK nk \in who \X Breaker : LiveBreaker(nk[1], nk[2])
  BY DEF Critical, r_breakers, IfSo, Naming
<1>2. nk[1] \in who /\ nk[2] \in Breaker
  OBVIOUS
<1>3. nk[2] = "parent" /\ proc[nk[1]].pressure = "crit"
  BY <1>1, <1>2 DEF LiveBreaker, Breaker
<1>4. nk[1] \in At(who, "pressure", "crit")
  BY <1>2, <1>3 DEF At
<1>5. Naming("JVM-001", "CRITICAL", At(who, "pressure", "crit")) \in r_heap_usage(who)
  BY <1>2, <1>4 DEF r_heap_usage, NamingWorst
<1> QED
  BY <1>5 DEF Critical, Naming

(* The rules that excuse a node by its load excuse the ones OS-001 names.  *)
LEMMA LoadIsReported == LoadRulesAgree
<1> SUFFICES ASSUME NEW who \in SUBSET Node
             PROVE  {n \in who : load_high(n)}
                      = UNION {f.affected : f \in {g \in r_os(who) :
                                  g.id = "OS-001" /\ g.severity \in Serious}}
  BY DEF LoadRulesAgree
<1> DEFINE host == {n \in who : proc[n].load # "low" /\ in_container(n) /\ proc[n].cpu = "idle"}
           high == {n \in who \ host : proc[n].load # "low"}
           top  == IF At(high, "load", "crit") # {} THEN "CRITICAL" ELSE "WARNING"
           said == {g \in r_os(who) : g.id = "OS-001" /\ g.severity \in Serious}
<1>1. high = {n \in who : load_high(n)}
  BY DEF load_high
<1>2. Load(who) = IF high # {} THEN {Naming("OS-001", top, high)}
                  ELSE IfSo(host # {}, Naming("OS-001", "INFO", host))
  BY DEF Load
<1>3. top \in Serious /\ "INFO" \notin Serious
  BY DEF Serious
<1>4. said = {g \in Load(who) : g.id = "OS-001" /\ g.severity \in Serious}
  <2>1. Load(who) \subseteq r_os(who)
    BY DEF r_os
  <2> HIDE DEF host, high, top
  <2> QED
    BY <2>1, OsIds
<1> HIDE DEF host, high, top, said
<1>5. CASE high # {}
  <2>1. said = {Naming("OS-001", top, high)}
    BY <1>2, <1>3, <1>4, <1>5 DEF Naming
  <2>2. Naming("OS-001", top, high).affected = high
    BY DEF Naming
  <2>3. UNION {f.affected : f \in said} = high
    BY <2>1, <2>2
  <2> QED
    BY <1>1, <2>3 DEF said
<1>6. CASE high = {}
  <2>1. said = {}
    BY <1>2, <1>3, <1>4, <1>6 DEF IfSo, Naming
  <2>2. UNION {f.affected : f \in said} = {}
    BY <2>1
  <2> QED
    BY <1>1, <1>6, <2>2 DEF said
<1> QED
  BY <1>5, <1>6

-----------------------------------------------------------------------------
(* What some nodes show all of them show, at least as severely.            *)
Told(fs, gs) ==
    \A f \in fs : f.id \in Shares \/ f.severity = "OK"
                  \/ \E g \in gs : g.id = f.id /\ Rank[g.severity] <= Rank[f.severity]

LEMMA TheSameIsTold ==
  ASSUME NEW fs, NEW gs, fs \subseteq gs, \A f \in fs : f.severity \in Severities
  PROVE  Told(fs, gs)
<1>1. \A s \in Severities : Rank[s] <= Rank[s]
  BY DEF Rank, Severities
<1> QED
  BY <1>1 DEF Told

(* Of one finding: more is there to report, and it is as severe.           *)
LEMMA MoreIsTold ==
  ASSUME NEW c, NEW d, NEW i, NEW s \in Severities, NEW t \in Severities, NEW a, NEW b, NEW gs,
         c => d /\ Rank[t] <= Rank[s], IfSo(d, Naming(i, t, b)) \subseteq gs
  PROVE  Told(IfSo(c, Naming(i, s, a)), gs)
<1> SUFFICES ASSUME c
             PROVE  \E g \in gs : g.id = i /\ Rank[g.severity] <= Rank[s]
  BY DEF Told, IfSo, Naming
<1>1. Naming(i, t, b) \in gs
  BY DEF IfSo
<1>2. Naming(i, t, b).id = i /\ Naming(i, t, b).severity = t
  BY DEF Naming
<1> QED
  BY <1>1, <1>2

LEMMA WorseIsTold ==
  ASSUME NEW i, NEW crit, NEW warn, NEW crit2, NEW warn2, NEW gs,
         crit \subseteq crit2, warn \subseteq crit2 \cup warn2,
         NamingWorst(i, crit2, warn2) \subseteq gs
  PROVE  Told(NamingWorst(i, crit, warn), gs)
<1>1. /\ Rank["CRITICAL"] <= Rank["CRITICAL"] /\ Rank["CRITICAL"] <= Rank["WARNING"]
      /\ Rank["WARNING"] <= Rank["WARNING"]
  BY DEF Rank
<1>2. /\ Naming(i, "CRITICAL", crit2).id = i /\ Naming(i, "CRITICAL", crit2).severity = "CRITICAL"
      /\ Naming(i, "WARNING", warn2).id = i /\ Naming(i, "WARNING", warn2).severity = "WARNING"
  BY DEF Naming
<1>3. CASE crit # {}
  <2>1. Naming(i, "CRITICAL", crit2) \in gs
    BY <1>3 DEF NamingWorst
  <2>2. \A f \in NamingWorst(i, crit, warn) : f.id = i /\ f.severity = "CRITICAL"
    BY <1>3 DEF NamingWorst, Naming
  <2> QED
    BY <1>1, <1>2, <2>1, <2>2 DEF Told
<1>4. CASE crit = {} /\ warn # {}
  <2>1. Naming(i, "CRITICAL", crit2) \in gs \/ Naming(i, "WARNING", warn2) \in gs
    BY <1>4 DEF NamingWorst
  <2>2. \A f \in NamingWorst(i, crit, warn) : f.id = i /\ f.severity = "WARNING"
    BY <1>4 DEF NamingWorst, Naming
  <2> QED
    BY <1>1, <1>2, <2>1, <2>2 DEF Told
<1>5. CASE crit = {} /\ warn = {}
  BY <1>5 DEF NamingWorst, Naming, Told
<1> QED
  BY <1>3, <1>4, <1>5

(* Rejections add up: fewer nodes have no more of them.                    *)
LEMMA RejectedIsSum ==
  ASSUME NEW who, NEW pools
  PROVE  Rejected(who, pools)
           = SumFunctionOnSet([np \in who \X pools |-> proc[np[1]].rejected[np[2]]], who \X pools)
<1> DEFINE f == [np \in who \X pools |-> proc[np[1]].rejected[np[2]]]
<1>1. DOMAIN f = who \X pools
  OBVIOUS
<1>2. Rejected(who, pools) = SumFunction(f)
  BY DEF Rejected
<1>3. SumFunction(f) = SumFunctionOnSet(f, who \X pools)
  <2> HIDE DEF f
  <2> QED
    BY <1>1 DEF SumFunction
<1> QED
  BY <1>2, <1>3

(* They are numbers. *)
LEMMA RejectedIsNat ==
  ASSUME TypeOK, NEW who \in SUBSET Node, NEW pools \in SUBSET Pool
  PROVE  /\ Rejected(who, pools) \in Nat
         /\ IsFiniteSet(who \X pools)
         /\ \A np \in who \X pools : proc[np[1]].rejected[np[2]] \in Nat
<1>1. IsFiniteSet(Pool)
  <2>1. Pool = {"write"} \cup {"write_coordination"} \cup {"search"}
    BY DEF Pool
  <2> QED
    BY <2>1, FS_Singleton, FS_Union
<1>2. IsFiniteSet(who) /\ IsFiniteSet(pools)
  BY <1>1, NodesAssumption, FS_Subset
<1>3. IsFiniteSet(who \X pools)
  BY <1>2, FS_Product
<1>4. \A np \in who \X pools : proc[np[1]].rejected[np[2]] \in Nat
  <2>1. \A n \in who : \A p \in pools : proc[n].rejected[p] \in Nat
    BY ProcessFields DEF TypeOK
  <2> QED
    BY <2>1
<1> DEFINE f == [np \in who \X pools |-> proc[np[1]].rejected[np[2]]]
<1>5. SumFunctionOnSet(f, who \X pools) \in Nat
  BY <1>3, <1>4, SumIsNat
<1>6. Rejected(who, pools) = SumFunctionOnSet(f, who \X pools)
  BY RejectedIsSum
<1> QED
  BY <1>3, <1>4, <1>5, <1>6

LEMMA FewerReject ==
  ASSUME TypeOK, NEW who \in SUBSET Node
  PROVE  Rejected(who, Pool) <= Rejected(Node, Pool)
<1> DEFINE f == [np \in who \X Pool |-> proc[np[1]].rejected[np[2]]]
           g == [np \in Node \X Pool |-> proc[np[1]].rejected[np[2]]]
<1>1. /\ IsFiniteSet(who \X Pool) /\ IsFiniteSet(Node \X Pool)
      /\ \A np \in Node \X Pool : g[np] \in Nat
      /\ \A np \in who \X Pool : f[np] \in Int /\ f[np] = g[np]
  <2>1. Node \in SUBSET Node /\ Pool \in SUBSET Pool /\ who \X Pool \subseteq Node \X Pool
    OBVIOUS
  <2> QED
    BY <2>1, RejectedIsNat
<1>2. Rejected(who, Pool) = SumFunctionOnSet(f, who \X Pool)
  BY RejectedIsSum
<1>3. Rejected(Node, Pool) = SumFunctionOnSet(g, Node \X Pool)
  BY RejectedIsSum
<1>4. who \X Pool \in SUBSET (Node \X Pool)
  OBVIOUS
<1> HIDE DEF f, g
<1>5. SumFunctionOnSet(f, who \X Pool) = SumFunctionOnSet(g, who \X Pool)
  BY <1>1, SumsAgree
<1>6. SumFunctionOnSet(g, who \X Pool) <= SumFunctionOnSet(g, Node \X Pool)
  BY <1>1, <1>4, SumOfSome
<1> QED
  BY <1>2, <1>3, <1>5, <1>6

LEMMA ToldTogether ==
  ASSUME NEW fs, NEW gs, NEW fs2, NEW gs2, Told(fs, gs), Told(fs2, gs2)
  PROVE  Told(fs \cup fs2, gs \cup gs2)
BY DEF Told

LEMMA RankIsOrder ==
  /\ Rank["CRITICAL"] <= Rank["CRITICAL"] /\ Rank["WARNING"] <= Rank["WARNING"]
  /\ Rank["INFO"] <= Rank["INFO"] /\ Rank["CRITICAL"] <= Rank["WARNING"]
  /\ Rank["CRITICAL"] <= Rank["INFO"] /\ Rank["WARNING"] <= Rank["INFO"]
  /\ {"CRITICAL", "WARNING", "INFO", "OK"} \subseteq Severities
BY DEF Rank, Severities

(* Rule by rule. *)
LEMMA HeapIsTold ==
  ASSUME NEW who \in SUBSET Node
  PROVE  Told(r_heap_usage(who), r_heap_usage(Node))
<1>1. CASE who = {}
  BY <1>1 DEF r_heap_usage, Told
<1>2. CASE who # {}
  <2>1. /\ r_heap_usage(who) = NamingWorst("JVM-001", At(who, "pressure", "crit"),
                                           At(who, "pressure", "warn"))
        /\ r_heap_usage(Node) = NamingWorst("JVM-001", At(Node, "pressure", "crit"),
                                            At(Node, "pressure", "warn"))
    BY <1>2 DEF r_heap_usage
  <2>2. /\ At(who, "pressure", "crit") \subseteq At(Node, "pressure", "crit")
        /\ At(who, "pressure", "warn") \subseteq At(Node, "pressure", "warn")
    BY DEF At
  <2> QED
    BY <2>1, <2>2, WorseIsTold
<1> QED
  BY <1>1, <1>2

LEMMA SizingIsTold ==
  ASSUME NEW who \in SUBSET Node
  PROVE  Told(r_heap_sizing(who), r_heap_sizing(Node))
<1> DEFINE off      == {n \in Node : machine[n].oops = "false"}
           unknown  == {n \in Node : machine[n].oops = "unknown"}
           oversize == {n \in unknown : machine[n].heap = "crit"}
           near     == {n \in unknown : machine[n].heap = "warn"}
           tooBig(w) == {n \in w : machine[n].ratio}
           mismatch == {n \in Node : machine[n].xms}
           oops == IfSo(off \cup oversize \cup near # {},
                        Naming("JVM-002", IF off \cup oversize # {} THEN "WARNING" ELSE "INFO",
                               off \cup oversize \cup near))
           big(w) == IfSo(tooBig(w) # {}, Naming("JVM-003", "WARNING", tooBig(w)))
           xms == IfSo(mismatch # {}, Naming("JVM-004", "WARNING", mismatch))
<1>1. r_heap_sizing(who) = oops \cup big(who) \cup xms /\ r_heap_sizing(Node) = oops \cup big(Node) \cup xms
  BY DEF r_heap_sizing
<1>2. Told(oops, oops) /\ Told(xms, xms)
  <2>1. \A f \in oops \cup xms : f.severity \in Severities
    BY DEF IfSo, Naming, Severities
  <2> HIDE DEF oops, xms
  <2> QED
    BY <2>1, TheSameIsTold
<1>3. Told(big(who), big(Node))
  <2>1. tooBig(who) \subseteq tooBig(Node)
    OBVIOUS
  <2> HIDE DEF tooBig
  <2> QED
    BY <2>1, MoreIsTold, RankIsOrder
<1> HIDE DEF oops, big, xms
<1>4. Told(oops \cup big(who), oops \cup big(Node))
  BY <1>2, <1>3, ToldTogether
<1>5. Told((oops \cup big(who)) \cup xms, (oops \cup big(Node)) \cup xms)
  BY <1>2, <1>4, ToldTogether
<1> QED
  BY <1>1, <1>5

LEMMA GcIsTold ==
  ASSUME NEW who \in SUBSET Node
  PROVE  Told(r_gc(who), r_gc(Node))
<1> DEFINE rated(w) == {n \in w : proc[n].up >= 1}
           crit(w)  == {n \in rated(w) : proc[n].oldGc >= GcCrit * proc[n].up}
           warn(w)  == {n \in rated(w) \ crit(w) : proc[n].oldGc >= GcWarn * proc[n].up}
<1>1. CASE rated(who) = {}
  BY <1>1 DEF r_gc, Told
<1>2. CASE rated(who) # {}
  <2>1. rated(Node) # {}
    BY <1>2
  <2>2. r_gc(who) = NamingWorst("JVM-005", crit(who), warn(who))
    BY <1>2 DEF r_gc
  <2>3. r_gc(Node) = NamingWorst("JVM-005", crit(Node), warn(Node))
    BY <2>1 DEF r_gc
  <2>4. crit(who) \subseteq crit(Node) /\ warn(who) \subseteq crit(Node) \cup warn(Node)
    OBVIOUS
  <2> HIDE DEF rated, crit, warn
  <2> QED
    BY <2>2, <2>3, <2>4, WorseIsTold
<1> QED
  BY <1>1, <1>2

LEMMA LoadIsTold ==
  ASSUME NEW who \in SUBSET Node
  PROVE  Told(Load(who), Load(Node))
<1> DEFINE host(w) == {n \in w : proc[n].load # "low" /\ in_container(n) /\ proc[n].cpu = "idle"}
           high(w) == {n \in w \ host(w) : proc[n].load # "low"}
           top(w)  == IF At(high(w), "load", "crit") # {} THEN "CRITICAL" ELSE "WARNING"
           one(w)  == IfSo(high(w) # {}, Naming("OS-001", top(w), high(w)))
<1>1. Load(who) = IF high(who) # {} THEN one(who)
                  ELSE IfSo(host(who) # {}, Naming("OS-001", "INFO", host(who)))
  BY DEF Load, IfSo
<1>2. Load(Node) = IF high(Node) # {} THEN one(Node)
                   ELSE IfSo(host(Node) # {}, Naming("OS-001", "INFO", host(Node)))
  BY DEF Load, IfSo
<1>3. /\ host(who) \subseteq host(Node) /\ high(who) \subseteq high(Node)
      /\ At(high(who), "load", "crit") \subseteq At(high(Node), "load", "crit")
  BY DEF At
<1>4. top(who) \in {"CRITICAL", "WARNING"} /\ top(Node) \in {"CRITICAL", "WARNING"}
  OBVIOUS
<1>5. Rank[top(Node)] <= Rank[top(who)] /\ Rank[top(Node)] <= Rank["INFO"]
  BY <1>3, RankIsOrder
<1> HIDE DEF host, high, top
<1>6. CASE high(who) # {}
  BY <1>1, <1>2, <1>3, <1>4, <1>5, <1>6, MoreIsTold, RankIsOrder
<1>7. CASE high(who) = {} /\ high(Node) # {}
  <2>1. Naming("OS-001", top(Node), high(Node)) \in Load(Node)
    BY <1>2, <1>7 DEF IfSo
  <2>2. \A f \in Load(who) : f.id = "OS-001" /\ f.severity = "INFO"
    BY <1>1, <1>7 DEF IfSo, Naming
  <2>3. /\ Naming("OS-001", top(Node), high(Node)).id = "OS-001"
        /\ Naming("OS-001", top(Node), high(Node)).severity = top(Node)
    BY DEF Naming
  <2> QED
    BY <1>5, <2>1, <2>2, <2>3 DEF Told
<1>8. CASE high(who) = {} /\ high(Node) = {}
  <2> DEFINE said(w) == IfSo(host(w) # {}, Naming("OS-001", "INFO", host(w)))
  <2>1. Load(who) = said(who) /\ Load(Node) = said(Node)
    BY <1>1, <1>2, <1>8
  <2>2. Told(said(who), said(Node))
    BY <1>3, MoreIsTold, RankIsOrder
  <2> QED
    BY <2>1, <2>2
<1> QED
  BY <1>6, <1>7, <1>8

LEMMA ThrottlingIsTold ==
  ASSUME NEW who \in SUBSET Node
  PROVE  Told(Throttling(who), Throttling(Node))
<1> DEFINE throttled(w) == {n \in w : proc[n].throttled # "low"}
           top(w) == IF \E n \in throttled(w) : proc[n].throttled = "crit" /\ busy(n)
                     THEN "CRITICAL" ELSE "WARNING"
           said(w) == IfSo(throttled(w) # {}, Naming("OS-003", top(w), throttled(w)))
<1>1. Throttling(who) = said(who) /\ Throttling(Node) = said(Node)
  BY DEF Throttling
<1>2. throttled(who) \subseteq throttled(Node)
  OBVIOUS
<1>3. top(who) \in Severities /\ top(Node) \in Severities /\ Rank[top(Node)] <= Rank[top(who)]
  BY <1>2, RankIsOrder
<1> HIDE DEF throttled, top
<1>4. Told(said(who), said(Node))
  BY <1>2, <1>3, MoreIsTold
<1> QED
  BY <1>1, <1>4

(* What is found of all nodes or of none is a share.                       *)
LEMMA OsIsTold ==
  ASSUME NEW who \in SUBSET Node
  PROVE  Told(r_os(who), r_os(Node))
<1> DEFINE swaps(w) == IfSo(Swapping(w) # {}, Naming("OS-002", "WARNING", Swapping(w)))
           handles(w) == {n \in w : machine[n].files}
           files(w) == IfSo(handles(w) # {}, Naming("OS-004", "WARNING", handles(w)))
           short(w) == {n \in w : proc[n].up < ShortHours}
           recent(w) == IfSo(short(w) # {}, Naming("OS-006", "WARNING", short(w)))
<1>1. ASSUME NEW f \in r_os(who)
      PROVE  f.id \in Shares \/ f \in Load(who) \/ f \in swaps(who) \/ f \in Throttling(who)
             \/ f \in files(who) \/ f \in recent(who)
  BY <1>1 DEF r_os, Uptimes, IfSo, Naming, Shares
<1>2. Load(Node) \cup swaps(Node) \cup Throttling(Node) \cup files(Node) \cup recent(Node) \subseteq r_os(Node)
  BY DEF r_os, Uptimes
<1>3. /\ Swapping(who) \subseteq Swapping(Node) /\ handles(who) \subseteq handles(Node)
      /\ short(who) \subseteq short(Node)
  BY DEF Swapping
<1>4. Told(swaps(who), swaps(Node))
  BY <1>3, MoreIsTold, RankIsOrder
<1> HIDE DEF handles, short
<1>5. Told(files(who), files(Node))
  BY <1>3, MoreIsTold, RankIsOrder
<1>6. Told(recent(who), recent(Node))
  BY <1>3, MoreIsTold, RankIsOrder
<1> HIDE DEF swaps, files, recent
<1> QED
  BY <1>1, <1>2, <1>4, <1>5, <1>6, LoadIsTold, ThrottlingIsTold DEF Told

LEMMA RejectionsAreTold ==
  ASSUME TypeOK, NEW who \in SUBSET Node
  PROVE  Told(r_thread_pools(who), r_thread_pools(Node))
<1> DEFINE live(w)   == \E n \in w : \E p \in proc[n].queue : proc[n].rejected[p] > 0
           queues(w) == \E n \in w : proc[n].queue # {}
           top(w)    == IF Rejected(w, Pool) >= RejectedCrit /\ live(w) THEN "CRITICAL" ELSE "WARNING"
           past(w)   == IF Rejected(w, Pool) = 0 THEN {Naming("TP-001", "OK", {})}
                        ELSE {Naming("TP-001", top(w), {})}
           now(w)    == IfSo(queues(w), Naming("TP-002", "INFO", {}))
<1>1. r_thread_pools(who) = past(who) \cup now(who) /\ r_thread_pools(Node) = past(Node) \cup now(Node)
  BY DEF r_thread_pools
<1>2. (live(who) => live(Node)) /\ (queues(who) => queues(Node))
  OBVIOUS
<1>3. Rejected(who, Pool) \in Nat /\ Rejected(Node, Pool) \in Nat
  BY RejectedIsNat
<1>4. Rejected(who, Pool) <= Rejected(Node, Pool)
  BY FewerReject
<1> HIDE DEF live, queues
<1>5. Told(now(who), now(Node))
  BY <1>2, MoreIsTold, RankIsOrder
<1>6. Told(past(who), past(Node))
  <2>1. CASE Rejected(who, Pool) = 0
    BY <2>1 DEF Told, Naming
  <2>2. CASE Rejected(who, Pool) # 0
    <3>1. Rejected(Node, Pool) # 0
      BY <1>3, <1>4, <2>2
    <3>2. RejectedCrit \in Nat
      BY NodesAssumption
    <3>3. top(who) = "CRITICAL" => top(Node) = "CRITICAL"
      BY <1>2, <1>3, <1>4, <3>2
    <3>4. Rank[top(Node)] <= Rank[top(who)]
      BY <3>3, RankIsOrder
    <3>5. past(who) = {Naming("TP-001", top(who), {})} /\ past(Node) = {Naming("TP-001", top(Node), {})}
      BY <2>2, <3>1
    <3> HIDE DEF top, past
    <3> QED
      BY <3>4, <3>5 DEF Told, Naming
  <2> QED
    BY <2>1, <2>2
<1> HIDE DEF past, now
<1> QED
  BY <1>1, <1>5, <1>6, ToldTogether

LEMMA BreakersAreTold ==
  ASSUME TypeOK, NEW who \in SUBSET Node
  PROVE  Told(r_breakers(who), r_breakers(Node))
<1> DEFINE tripped(w) == {nk \in w \X Breaker : proc[nk[1]].trips[nk[2]] > 0}
           full(w) == {nk \in (w \X Breaker) \ tripped(w) :
                         nk[2] \in proc[nk[1]].use /\ ~(nk[2] = "parent" /\ site.realMemory)}
           top(w) == IF \E nk \in tripped(w) : LiveBreaker(nk[1], nk[2]) THEN "CRITICAL" ELSE "WARNING"
           trips(w) == IfSo(tripped(w) # {}, Naming("BRK-001", top(w), {nk[1] : nk \in tripped(w)}))
           fills(w) == IfSo(full(w) # {}, Naming("BRK-002", "WARNING", {nk[1] : nk \in full(w)}))
<1>1. r_breakers(who) = trips(who) \cup fills(who) /\ r_breakers(Node) = trips(Node) \cup fills(Node)
  BY DEF r_breakers
<1>2. tripped(who) \subseteq tripped(Node) /\ full(who) \subseteq full(Node)
  OBVIOUS
<1>3. top(who) \in Severities /\ top(Node) \in Severities /\ Rank[top(Node)] <= Rank[top(who)]
  BY <1>2, RankIsOrder
<1> HIDE DEF tripped, full, top
<1>4. Told(trips(who), trips(Node))
  BY <1>2, <1>3, MoreIsTold
<1>5. Told(fills(who), fills(Node))
  BY <1>2, MoreIsTold, RankIsOrder
<1> HIDE DEF trips, fills
<1> QED
  BY <1>1, <1>4, <1>5, ToldTogether

LEMMA RefusalsAreTold ==
  ASSUME NEW who \in SUBSET Node
  PROVE  Told(r_indexing_pressure(who), r_indexing_pressure(Node))
<1> DEFINE refusing(w) == {n \in w : proc[n].refused > 0}
           said(w) == IfSo(refusing(w) # {}, Naming("IP-001", "WARNING", refusing(w)))
<1>1. r_indexing_pressure(who) = said(who) /\ r_indexing_pressure(Node) = said(Node)
  BY DEF r_indexing_pressure
<1>2. refusing(who) \subseteq refusing(Node)
  OBVIOUS
<1> HIDE DEF refusing
<1>3. Told(said(who), said(Node))
  BY <1>2, MoreIsTold, RankIsOrder
<1> QED
  BY <1>1, <1>3

LEMMA FielddataIsTold ==
  ASSUME NEW who \in SUBSET Node
  PROVE  Told(r_fielddata(who), r_fielddata(Node))
<1> DEFINE large(w) == {n \in w : machine[n].fielddata}
           cache(w) == IfSo(large(w) # {}, Naming("FD-001", "WARNING", large(w)))
           field == IfSo(site.field, Naming("FD-002", "INFO", {}))
<1>1. r_fielddata(who) = cache(who) \cup field /\ r_fielddata(Node) = cache(Node) \cup field
  BY DEF r_fielddata
<1>2. large(who) \subseteq large(Node)
  OBVIOUS
<1>3. \A f \in field : f.severity \in Severities
  BY DEF IfSo, Naming, Severities
<1> HIDE DEF large
<1>4. Told(cache(who), cache(Node))
  BY <1>2, MoreIsTold, RankIsOrder
<1> HIDE DEF cache, field
<1>5. Told(field, field)
  BY <1>3, TheSameIsTold
<1> QED
  BY <1>1, <1>4, <1>5, ToldTogether

LEMMA SearchWaitIsTold ==
  ASSUME NEW who \in SUBSET Node
  PROVE  Told(r_search_pool_wait(who), r_search_pool_wait(Node))
<1> DEFINE waiting(w) == {n \in w : /\ is_data(n) /\ proc[n].searching /\ proc[n].cpu = "idle"
                                    /\ Frozen(n) => "search" \in proc[n].queue}
           top(w) == IF \E n \in waiting(w) : "search" \in proc[n].queue THEN "WARNING" ELSE "INFO"
           said(w) == IfSo(waiting(w) # {}, Naming("PERF-013", top(w), waiting(w)))
<1>1. r_search_pool_wait(who) = said(who) /\ r_search_pool_wait(Node) = said(Node)
  BY DEF r_search_pool_wait
<1>2. waiting(who) \subseteq waiting(Node)
  OBVIOUS
<1>3. top(who) \in Severities /\ top(Node) \in Severities /\ Rank[top(Node)] <= Rank[top(who)]
  BY <1>2, RankIsOrder
<1> HIDE DEF waiting, top
<1>4. Told(said(who), said(Node))
  BY <1>2, <1>3, MoreIsTold
<1> QED
  BY <1>1, <1>4

(* The nodes are compared with each other by what nodes.json says of all.  *)
LEMMA SizesAreTold ==
  ASSUME NEW who
  PROVE  Told(r_node_heterogeneity(who), r_node_heterogeneity(Node))
<1>1. r_node_heterogeneity(who) = r_node_heterogeneity(Node)
  BY DEF r_node_heterogeneity
<1>2. \A f \in r_node_heterogeneity(Node) : f.severity \in Severities
  BY DEF r_node_heterogeneity, IfSo, Naming, Severities
<1> QED
  BY <1>1, <1>2, TheSameIsTold

(* What fewer nodes show, whichever of them are silent.                    *)
LEMMA FewerHideOnly ==
  ASSUME TypeOK, NEW who \in SUBSET Node
  PROVE  Told(NodeFindings(who), NodeFindings(Node))
<1>1. \A f \in r_ingest_failures(who) \cup r_write_latency(who) : f.id \in Shares
  BY RuleIds DEF Shares
<1>2. ASSUME NEW f \in NodeFindings(who)
      PROVE  f.id \in Shares \/ f.severity = "OK"
             \/ \E g \in NodeFindings(Node) : g.id = f.id /\ Rank[g.severity] <= Rank[f.severity]
  <2>1. CASE f \in r_heap_usage(who) \cup r_heap_sizing(who) \cup r_gc(who)
    BY <2>1, HeapIsTold, SizingIsTold, GcIsTold DEF Told, NodeFindings
  <2>2. CASE f \in r_os(who) \cup r_thread_pools(who) \cup r_breakers(who)
    BY <2>2, OsIsTold, RejectionsAreTold, BreakersAreTold DEF Told, NodeFindings
  <2>3. CASE f \in r_indexing_pressure(who) \cup r_fielddata(who) \cup r_search_pool_wait(who)
    BY <2>3, RefusalsAreTold, FielddataIsTold, SearchWaitIsTold DEF Told, NodeFindings
  <2>4. CASE f \in r_node_heterogeneity(who)
    BY <2>4, SizesAreTold DEF Told, NodeFindings
  <2> QED
    BY <1>1, <1>2, <2>1, <2>2, <2>3, <2>4 DEF NodeFindings
<1> QED
  BY <1>2 DEF Told

(* A node that does not answer the stats call hides what it has and makes  *)
(* no finding of another worse, for any nodes and any past of them.        *)
THEOREM SilenceHides == BSpec => []SilenceOnlyHides
<1>1. NInv => SilenceOnlyHides
  <2> SUFFICES ASSUME NInv, NEW n \in Node, NEW f \in NodeFindings(Node \ {n})
               PROVE  f.id \in Shares \/ f.severity = "OK"
                      \/ \E g \in NodeFindings(Node) :
                            g.id = f.id /\ Rank[g.severity] <= Rank[f.severity]
    BY DEF SilenceOnlyHides
  <2>1. TypeOK /\ Node \ {n} \in SUBSET Node
    BY DEF NInv
  <2>2. Told(NodeFindings(Node \ {n}), NodeFindings(Node))
    BY <2>1, FewerHideOnly
  <2> QED
    BY <2>2 DEF Told
<1> QED
  BY <1>1, NodesInvariant, PTL

-----------------------------------------------------------------------------
(* The rows of the summary.  A cause is a finding that counts, in scope.   *)
LEMMA CausesAreFound ==
  ASSUME NEW fs, NEW groups, NEW scope, NEW i \in Causes(fs, groups, scope)
  PROVE  \E f \in fs : f.id = i /\ Scoped(f, scope) /\ Counts(f)
BY DEF Causes, Hits

LEMMA RowFields ==
  ASSUME NEW state, NEW verdict, NEW causes, NEW worst
  PROVE  /\ Row(state, verdict, causes, worst).state = state
         /\ Row(state, verdict, causes, worst).causes = causes
BY DEF Row

LEMMA NothingIsCause ==
  ASSUME NEW state
  PROVE  Nothing(state).state = state /\ Nothing(state).causes = {}
BY RowFields DEF Nothing

LEMMA IssueRow ==
  ASSUME NEW fs, NEW groups, NEW scope
  PROVE  /\ Issue(fs, groups, scope).state = "issue"
         /\ Issue(fs, groups, scope).causes = Causes(fs, groups, scope)
<1> DEFINE v == Walk(fs, groups, scope)[1].name
           ids == Causes(fs, groups, scope)
           w == Worst(fs, ids)
<1>1. Issue(fs, groups, scope) = Row("issue", v, ids, w)
  BY DEF Issue
<1> HIDE DEF v, w
<1>2. Row("issue", v, ids, w).state = "issue" /\ Row("issue", v, ids, w).causes = ids
  BY RowFields
<1> QED
  BY <1>1, <1>2

(* A symptom is never told as clear, and its causes are those walked to.   *)
LEMMA CausalRow ==
  ASSUME NEW fs, NEW groups, NEW scope
  PROVE  /\ causal(fs, groups, scope).state \in {"symptom", "issue"}
         /\ causal(fs, groups, scope).causes = Causes(fs, groups, scope)
<1>1. CASE Causes(fs, groups, scope) = {}
  <2>1. causal(fs, groups, scope) = Row("symptom", "unknown", {}, "WARNING")
    BY <1>1 DEF causal
  <2>2. causal(fs, groups, scope).state = "symptom" /\ causal(fs, groups, scope).causes = {}
    BY <2>1, RowFields
  <2> QED
    BY <1>1, <2>2
<1>2. CASE Causes(fs, groups, scope) # {}
  <2>1. causal(fs, groups, scope) = Issue(fs, groups, scope)
    BY <1>2 DEF causal
  <2> QED
    BY <2>1, IssueRow
<1> QED
  BY <1>1, <1>2

LEMMA AnswerCauses ==
  ASSUME NEW fs, NEW groups, NEW i \in Answer(fs, groups).causes
  PROVE  i \in Causes(fs, groups, Everywhere)
<1>1. CASE Causes(fs, groups, Everywhere) = {}
  BY <1>1, NothingIsCause DEF Answer
<1>2. CASE Causes(fs, groups, Everywhere) # {}
  <2>1. Answer(fs, groups) = Issue(fs, groups, Everywhere)
    BY <1>2 DEF Answer
  <2> QED
    BY <2>1, IssueRow
<1> QED
  BY <1>1, <1>2

(* Capacity is blamed on memory by a heap that is short or by a breaker    *)
(* that would trip again, and by nothing else.                             *)
LEMMA MemoryIsLive == ASSUME NInv PROVE CapacityMemoryIsLive
<1> DEFINE fs == {f \in Findings(Node) : f.id = "BRK-001" => f.severity = "CRITICAL"}
<1> SUFFICES ASSUME NEW i \in {"JVM-001", "BRK-001"}, i \in capacity(Findings(Node)).causes
             PROVE  \E n \in Node : proc[n].pressure # "low" \/ proc[n].use # {}
  BY DEF CapacityMemoryIsLive
<1>1. i \in Causes(fs, CAPACITY, Everywhere)
  <2>1. i \in Answer(fs, CAPACITY).causes
    BY DEF capacity
  <2> HIDE DEF fs
  <2> QED
    BY <2>1, AnswerCauses
<1>2. PICK f \in fs : f.id = i /\ Counts(f)
  <2> HIDE DEF fs
  <2> QED
    BY <1>1, CausesAreFound
<1>3. f \in NodeFindings(Node)
  <2>1. i \in NodeIds \ {"DIF-004", "DIF-005"}
    BY DEF NodeIds
  <2>2. f \in Findings(Node)
    BY <1>2
  <2> QED
    BY <1>2, <2>1, <2>2, WhoElseReports
<1>4. CASE i = "JVM-001"
  <2>1. f \in r_heap_usage(Node)
    BY <1>2, <1>3, <1>4, WhoReports
  <2>2. f.severity \in Serious
    BY <1>2, <1>4 DEF Counts
  <2>3. At(Node, "pressure", "crit") # {} \/ At(Node, "pressure", "warn") # {}
    BY <2>1, <2>2 DEF r_heap_usage, NamingWorst, Naming, Serious
  <2> QED
    BY <2>3 DEF At
<1>5. CASE i = "BRK-001"
  <2>1. f \in r_breakers(Node) /\ f.severity = "CRITICAL"
    BY <1>2, <1>3, <1>5, WhoReports
  <2>2. PICK nk \in Node \X Breaker : LiveBreaker(nk[1], nk[2])
    BY <2>1 DEF r_breakers, IfSo, Naming
  <2>3. nk[1] \in Node /\ (proc[nk[1]].pressure = "crit" \/ nk[2] \in proc[nk[1]].use)
    BY <2>2 DEF LiveBreaker
  <2> QED
    BY <2>3
<1> QED
  BY <1>4, <1>5

-----------------------------------------------------------------------------
(* Nodes that show a symptom of ingest.                                    *)
Writes == {"write", "write_coordination"}
IngestNodes(fs) ==
    Rejecting(Node, Writes, rejections_current(fs)) \cup Waiting(Node, Writes)
    \cup {n \in Node : proc[n].refused > 0}
IngestScope(fs) == IF Shows(fs, "IDX-014") THEN Everywhere ELSE tier_scope(IngestNodes(fs))

(* The answer on ingest is one of three. *)
LEMMA IngestAnswers ==
  ASSUME TypeOK, NEW fs
  PROVE  \/ ingest(Node, fs) = Nothing("idle")
         \/ /\ ingest(Node, fs) = Nothing("clear")
            /\ IngestNodes(fs) = {} /\ ~Shows(fs, "IDX-014")
         \/ /\ IngestNodes(fs) # {} \/ Shows(fs, "IDX-014")
            /\ \E groups : /\ ingest(Node, fs) = causal(fs, groups, IngestScope(fs))
                           /\ Waiting(Node, {"write"}) # {} => groups = INGEST_CAUSES
<1> DEFINE current  == rejections_current(fs)
           coord    == /\ Rejecting(Node, Writes, current) \cup Waiting(Node, Writes) # {}
                       /\ Rejecting(Node, {"write"}, current) \cup Waiting(Node, {"write"}) = {}
           pressed  == {n \in Node : proc[n].refused > 0}
           throttle == \E f \in fs : f.id = "IDX-014" /\ f.severity \in Serious
           groups   == IF coord /\ ~throttle /\ pressed = {}
                       THEN First(INGEST_CAUSES, {"cpu", "pipeline"}) ELSE INGEST_CAUSES
           idle     == \A n \in Node : proc[n].indexed = 0
           active   == \E n \in Node : proc[n].indexed > 0
           calm     == IngestNodes(fs) = {} /\ ~throttle
           row      == causal(fs, groups, IF throttle THEN Everywhere ELSE tier_scope(IngestNodes(fs)))
<1>1. ingest(Node, fs) = CASE idle -> Nothing("idle") [] active /\ calm -> Nothing("clear")
                           [] OTHER -> row
  BY DEF ingest, IngestNodes, Writes
<1>2. throttle = Shows(fs, "IDX-014")
  BY DEF Shows
<1>3. idle => ~active
  OBVIOUS
<1>4. ~idle => active
  <2>1. \A n \in Node : proc[n].indexed \in Nat
    BY ProcessFields DEF TypeOK
  <2> QED
    BY <2>1
<1>5. row = causal(fs, groups, IngestScope(fs))
  BY <1>2 DEF IngestScope
<1>6. Waiting(Node, {"write"}) # {} => groups = INGEST_CAUSES
  OBVIOUS
<1> HIDE DEF idle, active, throttle, row, groups
<1>7. CASE idle
  BY <1>1, <1>3, <1>7
<1>8. CASE active /\ calm
  BY <1>1, <1>2, <1>3, <1>8
<1>9. CASE ~idle /\ ~(active /\ calm)
  BY <1>1, <1>2, <1>4, <1>5, <1>6, <1>9
<1> QED
  BY <1>7, <1>8, <1>9

(* The same of search. *)
SlowIds == {"PERF-001", "PERF-002", "PERF-013"}
SearchNodes(fs) == Rejecting(Node, {"search"}, rejections_current(fs)) \cup Waiting(Node, {"search"})

LEMMA SearchAnswers ==
  ASSUME TypeOK, NEW fs
  PROVE  \/ search(Node, fs) = Nothing("idle")
         \/ /\ search(Node, fs) = Nothing("clear")
            /\ SearchNodes(fs) = {} /\ Hits(fs, SlowIds, Everywhere) = {}
         \/ /\ SearchNodes(fs) # {} \/ Hits(fs, SlowIds, Everywhere) # {}
            /\ \E groups, scope : search(Node, fs) = causal(fs, groups, scope)
<1> DEFINE current == rejections_current(fs)
           Named(ids) == UNION {f.affected \cap Node : f \in {g \in fs : g.id \in ids}}
           slow   == Hits(fs, {"PERF-001", "PERF-002"}, Everywhere)
           busy_  == Hits(fs, {"PERF-013"}, Everywhere)
           own    == Rejecting(Node, {"search"}, current) \cup Waiting(Node, {"search"})
           wide   == slow # {} /\ Named(slow) = {}
           nodes  == own \cup Named(slow) \cup Named(busy_)
           groups == IF busy_ = {} THEN SEARCH_CAUSES ELSE First(SEARCH_CAUSES, {"storage"})
           idle   == \A n \in Node : proc[n].searched = 0
           active == \E n \in Node : proc[n].searched > 0
           calm   == own = {} /\ slow \cup busy_ = {}
           scope  == IF wide THEN Everywhere ELSE tier_scope(nodes)
           row    == causal(fs, groups, scope)
<1>1. search(Node, fs) = CASE idle -> Nothing("idle") [] active /\ calm -> Nothing("clear")
                           [] OTHER -> row
  BY DEF search
<1>2. slow \cup busy_ = Hits(fs, SlowIds, Everywhere)
  BY DEF Hits, SlowIds
<1>3. own = SearchNodes(fs)
  BY DEF SearchNodes
<1>4. idle => ~active
  OBVIOUS
<1>5. ~idle => active
  <2>1. \A n \in Node : proc[n].searched \in Nat
    BY ProcessFields DEF TypeOK
  <2> QED
    BY <2>1
<1> HIDE DEF idle, active, own, slow, busy_, scope, groups
<1>6. CASE idle
  BY <1>1, <1>4, <1>6
<1>7. CASE active /\ calm
  BY <1>1, <1>2, <1>3, <1>4, <1>7
<1>8. CASE ~idle /\ ~(active /\ calm)
  BY <1>1, <1>2, <1>3, <1>5, <1>8
<1> QED
  BY <1>6, <1>7, <1>8

-----------------------------------------------------------------------------
(* Some node has rejected, if rejections add up to some.                   *)
LEMMA SomeHaveRejected ==
  ASSUME TypeOK, NEW pools \in SUBSET Pool
  PROVE  Rejected(Node, pools) > 0 <=> \E n \in Node : \E p \in pools : proc[n].rejected[p] > 0
<1> DEFINE f == [np \in Node \X pools |-> proc[np[1]].rejected[np[2]]]
<1>1. Rejected(Node, pools) = SumFunctionOnSet(f, Node \X pools)
  BY RejectedIsSum
<1>2. IsFiniteSet(Node \X pools) /\ \A np \in Node \X pools : f[np] \in Nat
  BY RejectedIsNat
<1>3. \A n \in Node : \A p \in pools : f[<<n, p>>] = proc[n].rejected[p] /\ <<n, p>> \in Node \X pools
  OBVIOUS
<1>4. \A np \in Node \X pools : np[1] \in Node /\ np[2] \in pools /\ f[np] = proc[np[1]].rejected[np[2]]
  OBVIOUS
<1> HIDE DEF f
<1>5. Rejected(Node, pools) \in Nat
  BY <1>1, <1>2, SumIsNat
<1>6. ASSUME NEW n \in Node, NEW p \in pools, proc[n].rejected[p] > 0
      PROVE  Rejected(Node, pools) > 0
  <2>1. f[<<n, p>>] <= Rejected(Node, pools) /\ f[<<n, p>>] \in Nat
    BY <1>1, <1>2, <1>3, SumBoundsEach
  <2> QED
    BY <1>3, <1>5, <1>6, <2>1
<1>7. ASSUME \A n \in Node : \A p \in pools : ~(proc[n].rejected[p] > 0)
      PROVE  Rejected(Node, pools) = 0
  <2>1. \A np \in Node \X pools : f[np] = 0
    BY <1>2, <1>4, <1>7
  <2> QED
    BY <1>1, <1>2, <2>1, SumOfZeros
<1> QED
  BY <1>6, <1>7

(* Without growth since the earlier bundle no rejection is a symptom.      *)
LEMMA OldRejectionsAreNone ==
  ASSUME NInv, before # NoBundle, \A n \in Node : before[n] = proc[n].rejected,
         NEW pools \in SUBSET Pool
  PROVE  Rejecting(Node, pools, rejections_current(Findings(Node))) = {}
<1> DEFINE fs == Findings(Node)
<1>1. TypeOK
  BY DEF NInv
<1>2. ~Grown(Node)
  <2>1. \A n \in Node : \A p \in Pool : proc[n].rejected[p] \in Nat
    BY <1>1, ProcessFields DEF TypeOK
  <2> QED
    BY <2>1 DEF Grown
<1>3. r_rejections_delta(Node) = IfSo(Rejected(Node, Pool) > 0, Naming("DIF-004", "INFO", {}))
  BY <1>2 DEF r_rejections_delta
<1>4. \A f \in fs : f.id # "DIF-005"
  <2>1. \A f \in r_rejections_delta(Node) : f.id = "DIF-004"
    BY <1>3 DEF IfSo, Naming
  <2> QED
    BY <2>1, WhoElseReports
<1>5. CASE Rejected(Node, Pool) > 0
  <2>1. Naming("DIF-004", "INFO", {}) \in fs
    BY <1>3, <1>5 DEF Findings, IfSo
  <2>2. "DIF-004" \in Ids(fs)
    BY <2>1 DEF Ids, Naming
  <2>3. "DIF-005" \notin Ids(fs)
    BY <1>4 DEF Ids
  <2> QED
    BY <2>2, <2>3 DEF rejections_current, Rejecting
<1>6. CASE ~(Rejected(Node, Pool) > 0)
  <2>1. Pool \in SUBSET Pool
    OBVIOUS
  <2>2. ~\E n \in Node : \E p \in Pool : proc[n].rejected[p] > 0
    BY <1>1, <1>6, <2>1, SomeHaveRejected
  <2> QED
    BY <2>2 DEF Rejecting
<1> QED
  BY <1>5, <1>6

LEMMA PastIsNoSymptom == ASSUME NInv PROVE HistoryIsNoSymptom
<1> DEFINE fs == Findings(Node)
<1> SUFFICES ASSUME before # NoBundle, \A n \in Node : before[n] = proc[n].rejected
             PROVE  /\ /\ \A n \in Node : /\ "write" \notin proc[n].queue
                                          /\ "write_coordination" \notin proc[n].queue
                                          /\ proc[n].refused = 0
                       /\ ~Shows(fs, "IDX-014")
                       => ingest(Node, fs).state \in {"idle", "clear"}
                    /\ /\ \A n \in Node : "search" \notin proc[n].queue
                       /\ Hits(fs, SlowIds, Everywhere) = {}
                       => search(Node, fs).state \in {"idle", "clear"}
  BY DEF HistoryIsNoSymptom, SlowIds
<1>1. TypeOK
  BY DEF NInv
<1>2. \A pools \in SUBSET Pool : Rejecting(Node, pools, rejections_current(fs)) = {}
  BY OldRejectionsAreNone
<1> HIDE DEF fs
<1>3. ASSUME \A n \in Node : /\ "write" \notin proc[n].queue
                             /\ "write_coordination" \notin proc[n].queue
                             /\ proc[n].refused = 0,
             ~Shows(fs, "IDX-014")
      PROVE  ingest(Node, fs).state \in {"idle", "clear"}
  <2>1. Rejecting(Node, Writes, rejections_current(fs)) = {}
    BY <1>2 DEF Writes, Pool
  <2>2. Waiting(Node, Writes) = {} /\ {n \in Node : proc[n].refused > 0} = {}
    BY <1>3 DEF Waiting, Writes
  <2>3. IngestNodes(fs) = {}
    BY <2>1, <2>2 DEF IngestNodes
  <2>4. ingest(Node, fs) = Nothing("idle") \/ ingest(Node, fs) = Nothing("clear")
    BY <1>1, <1>3, <2>3, IngestAnswers
  <2> QED
    BY <2>4, NothingIsCause
<1>4. ASSUME \A n \in Node : "search" \notin proc[n].queue, Hits(fs, SlowIds, Everywhere) = {}
      PROVE  search(Node, fs).state \in {"idle", "clear"}
  <2>1. Rejecting(Node, {"search"}, rejections_current(fs)) = {}
    BY <1>2 DEF Pool
  <2>2. Waiting(Node, {"search"}) = {}
    BY <1>4 DEF Waiting
  <2>3. SearchNodes(fs) = {}
    BY <2>1, <2>2 DEF SearchNodes
  <2>4. search(Node, fs) = Nothing("idle") \/ search(Node, fs) = Nothing("clear")
    BY <1>1, <1>4, <2>3, SearchAnswers
  <2> QED
    BY <2>4, NothingIsCause
<1> QED
  BY <1>3, <1>4

(* However the counters came to be what they are, and whatever restarted   *)
(* since the earlier bundle: no history, of rejections, breaker trips or   *)
(* throttling, is told as trouble of the present.                          *)
THEOREM NoHistoryIsTrouble == BSpec => []HistoryIsNoTrouble
<1>1. NInv => HistoryIsNoTrouble
  BY NoPastIsCritical, PastIsNoSymptom, MemoryIsLive DEF HistoryIsNoTrouble
<1> QED
  BY <1>1, NodesInvariant, PTL

-----------------------------------------------------------------------------
(* Rejections that are no symptom although there are some are told as the  *)
(* past: nothing grew since the earlier bundle.                            *)
LEMMA QuietRejectionsAreOld ==
  ASSUME TypeOK, NEW fs, NEW pools \in SUBSET Pool, Rejected(Node, pools) > 0,
         Rejecting(Node, pools, rejections_current(fs)) = {}
  PROVE  "DIF-004" \in Ids(fs) /\ ~Shows(fs, "DIF-005")
<1>1. \E n \in Node : \E p \in pools : proc[n].rejected[p] > 0
  BY SomeHaveRejected
<1>2. ~rejections_current(fs)
  BY <1>1 DEF Rejecting
<1>3. "DIF-004" \in Ids(fs) /\ "DIF-005" \notin Ids(fs)
  BY <1>2 DEF rejections_current
<1> QED
  BY <1>3 DEF Shows, Ids

LEMMA IngestIsClear ==
  ASSUME NInv, ingest(Node, Findings(Node)).state = "clear"
  PROVE  /\ Waiting(Node, Writes) = {}
         /\ ~Shows(Findings(Node), "IP-001") /\ ~Shows(Findings(Node), "IDX-014")
         /\ Rejected(Node, Writes) > 0 =>
               "DIF-004" \in Ids(Findings(Node)) /\ ~Shows(Findings(Node), "DIF-005")
<1> DEFINE fs == Findings(Node)
<1>1. TypeOK
  BY DEF NInv
<1>2. IngestNodes(fs) = {} /\ ~Shows(fs, "IDX-014")
  <2> HIDE DEF fs
  <2>1. ~(ingest(Node, fs) = Nothing("idle"))
    BY NothingIsCause DEF fs
  <2>2. ~\E groups : ingest(Node, fs) = causal(fs, groups, IngestScope(fs))
    BY CausalRow DEF fs
  <2> QED
    BY <1>1, <2>1, <2>2, IngestAnswers
<1>3. /\ Rejecting(Node, Writes, rejections_current(fs)) = {} /\ Waiting(Node, Writes) = {}
      /\ \A n \in Node : ~(proc[n].refused > 0)
  BY <1>2 DEF IngestNodes
<1>4. ~Shows(fs, "IP-001")
  <2> SUFFICES ASSUME NEW f \in fs, f.id = "IP-001"
               PROVE  FALSE
    BY DEF Shows
  <2>1. "IP-001" \in NodeIds \ {"DIF-004", "DIF-005"}
    BY DEF NodeIds
  <2>2. f \in r_indexing_pressure(Node)
    BY <2>1, WhoElseReports, WhoReports
  <2> QED
    BY <1>3, <2>2 DEF r_indexing_pressure, IfSo
<1>5. Writes \in SUBSET Pool
  BY DEF Writes, Pool
<1> HIDE DEF fs
<1>6. Rejected(Node, Writes) > 0 => "DIF-004" \in Ids(fs) /\ ~Shows(fs, "DIF-005")
  BY <1>1, <1>3, <1>5, QuietRejectionsAreOld
<1> QED
  BY <1>2, <1>3, <1>4, <1>6 DEF fs

LEMMA SearchIsClear ==
  ASSUME NInv,
         search(Node, Findings(Node)).state = "clear"
  PROVE  /\ Waiting(Node, {"search"}) = {}
         /\ \A i \in SlowIds : ~Shows(Findings(Node), i)
         /\ Rejected(Node, {"search"}) > 0 =>
               "DIF-004" \in Ids(Findings(Node)) /\ ~Shows(Findings(Node), "DIF-005")
<1> DEFINE fs == Findings(Node)
<1>1. TypeOK
  BY DEF NInv
<1> HIDE DEF fs
<1>2. SearchNodes(fs) = {} /\ Hits(fs, SlowIds, Everywhere) = {}
  <2>1. ~(search(Node, fs) = Nothing("idle"))
    BY NothingIsCause DEF fs
  <2>2. ~\E groups, scope : search(Node, fs) = causal(fs, groups, scope)
    BY CausalRow DEF fs
  <2> QED
    BY <1>1, <2>1, <2>2, SearchAnswers
<1>3. Rejecting(Node, {"search"}, rejections_current(fs)) = {} /\ Waiting(Node, {"search"}) = {}
  BY <1>2 DEF SearchNodes
<1>4. ASSUME NEW i \in SlowIds
      PROVE  ~Shows(fs, i)
  BY <1>2 DEF Shows, Hits, Matches, Scoped, Counts
<1>5. {"search"} \in SUBSET Pool
  BY DEF Pool
<1>6. Rejected(Node, {"search"}) > 0 => "DIF-004" \in Ids(fs) /\ ~Shows(fs, "DIF-005")
  BY <1>1, <1>3, <1>5, QuietRejectionsAreOld
<1> QED
  BY <1>3, <1>4, <1>6 DEF fs

LEMMA ClearMeansClear == ASSUME NInv PROVE ClearIsClear
BY IngestIsClear, SearchIsClear DEF ClearIsClear, Writes, SlowIds

(* The scope of a symptom holds the nodes that show it and, if they hold   *)
(* data, the nodes of their tiers and no others.                           *)
LEMMA ScopeOfData ==
  ASSUME NEW nodes \in SUBSET Node, nodes # {}, \A n \in nodes : is_data(n),
         NEW a \in tier_scope(nodes)
  PROVE  \E n \in nodes : Tier[a] = Tier[n]
<1>1. tier_scope(nodes) = nodes \cup {n \in Node : \E m \in nodes : Tier[n] = Tier[m]}
  BY DEF tier_scope
<1> QED
  BY <1>1

LEMMA ScopeHoldsTheTier ==
  ASSUME NEW nodes \in SUBSET Node, NEW n \in nodes, is_data(n), NEW m \in Node, Tier[m] = Tier[n]
  PROVE  m \in tier_scope(nodes)
<1>1. is_data(m)
  BY DEF is_data
<1>2. CASE \E o \in nodes : ~is_data(o)
  <2>1. tier_scope(nodes) = nodes \cup {o \in Node : is_data(o)}
    BY <1>2 DEF tier_scope
  <2> QED
    BY <1>1, <2>1
<1>3. CASE ~\E o \in nodes : ~is_data(o)
  <2>1. tier_scope(nodes) = nodes \cup {o \in Node : \E x \in nodes : Tier[o] = Tier[x]}
    BY <1>3 DEF tier_scope
  <2> QED
    BY <2>1
<1> QED
  BY <1>2, <1>3

LEMMA IngestNodesAreNodes == ASSUME NEW fs PROVE IngestNodes(fs) \in SUBSET Node
BY DEF IngestNodes, Rejecting, Waiting

LEMMA CausesAreOfTheTier == ASSUME NInv PROVE CausesShareTheTier
<1> DEFINE fs == Findings(Node)
           nodes == IngestNodes(fs)
<1> HIDE DEF fs
<1> SUFFICES ASSUME ingest(Node, fs).state = "issue", ~Shows(fs, "IDX-014"),
                    \A n \in nodes : is_data(n), NEW i \in ingest(Node, fs).causes
             PROVE  \E f \in fs : /\ f.id = i
                                  /\ f.affected \cap Node # {} =>
                                        \E a \in f.affected, n \in nodes : Tier[a] = Tier[n]
  BY DEF CausesShareTheTier, IngestNodes, Writes, fs
<1>1. TypeOK
  BY DEF NInv
<1>2. nodes # {} /\ \E groups : ingest(Node, fs) = causal(fs, groups, IngestScope(fs))
  <2>1. ~(ingest(Node, fs) = Nothing("idle") \/ ingest(Node, fs) = Nothing("clear"))
    BY NothingIsCause
  <2> QED
    BY <1>1, <2>1, IngestAnswers
<1>3. IngestScope(fs) = tier_scope(nodes) /\ nodes \in SUBSET Node
  BY IngestNodesAreNodes DEF IngestScope
<1> HIDE DEF nodes
<1>4. PICK groups : i \in Causes(fs, groups, tier_scope(nodes))
  BY <1>2, <1>3, CausalRow
<1>5. PICK f \in fs : f.id = i /\ Scoped(f, tier_scope(nodes))
  BY <1>4, CausesAreFound
<1>6. tier_scope(nodes) # {}
  BY <1>2, <1>3 DEF tier_scope
<1>7. f.affected \cap Node # {} => \E a \in f.affected : a \in tier_scope(nodes)
  BY <1>5, <1>6 DEF Scoped, Everywhere
<1>8. \A a \in tier_scope(nodes) : \E n \in nodes : Tier[a] = Tier[n]
  BY <1>2, <1>3, ScopeOfData
<1> QED
  BY <1>5, <1>7, <1>8

(* Heaps that are short are named, the worst of them.                      *)
LEMMA ShortHeapsAreNamed ==
  ASSUME TypeOK, NEW m \in Node, proc[m].pressure # "low"
  PROVE  \E f \in r_heap_usage(Node) :
            /\ f.id = "JVM-001" /\ f.severity \in Serious
            /\ \/ f.affected = At(Node, "pressure", "crit") /\ f.affected # {}
               \/ m \in f.affected /\ At(Node, "pressure", "crit") = {}
<1> DEFINE crit == At(Node, "pressure", "crit")
           warn == At(Node, "pressure", "warn")
<1>1. r_heap_usage(Node) = NamingWorst("JVM-001", crit, warn)
  BY DEF r_heap_usage
<1>2. m \in crit \/ m \in warn
  <2>1. proc[m].pressure \in Level
    BY DEF TypeOK, Process
  <2> QED
    BY <2>1 DEF At, Level
<1> HIDE DEF crit, warn
<1>3. CASE crit # {}
  <2>1. Naming("JVM-001", "CRITICAL", crit) \in r_heap_usage(Node)
    BY <1>1, <1>3 DEF NamingWorst
  <2> QED
    BY <1>3, <2>1 DEF Naming, Serious, crit
<1>4. CASE crit = {}
  <2>1. Naming("JVM-001", "WARNING", warn) \in r_heap_usage(Node) /\ m \in warn
    BY <1>1, <1>2, <1>4 DEF NamingWorst
  <2> QED
    BY <1>4, <2>1 DEF Naming, Serious, crit
<1> QED
  BY <1>3, <1>4

LEMMA MemoryIsWalked ==
  /\ 2 \in DOMAIN INGEST_CAUSES
  /\ "JVM-001" \in INGEST_CAUSES[2].ids
BY DEF INGEST_CAUSES, Group

LEMMA MemoryOfTheTierIsNamed == ASSUME NInv PROVE TierCausesAreNamed
<1> DEFINE fs == Findings(Node)
           nodes == IngestNodes(fs)
           scope == IngestScope(fs)
<1> SUFFICES ASSUME NEW n \in Waiting(Node, {"write"}), NEW m \in Node,
                    ingest(Node, fs).state # "idle", is_data(n), Tier[m] = Tier[n],
                    proc[m].pressure # "low",
                    \A o \in Node : proc[o].pressure = "crit" => Tier[o] = Tier[n]
             PROVE  "JVM-001" \in ingest(Node, fs).causes
  BY DEF TierCausesAreNamed
<1>1. TypeOK
  BY DEF NInv
<1>2. PICK f \in r_heap_usage(Node) :
         /\ f.id = "JVM-001" /\ f.severity \in Serious
         /\ \/ f.affected = At(Node, "pressure", "crit") /\ f.affected # {}
            \/ m \in f.affected /\ At(Node, "pressure", "crit") = {}
  BY <1>1, ShortHeapsAreNamed
<1>3. PICK a \in f.affected : a \in Node /\ Tier[a] = Tier[n]
  BY <1>2 DEF At
<1>4. f \in fs
  BY <1>2 DEF Findings, NodeFindings
<1> HIDE DEF fs
<1>5. n \in nodes /\ nodes \in SUBSET Node
  BY IngestNodesAreNodes DEF IngestNodes, Waiting, Writes
<1> HIDE DEF nodes
<1>6. Scoped(f, scope)
  <2>1. a \in tier_scope(nodes)
    BY <1>3, <1>5, ScopeHoldsTheTier
  <2> QED
    BY <1>3, <2>1 DEF Scoped, IngestScope, nodes
<1> HIDE DEF scope
<1>7. "JVM-001" \in Causes(fs, INGEST_CAUSES, scope)
  <2>1. "JVM-001" \in Hits(fs, INGEST_CAUSES[2].ids, scope)
    BY <1>2, <1>4, <1>6, MemoryIsWalked DEF Hits, Matches, Counts
  <2> QED
    BY <2>1, MemoryIsWalked DEF Causes
<1>8. ingest(Node, fs) = causal(fs, INGEST_CAUSES, scope)
  <2>1. ingest(Node, fs) # Nothing("idle")
    BY NothingIsCause
  <2> QED
    BY <1>1, <1>5, <2>1, IngestAnswers DEF nodes, scope
<1> QED
  BY <1>7, <1>8, CausalRow

(* The parts of a report agree, for any cluster and beside whatever other  *)
(* rules find: breakers and heap, the load of OS-001 and the load the      *)
(* other rules excuse, a clear answer and the findings of the body, a      *)
(* symptom and the tier its causes are looked for and found in.            *)
THEOREM ReportsAgree == BSpec => []ReportAgrees
<1>1. NInv => ReportAgrees
  BY BreakersAgreeWithHeap, LoadIsReported, ClearMeansClear, CausesAreOfTheTier,
     MemoryOfTheTierIsNamed DEF ReportAgrees
<1> QED
  BY <1>1, NodesInvariant, PTL
=============================================================================
