------------------------------- MODULE Nodes --------------------------------
(***************************************************************************)
(* The node rules of nodes.py, except r_disk (see Disks), on what the      *)
(* stats call reads of the nodes' processes.  A process has gauges, which  *)
(* show the moment, and counters, which since its start only grow and      *)
(* which a restart resets: the rules have to tell a present trouble from   *)
(* the history of one.                                                     *)
(*                                                                         *)
(* Elasticsearch is external.  A measure that a rule compares with a       *)
(* warning and a critical threshold is the level it reaches.  A node that  *)
(* does not answer the stats call is known from nodes.json only.           *)
(***************************************************************************)
EXTENDS Findings, FiniteSets, Functions

CONSTANTS
    Node,
    Tier,          \* node -> tier_of(); "none" if it holds no data
    Worlds,        \* machines (node -> heap, swap, limits, ...) and site (how the
                   \* cluster is run and set): records of both
    Pasts,         \* the processes the model starts with: node -> record
    RejectedCrit,  \* rejected_crit
    GcWarn,        \* old_gc_per_hour_warn
    GcCrit,        \* old_gc_per_hour_crit
    Pipeline,      \* ingest pipelines
    IngestFailedWarn, \* ingest_failed_warn
    IngestPercent, \* ingest_fail_ratio_warn in percent
    MinOps,        \* write_latency_min_ops
    ShortHours,    \* uptime_short_hours
    MaxUp,         \* bound: hours of uptime
    MaxEvents      \* bound: events

Pool == {"write", "write_coordination", "search"}
Breaker == {"parent", "request"}
Level == {"low", "warn", "crit"}

(* A process: what it has done since its start and what it does.           *)
Process ==
    [up : 0 .. MaxUp, rejected : [Pool -> Nat], queue : SUBSET Pool,
     trips : [Breaker -> Nat], use : SUBSET Breaker, pressure : Level,
     load : Level, cpu : {"idle", "busy"}, oldGc : Nat, throttled : Level,
     refused : Nat, processed : [Pipeline -> Nat], failed : [Pipeline -> Nat],
     unparsed : Nat, flushes : Nat, indexed : Nat, searched : Nat,
     searching : BOOLEAN, latency : Level]

ASSUME NodesAssumption ==
    /\ IsFiniteSet(Node) /\ IsFiniteSet(Pipeline)
    /\ Pasts \subseteq [Node -> Process]
    /\ {RejectedCrit, GcWarn, GcCrit, IngestFailedWarn, IngestPercent, MinOps, ShortHours,
        MaxUp, MaxEvents} \subseteq Nat

VARIABLES
    machine,   \* node -> heap, swap, limits, ...
    site,      \* real-memory breaker, orchestration, a large field
    proc,      \* node -> its process
    before,    \* rejections of the earlier bundle; NoBundle without one
    events

vars == <<machine, site, proc, before, events>>

Fresh ==
    [up |-> 0, rejected |-> [p \in Pool |-> 0], queue |-> {},
     trips |-> [k \in Breaker |-> 0], use |-> {}, pressure |-> "low",
     load |-> "low", cpu |-> "idle", oldGc |-> 0, throttled |-> "low",
     refused |-> 0, processed |-> [p \in Pipeline |-> 0], failed |-> [p \in Pipeline |-> 0],
     unparsed |-> 0, flushes |-> 0, indexed |-> 0, searched |-> 0, searching |-> FALSE,
     latency |-> "low"]

NoBundle == <<>>

Init ==
    /\ \E w \in Worlds : machine = w.machine /\ site = w.site
    /\ proc \in Pasts
    /\ before = NoBundle
    /\ events = 0

(* The nodes that hold data, and a dedicated frozen node.                  *)
is_data(n) == Tier[n] # "none"
Frozen(n)  == Tier[n] = "frozen"

-----------------------------------------------------------------------------
(* The rules.  who are the nodes that answered.                            *)
NamingWorst(i, crit, warn) ==
    IF crit # {} THEN {Naming(i, "CRITICAL", crit)}
    ELSE IF warn # {} THEN {Naming(i, "WARNING", warn)}
    ELSE {Naming(i, "OK", {})}

At(who, measure, level) == {n \in who : proc[n][measure] = level}

r_heap_usage(who) ==
    IF who = {} THEN {}
    ELSE NamingWorst("JVM-001", At(who, "pressure", "crit"), At(who, "pressure", "warn"))

(* The flag of the JVM decides; only without it the size of the heap.      *)
r_heap_sizing(who) ==
    LET off      == {n \in Node : machine[n].oops = "false"}
        unknown  == {n \in Node : machine[n].oops = "unknown"}
        oversize == {n \in unknown : machine[n].heap = "crit"}
        near     == {n \in unknown : machine[n].heap = "warn"}
        tooBig   == {n \in who : machine[n].ratio}
        mismatch == {n \in Node : machine[n].xms}
    IN  IfSo(off \cup oversize \cup near # {},
             Naming("JVM-002", IF off \cup oversize # {} THEN "WARNING" ELSE "INFO",
                    off \cup oversize \cup near))
        \cup IfSo(tooBig # {}, Naming("JVM-003", "WARNING", tooBig))
        \cup IfSo(mismatch # {}, Naming("JVM-004", "WARNING", mismatch))

(* Under an hour of uptime a node is not rated.                            *)
r_gc(who) ==
    LET rated == {n \in who : proc[n].up >= 1}
        crit  == {n \in rated : proc[n].oldGc >= GcCrit * proc[n].up}
        warn  == {n \in rated \ crit : proc[n].oldGc >= GcWarn * proc[n].up}
    IN  IF rated = {} THEN {} ELSE NamingWorst("JVM-005", crit, warn)

in_container(n) == site.orchestrated \/ machine[n].limits

(* context: the load of an idle container can be the host's.               *)
load_high(n) == proc[n].load # "low" /\ ~(in_container(n) /\ proc[n].cpu = "idle")

busy(n) == proc[n].cpu = "busy"

Load(who) ==
    LET host == {n \in who : proc[n].load # "low" /\ in_container(n) /\ proc[n].cpu = "idle"}
        high == {n \in who \ host : proc[n].load # "low"}
    IN  IF high # {}
        THEN {Naming("OS-001", IF At(high, "load", "crit") # {} THEN "CRITICAL" ELSE "WARNING",
                     high)}
        ELSE IfSo(host # {}, Naming("OS-001", "INFO", host))

Swapping(who) == {n \in who : machine[n].swap /\ machine[n].locked # "yes"}

Throttling(who) ==
    LET throttled == {n \in who : proc[n].throttled # "low"}
    IN  IfSo(throttled # {},
             Naming("OS-003",
                    IF \E n \in throttled : proc[n].throttled = "crit" /\ busy(n)
                    THEN "CRITICAL" ELSE "WARNING", throttled))

Uptimes(who) ==
    LET short == {n \in who : proc[n].up < ShortHours}
    IN  IfSo(short # {}, Naming("OS-006", "WARNING", short))
        \cup IfSo(Cardinality(who) >= 2 /\ 2 * Cardinality(short) >= Cardinality(who),
                  Naming("OS-007", "WARNING", short))

r_os(who) ==
    LET handles  == {n \in who : machine[n].files}
        unlocked == {n \in Node : machine[n].locked = "no"}
    IN  Load(who)
        \cup IfSo(Swapping(who) # {}, Naming("OS-002", "WARNING", Swapping(who)))
        \cup Throttling(who)
        \cup IfSo(handles # {}, Naming("OS-004", "WARNING", handles))
        \cup IfSo(unlocked # {} /\ Swapping(who) = {}
                  /\ ~site.orchestrated,
                  Naming("OS-005", "INFO", {}))
        \cup Uptimes(who)

Rejected(who, pools) ==
    SumFunction([np \in who \X pools |-> proc[np[1]].rejected[np[2]]])

(* Mutant: the threshold is one per node. *)
r_thread_pools_per_node(who) ==
    LET live == \E n \in who : \E p \in proc[n].queue : proc[n].rejected[p] > 0
    IN  IF Rejected(who, Pool) = 0 THEN {Naming("TP-001", "OK", {})}
        ELSE {Naming("TP-001", IF Rejected(who, Pool) >= RejectedCrit * Cardinality(who) /\ live
                               THEN "CRITICAL" ELSE "WARNING", {})}

(* Rejections are a sum of history; critical they are only while work      *)
(* waits for a pool that has been rejecting.                               *)
r_thread_pools(who) ==
    LET live   == \E n \in who : \E p \in proc[n].queue : proc[n].rejected[p] > 0
        queues == \E n \in who : proc[n].queue # {}
    IN  (IF Rejected(who, Pool) = 0 THEN {Naming("TP-001", "OK", {})}
         ELSE {Naming("TP-001", IF Rejected(who, Pool) >= RejectedCrit /\ live
                                THEN "CRITICAL" ELSE "WARNING", {})})
        \cup IfSo(queues, Naming("TP-002", "INFO", {}))

(* The real-memory parent breaker counts young garbage: what it means is   *)
(* judged by the pressure of the old generation.                           *)
LiveBreaker(n, k) ==
    IF k = "parent" /\ site.realMemory THEN proc[n].pressure = "crit" ELSE k \in proc[n].use

r_breakers(who) ==
    LET tripped == {nk \in who \X Breaker : proc[nk[1]].trips[nk[2]] > 0}
        full    == {nk \in (who \X Breaker) \ tripped :
                       nk[2] \in proc[nk[1]].use /\ ~(nk[2] = "parent" /\ site.realMemory)}
    IN  IfSo(tripped # {},
             Naming("BRK-001", IF \E nk \in tripped : LiveBreaker(nk[1], nk[2])
                               THEN "CRITICAL" ELSE "WARNING", {nk[1] : nk \in tripped}))
        \cup IfSo(full # {}, Naming("BRK-002", "WARNING", {nk[1] : nk \in full}))

r_indexing_pressure(who) ==
    LET refusing == {n \in who : proc[n].refused > 0}
    IN  IfSo(refusing # {}, Naming("IP-001", "WARNING", refusing))

r_fielddata(who) ==
    LET large == {n \in who : machine[n].fielddata}
    IN  IfSo(large # {}, Naming("FD-001", "WARNING", large))
        \cup IfSo(site.field, Naming("FD-002", "INFO", {}))

(* Once a node counts failures enough, those of each pipeline are rated,   *)
(* over the nodes; without any, those of documents that failed before a    *)
(* pipeline ran.                                                           *)
IngestFailed(n) == SumFunction(proc[n].failed) + proc[n].unparsed

r_ingest_failures(who) ==
    LET Failed(p)    == SumFunction([n \in who |-> proc[n].failed[p]])
        Processed(p) == SumFunction([n \in who |-> proc[n].processed[p]])
        failing == {p \in Pipeline : Failed(p) > 0}
        early   == SumFunction([n \in who |-> proc[n].unparsed])
        all     == SumFunction([p \in Pipeline |-> Processed(p)]) + early
        severe  == \/ \E p \in failing : 100 * Failed(p) >= IngestPercent * Processed(p)
                   \/ failing = {} /\ 100 * early >= IngestPercent * all
    IN  IfSo(\E n \in who : IngestFailed(n) >= IngestFailedWarn,
             Naming("ING-001", IF severe THEN "WARNING" ELSE "INFO", {}))

data_tiers == {Tier[n] : n \in {m \in Node : is_data(m)}}

r_node_heterogeneity(who) ==
    LET uneven == \E n, o \in Node : is_data(n) /\ Tier[n] = Tier[o] /\ machine[n].size # machine[o].size
    IN  IfSo(uneven, Naming("NODE-001", "WARNING", {}))
        \cup IfSo(Cardinality(data_tiers) > 1, Naming("NODE-003", "INFO", {}))

(* Documents indexed per hour; a node up for less than one counts as one   *)
(* hour here.  Only nodes with a tenth of the busiest node's rate index.   *)
Hours(n) == IF proc[n].up = 0 THEN 1 ELSE proc[n].up

Indexes(who, n) ==
    /\ is_data(n) /\ proc[n].indexed > 0
    /\ \A o \in who : is_data(o) =>
           10 * proc[n].indexed * Hours(o) >= proc[o].indexed * Hours(n)

(* latency is the average of the flushes (or refreshes, or merges) since   *)
(* the start, which counts once there are enough of them.                  *)
r_write_latency(who) ==
    LET rated == {n \in who : /\ Indexes(who, n) /\ ~Frozen(n)
                              /\ proc[n].flushes >= MinOps /\ proc[n].latency # "low"}
    IN  IfSo(rated # {}, Naming("PERF-012", IF At(rated, "latency", "crit") # {}
                                            THEN "WARNING" ELSE "INFO", rated))

r_search_pool_wait(who) ==
    LET waiting == {n \in who : /\ is_data(n) /\ proc[n].searching /\ proc[n].cpu = "idle"
                                /\ Frozen(n) => "search" \in proc[n].queue}
    IN  IfSo(waiting # {},
             Naming("PERF-013", IF \E n \in waiting : "search" \in proc[n].queue
                                THEN "WARNING" ELSE "INFO", waiting))

NodeFindings(who) ==
    r_heap_usage(who) \cup r_heap_sizing(who) \cup r_gc(who) \cup r_os(who)
    \cup r_thread_pools(who) \cup r_breakers(who) \cup r_indexing_pressure(who)
    \cup r_fielddata(who) \cup r_ingest_failures(who) \cup r_node_heterogeneity(who)
    \cup r_write_latency(who) \cup r_search_pool_wait(who)

-----------------------------------------------------------------------------
(* r_rejections_delta.  before is what the earlier bundle read, and 0 for a *)
(* process that restarted since (see Comparison for how that is noticed).  *)
Grown(who) ==
    \E n \in who : \E p \in Pool : proc[n].rejected[p] > before[n][p]

r_rejections_delta(who) ==
    CASE before = NoBundle -> {}
      [] before # NoBundle /\ Grown(who) ->
           {Naming("DIF-005",
                   IF SumFunction([np \in who \X Pool |->
                                      proc[np[1]].rejected[np[2]] - before[np[1]][np[2]]])
                         >= RejectedCrit
                   THEN "CRITICAL" ELSE "WARNING", {})}
      [] OTHER -> IfSo(Rejected(who, Pool) > 0, Naming("DIF-004", "INFO", {}))

-----------------------------------------------------------------------------
(* What happens to processes.                                              *)
Happens(n, p) ==
    /\ events < MaxEvents
    /\ events' = events + 1
    /\ proc' = [proc EXCEPT ![n] = p]
    /\ UNCHANGED <<machine, site>>

Change(n, p) == Happens(n, p) /\ UNCHANGED before

(* Work waits for a pool, is rejected while it does, and is done.          *)
Wait(n, p)   == p \notin proc[n].queue /\ Change(n, [proc[n] EXCEPT !.queue = @ \cup {p}])
Drain(n, p)  == p \in proc[n].queue /\ Change(n, [proc[n] EXCEPT !.queue = @ \ {p}])
Reject(n, p) == p \in proc[n].queue /\ Change(n, [proc[n] EXCEPT !.rejected[p] = @ + 1])

(* A breaker fills and trips; the parent breaker also on young garbage.    *)
Fill(n, k) == k \notin proc[n].use /\ Change(n, [proc[n] EXCEPT !.use = @ \cup {k}])
Free(n, k) == k \in proc[n].use /\ Change(n, [proc[n] EXCEPT !.use = @ \ {k}])
Trip(n, k) == k \in proc[n].use /\ Change(n, [proc[n] EXCEPT !.trips[k] = @ + 1])

Press(n, l)    == l # proc[n].pressure /\ Change(n, [proc[n] EXCEPT !.pressure = l])
SetLoad(n, l)  == l # proc[n].load /\ Change(n, [proc[n] EXCEPT !.load = l])
SetCpu(n, c)   == c # proc[n].cpu /\ Change(n, [proc[n] EXCEPT !.cpu = c])
OldGc(n)       == Change(n, [proc[n] EXCEPT !.oldGc = @ + 1])
Throttle(n, l) == l # proc[n].throttled /\ Change(n, [proc[n] EXCEPT !.throttled = l])
Refuse(n)      == Change(n, [proc[n] EXCEPT !.refused = @ + 1])
Flush(n, l)    == Change(n, [proc[n] EXCEPT !.flushes = @ + 1, !.latency = l])

Ingest(n, p, fails) ==
    Change(n, [proc[n] EXCEPT !.processed[p] = @ + 1, !.failed[p] = @ + fails,
                              !.indexed = @ + (IF is_data(n) THEN 1 - fails ELSE 0)])
Unparsable(n) == Change(n, [proc[n] EXCEPT !.unparsed = @ + 1])

Search(n, busy_) ==
    /\ is_data(n)
    /\ Change(n, [proc[n] EXCEPT !.searched = @ + 1, !.searching = busy_])

(* Mutant: the restart is not noticed. *)
RestartUnnoticed(n) == Change(n, Fresh)

Restart(n) ==
    /\ Happens(n, Fresh)
    /\ before' = IF before = NoBundle THEN NoBundle
                 ELSE [before EXCEPT ![n] = Fresh.rejected]

Hour ==
    /\ events < MaxEvents
    /\ \E n \in Node : proc[n].up < MaxUp
    /\ events' = events + 1
    /\ proc' = [n \in Node |-> [proc[n] EXCEPT !.up = IF @ < MaxUp THEN @ + 1 ELSE @]]
    /\ UNCHANGED <<machine, site, before>>

(* The earlier bundle is collected. *)
Collect ==
    /\ before = NoBundle
    /\ before' = [n \in Node |-> proc[n].rejected]
    /\ UNCHANGED <<machine, site, proc, events>>

Next ==
    \/ \E n \in Node :
         \/ \E p \in Pool : Wait(n, p) \/ Drain(n, p) \/ Reject(n, p)
         \/ \E k \in Breaker : Fill(n, k) \/ Free(n, k) \/ Trip(n, k)
         \/ \E l \in Level : Press(n, l) \/ SetLoad(n, l) \/ Throttle(n, l) \/ Flush(n, l)
         \/ \E c \in {"idle", "busy"} : SetCpu(n, c)
         \/ OldGc(n) \/ Refuse(n) \/ Unparsable(n)
         \/ \E p \in Pipeline, fails \in {0, 1} : Ingest(n, p, fails)
         \/ \E busy_ \in BOOLEAN : Search(n, busy_)
         \/ Restart(n)
    \/ Hour
    \/ Collect

Spec == Init /\ [][Next]_vars

-----------------------------------------------------------------------------
(* The types; what the earlier bundle read is no more than there is now.   *)
TypeOK ==
    /\ \E w \in Worlds : machine = w.machine /\ site = w.site
    /\ events \in 0 .. MaxEvents
    /\ proc \in [Node -> Process]
    /\ before # NoBundle =>
         /\ before \in [Node -> [Pool -> Nat]]
         /\ \A n \in Node : \A p \in Pool : before[n][p] <= proc[n].rejected[p]

Critical(fs, i) == \E f \in fs : f.id = i /\ f.severity = "CRITICAL"

(* History is not critical: when nothing waits, no breaker is near its     *)
(* limit, the heap is free and the CPU idle, no past of rejections, trips  *)
(* or throttling makes TP-001, BRK-001 or OS-003 critical, however it came *)
(* to be and whichever nodes answer.                                       *)
Calm(who) ==
    \A n \in who : proc[n].queue = {} /\ proc[n].use = {} /\ proc[n].pressure = "low"
                   /\ proc[n].cpu = "idle"

HistoryIsNeverCritical ==
    \A who \in SUBSET Node : Calm(who) =>
        LET fs == NodeFindings(who)
        IN  \A i \in {"TP-001", "BRK-001", "OS-003"} : ~Critical(fs, i)

(* A node that does not answer hides what it has and adds nothing: what is *)
(* found without it is found, at least as severely, with it.  Only what is *)
(* a share or a rate of all nodes (restarts, ingest failures, who indexes) *)
(* and the hint that nothing swaps may appear when nodes are missing.      *)
Shares == {"OS-005", "OS-007", "ING-001", "PERF-012"}

SilenceOnlyHides ==
    LET all == NodeFindings(Node)
    IN  \A n \in Node : \A f \in NodeFindings(Node \ {n}) :
            f.id \in Shares \/ f.severity = "OK"
            \/ \E g \in all : g.id = f.id /\ Rank[g.severity] <= Rank[f.severity]

(* BRK-001 is critical by the parent breaker only if JVM-001 is as well, so *)
(* the two rules never disagree on whether the heap is full.               *)
BreakersMeanHeap ==
    \A who \in SUBSET Node :
        Critical(r_breakers(who), "BRK-001") /\ site.realMemory
        /\ (\A n \in who : "request" \notin proc[n].use) =>
            Critical(r_heap_usage(who), "JVM-001")

(* The load the other rules count with is the load that OS-001 reports.    *)
LoadRulesAgree ==
    \A who \in SUBSET Node :
        {n \in who : load_high(n)} =
            UNION {f.affected : f \in {g \in r_os(who) : g.id = "OS-001" /\ g.severity \in Serious}}
=============================================================================
