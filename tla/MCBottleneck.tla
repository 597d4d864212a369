---------------------------- MODULE MCBottleneck ----------------------------
(* Instances of Bottleneck: two hot nodes, a frozen one and a coordinating *)
(* one.                                                                    *)
EXTENDS Bottleneck

h1 == "h1"
h2 == "h2"
f1 == "f1"
c1 == "c1"
MCNode == {h1, h2, f1, c1}
MCTier == [n \in MCNode |-> CASE n = f1 -> "frozen" [] n = c1 -> "none" [] OTHER -> "hot"]

Sound ==
    [oops |-> "true", heap |-> "low", ratio |-> FALSE, xms |-> FALSE, limits |-> FALSE,
     swap |-> FALSE, locked |-> "yes", files |-> FALSE, fielddata |-> FALSE, size |-> 1]

Site(real, orchestrated) == [realMemory |-> real, orchestrated |-> orchestrated, field |-> ~real]

(* Sound machines, one of them a container; and an orchestrated cluster    *)
(* where something is amiss with each machine.                             *)
MCWorlds ==
    {[machine |-> [n \in MCNode |-> [Sound EXCEPT !.limits = n = h1]], site |-> Site(TRUE, FALSE)],
     [machine |-> [n \in MCNode |->
        CASE n = h1 -> [Sound EXCEPT !.oops = "false", !.swap = TRUE, !.locked = "no", !.size = 2]
          [] n = h2 -> [Sound EXCEPT !.oops = "unknown", !.heap = "crit", !.fielddata = TRUE]
          [] n = f1 -> [Sound EXCEPT !.oops = "unknown", !.heap = "warn", !.ratio = TRUE]
          [] n = c1 -> [Sound EXCEPT !.locked = "no", !.xms = TRUE, !.files = TRUE]],
      site |-> Site(FALSE, TRUE)]}

(* Processes with a history: work is done on the data nodes, and one of    *)
(* them, or the coordinating node, once rejected work or tripped a breaker. *)
Busy == [Fresh EXCEPT !.up = 2, !.indexed = 1, !.processed = [p \in Pipeline |-> 1],
                       !.searched = 1, !.flushes = 1]
Past(n) ==
    CASE n = h1 -> [Busy EXCEPT !.rejected = [p \in Pool |-> IF p = "write" THEN 6 ELSE 0],
                                !.trips = [k \in Breaker |-> 1]]
      [] n = h2 -> [Busy EXCEPT !.oldGc = 1]
      [] n = f1 -> [Fresh EXCEPT !.up = 1, !.searched = 1, !.latency = "crit",
                                 !.flushes = 1, !.throttled = "crit"]
      [] n = c1 -> [Fresh EXCEPT !.rejected = [p \in Pool |-> IF p = "write_coordination" THEN 1 ELSE 0]]
MCPasts == {[n \in MCNode |-> Past(n)]}

(* What the other rules may have found: causes, and symptoms too.          *)
MCCauses ==
    {Naming("DISK-003", "WARNING", {f1}), Naming("HOT-005", "CRITICAL", {h1}),
     Naming("HOT-002.index_total", "WARNING", {h1}), Naming("HOT-001", "WARNING", {f1}),
     Naming("FRZ-002", "WARNING", {f1}), Naming("OVS-001", "WARNING", {"index"})}
MCOthers ==
    {MCCauses,
     MCCauses \cup {Naming("IDX-014", "WARNING", {"index"}), Naming("PERF-001", "WARNING", {f1})}}
MCSubIds == {<<"HOT-002.index_total", "HOT-002">>}
=============================================================================
