----------------------------- MODULE Bottleneck -----------------------------
(***************************************************************************)
(* The bottleneck summary of bottleneck.py: five questions answered from   *)
(* the findings of the report and a few raw counters.  Each question looks *)
(* for symptoms first; only with a symptom does it walk groups of causes,  *)
(* in the scope of the nodes that show the symptom.  The summary is made   *)
(* at any moment of the processes of Nodes, beside findings of other rules *)
(* that Others gives.                                                      *)
(***************************************************************************)
EXTENDS Nodes, FiniteSetsExt, Sequences

CONSTANTS
    Others,     \* sets of findings other rules may have made
    SubIds      \* pairs of an id and the pattern it begins with

(* A rule of another module reports under ids of its own.                  *)
NodeIds ==
    {"JVM-001", "JVM-002", "JVM-003", "JVM-004", "JVM-005", "OS-001", "OS-002", "OS-003",
     "OS-004", "OS-005", "OS-006", "OS-007", "TP-001", "TP-002", "BRK-001", "BRK-002",
     "IP-001", "FD-001", "FD-002", "ING-001", "NODE-001", "NODE-003", "PERF-012", "PERF-013",
     "DIF-004", "DIF-005"}

ASSUME OthersAssumption ==
    \A fs \in Others : \A f \in fs : f.id \notin NodeIds /\ f.severity \in Severities

VARIABLE others

allVars == <<vars, others>>

Findings(who) == NodeFindings(who) \cup r_rejections_delta(who) \cup others

-----------------------------------------------------------------------------
(* Groups of causes, in the order they are walked. *)
Group(name, ids) == [name |-> name, ids |-> ids]

INGEST_CAUSES ==
    <<Group("storage", {"IDX-005", "PERF-012", "IDX-014", "DISK-008", "IDX-015", "PERF-009"}),
      Group("memory", {"JVM-001", "JVM-005", "BRK-001", "BRK-002", "IP-001"}),
      Group("cpu", {"HOT-005", "OS-001", "OS-003"}),
      Group("distribution", {"SHD-016", "HOT-002.index_total", "HOT-001", "SHD-006", "SHD-012"}),
      Group("pipeline", {"ING-002", "ING-001"}),
      Group("settings", {"IDX-007", "PERF-004"})>>

SEARCH_CAUSES ==
    <<Group("memory", {"JVM-001", "JVM-005", "FD-001", "BRK-001", "BRK-002"}),
      Group("cpu", {"HOT-005", "OS-001", "OS-003"}),
      Group("storage", {"PERF-013", "FRZ-002", "FRZ-001", "DISK-008", "PERF-009", "PERF-003"}),
      Group("query", {"PERF-011", "PERF-010", "PERF-005", "GEN-001"}),
      Group("shards", {"SHD-001", "OVS-001", "OVS-003", "SHD-004", "SHD-009"}),
      Group("distribution", {"HOT-002.query_total", "HOT-001", "PERF-007", "SHD-006"})>>

STORAGE == {"IDX-005", "PERF-012", "IDX-014", "DISK-008", "PERF-013", "FRZ-002", "FRZ-001",
            "PERF-009", "IDX-015"}

RESTART ==
    <<Group("mass", {"OS-007"}), Group("interval", {"DIF-002"}), Group("recent", {"OS-006"}),
      Group("recovery", {"CLU-020", "REC-001", "HOT-003"})>>

CAPACITY ==
    <<Group("cpu", {"HOT-005"}),
      Group("disk", {"DISK-001", "DISK-002", "DISK-003", "DISK-004", "DIF-008", "COST-004"}),
      Group("memory", {"JVM-001", "BRK-001"}),
      Group("concentration", {"HOT-001", "HOT-002", "SHD-006", "SHD-016", "NODE-001"})>>

Matches(i, pattern) == i = pattern \/ <<i, pattern>> \in SubIds

(* Findings that count, also an INFO of PERF-013.                          *)
Counts(f) == f.severity \in Serious \/ (f.severity = "INFO" /\ f.id = "PERF-013")

(* Everywhere is the scope of a symptom that is tied to no node.           *)
Everywhere == {}

(* Mutant: a finding that names nodes counts wherever they are. *)
ScopedAnywhere(f, scope) == TRUE

Scoped(f, scope) ==
    scope = Everywhere \/ f.affected \cap Node = {} \/ f.affected \cap scope # {}

Hits(fs, patterns, scope) ==
    {f.id : f \in {g \in fs : /\ \E p \in patterns : Matches(g.id, p)
                              /\ Scoped(g, scope) /\ Counts(g)}}

(* The groups with a hit, in order, and the ids that hit.                  *)
Walk(fs, groups, scope) == SelectSeq(groups, LAMBDA g : Hits(fs, g.ids, scope) # {})

Causes(fs, groups, scope) ==
    UNION {Hits(fs, groups[k].ids, scope) : k \in DOMAIN groups}

Worst(fs, ids) ==
    LET ranks == {Rank[f.severity] : f \in {g \in fs : g.id \in ids}}
    IN  CHOOSE s \in Severities : Rank[s] = Min(ranks)

Row(state, verdict, causes, worst) ==
    [state |-> state, verdict |-> verdict, causes |-> causes, worst |-> worst]

(* A row that names the first group with a hit.                            *)
Issue(fs, groups, scope) ==
    LET ids == Causes(fs, groups, scope)
    IN  Row("issue", Walk(fs, groups, scope)[1].name, ids, Worst(fs, ids))

(* Mutant: every rejection is a symptom. *)
always_current(fs) == TRUE

(* Rejections that did not grow between two bundles are history.           *)
rejections_current(fs) == "DIF-004" \in Ids(fs) => "DIF-005" \in Ids(fs)

(* Nodes with rejections that count or with a queue, in some of the pools.  *)
Rejecting(who, pools, current) ==
    {n \in who : current /\ \E p \in pools : proc[n].rejected[p] > 0}
Waiting(who, pools) == {n \in who : proc[n].queue \cap pools # {}}

(* A bulk waits for the replicas and a search for the copies on the other  *)
(* nodes of the tier; a node without data passes its work to all of them.  *)
tier_scope(scope) ==
    CASE scope = {} -> {}
      [] \E n \in scope : ~is_data(n) -> scope \cup {n \in Node : is_data(n)}
      [] OTHER -> scope \cup {n \in Node : \E m \in scope : Tier[n] = Tier[m]}

causal(fs, groups, scope) ==
    IF Causes(fs, groups, scope) = {} THEN Row("symptom", "unknown", {}, "WARNING")
    ELSE Issue(fs, groups, scope)

First(groups, names) ==
    SelectSeq(groups, LAMBDA g : g.name \in names)
        \o SelectSeq(groups, LAMBDA g : g.name \notin names)

Nothing(state) == Row(state, state, {}, "OK")

(* 1. Is ingest keeping up?                                                *)
ingest(who, fs) ==
    LET current  == rejections_current(fs)
        pools    == {"write", "write_coordination"}
        coord    == /\ Rejecting(who, pools, current) \cup Waiting(who, pools) # {}
                    /\ Rejecting(who, {"write"}, current) \cup Waiting(who, {"write"}) = {}
        pressed  == {n \in who : proc[n].refused > 0}
        nodes    == Rejecting(who, pools, current) \cup Waiting(who, pools) \cup pressed
        throttle == \E f \in fs : f.id = "IDX-014" /\ f.severity \in Serious
        groups   == IF coord /\ ~throttle /\ pressed = {}
                    THEN First(INGEST_CAUSES, {"cpu", "pipeline"}) ELSE INGEST_CAUSES
    IN  CASE \A n \in who : proc[n].indexed = 0 -> Nothing("idle")
          [] /\ \E n \in who : proc[n].indexed > 0
             /\ nodes = {} /\ ~throttle -> Nothing("clear")
          [] OTHER -> causal(fs, groups, IF throttle THEN Everywhere ELSE tier_scope(nodes))

(* 2. Is search slow?                                                      *)
search(who, fs) ==
    LET current == rejections_current(fs)
        Named(ids) == UNION {f.affected \cap Node : f \in {g \in fs : g.id \in ids}}
        slow   == Hits(fs, {"PERF-001", "PERF-002"}, Everywhere)
        busy_  == Hits(fs, {"PERF-013"}, Everywhere)
        own    == Rejecting(who, {"search"}, current) \cup Waiting(who, {"search"})
        wide   == slow # {} /\ Named(slow) = {}
        nodes  == own \cup Named(slow) \cup Named(busy_)
        groups == IF busy_ = {} THEN SEARCH_CAUSES ELSE First(SEARCH_CAUSES, {"storage"})
    IN  CASE \A n \in who : proc[n].searched = 0 -> Nothing("idle")
          [] /\ \E n \in who : proc[n].searched > 0
             /\ own = {} /\ slow \cup busy_ = {} -> Nothing("clear")
          [] OTHER -> causal(fs, groups, IF wide THEN Everywhere ELSE tier_scope(nodes))

Answer(fs, groups) ==
    IF Causes(fs, groups, Everywhere) = {} THEN Nothing("clear") ELSE Issue(fs, groups, Everywhere)

(* 3. Is storage limiting?  4. Is a restart or recovery skewing the        *)
(* numbers?  5. Is it capacity or concentration?                           *)
storage(fs) == Answer(fs, <<Group("signals", STORAGE)>>)

restart(fs) == Answer(fs, RESTART)

(* A history of breaker trips is not memory pressure.                      *)
capacity(fs) ==
    Answer({f \in fs : f.id = "BRK-001" => f.severity = "CRITICAL"}, CAPACITY)

-----------------------------------------------------------------------------
BInit == Init /\ others \in Others
BSpec == BInit /\ [][Next /\ UNCHANGED others]_allVars

-----------------------------------------------------------------------------
(* "The summary never contradicts the body": when ingest is clear, the     *)
(* report shows no write queue, no indexing pressure, no throttling, and   *)
(* rejections of the write pools only as history; and so for search.       *)
Shows(fs, i) == \E f \in fs : f.id = i /\ f.severity \in Serious

ClearIsClear ==
    LET who == Node
        fs  == Findings(who)
    IN  /\ ingest(who, fs).state = "clear" =>
              /\ Waiting(who, {"write", "write_coordination"}) = {}
              /\ ~Shows(fs, "IP-001") /\ ~Shows(fs, "IDX-014")
              /\ Rejected(who, {"write", "write_coordination"}) > 0 =>
                    "DIF-004" \in Ids(fs) /\ ~Shows(fs, "DIF-005")
        /\ search(who, fs).state = "clear" =>
              /\ Waiting(who, {"search"}) = {}
              /\ \A i \in {"PERF-001", "PERF-002", "PERF-013"} : ~Shows(fs, i)
              /\ Rejected(who, {"search"}) > 0 =>
                    "DIF-004" \in Ids(fs) /\ ~Shows(fs, "DIF-005")

(* A cause of the trouble of some nodes lies with them or with the nodes   *)
(* that share their work: no finding about nodes of other tiers alone is   *)
(* named as a cause while the nodes of the symptom all hold data.          *)
CausesShareTheTier ==
    LET fs      == Findings(Node)
        nodes   == Rejecting(Node, {"write", "write_coordination"}, rejections_current(fs))
                   \cup Waiting(Node, {"write", "write_coordination"})
                   \cup {n \in Node : proc[n].refused > 0}
    IN  ingest(Node, fs).state = "issue" /\ ~Shows(fs, "IDX-014") /\ (\A n \in nodes : is_data(n)) =>
            \A i \in ingest(Node, fs).causes : \E f \in fs :
                /\ f.id = i
                /\ f.affected \cap Node # {} =>
                      \E a \in f.affected, n \in nodes : Tier[a] = Tier[n]

(* And a cause in the tier is not lost: when work waits for a node whose   *)
(* tier is short of memory, memory is among the causes, unless a worse     *)
(* heap outside the tier takes the place of the tier's in JVM-001.         *)
TierCausesAreNamed ==
    LET fs == Findings(Node)
    IN  \A n \in Waiting(Node, {"write"}), m \in Node :
            /\ ingest(Node, fs).state # "idle"
            /\ is_data(n) /\ Tier[m] = Tier[n] /\ proc[m].pressure # "low"
            /\ \A o \in Node : proc[o].pressure = "crit" => Tier[o] = Tier[n]
            => "JVM-001" \in ingest(Node, fs).causes

(* In a comparison that saw no rejections grow, with nothing waiting now,  *)
(* no past of rejections makes a symptom of ingest or of search.           *)
HistoryIsNoSymptom ==
    LET fs == Findings(Node)
    IN  before # NoBundle /\ (\A n \in Node : before[n] = proc[n].rejected) =>
            /\ (\A n \in Node : "write" \notin proc[n].queue /\ "write_coordination" \notin proc[n].queue
                                /\ proc[n].refused = 0) /\ ~Shows(fs, "IDX-014")
                  => ingest(Node, fs).state \in {"idle", "clear"}
            /\ (\A n \in Node : "search" \notin proc[n].queue)
               /\ Hits(fs, {"PERF-001", "PERF-002", "PERF-013"}, Everywhere) = {}
                  => search(Node, fs).state \in {"idle", "clear"}

(* Capacity is blamed on memory only while some heap is short or a breaker *)
(* would trip again.                                                       *)
CapacityMemoryIsLive ==
    LET fs == Findings(Node)
    IN  capacity(fs).causes \cap {"JVM-001", "BRK-001"} # {} =>
            \E n \in Node : proc[n].pressure # "low" \/ proc[n].use # {}

(* No history, of whichever counter, is told as present trouble, by the    *)
(* rules or by the summary.                                                *)
HistoryIsNoTrouble == HistoryIsNeverCritical /\ HistoryIsNoSymptom /\ CapacityMemoryIsLive

(* Two parts of one report do not contradict each other: two rules that    *)
(* judge one thing, the summary and the body.                              *)
ReportAgrees ==
    BreakersMeanHeap /\ LoadRulesAgree /\ ClearIsClear /\ CausesShareTheTier /\ TierCausesAreNamed
=============================================================================
