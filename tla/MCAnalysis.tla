----------------------------- MODULE MCAnalysis -----------------------------
(* Instances of Analysis and Result. *)
EXTENDS Result

MCDeltaRules == {"DIF-005"}
MCCoreFiles == {"nodes_stats.json", "cluster_health.json"}
Files == {"nodes_stats.json", "cluster_health.json", "cat_health.txt"}

(* One rule that needs two files, one that either of two will do for, and  *)
(* for the conclusions a rule in several areas and root-cause groups.      *)
FiveRules == <<"TP-001", "CLU-001", "CLU-004.disk", "DISK-002", "SEC-001">>
TwoRules == {"TP-001", "CLU-001"}

MCCategory ==
    [i \in {FiveRules[k] : k \in 1 .. 5} |->
        CASE i \in {"CLU-001", "CLU-004.disk"} -> "cluster"
          [] i \in {"DISK-002", "TP-001"}      -> "node"
          [] i = "SEC-001"                     -> "security"]

MCRequires ==
    [i \in {FiveRules[k] : k \in 1 .. 5} |->
        CASE i = "TP-001"  -> {{"nodes_stats.json"}, {"cluster_health.json"}}
          [] i = "CLU-001" -> {{"cluster_health.json", "cat_health.txt"}}
          [] OTHER         -> {{"nodes_stats.json"}}]

Bundle(time, dated, cluster, uuid, restarted, files, truth) ==
    [time |-> time, dated |-> dated, cluster |-> cluster, uuid |-> uuid,
     name |-> cluster, restarted |-> restarted, files |-> files, truth |-> truth,
     nodes |-> IF cluster = "A" THEN {"n1", "n2", "n3"} ELSE {"n3", "n4"}]

AllData == [f \in Files |-> "data"]
AllFine == [r \in {FiveRules[k] : k \in 1 .. 5} |-> "none"]

In(c, bs, noOk, selected) == [cur |-> c, baselines |-> bs, hide |-> noOk, only |-> selected]

(* What two selected rules find and whether their files are there; the     *)
(* other rules see nothing wrong.                                          *)
ChangingBundles ==
    {Bundle(1, TRUE, "A", TRUE, {}, f, [AllFine EXCEPT !["TP-001"] = t, !["CLU-001"] = c]) :
        f \in {g \in [Files -> {"data", "error body", "absent"}] : g["cat_health.txt"] # "error body"},
        t \in {"none", "CRITICAL"}, c \in {"none", "WARNING", "CRITICAL"}}

ChangedBundles ==
    {b \in ChangingBundles :
        b.files["cat_health.txt"] = "absent" /\ b.truth["CLU-001"] # "CRITICAL"}

ChangingInputs ==
    {In(c, bs, FALSE, TwoRules) :
        c \in ChangingBundles, bs \in {<<>>} \cup {<<b>> : b \in ChangedBundles}}

(* When and of which cluster bundles were collected. *)
DatedBundles ==
    {Bundle(time, dated, cluster, uuid, {}, AllData, AllFine) :
        time \in 1 .. 2, dated \in BOOLEAN, cluster \in {"A", "B"}, uuid \in BOOLEAN}
    \cup {Bundle(2, TRUE, "A", TRUE, r, AllData, AllFine) : r \in {{"n1"}, {"n1", "n2", "n3"}}}

DatedInputs ==
    {In(c, bs, FALSE, {}) : c \in DatedBundles, bs \in UNION {[1 .. n -> DatedBundles] : n \in 1 .. 2}}

(* Another cluster may have the same name, and one cluster two names.      *)
NamedBundles ==
    {[Bundle(time, TRUE, cluster, uuid, {}, AllData, AllFine) EXCEPT !.name = name] :
        time \in 1 .. 2, cluster \in {"A", "B"}, uuid \in BOOLEAN, name \in {"A", "B"}}

NamedInputs ==
    {In(c, bs, FALSE, {}) :
        c \in {b \in NamedBundles : b.time = 2 /\ b.cluster = "A"},
        bs \in UNION {[1 .. n -> NamedBundles] : n \in 1 .. 2}}

(* Three baselines, so that two intervals or more may be rated.            *)
OrderedBundles ==
    {Bundle(time, TRUE, cluster, TRUE, {}, AllData, AllFine) :
        time \in 1 .. 3, cluster \in {"A", "B"}}

OrderedInputs ==
    {In(c, bs, FALSE, {}) :
        c \in OrderedBundles \cup {Bundle(4, TRUE, "A", TRUE, {}, AllData, AllFine)},
        bs \in [1 .. 3 -> OrderedBundles \cup
                            {Bundle(1, FALSE, "A", TRUE, {}, AllData, AllFine)}]}

(* Conclusions from any findings, with or without a comparison with a      *)
(* bundle that tells nothing of its cluster's problems.                    *)
Concluded(severities) ==
    {Bundle(2, TRUE, "A", TRUE, {}, AllData, t) : t \in [DOMAIN AllFine -> severities]}
PlainBundle ==
    Bundle(1, TRUE, "A", TRUE, {},
           [f \in Files |-> IF f = "cluster_health.json" THEN "data" ELSE "absent"], AllFine)

ConcludedInputs ==
    {In(c, <<>>, FALSE, DOMAIN AllFine) : c \in Concluded({"OK", "WARNING", "CRITICAL"})}
    \cup {In(c, <<>>, TRUE, DOMAIN AllFine) : c \in Concluded({"OK", "CRITICAL"})}
    \cup {In(c, <<PlainBundle>>, FALSE, DOMAIN AllFine) : c \in Concluded({"OK", "WARNING"})}

MCInputs ==
    ChangingInputs \cup DatedInputs \cup NamedInputs \cup OrderedInputs \cup ConcludedInputs
ErrorBodyInputs == {in \in ChangingInputs : in.cur \in ChangedBundles}
=============================================================================
