------------------------------- MODULE Result -------------------------------
(***************************************************************************)
(* What the program concludes from the findings of an analysis: the class  *)
(* Result of engine.py.  Counts and grade, the status of the areas of the  *)
(* report, the priority list in which findings with one root cause share   *)
(* a row, and the exit status that --fail-on asks for.                     *)
(***************************************************************************)
EXTENDS Analysis

all == report.found \cup trend

(* --no-ok takes the OK findings out of what is shown, not of the counts. *)
hidden == IF hide THEN {f \in all : f.severity = "OK"} ELSE {}
shown  == all \ hidden

Counted == shown \cup hidden

Count(fs, s) == Cardinality({f \in fs : f.severity = s})

Grade ==
    CASE Count(Counted, "CRITICAL") > 0 -> "action"
      [] Count(Counted, "CRITICAL") = 0 /\ Count(Counted, "WARNING") >= 5 -> "review"
      [] Count(Counted, "CRITICAL") = 0 /\ Count(Counted, "WARNING") \in 1 .. 4 -> "fair"
      [] OTHER -> "good"

-----------------------------------------------------------------------------

(* AREAS and area_summary(). *)
Areas ==
    [availability |-> {"cluster"},
     capacity     |-> {"node", "hotspot", "cost"},
     structure    |-> {"shard", "vector"},
     performance  |-> {"perf", "runtime"},
     protection   |-> {"ops"},
     security     |-> {"security"},
     config       |-> {"config", "settings", "os"},
     trend        |-> {"trend"}]

(* A rule's findings are of a category that the report has an area for. *)
ASSUME CategoryAssumption ==
    \A r \in Rule : \E a \in DOMAIN Areas : Category[r] \in Areas[a]

CategoryOf(f) == IF f.id \in Rule THEN Category[f.id] ELSE "trend"

InArea(a) == {f \in Counted : CategoryOf(f) \in Areas[a]}

AreaStatus(a) ==
    CASE Count(InArea(a), "CRITICAL") > 0 -> "action"
      [] Count(InArea(a), "CRITICAL") = 0 /\ Count(InArea(a), "WARNING") > 0 -> "review"
      [] \A f \in InArea(a) : f.severity \notin Serious ->
             IF InArea(a) = {} THEN "none" ELSE "good"

(* The trend area is left out of a report without a comparison. *)
AreaRows == {a \in DOMAIN Areas : a = "trend" => InArea(a) # {}}

-----------------------------------------------------------------------------

(* Mutant: a finding in two groups. *)
OverlappingGroups ==
    << <<"CLU-001", "CLU-002", "CLU-003", "CLU-004.disk", "IDX-002">>,
       <<"DISK-001", "DISK-002", "DISK-003", "CLU-004.disk">>,
       <<"DIF-005", "TP-001">> >>

(* ROOT_GROUPS and priority(). *)
RootGroups ==
    << <<"CLU-001", "CLU-002", "CLU-003", "CLU-004.shards_availability", "IDX-002">>,
       <<"DISK-001", "DISK-002", "DISK-003", "CLU-004.disk">>,
       <<"DIF-005", "TP-001">>,
       <<"DIF-007", "BRK-001">>,
       <<"DIF-002", "OS-006">>,
       <<"DIF-008", "DISK-004">> >>

Actionable == {f \in shown : f.severity \in Serious}

Present(g) == {i \in DOMAIN g : g[i] \in Ids(Actionable)}

RankOf(i) == Rank[SeverityIn(Actionable, i)]

(* The most severe finding of a group leads, the first in the group of     *)
(* those; a group of one finding is none.                                  *)
Lead(g) ==
    g[CHOOSE i \in Present(g) :
        \A j \in Present(g) : \/ RankOf(g[i]) < RankOf(g[j])
                              \/ RankOf(g[i]) = RankOf(g[j]) /\ i <= j]

Related(g) == {g[i] : i \in Present(g)} \ {Lead(g)}

SharedCauses == {k \in DOMAIN RootGroups : Cardinality(Present(RootGroups[k])) >= 2}

Absorbed == UNION {Related(RootGroups[k]) : k \in SharedCauses}

(* The rows of the list: a finding and those that share its cause. *)
PriorityRows ==
    [i \in Ids(Actionable) \ Absorbed |->
        UNION {Related(RootGroups[k]) :
                  k \in {j \in SharedCauses : Lead(RootGroups[j]) = i}}]

-----------------------------------------------------------------------------
(* The exit status of --fail-on level. *)
FailsOn(level) ==
    CASE level = "critical" -> Count(Counted, "CRITICAL") > 0
      [] level = "warning"  -> Count(Counted, "CRITICAL") > 0 \/ Count(Counted, "WARNING") > 0
      [] level = "never"    -> FALSE

-----------------------------------------------------------------------------
(* The grade at the top of the report is the worst of its areas, and the   *)
(* --fail-on status follows it: no finding is in a category that no area   *)
(* shows, and an area whose checks were all fine is never shown as one     *)
(* that had no checks, also when --no-ok hides them.                       *)
GradeIsTheWorstArea ==
    done =>
        LET statuses == {AreaStatus(a) : a \in AreaRows}
        IN  /\ Grade = "action" <=> "action" \in statuses
            /\ Grade \in {"review", "fair"} <=>
                   "review" \in statuses /\ "action" \notin statuses
            /\ FailsOn("critical") <=> "action" \in statuses
            /\ FailsOn("warning") <=> statuses \cap {"action", "review"} # {}
            /\ \A f \in all : \E a \in AreaRows :
                   CategoryOf(f) \in Areas[a] /\ AreaStatus(a) # "none"

(* Every problem the report shows is in exactly one row of the priority    *)
(* list, however the root-cause groups fall.                               *)
EveryProblemHasOneRow ==
    done => \A i \in Ids(Actionable) :
        Cardinality({l \in DOMAIN PriorityRows : i = l \/ i \in PriorityRows[l]}) = 1

(* A row is as urgent as anything in it: no critical finding is folded     *)
(* into a row that is headed, and sorted, as a warning.                    *)
LeadsAreTheMostSevere ==
    done => \A l \in DOMAIN PriorityRows : \A i \in PriorityRows[l] :
        RankOf(l) <= RankOf(i)

(* Grade, areas, exit status and priority list are drawn from the same     *)
(* findings and agree with each other.                                     *)
ConclusionsAgree == GradeIsTheWorstArea /\ EveryProblemHasOneRow /\ LeadsAreTheMostSevere
=============================================================================
