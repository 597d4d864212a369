------------------------------ MODULE Analysis ------------------------------
(***************************************************************************)
(* One analysis, engine.analyze(): open the bundle, run the rules on it,   *)
(* open the baselines, choose the one to compare with, run the rules on    *)
(* that one, compare() the two, rate the intervals, and make the Result.   *)
(* A rule is left out when --only selects other modules, is skipped when a *)
(* file it needs was not collected and is left out with its error when it  *)
(* fails.                                                                  *)
(*                                                                         *)
(* A finding is its id and its severity: what a rule finds is what is true *)
(* of the cluster when its files hold data.  A file may also hold the body *)
(* of a failed API call.  Such a file exists, and reads as no data.        *)
(***************************************************************************)
EXTENDS Findings, Sequences, FiniteSets

CONSTANTS
    Rules,         \* ids of the findings, one per rule, in the order of all_rules()
    DeltaRules,    \* those of the DIFF_RULES that compare two points in time
    Category,      \* the category of each finding id
    Requires,      \* rule -> groups of files; of each group one must exist
    CoreFiles,     \* CORE_FILES
    Inputs         \* what analyze() may be given: the bundle, the baselines,
                   \* --no-ok, and the rules that --only selects

Bundles == {in.cur : in \in Inputs}
OldBundles == UNION {{in.baselines[i] : i \in DOMAIN in.baselines} : in \in Inputs}

Rule == {Rules[i] : i \in DOMAIN Rules}

(* The rules are a list, and --only selects among them; the comparison     *)
(* has three findings of its own.                                          *)
ASSUME RulesAssumption ==
    /\ Rules \in Seq(Rule)
    /\ IsFiniteSet(DeltaRules)
    /\ DeltaRules \cap {"DIF-012", "DIF-013", "DIF-014"} = {}
    /\ \A in \in Inputs : /\ in.only \subseteq Rule
                          /\ in.baselines \in Seq(OldBundles)
                          /\ in.hide \in BOOLEAN

(* What is true of the cluster, and what a bundle says of it: the cluster  *)
(* itself (its uuid, if the bundle has one), its name, the nodes, those    *)
(* that restarted since the bundle before, the files and the finding each  *)
(* rule would make of complete data.  Clusters may share a name, or nodes, *)
(* and a cluster may have been renamed.                                    *)
ASSUME BundleAssumption ==
    \A b \in Bundles \cup OldBundles :
        /\ b.time \in Nat \ {0} /\ b.dated \in BOOLEAN /\ b.uuid \in BOOLEAN
        /\ \A f \in DOMAIN b.files : b.files[f] \in {"data", "error body", "absent"}
        /\ \A r \in Rule : /\ b.truth[r] \in Severities \cup {"none"}
                           /\ UNION Requires[r] \subseteq DOMAIN b.files
        /\ IsFiniteSet(b.nodes)

VARIABLES
    cur,         \* the bundle that is analyzed
    baselines,   \* the baselines, in the order they were given
    hide,        \* --no-ok
    only,        \* the rules of the modules that --only selects
    step,        \* what analyze() does next
    next,        \* the rule that is next
    report,      \* what the rules made of the analyzed bundle
    baseReport,  \* and of the base
    chosen,      \* the base, an index of baselines; 0 before there is one
    trend,       \* the findings of the comparison
    change,      \* the rows of DIF-012
    trendErrors  \* comparison rules that failed

vars == <<cur, baselines, hide, only, step, next, report, baseReport, chosen,
          trend, change, trendErrors>>

input == <<cur, baselines, hide, only>>

NoReport == [found |-> {}, skipped |-> {}, failed |-> {}]
NoChange == [new |-> {}, worse |-> {}, fixed |-> {}]

Init ==
    /\ \E in \in Inputs :
           /\ cur = in.cur /\ baselines = in.baselines
           /\ hide = in.hide /\ only = in.only
    /\ step = "open" /\ next = 1
    /\ report = NoReport /\ baseReport = NoReport
    /\ chosen = 0
    /\ trend = {} /\ change = NoChange /\ trendErrors = {}

-----------------------------------------------------------------------------
(* Files and rules. *)
Exists(b, f) == b.files[f] # "absent"

Recognized(b) == \E f \in CoreFiles : Exists(b, f)

(* Mutant: all files of a group have to exist. *)
AnyMissing(b, r) == {g \in Requires[r] : \E f \in g : ~Exists(b, f)}

MissingInputs(b, r) == {g \in Requires[r] : \A f \in g : ~Exists(b, f)}

HasData(b, r) == \A g \in Requires[r] : \E f \in g : b.files[f] = "data"

(* What the rule finds: without data it finds nothing, or nothing wrong. *)
Observed(b, r) == IF HasData(b, r) THEN {b.truth[r]} ELSE {"none", "OK"}

(* Mutant: nothing found is a finding. *)
RanAndFound(rep, b, r, outcome) ==
    IF MissingInputs(b, r) # {} THEN [rep EXCEPT !.skipped = @ \cup {r}]
    ELSE IF outcome = "failed"  THEN [rep EXCEPT !.failed = @ \cup {r}]
    ELSE [rep EXCEPT !.found = @ \cup {Finding(r, outcome)}]

(* One turn of the loop of _run_rules for a selected rule; outcome is a     *)
(* severity, "none" or "failed".                                            *)
Ran(rep, b, r, outcome) ==
    IF MissingInputs(b, r) # {} THEN [rep EXCEPT !.skipped = @ \cup {r}]
    ELSE IF outcome = "failed"  THEN [rep EXCEPT !.failed = @ \cup {r}]
    ELSE IF outcome = "none"    THEN rep
    ELSE [rep EXCEPT !.found = @ \cup {Finding(r, outcome)}]

-----------------------------------------------------------------------------

(* The base: the latest baseline that was not collected after the analyzed *)
(* bundle.  A bundle without a date sorts first and passes that test; of   *)
(* several at one time the last one given wins, as list.sort() is stable.  *)
When(b) == IF b.dated THEN b.time ELSE 0

Precedes(i, b, j, c) == When(b) < When(c) \/ (When(b) = When(c) /\ i < j)

(* Mutant: any baseline may be the base. *)
AllBaselines == DOMAIN baselines

Earlier == {i \in DOMAIN baselines :
               baselines[i].dated /\ cur.dated => When(baselines[i]) <= When(cur)}

Latest(s) == CHOOSE i \in s : \A j \in s \ {i} :
                 Precedes(j, baselines[j], i, baselines[i])

base == baselines[chosen]

-----------------------------------------------------------------------------

(* compare() and its parts.                                                *)
DifferentClusters(b, c) ==
    \/ b.uuid /\ c.uuid /\ b.cluster # c.cluster
    \/ /\ ~(b.uuid /\ c.uuid)
       /\ b.name # c.name
       /\ LET larger == IF Cardinality(b.nodes) > Cardinality(c.nodes)
                        THEN Cardinality(b.nodes) ELSE Cardinality(c.nodes)
          IN  2 * Cardinality(b.nodes \cap c.nodes) < (IF larger = 0 THEN 1 ELSE larger)

(* What the delta rules make of the two bundles; one that fails is left    *)
(* out and recorded.                                                       *)
DeltaFindings(outcome) ==
    {Finding(d, outcome[d]) :
        d \in {e \in DeltaRules : outcome[e] \notin {"none", "failed"}}}

(* r_interval_rates: the bundles in order of time, each with the next one. *)
Series == Append(baselines, cur)

(* Mutant: the intervals in the order in which the bundles are given. *)
FollowsAsGiven(i, j) == j = i + 1

Follows(i, j) ==
    /\ Precedes(i, Series[i], j, Series[j])
    /\ ~\E k \in DOMAIN Series :
           /\ Precedes(i, Series[i], k, Series[k])
           /\ Precedes(k, Series[k], j, Series[j])

Rated(b, c) ==
    LET matched == b.nodes \cap c.nodes
    IN  /\ b.dated /\ c.dated /\ b.time < c.time
        /\ ~DifferentClusters(b, c)
        /\ 2 * Cardinality(matched) >= Cardinality(c.nodes)
        /\ matched \ c.restarted # {}

RatedIntervals ==
    {p \in (DOMAIN Series) \X (DOMAIN Series) :
        Follows(p[1], p[2]) /\ Rated(Series[p[1]], Series[p[2]])}

-----------------------------------------------------------------------------
(* The steps of analyze().                                                 *)
Outcomes(b, r) ==
    IF r \in only /\ MissingInputs(b, r) = {} THEN Observed(b, r) \cup {"failed"} ELSE {"none"}

Open ==
    /\ step = "open"
    /\ step' = IF Recognized(cur) THEN "rules" ELSE "refused"
    /\ UNCHANGED <<input, next, report, baseReport, chosen, trend, change, trendErrors>>

RunRule(outcome) ==
    /\ step = "rules"
    /\ next <= Len(Rules)
    /\ outcome \in Outcomes(cur, Rules[next])
    /\ report' = IF Rules[next] \in only THEN Ran(report, cur, Rules[next], outcome) ELSE report
    /\ next' = next + 1
    /\ UNCHANGED <<input, step, baseReport, chosen, trend, change, trendErrors>>

(* Without a baseline the analysis is done. *)
ChooseBase ==
    /\ step = "rules"
    /\ next > Len(Rules)
    /\ next' = 1
    /\ IF baselines = <<>>
       THEN step' = "done" /\ UNCHANGED chosen
       ELSE IF Earlier = {} \/ \E i \in DOMAIN baselines : ~Recognized(baselines[i])
       THEN step' = "refused" /\ UNCHANGED chosen
       ELSE step' = "base rules" /\ chosen' = Latest(Earlier)
    /\ UNCHANGED <<input, report, baseReport, trend, change, trendErrors>>

RunBaseRule(outcome) ==
    /\ step = "base rules"
    /\ next <= Len(Rules)
    /\ outcome \in Outcomes(base, Rules[next])
    /\ baseReport' = IF Rules[next] \in only
                     THEN Ran(baseReport, base, Rules[next], outcome) ELSE baseReport
    /\ next' = next + 1
    /\ UNCHANGED <<input, step, report, chosen, trend, change, trendErrors>>

(* compare(): bundles of two clusters get DIF-013 and nothing else;        *)
(* otherwise the delta rules, then the changes of the findings.            *)
Compare(outcome) ==
    /\ step = "base rules"
    /\ next > Len(Rules)
    /\ step' = "intervals"
    /\ IF DifferentClusters(base, cur)
       THEN /\ trend' = {Finding("DIF-013", "WARNING")}
            /\ UNCHANGED <<change, trendErrors>>
       ELSE /\ change' = FindingDelta(baseReport, report)
            /\ trend' = DeltaFindings(outcome) \cup
                        (IF change' = NoChange THEN {} ELSE {Finding("DIF-012", "INFO")})
            /\ trendErrors' = {d \in DeltaRules : outcome[d] = "failed"}
    /\ UNCHANGED <<input, next, report, baseReport, chosen>>

(* r_interval_rates() runs on two or more baselines, whatever compare()    *)
(* found.                                                                  *)
Intervals ==
    /\ step = "intervals"
    /\ step' = "done"
    /\ trend' = IF Len(baselines) >= 2 /\ Cardinality(RatedIntervals) >= 2
                THEN trend \cup {Finding("DIF-014", "INFO")} ELSE trend
    /\ UNCHANGED <<input, next, report, baseReport, chosen, change, trendErrors>>

Outcome == Severities \cup {"none", "failed"}

Next ==
    \/ Open
    \/ \E o \in Outcome : RunRule(o)
    \/ ChooseBase
    \/ \E o \in Outcome : RunBaseRule(o)
    \/ \E o \in [DeltaRules -> {"none", "failed", "INFO", "WARNING"}] : Compare(o)
    \/ Intervals

Spec == Init /\ [][Next]_vars

-----------------------------------------------------------------------------
Reports == [found : SUBSET [id : Rule, severity : Severities],
            skipped : SUBSET Rule, failed : SUBSET Rule]

Trends == {"DIF-012", "DIF-013", "DIF-014"} \cup DeltaRules

(* The types: rules and comparison rules report under their own ids.       *)
TypeOK ==
    /\ cur \in Bundles /\ baselines \in Seq(OldBundles)
    /\ hide \in BOOLEAN /\ only \subseteq Rule
    /\ step \in {"open", "rules", "base rules", "intervals", "done", "refused"}
    /\ next \in 1 .. Len(Rules) + 1
    /\ report \in Reports /\ baseReport \in Reports
    /\ chosen \in 0 .. Len(baselines)
    /\ trend \subseteq [id : Trends, severity : Severities]
    /\ change \in [{"new", "worse", "fixed"} -> SUBSET Rule]
    /\ trendErrors \subseteq DeltaRules

done == step = "done"

(* The base lies between the analyzed bundle and every other baseline that *)
(* could be one: it was not collected after the analyzed bundle, and no    *)
(* baseline was collected between the two.  Deltas never run backwards.    *)
BaseIsTheOneBefore ==
    chosen # 0 /\ base.dated /\ cur.dated =>
        /\ base.time <= cur.time
        /\ \A i \in DOMAIN baselines :
               baselines[i].dated => ~(base.time < baselines[i].time
                                       /\ baselines[i].time <= cur.time)

(* An undated baseline is the base only if nothing better was given.       *)
UndatedIsLastResort ==
    chosen # 0 /\ ~base.dated /\ cur.dated =>
        \A i \in DOMAIN baselines :
            baselines[i].dated => baselines[i].time > cur.time

(* The base is the right one in whatever order the baselines are given.    *)
BaseIsRight == BaseIsTheOneBefore /\ UndatedIsLastResort

(* compare() takes the base out of the sorted baselines; the intervals are *)
(* those of a second sort, with the analyzed bundle among the baselines.   *)
(* The last interval is the one that was compared: it begins at the base,  *)
(* whatever bundles share its date or have none.                           *)
LastIntervalIsCompared ==
    done /\ chosen # 0 /\ cur.dated =>
        \A i \in DOMAIN baselines : Follows(i, Len(Series)) <=> i = chosen

(* So a comparison that was refused because the bundles are of different   *)
(* clusters (DIF-013) is not a peak or an off-peak of DIF-014 either.      *)
RefusedIsNotRated ==
    done /\ chosen # 0 /\ Finding("DIF-013", "WARNING") \in trend =>
        \A p \in RatedIntervals : p[2] # Len(Series)

(* Two dated bundles with no other collected between them. *)
Adjacent(i, j) ==
    /\ Series[i].dated /\ Series[j].dated /\ Series[i].time < Series[j].time
    /\ \A k \in DOMAIN Series :
           Series[k].dated => ~(Series[i].time < Series[k].time /\ Series[k].time < Series[j].time)

SameTime(i, j) == Series[i].dated /\ Series[i].time = Series[j].time

(* The intervals divide the time: one that is rated skips no bundle, and   *)
(* between two moments at which bundles were collected one after the other *)
(* there is exactly one interval, so no stretch of time is rated twice or  *)
(* left out because of undated or simultaneous bundles.                    *)
IntervalsDivideTime ==
    done =>
        /\ \A p \in RatedIntervals : Adjacent(p[1], p[2])
        /\ \A i, j \in DOMAIN Series : Adjacent(i, j) =>
              \E b, c \in DOMAIN Series :
                 /\ Follows(b, c) /\ SameTime(b, i) /\ SameTime(c, j)
                 /\ \A d, e \in DOMAIN Series :
                       Follows(d, e) /\ SameTime(d, i) /\ SameTime(e, j) => d = b /\ e = c

(* The deltas and the intervals are drawn from one order of the bundles.   *)
IntervalsFitTheBase == LastIntervalIsCompared /\ RefusedIsNotRated /\ IntervalsDivideTime

(* DIF-012 tells changes of the cluster from changes of what was           *)
(* collected: unless a file it needs holds an error body, a finding listed *)
(* as new or worse is a problem the base did not have, or had less         *)
(* severely, and one listed as resolved is a problem that is gone, also    *)
(* when rules failed or files were missing on either side.                 *)
Bad(s) == s \in Serious

Clean(r) ==
    \A g \in Requires[r] : \A f \in g :
        cur.files[f] # "error body" /\ base.files[f] # "error body"

ReallyNew(r)   == Bad(cur.truth[r]) /\ ~Bad(base.truth[r])
ReallyFixed(r) == Bad(base.truth[r]) /\ ~Bad(cur.truth[r])
ReallyWorse(r) == Bad(cur.truth[r]) /\ Bad(base.truth[r])
                  /\ Rank[cur.truth[r]] < Rank[base.truth[r]]

ChangesAreReal ==
    \A r \in Rule : chosen # 0 /\ Clean(r) =>
        /\ r \in change.new   => ReallyNew(r)
        /\ r \in change.fixed => ReallyFixed(r)
        /\ r \in change.worse => ReallyWorse(r)

(* And it misses none that both bundles could show, unless they are taken  *)
(* for bundles of two clusters.                                            *)
ChangesAreComplete ==
    done /\ chosen # 0 /\ ~DifferentClusters(base, cur) =>
        \A r \in only \ (NotRun(report) \cup NotRun(baseReport)) : Clean(r) =>
            /\ ReallyNew(r)   => r \in change.new
            /\ ReallyFixed(r) => r \in change.fixed
            /\ ReallyWorse(r) => r \in change.worse

(* DIF-012 lists what changed in the cluster, no more and no less.         *)
ChangesAreTold == ChangesAreReal /\ ChangesAreComplete

(* No rule takes the finding of another with it, and no rule is skipped     *)
(* that could have run: a problem of the cluster that the files tell of is *)
(* found, or the very rule that looks for it is listed as failed.          *)
NoProblemIsLost ==
    done =>
        \A r \in only : Bad(cur.truth[r]) /\ HasData(cur, r) =>
            Finding(r, cur.truth[r]) \in report.found \/ r \in report.failed

-----------------------------------------------------------------------------
(* "a rule that did not run (input missing, or it failed) on either bundle *)
(* cannot tell new from resolved", with "API error response ... treated as *)
(* missing": an error body resolves nothing.                               *)
ErrorBodiesResolveNothing ==
    chosen # 0 => \A r \in change.fixed : ReallyFixed(r)
=============================================================================
