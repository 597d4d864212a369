-------------------------- MODULE Analysis_proofs ---------------------------
(***************************************************************************)
(* What an analysis says is true of its bundles, for every list of rules,  *)
(* all bundles and whichever rules fail.  The invariants follow the two    *)
(* loops of _run_rules: what the rules before `next` had to find is found  *)
(* and nothing that is found is ever taken back (LoopInv); all that is     *)
(* found is what a rule observed, the base is the latest baseline that     *)
(* qualifies, and the trend is what compare() makes of the two (AInv).     *)
(***************************************************************************)
EXTENDS Result, SetTheorems

(* What rule r owes the report: the problem that the files tell of, or its *)
(* own failure.                                                            *)
Owes(r) == r \in only /\ Bad(cur.truth[r]) /\ HasData(cur, r)

Paid(r) == Finding(r, cur.truth[r]) \in report.found \/ r \in report.failed

Turns == /\ next \in Nat \ {0}
         /\ DOMAIN report = {"found", "skipped", "failed"}
         /\ report = [found |-> report.found, skipped |-> report.skipped,
                      failed |-> report.failed]

(* The loop is before rule 1, before rule `next`, or over. *)
Progress ==
    /\ step = "open" => next = 1
    /\ step = "rules" =>
          \A i \in 1 .. Len(Rules) : i < next /\ Owes(Rules[i]) => Paid(Rules[i])
    /\ step \in {"base rules", "intervals", "done"} =>
          \A i \in 1 .. Len(Rules) : Owes(Rules[i]) => Paid(Rules[i])

LoopInv ==
    /\ only \subseteq Rule
    /\ step \in {"open", "rules", "base rules", "intervals", "done", "refused"}
    /\ Turns
    /\ Progress

-----------------------------------------------------------------------------
(* A rule whose files hold data is not skipped. *)
LEMMA DataIsNotMissing ==
  ASSUME NEW b, NEW r, HasData(b, r)
  PROVE  MissingInputs(b, r) = {}
BY DEF HasData, MissingInputs, Exists

(* One turn of the loop takes nothing out of the report. *)
LEMMA RanKeeps ==
  ASSUME NEW rep, NEW b, NEW r, NEW outcome,
         rep = [found |-> rep.found, skipped |-> rep.skipped, failed |-> rep.failed]
  PROVE  /\ rep.found \subseteq Ran(rep, b, r, outcome).found
         /\ rep.failed \subseteq Ran(rep, b, r, outcome).failed
         /\ LET n == Ran(rep, b, r, outcome)
            IN  n = [found |-> n.found, skipped |-> n.skipped, failed |-> n.failed]
<1>1. CASE MissingInputs(b, r) # {}
  BY <1>1 DEF Ran
<1>2. CASE MissingInputs(b, r) = {} /\ outcome = "failed"
  BY <1>2 DEF Ran
<1>3. CASE MissingInputs(b, r) = {} /\ outcome # "failed" /\ outcome = "none"
  BY <1>3 DEF Ran
<1>4. CASE MissingInputs(b, r) = {} /\ outcome # "failed" /\ outcome # "none"
  BY <1>4 DEF Ran
<1> QED
  BY <1>1, <1>2, <1>3, <1>4

(* The turn of a rule that owes something pays it. *)
LEMMA RanPays ==
  ASSUME NEW rep, NEW r, NEW outcome, r \in only,
         rep = [found |-> rep.found, skipped |-> rep.skipped, failed |-> rep.failed],
         Bad(cur.truth[r]), HasData(cur, r), outcome \in Outcomes(cur, r)
  PROVE  \/ Finding(r, cur.truth[r]) \in Ran(rep, cur, r, outcome).found
         \/ r \in Ran(rep, cur, r, outcome).failed
<1>1. MissingInputs(cur, r) = {}
  BY DataIsNotMissing
<1>2. outcome = cur.truth[r] \/ outcome = "failed"
  BY <1>1 DEF Outcomes, Observed
<1>3. CASE outcome = "failed"
  BY <1>1, <1>3 DEF Ran
<1>4. CASE outcome = cur.truth[r]
  <2>1. outcome # "failed" /\ outcome # "none"
    BY <1>4 DEF Bad, Serious
  <2> QED
    BY <1>1, <1>4, <2>1 DEF Ran
<1> QED
  BY <1>2, <1>3, <1>4

-----------------------------------------------------------------------------
LEMMA RulesAreAList == Len(Rules) \in Nat /\ DOMAIN Rules = 1 .. Len(Rules)
BY RulesAssumption

LEMMA LoopStarts == Init => LoopInv
<1> SUFFICES ASSUME Init PROVE LoopInv
  OBVIOUS
<1>1. only \subseteq Rule
  BY RulesAssumption DEF Init
<1> QED
  BY <1>1 DEF Init, LoopInv, Turns, Progress, NoReport

(* The turn of rule `next`. *)
LEMMA RuleStep ==
  ASSUME LoopInv, NEW outcome, RunRule(outcome)
  PROVE  LoopInv'
<1>0. PICK r : r = Rules[next]
  OBVIOUS
<1>1. /\ step = "rules" /\ step' = "rules" /\ next' = next + 1 /\ next <= Len(Rules)
      /\ only' = only /\ cur' = cur
      /\ outcome \in Outcomes(cur, r)
      /\ report' = IF r \in only THEN Ran(report, cur, r, outcome) ELSE report
  BY <1>0 DEF RunRule, input
<1>2. /\ next \in Nat \ {0} /\ Len(Rules) \in Nat
      /\ report = [found |-> report.found, skipped |-> report.skipped,
                   failed |-> report.failed]
  BY RulesAreAList DEF LoopInv, Turns
<1>3. /\ report.found \subseteq report'.found /\ report.failed \subseteq report'.failed
      /\ report' = [found |-> report'.found, skipped |-> report'.skipped,
                    failed |-> report'.failed]
  <2>1. CASE r \in only
    BY <1>1, <1>2, <2>1, RanKeeps
  <2>2. CASE r \notin only
    BY <1>1, <1>2, <2>2
  <2> QED
    BY <2>1, <2>2
<1>4. \A q : Owes(q)' <=> Owes(q)
  BY <1>1 DEF Owes, HasData
<1>5. \A q : Paid(q) => Paid(q)'
  BY <1>1, <1>3 DEF Paid
<1>6. Owes(r) => Paid(r)'
  <2> SUFFICES ASSUME Owes(r) PROVE Paid(r)'
    OBVIOUS
  <2>1. r \in only /\ Bad(cur.truth[r]) /\ HasData(cur, r)
    BY DEF Owes
  <2>2. report' = Ran(report, cur, r, outcome)
    BY <1>1, <2>1
  <2>3. \/ Finding(r, cur.truth[r]) \in Ran(report, cur, r, outcome).found
        \/ r \in Ran(report, cur, r, outcome).failed
    BY <1>1, <1>2, <2>1, RanPays
  <2> QED
    BY <1>1, <2>2, <2>3 DEF Paid
<1>7. \A i \in 1 .. Len(Rules) : i < next' /\ Owes(Rules[i])' => Paid(Rules[i])'
  <2> SUFFICES ASSUME NEW i \in 1 .. Len(Rules), i < next', Owes(Rules[i])
               PROVE  Paid(Rules[i])'
    BY <1>4
  <2>1. CASE i < next
    <3>1. Progress /\ step = "rules"
      BY <1>1 DEF LoopInv
    <3>2. Paid(Rules[i])
      BY <2>1, <3>1 DEF Progress
    <3> QED
      BY <3>2, <1>5
  <2>2. CASE i = next
    BY <1>0, <1>6, <2>2
  <2> QED
    BY <1>1, <1>2, <2>1, <2>2
<1>9. Turns'
  BY <1>1, <1>2, <1>3 DEF Turns
<1> QED
  BY <1>1, <1>7, <1>9 DEF LoopInv, Progress

(* Every other step leaves the report as it is; the loop is left only when *)
(* every rule had its turn.                                                *)
LEMMA OtherSteps ==
  ASSUME LoopInv,
         \/ Open \/ ChooseBase \/ (\E o \in Outcome : RunBaseRule(o))
         \/ (\E o \in [DeltaRules -> {"none", "failed", "INFO", "WARNING"}] : Compare(o))
         \/ Intervals \/ UNCHANGED vars
  PROVE  LoopInv'
<1>1. report' = report /\ only' = only /\ cur' = cur
  BY DEF Open, ChooseBase, RunBaseRule, Compare, Intervals, vars, input
<1>2. \A q : (Owes(q)' <=> Owes(q)) /\ (Paid(q)' <=> Paid(q))
  BY <1>1 DEF Owes, Paid, HasData
<1>3. next \in Nat \ {0} /\ Len(Rules) \in Nat
  BY RulesAreAList DEF LoopInv, Turns
<1>10. next' = next \/ next' = 1 \/ next' = next + 1
  BY DEF Open, ChooseBase, RunBaseRule, Compare, Intervals, vars
<1>11. next' \in Nat \ {0}
  BY <1>3, <1>10
<1>4. Turns'
  BY <1>1, <1>11 DEF LoopInv, Turns
<1>5. step' \in {"open", "rules", "base rules", "intervals", "done", "refused"}
  BY DEF LoopInv, Open, ChooseBase, RunBaseRule, Compare, Intervals, vars
<1>6. Progress'
  <2>1. CASE Open
    BY <1>3, <2>1 DEF LoopInv, Progress, Open
  <2>2. CASE ChooseBase
    <3>1. \A i \in 1 .. Len(Rules) : Owes(Rules[i]) => Paid(Rules[i])
      <4>1. step = "rules" /\ \A i \in 1 .. Len(Rules) : i < next
        <5>1. step = "rules" /\ next > Len(Rules)
          BY <2>2 DEF ChooseBase
        <5> QED
          BY <1>3, <5>1
      <4> QED
        BY <4>1 DEF LoopInv, Progress
    <3>2. step' \in {"done", "refused", "base rules"}
      BY <2>2 DEF ChooseBase
    <3> QED
      BY <1>2, <3>1, <3>2 DEF Progress
  <2>3. CASE step \in {"base rules", "intervals"} /\ step' \in {"base rules", "intervals", "done"}
    BY <1>2, <2>3 DEF LoopInv, Progress
  <2>4. CASE UNCHANGED vars
    BY <1>2, <2>4 DEF LoopInv, Progress, vars
  <2>5. \/ Open \/ ChooseBase \/ UNCHANGED vars
        \/ step \in {"base rules", "intervals"} /\ step' \in {"base rules", "intervals", "done"}
    BY DEF RunBaseRule, Compare, Intervals
  <2> QED
    BY <2>1, <2>2, <2>3, <2>4, <2>5
<1> QED
  BY <1>1, <1>4, <1>5, <1>6 DEF LoopInv

THEOREM LoopInvariant == Spec => []LoopInv
<1>1. LoopInv /\ [Next]_vars => LoopInv'
  <2> SUFFICES ASSUME LoopInv, [Next]_vars PROVE LoopInv'
    OBVIOUS
  <2>1. CASE \E o \in Outcome : RunRule(o)
    BY <2>1, RuleStep
  <2>2. CASE ~\E o \in Outcome : RunRule(o)
    BY <2>2, OtherSteps DEF Next
  <2> QED
    BY <2>1, <2>2
<1> QED
  BY LoopStarts, <1>1, PTL DEF Spec

(* A problem of the cluster that the files tell of is found, or the very    *)
(* rule that looks for it is listed as failed: for any number of rules, in *)
(* any order, whichever of them fail.                                      *)
THEOREM NoProblemIsLostThm == Spec => []NoProblemIsLost
<1>1. LoopInv => NoProblemIsLost
  <2> SUFFICES ASSUME LoopInv, done, NEW r \in only, Bad(cur.truth[r]), HasData(cur, r)
               PROVE  Finding(r, cur.truth[r]) \in report.found \/ r \in report.failed
    BY DEF NoProblemIsLost
  <2>1. PICK i \in 1 .. Len(Rules) : r = Rules[i]
    <3>1. r \in Rule
      BY DEF LoopInv
    <3> QED
      BY <3>1, RulesAreAList DEF Rule
  <2> QED
    BY <2>1 DEF LoopInv, Progress, Owes, Paid, done
<1> QED
  BY <1>1, LoopInvariant, PTL

-----------------------------------------------------------------------------
(* What a report holds when the rules before rule k had their turn on      *)
(* bundle b: what they observed, and of each that ran all there was.       *)
Seen(b, r, f) == f.id = r /\ f.severity \in Observed(b, r) /\ f.severity # "none"

Tells(rep, b, r) ==
    /\ MissingInputs(b, r) = {}
    /\ HasData(b, r) => b.truth[r] = "none" \/ Finding(r, b.truth[r]) \in rep.found

Told(rep, b, k) ==
    /\ rep \in Reports
    /\ \A f \in rep.found : f.id \in only /\ MissingInputs(b, f.id) = {} /\ Seen(b, f.id, f)
    /\ \A i \in 1 .. Len(Rules) :
          i < k /\ Rules[i] \in only \ NotRun(rep) => Tells(rep, b, Rules[i])

Turn == IF step \in {"open", "rules"} THEN next ELSE Len(Rules) + 1

Compared == step \in {"intervals", "done"} /\ chosen # 0

ReportsAreTold ==
    /\ step # "refused" => Told(report, cur, Turn)
    /\ step \in {"open", "rules"} => baseReport = NoReport
    /\ step = "base rules" => Told(baseReport, base, next)
    /\ Compared => Told(baseReport, base, Len(Rules) + 1)

IsLatest(i) ==
    /\ i \in Earlier
    /\ \A j \in Earlier \ {i} : Precedes(j, baselines[j], i, baselines[i])

BaseIsLatest ==
    /\ chosen # 0 => IsLatest(chosen)
    /\ step \in {"open", "rules"} => chosen = 0
    /\ step \in {"base rules", "intervals"} => chosen # 0

TrendIsCompared ==
    /\ ~Compared => change = NoChange
    /\ step \in {"open", "rules", "base rules"} => trend = {} /\ trendErrors = {}
    /\ Compared =>
          IF DifferentClusters(base, cur)
          THEN /\ change = NoChange /\ Finding("DIF-013", "WARNING") \in trend
               /\ Ids(trend) \subseteq {"DIF-013", "DIF-014"}
          ELSE /\ change = FindingDelta(baseReport, report)
               /\ Ids(trend) \subseteq DeltaRules \cup {"DIF-012", "DIF-014"}

AInv ==
    /\ TypeOK
    /\ ReportsAreTold
    /\ BaseIsLatest
    /\ TrendIsCompared

-----------------------------------------------------------------------------
(* The baselines are bundles with a time, and undated ones sort first. *)
LEMMA BaselinesAreBundles ==
  ASSUME TypeOK
  PROVE  /\ Len(baselines) \in Nat /\ DOMAIN baselines = 1 .. Len(baselines)
         /\ \A i \in DOMAIN baselines : baselines[i] \in OldBundles
         /\ cur \in Bundles
<1>1. baselines \in Seq(OldBundles) /\ cur \in Bundles
  BY DEF TypeOK
<1> QED
  BY <1>1

LEMMA BundlesHaveATime ==
  ASSUME NEW b \in Bundles \cup OldBundles
  PROVE  /\ b.time \in Nat \ {0} /\ b.dated \in BOOLEAN
         /\ When(b) \in Nat /\ (When(b) = 0 <=> ~b.dated)
<1>1. b.time \in Nat \ {0} /\ b.dated \in BOOLEAN
  BY BundleAssumption
<1> QED
  BY <1>1 DEF When

(* Of baselines that qualify there is a latest one. *)
LEMMA ThereIsALatest ==
  ASSUME TypeOK, Earlier # {}
  PROVE  IsLatest(Latest(Earlier))
<1> DEFINE N == 1 .. Len(baselines)
           Above(i) == {j \in Earlier : Precedes(i, baselines[i], j, baselines[j])}
           Aboves == {Above(i) : i \in Earlier}
<1>1. /\ Earlier \subseteq N /\ N \subseteq Nat /\ IsFiniteSet(N)
      /\ \A i \in N : When(baselines[i]) \in Nat
  <2>1. Len(baselines) \in Nat /\ DOMAIN baselines = N
    BY BaselinesAreBundles
  <2>2. \A i \in N : When(baselines[i]) \in Nat
    BY <2>1, BaselinesAreBundles, BundlesHaveATime
  <2>3. IsFiniteSet(N)
    BY <2>1, FS_Interval
  <2> QED
    BY <2>1, <2>2, <2>3 DEF Earlier
<1>2. PICK A \in Aboves : \A B \in Aboves : ~(<<B, A>> \in StrictSubsetOrdering(N))
  <2>1. IsWellFoundedOn(StrictSubsetOrdering(N), FiniteSubsetsOf(N))
    BY FS_StrictSubsetOrderingWellFounded
  <2>2. FiniteSubsetsOf(N) = SUBSET N
    BY <1>1, FS_FiniteSubsetsOfFinite
  <2>3. Aboves \subseteq SUBSET N /\ Aboves # {}
    BY <1>1
  <2> QED
    BY <2>1, <2>2, <2>3, WFMin
<1>3. PICK i \in Earlier : A = Above(i)
  BY <1>2
<1>4. \A j \in Earlier : ~Precedes(i, baselines[i], j, baselines[j])
  <2> SUFFICES ASSUME NEW j \in Earlier, Precedes(i, baselines[i], j, baselines[j])
               PROVE  FALSE
    OBVIOUS
  <2>1. Above(j) \subseteq Above(i)
    <3> SUFFICES ASSUME NEW k \in Earlier, Precedes(j, baselines[j], k, baselines[k])
                 PROVE  Precedes(i, baselines[i], k, baselines[k])
      OBVIOUS
    <3> QED
      BY <1>1 DEF Precedes
  <2>2. j \in Above(i) /\ j \notin Above(j)
    BY <1>1 DEF Precedes
  <2>3. Above(j) \in SUBSET N /\ Above(i) \in SUBSET N
    BY <1>1
  <2>4. <<Above(j), Above(i)>> \in StrictSubsetOrdering(N)
    BY <2>1, <2>2, <2>3 DEF StrictSubsetOrdering
  <2> QED
    BY <1>2, <1>3, <2>4
<1>5. \A j \in Earlier \ {i} : Precedes(j, baselines[j], i, baselines[i])
  <2> SUFFICES ASSUME NEW j \in Earlier \ {i}
               PROVE  Precedes(j, baselines[j], i, baselines[i])
    OBVIOUS
  <2>1. /\ When(baselines[i]) \in Nat /\ When(baselines[j]) \in Nat
        /\ i \in Nat /\ j \in Nat /\ i # j
    BY <1>1
  <2>2. ~Precedes(i, baselines[i], j, baselines[j])
    BY <1>4
  <2> QED
    BY <2>1, <2>2 DEF Precedes
<1> QED
  BY <1>3, <1>5 DEF IsLatest, Latest

-----------------------------------------------------------------------------
(* What a rule finds is a severity, or nothing. *)
LEMMA ObservedTypes ==
  ASSUME NEW b \in Bundles \cup OldBundles, NEW r \in Rule, NEW s \in Observed(b, r)
  PROVE  s \in Severities \cup {"none"}
<1>1. b.truth[r] \in Severities \cup {"none"}
  BY BundleAssumption
<1> QED
  BY <1>1 DEF Observed, Severities

(* One turn of the loop: what was told before still is, and so is what the *)
(* rule observed.                                                          *)
LEMMA RanTells ==
  ASSUME NEW rep, NEW b \in Bundles \cup OldBundles,
         only \subseteq Rule, NEW k \in 1 .. Len(Rules), Told(rep, b, k),
         Rules[k] \in only, NEW outcome \in Outcomes(b, Rules[k])
  PROVE  Told(Ran(rep, b, Rules[k], outcome), b, k + 1)
<1>0. PICK r : r = Rules[k]
  OBVIOUS
<1>1. r \in Rule /\ r \in only
  BY <1>0
<1>2. PICK new : new = Ran(rep, b, r, outcome)
  OBVIOUS
<1>3. /\ rep \in Reports
      /\ \A f \in rep.found : f.id \in only /\ MissingInputs(b, f.id) = {} /\ Seen(b, f.id, f)
      /\ \A i \in 1 .. Len(Rules) :
            i < k /\ Rules[i] \in only \ NotRun(rep) => Tells(rep, b, Rules[i])
  BY DEF Told
<1>4. Len(Rules) \in Nat
  BY RulesAreAList
<1>5. CASE MissingInputs(b, r) # {} \/ outcome = "failed"
  <2>1. /\ new \in Reports /\ new.found = rep.found
        /\ r \in NotRun(new) /\ NotRun(rep) \subseteq NotRun(new)
    <3>1. CASE MissingInputs(b, r) # {}
      <4>1. new = [rep EXCEPT !.skipped = @ \cup {r}]
        BY <1>2, <3>1 DEF Ran
      <4> QED
        BY <1>1, <1>3, <4>1 DEF Reports, NotRun
    <3>2. CASE MissingInputs(b, r) = {}
      <4>1. new = [rep EXCEPT !.failed = @ \cup {r}]
        <5>1. outcome = "failed"
          BY <1>5, <3>2
        <5> QED
          BY <1>2, <3>2, <5>1 DEF Ran
      <4> QED
        BY <1>1, <1>3, <4>1 DEF Reports, NotRun
    <3> QED
      BY <3>1, <3>2
  <2>2. \A i \in 1 .. Len(Rules) :
            i < k + 1 /\ Rules[i] \in only \ NotRun(new) => Tells(new, b, Rules[i])
    <3> SUFFICES ASSUME NEW i \in 1 .. Len(Rules), i < k + 1, Rules[i] \in only \ NotRun(new)
                 PROVE  Tells(new, b, Rules[i])
      OBVIOUS
    <3>1. i < k
      BY <1>0, <1>4, <2>1
    <3> QED
      BY <1>3, <2>1, <3>1 DEF Tells
  <2> QED
    BY <1>0, <1>2, <1>3, <2>1, <2>2 DEF Told
<1>6. CASE MissingInputs(b, r) = {} /\ outcome # "failed"
  <2>1. outcome \in Observed(b, r)
    BY <1>0, <1>1, <1>6 DEF Outcomes
  <2>2. outcome \in Severities \cup {"none"}
    BY <1>1, <2>1, ObservedTypes
  <2>3. /\ new.skipped = rep.skipped /\ new.failed = rep.failed
        /\ new.found = rep.found \cup (IF outcome = "none" THEN {} ELSE {Finding(r, outcome)})
        /\ new \in Reports
    <3>1. CASE outcome = "none"
      BY <1>2, <1>3, <1>6, <3>1 DEF Ran
    <3>2. CASE outcome # "none"
      <4>1. new = [rep EXCEPT !.found = @ \cup {Finding(r, outcome)}]
        BY <1>2, <1>6, <3>2 DEF Ran
      <4>2. Finding(r, outcome) \in [id : Rule, severity : Severities]
        BY <1>1, <2>2, <3>2 DEF Finding
      <4> QED
        BY <1>3, <3>2, <4>1, <4>2 DEF Reports
    <3> QED
      BY <3>1, <3>2
  <2>4. \A f \in new.found : f.id \in only /\ MissingInputs(b, f.id) = {} /\ Seen(b, f.id, f)
    <3> SUFFICES ASSUME NEW f \in new.found, f \notin rep.found
                 PROVE  f.id \in only /\ MissingInputs(b, f.id) = {} /\ Seen(b, f.id, f)
      BY <1>3
    <3>1. f = Finding(r, outcome) /\ outcome # "none"
      BY <2>3
    <3>2. f.id = r /\ f.severity = outcome
      BY <3>1 DEF Finding
    <3> QED
      BY <1>1, <1>6, <2>1, <3>1, <3>2 DEF Seen
  <2>5. Tells(new, b, r)
    <3> SUFFICES ASSUME HasData(b, r), b.truth[r] # "none"
                 PROVE  Finding(r, b.truth[r]) \in new.found
      BY <1>6 DEF Tells
    <3>1. outcome = b.truth[r]
      BY <2>1 DEF Observed
    <3> QED
      BY <2>3, <3>1
  <2>6. \A i \in 1 .. Len(Rules) :
            i < k + 1 /\ Rules[i] \in only \ NotRun(new) => Tells(new, b, Rules[i])
    <3> SUFFICES ASSUME NEW i \in 1 .. Len(Rules), i < k + 1, Rules[i] \in only \ NotRun(new)
                 PROVE  Tells(new, b, Rules[i])
      OBVIOUS
    <3>1. CASE i = k
      BY <1>0, <2>5, <3>1
    <3>2. CASE i # k
      <4>1. i < k
        BY <1>4, <3>2
      <4>2. Rules[i] \in only \ NotRun(rep)
        BY <2>3 DEF NotRun
      <4>3. Tells(rep, b, Rules[i])
        BY <1>3, <4>1, <4>2
      <4> QED
        BY <2>3, <4>3 DEF Tells
    <3> QED
      BY <3>1, <3>2
  <2> QED
    BY <1>0, <1>2, <2>3, <2>4, <2>6 DEF Told
<1> QED
  BY <1>5, <1>6

-----------------------------------------------------------------------------
(* What the two reports and the comparison hold depends on the options and *)
(* the bundles alone, which no step changes.                               *)
LEMMA ToldIsKept ==
  ASSUME only' = only, NEW rep, NEW b, NEW k, Told(rep, b, k)
  PROVE  Told(rep, b, k)'
BY DEF Told, Tells, Seen, Observed, HasData, MissingInputs, Exists

(* A rule that is not selected has nothing to tell. *)
LEMMA TurnOfAnother ==
  ASSUME NEW rep, NEW b, NEW k \in 1 .. Len(Rules), Told(rep, b, k), Rules[k] \notin only
  PROVE  Told(rep, b, k + 1)
<1>1. \A i \in 1 .. Len(Rules) : i < k + 1 /\ Rules[i] \in only => i < k
  BY RulesAreAList
<1> QED
  BY <1>1 DEF Told

(* Before the first rule there is nothing to tell. *)
LEMMA NothingIsTold ==
  ASSUME NEW b
  PROVE  NoReport \in Reports /\ Told(NoReport, b, 1)
<1>1. NoReport \in Reports
  BY DEF NoReport, Reports
<1>2. NoReport.found = {}
  BY DEF NoReport
<1>3. \A i \in 1 .. Len(Rules) : ~(i < 1)
  BY RulesAreAList
<1> QED
  BY <1>1, <1>2, <1>3 DEF Told

LEMMA AInvStarts == Init => AInv
<1> SUFFICES ASSUME Init PROVE AInv
  OBVIOUS
<1>1. PICK in \in Inputs : cur = in.cur /\ baselines = in.baselines
                          /\ hide = in.hide /\ only = in.only
  BY DEF Init
<1>2. /\ cur \in Bundles /\ baselines \in Seq(OldBundles)
      /\ hide \in BOOLEAN /\ only \subseteq Rule
  BY <1>1, RulesAssumption DEF Bundles
<1>3. /\ step = "open" /\ next = 1 /\ report = NoReport /\ baseReport = NoReport
      /\ chosen = 0 /\ trend = {} /\ change = NoChange /\ trendErrors = {}
  BY DEF Init
<1>4. NoReport \in Reports /\ Told(NoReport, cur, 1)
  BY NothingIsTold
<1>5. change \in [{"new", "worse", "fixed"} -> SUBSET Rule]
  BY <1>3 DEF NoChange
<1>6. next \in 1 .. Len(Rules) + 1 /\ chosen \in 0 .. Len(baselines)
  BY <1>2, <1>3, RulesAreAList
<1>7. TypeOK
  BY <1>2, <1>3, <1>4, <1>5, <1>6 DEF TypeOK
<1>8. ReportsAreTold
  BY <1>3, <1>4 DEF ReportsAreTold, Turn, Compared
<1>9. BaseIsLatest /\ TrendIsCompared
  BY <1>3 DEF BaseIsLatest, TrendIsCompared, Compared
<1> QED
  BY <1>7, <1>8, <1>9 DEF AInv

LEMMA AfterOpen ==
  ASSUME AInv, Open
  PROVE  AInv'
<1>1. /\ step = "open" /\ step' \in {"rules", "refused"}
      /\ UNCHANGED <<cur, baselines, hide, only, next, report, baseReport, chosen,
                     trend, change, trendErrors>>
  BY DEF Open, input
<1>2. TypeOK'
  BY <1>1 DEF AInv, TypeOK
<1>3. ReportsAreTold'
  <2>1. PICK rep, b, k : rep = report /\ b = cur /\ k = next
    OBVIOUS
  <2>2. Told(rep, b, k)'
    <3>1. Told(rep, b, k)
      BY <1>1, <2>1 DEF AInv, ReportsAreTold, Turn
    <3> QED
      BY <1>1, <3>1, ToldIsKept
  <2>3. step' = "rules" => Told(report, cur, Turn)'
    BY <1>1, <2>1, <2>2 DEF Turn
  <2> QED
    BY <1>1, <2>3 DEF AInv, ReportsAreTold, Compared
<1>4. BaseIsLatest' /\ TrendIsCompared'
  BY <1>1 DEF AInv, BaseIsLatest, TrendIsCompared, Compared
<1> QED
  BY <1>2, <1>3, <1>4 DEF AInv

(* The turn of a rule on the analyzed bundle. *)
LEMMA AfterRule ==
  ASSUME AInv, NEW outcome, RunRule(outcome)
  PROVE  AInv'
<1>0. PICK rep, b, k : rep = report /\ b = cur /\ k = next
  OBVIOUS
<1>1. /\ step = "rules" /\ k <= Len(Rules) /\ next' = k + 1
      /\ outcome \in Outcomes(b, Rules[k])
      /\ report' = IF Rules[k] \in only THEN Ran(rep, b, Rules[k], outcome) ELSE rep
      /\ UNCHANGED <<cur, baselines, hide, only, step, baseReport, chosen,
                     trend, change, trendErrors>>
  BY <1>0 DEF RunRule, input
<1>2. TypeOK
  BY DEF AInv
<1>3. /\ k \in 1 .. Len(Rules) /\ b \in Bundles \cup OldBundles /\ only \subseteq Rule
      /\ k + 1 \in 1 .. Len(Rules) + 1
  BY <1>0, <1>1, <1>2, RulesAreAList DEF TypeOK
<1>4. Told(rep, b, k)
  BY <1>0, <1>1 DEF AInv, ReportsAreTold, Turn
<1>5. PICK new : new = report'
  OBVIOUS
<1>6. Told(new, b, k + 1)
  <2>1. CASE Rules[k] \in only
    BY <1>1, <1>3, <1>4, <1>5, <2>1, RanTells
  <2>2. CASE Rules[k] \notin only
    BY <1>1, <1>3, <1>4, <1>5, <2>2, TurnOfAnother
  <2> QED
    BY <2>1, <2>2
<1>7. TypeOK'
  <2>1. report' \in Reports
    BY <1>5, <1>6 DEF Told
  <2> QED
    BY <1>1, <1>2, <1>3, <2>1 DEF TypeOK
<1>8. ReportsAreTold'
  <2>1. Told(new, b, k + 1)'
    BY <1>1, <1>6, ToldIsKept
  <2>2. Told(report, cur, Turn)'
    BY <1>0, <1>1, <1>5, <2>1 DEF Turn
  <2> QED
    BY <1>1, <2>2 DEF AInv, ReportsAreTold, Compared
<1>9. BaseIsLatest' /\ TrendIsCompared'
  BY <1>1 DEF AInv, BaseIsLatest, TrendIsCompared, Compared
<1> QED
  BY <1>7, <1>8, <1>9 DEF AInv

LEMMA IndicesAreNotZero == \A n \in Nat : \A i \in 1 .. n : i # 0
OBVIOUS

(* Base and report when every rule had its turn on the analyzed bundle. *)
LEMMA AfterChoice ==
  ASSUME AInv, ChooseBase
  PROVE  AInv'
<1>1. /\ step = "rules" /\ next > Len(Rules) /\ next' = 1
      /\ UNCHANGED <<cur, baselines, hide, only, report, baseReport,
                     trend, change, trendErrors>>
      /\ \/ step' \in {"done", "refused"} /\ chosen' = chosen
         \/ step' = "base rules" /\ chosen' = Latest(Earlier) /\ Earlier # {}
  BY DEF ChooseBase, input
<1>2. TypeOK /\ chosen = 0 /\ baseReport = NoReport
  BY <1>1 DEF AInv, BaseIsLatest, ReportsAreTold
<1>3. /\ next = Len(Rules) + 1 /\ 1 \in 1 .. Len(Rules) + 1 /\ Len(Rules) \in Nat
      /\ Len(baselines) \in Nat /\ DOMAIN baselines = 1 .. Len(baselines)
  <2>1. next \in 1 .. Len(Rules) + 1
    BY <1>2 DEF TypeOK
  <2>2. Len(Rules) \in Nat
    BY RulesAreAList
  <2>3. next > Len(Rules)
    BY <1>1
  <2>4. next = Len(Rules) + 1 /\ 1 \in 1 .. Len(Rules) + 1
    BY <2>1, <2>2, <2>3
  <2>5. Len(baselines) \in Nat /\ DOMAIN baselines = 1 .. Len(baselines)
    BY <1>2, BaselinesAreBundles
  <2> QED
    BY <2>2, <2>4, <2>5
<1>4. chosen' # 0 => /\ IsLatest(chosen') /\ chosen' \in 1 .. Len(baselines)
  <2> SUFFICES ASSUME chosen' # 0
               PROVE  IsLatest(chosen') /\ chosen' \in 1 .. Len(baselines)
    OBVIOUS
  <2>1. IsLatest(chosen')
    BY <1>1, <1>2, ThereIsALatest
  <2>2. chosen' \in DOMAIN baselines
    BY <2>1 DEF IsLatest, Earlier
  <2> QED
    BY <1>3, <2>1, <2>2
<1>5. step' = "base rules" => chosen' # 0
  <2> SUFFICES ASSUME step' = "base rules" PROVE chosen' # 0
    OBVIOUS
  <2>1. IsLatest(chosen')
    BY <1>1, <1>2, ThereIsALatest
  <2>2. chosen' \in DOMAIN baselines
    BY <2>1 DEF IsLatest, Earlier
  <2>3. chosen' \in 1 .. Len(baselines) /\ Len(baselines) \in Nat
    BY <1>3, <2>2
  <2> QED
    BY <2>3, IndicesAreNotZero
<1>6. TypeOK'
  <2>1. chosen' \in 0 .. Len(baselines)
    BY <1>3, <1>4
  <2>2. next' \in 1 .. Len(Rules) + 1
    BY <1>1, <1>3
  <2>3. step' \in {"open", "rules", "base rules", "intervals", "done", "refused"}
    BY <1>1
  <2> QED
    BY <1>1, <1>2, <2>1, <2>2, <2>3 DEF TypeOK
<1>7. ReportsAreTold'
  <2>1. PICK rep, b, k, c : rep = report /\ b = cur /\ k = Len(Rules) + 1 /\ c = base'
    OBVIOUS
  <2>2. Told(rep, b, k)
    BY <1>1, <1>3, <2>1 DEF AInv, ReportsAreTold, Turn
  <2>3. Told(NoReport, c, 1)
    BY NothingIsTold
  <2>4. Told(rep, b, k)' /\ Told(NoReport, c, 1)'
    BY <1>1, <2>2, <2>3, ToldIsKept
  <2>5. Told(report, cur, Turn)'
    BY <1>1, <2>1, <2>4 DEF Turn
  <2>6. baseReport' = NoReport /\ next' = 1
    BY <1>1, <1>2
  <2>7. Told(baseReport, base, next)'
    BY <2>1, <2>4, <2>6 DEF NoReport
  <2>8. ~Compared'
    BY <1>1, <1>2 DEF Compared
  <2>9. step' \notin {"open", "rules"}
    BY <1>1
  <2> QED
    BY <2>5, <2>7, <2>8, <2>9 DEF ReportsAreTold
<1>8. BaseIsLatest'
  <2>1. IsLatest(chosen') => IsLatest(chosen)'
    BY <1>1 DEF IsLatest, Earlier, Precedes, When
  <2> QED
    BY <1>1, <1>4, <1>5, <2>1 DEF BaseIsLatest
<1>9. TrendIsCompared'
  <2>1. ~Compared' /\ ~Compared
    BY <1>1, <1>2 DEF Compared
  <2> QED
    BY <1>1, <2>1 DEF AInv, TrendIsCompared
<1> QED
  BY <1>6, <1>7, <1>8, <1>9 DEF AInv

(* The base is a bundle. *)
LEMMA TheBaseIsABundle ==
  ASSUME TypeOK, chosen # 0
  PROVE  base \in OldBundles /\ cur \in Bundles /\ chosen \in DOMAIN baselines
<1>1. chosen \in DOMAIN baselines
  <2>1. chosen \in 0 .. Len(baselines)
    BY DEF TypeOK
  <2> QED
    BY <2>1, BaselinesAreBundles
<1> QED
  BY <1>1, BaselinesAreBundles DEF base

(* The turn of a rule on the base. *)
LEMMA AfterBaseRule ==
  ASSUME AInv, NEW outcome, RunBaseRule(outcome)
  PROVE  AInv'
<1>0. PICK rep, b, k : rep = baseReport /\ b = base /\ k = next
  OBVIOUS
<1>1. /\ step = "base rules" /\ k <= Len(Rules) /\ next' = k + 1
      /\ outcome \in Outcomes(b, Rules[k])
      /\ baseReport' = IF Rules[k] \in only THEN Ran(rep, b, Rules[k], outcome) ELSE rep
      /\ UNCHANGED <<cur, baselines, hide, only, step, report, chosen,
                     trend, change, trendErrors>>
  BY <1>0 DEF RunBaseRule, input
<1>2. TypeOK /\ chosen # 0
  BY <1>1 DEF AInv, BaseIsLatest
<1>3. /\ k \in 1 .. Len(Rules) /\ b \in Bundles \cup OldBundles /\ only \subseteq Rule
      /\ k + 1 \in 1 .. Len(Rules) + 1
  <2>1. next \in 1 .. Len(Rules) + 1 /\ only \subseteq Rule
    BY <1>2 DEF TypeOK
  <2>2. base \in OldBundles
    BY <1>2, TheBaseIsABundle
  <2>3. k \in 1 .. Len(Rules) + 1 /\ k <= Len(Rules) /\ Len(Rules) \in Nat
    BY <1>0, <1>1, <2>1, RulesAreAList
  <2>4. k \in 1 .. Len(Rules) /\ k + 1 \in 1 .. Len(Rules) + 1
    BY <2>3
  <2> QED
    BY <1>0, <2>1, <2>2, <2>4
<1>4. Told(rep, b, k)
  BY <1>0, <1>1 DEF AInv, ReportsAreTold
<1>5. PICK new : new = baseReport'
  OBVIOUS
<1>6. Told(new, b, k + 1)
  <2>1. CASE Rules[k] \in only
    BY <1>1, <1>3, <1>4, <1>5, <2>1, RanTells
  <2>2. CASE Rules[k] \notin only
    BY <1>1, <1>3, <1>4, <1>5, <2>2, TurnOfAnother
  <2> QED
    BY <2>1, <2>2
<1>7. TypeOK'
  <2>1. baseReport' \in Reports
    BY <1>5, <1>6 DEF Told
  <2> QED
    BY <1>1, <1>2, <1>3, <2>1 DEF TypeOK
<1>8. ReportsAreTold'
  <2>1. PICK old, c, l : old = report /\ c = cur /\ l = Len(Rules) + 1
    OBVIOUS
  <2>2. Told(old, c, l)
    BY <1>1, <2>1 DEF AInv, ReportsAreTold, Turn
  <2>3. Told(new, b, k + 1)' /\ Told(old, c, l)'
    BY <1>1, <1>6, <2>2, ToldIsKept
  <2>4. Told(report, cur, Turn)'
    BY <1>1, <2>1, <2>3 DEF Turn
  <2>5. Told(baseReport, base, next)'
    BY <1>0, <1>1, <1>5, <2>3 DEF base
  <2> QED
    BY <1>1, <2>4, <2>5 DEF ReportsAreTold, Compared
<1>9. BaseIsLatest' /\ TrendIsCompared'
  <2>1. ~Compared' /\ ~Compared
    BY <1>1 DEF Compared
  <2>2. IsLatest(chosen) <=> IsLatest(chosen)'
    BY <1>1 DEF IsLatest, Earlier, Precedes, When
  <2> QED
    BY <1>1, <2>1, <2>2 DEF AInv, BaseIsLatest, TrendIsCompared
<1> QED
  BY <1>7, <1>8, <1>9 DEF AInv

(* The rows of DIF-012 are rules. *)
LEMMA ChangesAreOfRules ==
  ASSUME NEW old \in Reports, NEW new \in Reports
  PROVE  FindingDelta(old, new) \in [{"new", "worse", "fixed"} -> SUBSET Rule]
<1> DEFINE bs == SeriousIn(old)
           cs == SeriousIn(new)
           n == {i \in Ids(cs) \ Ids(bs) : i \notin NotRun(old)}
           f == {i \in Ids(bs) \ Ids(cs) : i \notin NotRun(new)}
           w == {i \in Ids(cs) \cap Ids(bs) :
                    Rank[SeverityIn(cs, i)] < Rank[SeverityIn(bs, i)]}
<1>1. Ids(bs) \subseteq Rule /\ Ids(cs) \subseteq Rule
  BY DEF Reports, SeriousIn, SeriousOf, Ids
<1>2. n \in SUBSET Rule /\ f \in SUBSET Rule /\ w \in SUBSET Rule
  BY <1>1
<1>3. FindingDelta(old, new) = [new |-> n, fixed |-> f, worse |-> w]
  BY DEF FindingDelta
<1> HIDE DEF n, f, w
<1> QED
  BY <1>2, <1>3

(* The comparison: either bundles of two clusters, or the delta rules and  *)
(* the changes.                                                            *)
LEMMA AfterComparison ==
  ASSUME AInv, NEW outcome \in [DeltaRules -> {"none", "failed", "INFO", "WARNING"}],
         Compare(outcome)
  PROVE  AInv'
<1>1. /\ step = "base rules" /\ next > Len(Rules) /\ step' = "intervals"
      /\ UNCHANGED <<cur, baselines, hide, only, next, report, baseReport, chosen>>
  BY DEF Compare, input
<1>2. /\ TypeOK /\ chosen # 0 /\ next = Len(Rules) + 1
  <2>1. TypeOK /\ chosen # 0
    BY <1>1 DEF AInv, BaseIsLatest
  <2>2. next \in 1 .. Len(Rules) + 1
    BY <2>1 DEF TypeOK
  <2>3. next > Len(Rules) /\ Len(Rules) \in Nat
    BY <1>1, RulesAreAList
  <2>4. next = Len(Rules) + 1
    BY <2>2, <2>3
  <2> QED
    BY <2>1, <2>4
<1>3. report \in Reports /\ baseReport \in Reports
  BY <1>2 DEF TypeOK
<1>4. change = NoChange /\ trend = {} /\ trendErrors = {} /\ ~Compared
  BY <1>1 DEF AInv, TrendIsCompared, Compared
<1>5. PICK b, c : b = base /\ c = cur
  OBVIOUS
<1>6. base' = b /\ cur' = c /\ (DifferentClusters(base, cur)' <=> DifferentClusters(b, c))
  BY <1>1, <1>5 DEF base, DifferentClusters
<1>7. ASSUME DifferentClusters(b, c) PROVE TypeOK' /\ TrendIsCompared'
  <2>1. trend' = {Finding("DIF-013", "WARNING")} /\ change' = NoChange /\ trendErrors' = {}
    BY <1>4, <1>5, <1>7 DEF Compare
  <2>2. /\ trend' \subseteq [id : Trends, severity : Severities]
        /\ Ids(trend') \subseteq {"DIF-013", "DIF-014"}
    BY <2>1 DEF Finding, Trends, Severities, Ids
  <2>3. TypeOK'
    BY <1>1, <1>2, <1>4, <2>1, <2>2 DEF TypeOK
  <2>4. Ids(trend)' \subseteq {"DIF-013", "DIF-014"}
    BY <2>2 DEF Ids
  <2>5. TrendIsCompared'
    BY <1>1, <1>6, <1>7, <2>1, <2>4 DEF TrendIsCompared
  <2> QED
    BY <2>3, <2>5
<1>8. ASSUME ~DifferentClusters(b, c) PROVE TypeOK' /\ TrendIsCompared'
  <2>1. /\ change' = FindingDelta(baseReport, report)
        /\ trend' = DeltaFindings(outcome) \cup
                    (IF change' = NoChange THEN {} ELSE {Finding("DIF-012", "INFO")})
        /\ trendErrors' = {d \in DeltaRules : outcome[d] = "failed"}
    BY <1>5, <1>8 DEF Compare
  <2>2. DeltaFindings(outcome) \subseteq [id : DeltaRules, severity : {"INFO", "WARNING"}]
    BY DEF DeltaFindings, Finding
  <2>3. /\ trend' \subseteq [id : Trends, severity : Severities]
        /\ \A f \in trend' : f.id \in DeltaRules \cup {"DIF-012", "DIF-014"}
    <3> SUFFICES ASSUME NEW f \in trend'
                 PROVE  /\ f \in [id : Trends, severity : Severities]
                        /\ f.id \in DeltaRules \cup {"DIF-012", "DIF-014"}
      OBVIOUS
    <3>1. CASE f \in DeltaFindings(outcome)
      BY <2>2, <3>1 DEF Trends, Severities
    <3>2. CASE f = Finding("DIF-012", "INFO")
      BY <3>2 DEF Trends, Severities, Finding
    <3> QED
      BY <2>1, <3>1, <3>2
  <2>4. change' \in [{"new", "worse", "fixed"} -> SUBSET Rule]
    BY <1>3, <2>1, ChangesAreOfRules
  <2>5. trendErrors' \subseteq DeltaRules
    BY <2>1
  <2>6. TypeOK'
    BY <1>1, <1>2, <2>3, <2>4, <2>5 DEF TypeOK
  <2>7. Ids(trend)' \subseteq DeltaRules \cup {"DIF-012", "DIF-014"}
    BY <2>3 DEF Ids
  <2>8. FindingDelta(baseReport, report)' = FindingDelta(baseReport, report)
    BY <1>1
  <2>9. TrendIsCompared'
    BY <1>1, <1>2, <1>6, <1>8, <2>1, <2>7, <2>8 DEF TrendIsCompared, Compared
  <2> QED
    BY <2>6, <2>9
<1>9. TypeOK' /\ TrendIsCompared'
  BY <1>7, <1>8
<1>10. ReportsAreTold'
  <2>1. PICK rep, old, k : rep = report /\ old = baseReport /\ k = Len(Rules) + 1
    OBVIOUS
  <2>2. Told(rep, c, k) /\ Told(old, b, k)
    BY <1>1, <1>2, <1>5, <2>1 DEF AInv, ReportsAreTold, Turn
  <2>3. Told(rep, c, k)' /\ Told(old, b, k)'
    BY <1>1, <2>2, ToldIsKept
  <2>4. Told(report, cur, Turn)' /\ Told(baseReport, base, Len(Rules) + 1)'
    BY <1>1, <1>6, <2>1, <2>3 DEF Turn
  <2> QED
    BY <1>1, <2>4 DEF ReportsAreTold
<1>11. BaseIsLatest'
  <2>1. IsLatest(chosen) <=> IsLatest(chosen)'
    BY <1>1 DEF IsLatest, Earlier, Precedes, When
  <2> QED
    BY <1>1, <1>2, <2>1 DEF AInv, BaseIsLatest
<1> QED
  BY <1>9, <1>10, <1>11 DEF AInv

LEMMA AfterIntervals ==
  ASSUME AInv, Intervals
  PROVE  AInv'
<1>1. /\ step = "intervals" /\ step' = "done"
      /\ UNCHANGED <<cur, baselines, hide, only, next, report, baseReport, chosen,
                     change, trendErrors>>
      /\ trend' = trend \/ trend' = trend \cup {Finding("DIF-014", "INFO")}
  BY DEF Intervals, input
<1>2. TypeOK /\ chosen # 0 /\ Compared /\ Compared'
  BY <1>1 DEF AInv, BaseIsLatest, Compared
<1>3. PICK b, c : b = base /\ c = cur
  OBVIOUS
<1>4. base' = b /\ cur' = c /\ (DifferentClusters(base, cur)' <=> DifferentClusters(base, cur))
  BY <1>1, <1>3 DEF base, DifferentClusters
<1>5. /\ Finding("DIF-014", "INFO") \in [id : Trends, severity : Severities]
      /\ Finding("DIF-014", "INFO").id = "DIF-014"
  BY DEF Finding, Trends, Severities
<1>6. TypeOK'
  <2>1. trend \subseteq [id : Trends, severity : Severities]
    BY <1>2 DEF TypeOK
  <2>2. trend' \subseteq [id : Trends, severity : Severities]
    BY <1>1, <1>5, <2>1
  <2> QED
    BY <1>1, <1>2, <2>2 DEF TypeOK
<1>7. /\ Ids(trend') \subseteq Ids(trend) \cup {"DIF-014"}
      /\ trend \subseteq trend'
  BY <1>1, <1>5 DEF Ids
<1>8. TrendIsCompared'
  <2>1. IF DifferentClusters(base, cur)
        THEN /\ change = NoChange /\ Finding("DIF-013", "WARNING") \in trend
             /\ Ids(trend) \subseteq {"DIF-013", "DIF-014"}
        ELSE /\ change = FindingDelta(baseReport, report)
             /\ Ids(trend) \subseteq DeltaRules \cup {"DIF-012", "DIF-014"}
    BY <1>2 DEF AInv, TrendIsCompared
  <2>2. FindingDelta(baseReport, report)' = FindingDelta(baseReport, report)
    BY <1>1
  <2>3. Ids(trend)' = Ids(trend')
    BY DEF Ids
  <2>4. CASE DifferentClusters(base, cur)
    BY <1>1, <1>2, <1>4, <1>7, <2>1, <2>3, <2>4 DEF TrendIsCompared
  <2>5. CASE ~DifferentClusters(base, cur)
    BY <1>1, <1>2, <1>4, <1>7, <2>1, <2>2, <2>3, <2>5 DEF TrendIsCompared
  <2> QED
    BY <2>4, <2>5
<1>9. ReportsAreTold'
  <2>1. PICK rep, old, k : rep = report /\ old = baseReport /\ k = Len(Rules) + 1
    OBVIOUS
  <2>2. Told(rep, c, k) /\ Told(old, b, k)
    BY <1>1, <1>2, <1>3, <2>1 DEF AInv, ReportsAreTold, Turn
  <2>3. Told(rep, c, k)' /\ Told(old, b, k)'
    BY <1>1, <2>2, ToldIsKept
  <2>4. Told(report, cur, Turn)' /\ Told(baseReport, base, Len(Rules) + 1)'
    BY <1>1, <1>4, <2>1, <2>3 DEF Turn
  <2> QED
    BY <1>1, <2>4 DEF ReportsAreTold
<1>10. BaseIsLatest'
  <2>1. IsLatest(chosen) <=> IsLatest(chosen)'
    BY <1>1 DEF IsLatest, Earlier, Precedes, When
  <2> QED
    BY <1>1, <1>2, <2>1 DEF AInv, BaseIsLatest
<1> QED
  BY <1>6, <1>8, <1>9, <1>10 DEF AInv

LEMMA AfterNothing ==
  ASSUME AInv, UNCHANGED vars
  PROVE  AInv'
<1>1. UNCHANGED <<cur, baselines, hide, only, step, next, report, baseReport, chosen,
                  trend, change, trendErrors>>
  BY DEF vars
<1>2. TypeOK'
  BY <1>1 DEF AInv, TypeOK
<1>3. PICK rep, old, b, c : rep = report /\ old = baseReport /\ b = base /\ c = cur
  OBVIOUS
<1>4. base' = b /\ cur' = c /\ (DifferentClusters(base, cur)' <=> DifferentClusters(base, cur))
  BY <1>1, <1>3 DEF base, DifferentClusters
<1>5. \A k : /\ Told(rep, c, k) => Told(rep, c, k)'
             /\ Told(old, b, k) => Told(old, b, k)'
  BY <1>1, ToldIsKept
<1>6. ReportsAreTold'
  <2>1. PICK t, n, l : t = Turn /\ n = next /\ l = Len(Rules) + 1
    OBVIOUS
  <2>2. Turn' = t /\ next' = n /\ step' = step /\ (Compared' <=> Compared)
    BY <1>1, <2>1 DEF Turn, Compared
  <2>3. step # "refused" => Told(report, cur, Turn)'
    BY <1>1, <1>3, <1>4, <1>5, <2>1, <2>2 DEF AInv, ReportsAreTold
  <2>4. step = "base rules" => Told(baseReport, base, next)'
    BY <1>1, <1>3, <1>4, <1>5, <2>1, <2>2 DEF AInv, ReportsAreTold
  <2>5. Compared => Told(baseReport, base, Len(Rules) + 1)'
    BY <1>1, <1>3, <1>4, <1>5, <2>1, <2>2 DEF AInv, ReportsAreTold
  <2> QED
    BY <1>1, <2>2, <2>3, <2>4, <2>5 DEF AInv, ReportsAreTold
<1>7. BaseIsLatest'
  <2>1. IsLatest(chosen) <=> IsLatest(chosen)'
    BY <1>1 DEF IsLatest, Earlier, Precedes, When
  <2> QED
    BY <1>1, <2>1 DEF AInv, BaseIsLatest
<1>8. TrendIsCompared'
  <2>1. FindingDelta(baseReport, report)' = FindingDelta(baseReport, report)
    BY <1>1
  <2>2. Ids(trend)' = Ids(trend) /\ (Compared' <=> Compared)
    BY <1>1 DEF Ids, Compared
  <2> QED
    BY <1>1, <1>4, <2>1, <2>2 DEF AInv, TrendIsCompared
<1> QED
  BY <1>2, <1>6, <1>7, <1>8 DEF AInv

(* What the reports tell, the base and the trend at every step. *)
THEOREM AnalysisInvariant == Spec => []AInv
<1>1. AInv /\ [Next]_vars => AInv'
  <2> SUFFICES ASSUME AInv, [Next]_vars PROVE AInv'
    OBVIOUS
  <2>1. CASE Open
    BY <2>1, AfterOpen
  <2>2. CASE \E o \in Outcome : RunRule(o)
    BY <2>2, AfterRule
  <2>3. CASE ChooseBase
    BY <2>3, AfterChoice
  <2>4. CASE \E o \in Outcome : RunBaseRule(o)
    BY <2>4, AfterBaseRule
  <2>5. CASE \E o \in [DeltaRules -> {"none", "failed", "INFO", "WARNING"}] : Compare(o)
    BY <2>5, AfterComparison
  <2>6. CASE Intervals
    BY <2>6, AfterIntervals
  <2>7. CASE UNCHANGED vars
    BY <2>7, AfterNothing
  <2> QED
    BY <2>1, <2>2, <2>3, <2>4, <2>5, <2>6, <2>7 DEF Next
<1> QED
  BY AInvStarts, <1>1, PTL DEF Spec

(* The variables of an analysis keep their types. *)
THEOREM AnalysisTypes == Spec => []TypeOK
<1>1. AInv => TypeOK
  BY DEF AInv
<1> QED
  BY <1>1, AnalysisInvariant, PTL

-----------------------------------------------------------------------------
(* The bundles in order of time are the baselines and the analyzed bundle. *)
LEMMA SeriesIsOfBundles ==
  ASSUME TypeOK
  PROVE  /\ Len(Series) = Len(baselines) + 1 /\ Len(baselines) \in Nat
         /\ DOMAIN Series = 1 .. Len(Series) /\ DOMAIN baselines = 1 .. Len(baselines)
         /\ Series[Len(Series)] = cur
         /\ \A i \in DOMAIN baselines : i \in DOMAIN Series /\ Series[i] = baselines[i]
         /\ \A i \in DOMAIN Series : Series[i] \in Bundles \cup OldBundles
<1>1. baselines \in Seq(OldBundles) /\ cur \in Bundles
  BY DEF TypeOK
<1>2. Series \in Seq(Bundles \cup OldBundles)
  BY <1>1 DEF Series
<1> QED
  BY <1>1, <1>2 DEF Series

(* The time of each, and what it means to be sorted before another one.    *)
LEMMA SeriesIsSorted ==
  ASSUME TypeOK, NEW i \in DOMAIN Series, NEW j \in DOMAIN Series
  PROVE  /\ i \in Nat /\ j \in Nat
         /\ When(Series[i]) \in Nat /\ When(Series[j]) \in Nat
         /\ When(Series[i]) = (IF Series[i].dated THEN Series[i].time ELSE 0)
         /\ Series[i].time \in Nat \ {0} /\ (When(Series[i]) = 0 <=> ~Series[i].dated)
         /\ Precedes(i, Series[i], j, Series[j]) <=>
              \/ When(Series[i]) < When(Series[j])
              \/ When(Series[i]) = When(Series[j]) /\ i < j
<1>1. Series[i] \in Bundles \cup OldBundles /\ Series[j] \in Bundles \cup OldBundles
  BY SeriesIsOfBundles
<1>2. i \in Nat /\ j \in Nat
  BY SeriesIsOfBundles
<1>3. Precedes(i, Series[i], j, Series[j]) <=>
        \/ When(Series[i]) < When(Series[j])
        \/ When(Series[i]) = When(Series[j]) /\ i < j
  BY DEF Precedes
<1> QED
  BY <1>1, <1>2, <1>3, BundlesHaveATime DEF When

(* For a dated bundle the second sort puts what Earlier holds before it.   *)
LEMMA EarlierIsBefore ==
  ASSUME TypeOK, cur.dated, NEW i \in DOMAIN Series
  PROVE  Precedes(i, Series[i], Len(Series), cur) <=> i \in Earlier
<1> DEFINE L == Len(Series)
<1>1. /\ L = Len(baselines) + 1 /\ Len(baselines) \in Nat /\ Series[L] = cur
      /\ DOMAIN Series = 1 .. L /\ DOMAIN baselines = 1 .. Len(baselines)
      /\ \A k \in DOMAIN baselines : Series[k] = baselines[k]
  BY SeriesIsOfBundles
<1>2. L \in DOMAIN Series
  BY <1>1
<1>3. /\ When(Series[i]) \in Nat /\ When(cur) \in Nat
      /\ When(Series[i]) = 0 <=> ~Series[i].dated
      /\ Precedes(i, Series[i], L, cur) <=>
            When(Series[i]) < When(cur) \/ (When(Series[i]) = When(cur) /\ i < L)
  BY <1>1, <1>2, SeriesIsSorted
<1>4. CASE i = L
  <2>1. i \notin DOMAIN baselines
    BY <1>1, <1>4
  <2> QED
    BY <1>1, <1>3, <1>4, <2>1 DEF Earlier
<1>5. CASE i # L
  <2>1. i \in DOMAIN baselines /\ i < L
    BY <1>1, <1>5
  <2>2. i \in Earlier <=> (Series[i].dated => When(Series[i]) <= When(cur))
    BY <1>1, <2>1 DEF Earlier
  <2> QED
    BY <1>3, <2>1, <2>2
<1> QED
  BY <1>4, <1>5

(* The interval that ends in the analyzed bundle begins at the base.       *)
LEMMA TheLastIntervalFits ==
  ASSUME AInv, chosen # 0, cur.dated, NEW i \in DOMAIN Series
  PROVE  Follows(i, Len(Series)) <=> i = chosen
<1>1. TypeOK /\ IsLatest(chosen)
  BY DEF AInv, BaseIsLatest
<1>2. /\ Series[Len(Series)] = cur
      /\ \A k \in DOMAIN baselines : k \in DOMAIN Series /\ Series[k] = baselines[k]
  BY <1>1, SeriesIsOfBundles
<1>3. \A k \in DOMAIN Series : Precedes(k, Series[k], Len(Series), cur) <=> k \in Earlier
  BY <1>1, EarlierIsBefore
<1>4. /\ chosen \in Earlier /\ chosen \in DOMAIN Series
      /\ \A k \in Earlier \ {chosen} :
            k \in DOMAIN Series /\ Precedes(k, Series[k], chosen, Series[chosen])
  BY <1>1, <1>2 DEF IsLatest, Earlier
<1>5. Follows(i, Len(Series)) <=>
        /\ i \in Earlier
        /\ ~\E k \in DOMAIN Series : Precedes(i, Series[i], k, Series[k]) /\ k \in Earlier
  BY <1>2, <1>3 DEF Follows
<1>6. ASSUME NEW k \in Earlier PROVE ~Precedes(chosen, Series[chosen], k, Series[k])
  <2>1. CASE k = chosen
    BY <1>1, <1>4, <2>1, SeriesIsSorted
  <2>2. CASE k # chosen
    <3>1. k \in DOMAIN Series /\ Precedes(k, Series[k], chosen, Series[chosen])
      BY <1>4, <2>2
    <3> QED
      BY <1>1, <1>4, <3>1, SeriesIsSorted
  <2> QED
    BY <2>1, <2>2
<1>7. i = chosen => Follows(i, Len(Series))
  BY <1>4, <1>5, <1>6
<1>8. i # chosen => ~Follows(i, Len(Series))
  BY <1>4, <1>5
<1> QED
  BY <1>7, <1>8

(* An interval that is rated skips no bundle. *)
LEMMA RatedIsAdjacent ==
  ASSUME TypeOK, NEW p \in RatedIntervals
  PROVE  Adjacent(p[1], p[2])
<1> DEFINE b == p[1]
           c == p[2]
<1>1. /\ b \in DOMAIN Series /\ c \in DOMAIN Series
      /\ Follows(b, c) /\ Rated(Series[b], Series[c])
  BY DEF RatedIntervals
<1>2. Series[b].dated /\ Series[c].dated /\ Series[b].time < Series[c].time
  BY <1>1 DEF Rated
<1> HIDE DEF b, c
<1>3. ASSUME NEW k \in DOMAIN Series, Series[k].dated,
             Series[b].time < Series[k].time, Series[k].time < Series[c].time
      PROVE  FALSE
  <2>1. Precedes(b, Series[b], k, Series[k])
    BY <1>1, <1>2, <1>3, SeriesIsSorted
  <2>2. Precedes(k, Series[k], c, Series[c])
    BY <1>1, <1>2, <1>3, SeriesIsSorted
  <2> QED
    BY <1>1, <2>1, <2>2 DEF Follows
<1>4. Adjacent(b, c)
  BY <1>2, <1>3 DEF Adjacent
<1> QED
  BY <1>4 DEF b, c

(* Between two moments that are next to each other there is one interval:  *)
(* from the last bundle of the one to the first bundle of the other.       *)
LEMMA OneIntervalEach ==
  ASSUME TypeOK, NEW i \in DOMAIN Series, NEW j \in DOMAIN Series, Adjacent(i, j)
  PROVE  \E b, c \in DOMAIN Series :
            /\ Follows(b, c) /\ SameTime(b, i) /\ SameTime(c, j)
            /\ \A d, e \in DOMAIN Series :
                  Follows(d, e) /\ SameTime(d, i) /\ SameTime(e, j) => d = b /\ e = c
<1> DEFINE D == DOMAIN Series
           At(k) == Series[k].time
           S(k) == {m \in D : SameTime(m, k)}
<1>1. /\ Series[i].dated /\ Series[j].dated /\ At(i) < At(j)
      /\ \A k \in D : Series[k].dated => ~(At(i) < At(k) /\ At(k) < At(j))
  BY DEF Adjacent
<1>2. D \subseteq Int /\ IsFiniteSet(D)
  <2>1. D = 1 .. Len(Series) /\ Len(Series) \in Nat
    BY SeriesIsOfBundles
  <2>2. IsFiniteSet(1 .. Len(Series))
    BY <2>1, FS_Interval
  <2> QED
    BY <2>1, <2>2
<1>3. /\ S(i) \subseteq Int /\ IsFiniteSet(S(i)) /\ S(i) # {}
      /\ S(j) \subseteq Int /\ IsFiniteSet(S(j)) /\ S(j) # {}
  <2>1. i \in S(i) /\ j \in S(j)
    BY <1>1 DEF SameTime
  <2>2. S(i) \subseteq D /\ S(j) \subseteq D
    OBVIOUS
  <2> HIDE DEF S, D
  <2>3. IsFiniteSet(S(i)) /\ IsFiniteSet(S(j))
    BY <1>2, <2>2, FS_Subset
  <2> QED
    BY <1>2, <2>1, <2>2, <2>3
<1>4. PICK b \in S(i) : \A m \in S(i) : b >= m
  <2> HIDE DEF S
  <2> QED
    BY <1>3, ThereIsAGreatest
<1>5. PICK c \in S(j) : \A m \in S(j) : c <= m
  <2> HIDE DEF S
  <2> QED
    BY <1>3, ThereIsALeast
<1>6. /\ b \in D /\ c \in D /\ SameTime(b, i) /\ SameTime(c, j)
      /\ Series[b].dated /\ At(b) = At(i) /\ Series[c].dated /\ At(c) = At(j)
  BY DEF SameTime
<1>7. \A k \in D : /\ k \in Nat /\ At(k) \in Nat \ {0} /\ When(Series[k]) \in Nat
                  /\ When(Series[k]) = (IF Series[k].dated THEN At(k) ELSE 0)
  BY SeriesIsSorted
<1>8. \A k, m \in D : Precedes(k, Series[k], m, Series[m]) <=>
                        \/ When(Series[k]) < When(Series[m])
                        \/ When(Series[k]) = When(Series[m]) /\ k < m
  BY SeriesIsSorted
<1>9. \A k, m \in D : Follows(k, m) <=>
         /\ Precedes(k, Series[k], m, Series[m])
         /\ \A n \in D : ~(/\ Precedes(k, Series[k], n, Series[n])
                           /\ Precedes(n, Series[n], m, Series[m]))
  BY DEF Follows
<1>10. /\ \A k \in D : Series[k].dated /\ At(k) = At(i) => k <= b
       /\ \A k \in D : Series[k].dated /\ At(k) = At(j) => c <= k
  BY <1>4, <1>5 DEF SameTime
<1>11. Follows(b, c)
  <2>1. Precedes(b, Series[b], c, Series[c])
    BY <1>1, <1>6, <1>7, <1>8
  <2>2. ASSUME NEW n \in D, Precedes(b, Series[b], n, Series[n]),
               Precedes(n, Series[n], c, Series[c])
        PROVE  FALSE
    <3>1. /\ When(Series[b]) = At(i) /\ When(Series[c]) = At(j)
          /\ At(i) \in Nat \ {0} /\ At(j) \in Nat
      BY <1>6, <1>7
    <3>2. /\ \/ When(Series[b]) < When(Series[n])
             \/ When(Series[b]) = When(Series[n]) /\ b < n
          /\ \/ When(Series[n]) < When(Series[c])
             \/ When(Series[n]) = When(Series[c]) /\ n < c
      BY <1>6, <1>8, <2>2
    <3>3. Series[n].dated /\ When(Series[n]) = At(n) /\ At(n) \in Nat
      BY <1>7, <3>1, <3>2
    <3>4. b \in Nat /\ n \in Nat /\ c \in Nat
      BY <1>6, <1>7
    <3> QED
      BY <1>1, <1>10, <3>1, <3>2, <3>3, <3>4
  <2> QED
    BY <1>6, <1>9, <2>1, <2>2
<1>12. ASSUME NEW d \in D, NEW e \in D, Follows(d, e), SameTime(d, i), SameTime(e, j)
       PROVE  d = b /\ e = c
  <2>1. Series[d].dated /\ At(d) = At(i) /\ Series[e].dated /\ At(e) = At(j)
    BY <1>12 DEF SameTime
  <2>2. d <= b /\ c <= e /\ d \in Nat /\ b \in Nat /\ c \in Nat /\ e \in Nat
    BY <1>6, <1>7, <1>10, <2>1
  <2>3. /\ When(Series[d]) = At(i) /\ When(Series[b]) = At(i)
        /\ When(Series[e]) = At(j) /\ When(Series[c]) = At(j)
        /\ At(i) \in Nat /\ At(j) \in Nat
    BY <1>6, <1>7, <2>1
  <2>4. ~(d < b)
    <3> SUFFICES ASSUME d < b PROVE FALSE
      OBVIOUS
    <3>1. Precedes(d, Series[d], b, Series[b]) /\ Precedes(b, Series[b], e, Series[e])
      BY <1>1, <1>6, <1>8, <2>3
    <3> QED
      BY <1>6, <1>9, <1>12, <3>1
  <2>5. ~(c < e)
    <3> SUFFICES ASSUME c < e PROVE FALSE
      OBVIOUS
    <3>1. Precedes(d, Series[d], c, Series[c]) /\ Precedes(c, Series[c], e, Series[e])
      BY <1>1, <1>6, <1>8, <2>3
    <3> QED
      BY <1>6, <1>9, <1>12, <3>1
  <2> QED
    BY <2>2, <2>4, <2>5
<1> QED
  BY <1>6, <1>11, <1>12

(* The deltas and the intervals are drawn from one order of the bundles,   *)
(* for any number of them, given in any order, dated or not, and of any    *)
(* clusters.                                                               *)
THEOREM IntervalsFitTheBaseThm == Spec => []IntervalsFitTheBase
<1>1. AInv => LastIntervalIsCompared
  <2> SUFFICES ASSUME AInv, chosen # 0, cur.dated, NEW i \in DOMAIN baselines
               PROVE  Follows(i, Len(Series)) <=> i = chosen
    BY DEF LastIntervalIsCompared
  <2>1. i \in DOMAIN Series
    BY SeriesIsOfBundles DEF AInv
  <2> QED
    BY <2>1, TheLastIntervalFits
<1>2. AInv => RefusedIsNotRated
  <2> SUFFICES ASSUME AInv, done, chosen # 0, Finding("DIF-013", "WARNING") \in trend,
                      NEW p \in RatedIntervals, p[2] = Len(Series)
               PROVE  FALSE
    BY DEF RefusedIsNotRated
  <2>1. /\ p[1] \in DOMAIN Series /\ p[2] \in DOMAIN Series
        /\ Follows(p[1], p[2]) /\ Rated(Series[p[1]], Series[p[2]])
    BY DEF RatedIntervals
  <2>2. Series[p[2]] = cur /\ TypeOK
    BY SeriesIsOfBundles DEF AInv
  <2>3. Series[p[2]].dated /\ ~DifferentClusters(Series[p[1]], Series[p[2]])
    BY <2>1 DEF Rated
  <2>4. p[1] = chosen
    BY <2>1, <2>2, <2>3, TheLastIntervalFits
  <2>5. Series[p[1]] = base
    BY <2>2, <2>4, TheBaseIsABundle, SeriesIsOfBundles DEF base
  <2>6. ~DifferentClusters(base, cur)
    BY <2>2, <2>3, <2>5
  <2>7. Compared /\ TrendIsCompared
    BY DEF AInv, Compared, done
  <2>8. Ids(trend) \subseteq DeltaRules \cup {"DIF-012", "DIF-014"}
    BY <2>6, <2>7 DEF TrendIsCompared
  <2>9. "DIF-013" \in Ids(trend)
    BY DEF Ids, Finding
  <2> QED
    BY <2>8, <2>9, RulesAssumption
<1>3. AInv => IntervalsDivideTime
  BY RatedIsAdjacent, OneIntervalEach DEF IntervalsDivideTime, AInv
<1>4. AInv => IntervalsFitTheBase
  BY <1>1, <1>2, <1>3 DEF IntervalsFitTheBase
<1> QED
  BY <1>4, AnalysisInvariant, PTL

(* The base is the latest baseline that was not collected after the        *)
(* analyzed bundle, in whatever order the baselines are given: deltas      *)
(* never run backwards, and an undated baseline is the last resort.        *)
THEOREM BaseIsRightThm == Spec => []BaseIsRight
<1>1. AInv => BaseIsRight
  <2> SUFFICES ASSUME AInv, chosen # 0, cur.dated
               PROVE  /\ base.dated =>
                           /\ base.time <= cur.time
                           /\ \A i \in DOMAIN baselines :
                                 baselines[i].dated => ~(base.time < baselines[i].time
                                                         /\ baselines[i].time <= cur.time)
                      /\ ~base.dated =>
                           \A i \in DOMAIN baselines :
                              baselines[i].dated => baselines[i].time > cur.time
    BY DEF BaseIsRight, BaseIsTheOneBefore, UndatedIsLastResort
  <2>1. TypeOK /\ IsLatest(chosen)
    BY DEF AInv, BaseIsLatest
  <2>2. PICK b : b = base
    OBVIOUS
  <2>3. /\ b \in OldBundles /\ cur \in Bundles /\ b = baselines[chosen]
        /\ \A i \in DOMAIN baselines : baselines[i] \in OldBundles
    BY <2>1, <2>2, TheBaseIsABundle, BaselinesAreBundles DEF base
  <2>4. b.time \in Nat /\ When(b) = (IF b.dated THEN b.time ELSE 0)
    BY <2>3, BundlesHaveATime DEF When
  <2>5. cur.time \in Nat /\ When(cur) = cur.time
    BY <2>3, BundlesHaveATime DEF When
  <2>6. base.dated => base.time <= cur.time
    <3>1. base.dated => When(b) <= When(cur)
      BY <2>1, <2>2, <2>3 DEF IsLatest, Earlier
    <3> QED
      BY <2>2, <2>4, <2>5, <3>1
  <2>7. ASSUME NEW i \in DOMAIN baselines, baselines[i].dated,
               baselines[i].time <= cur.time
        PROVE  b.dated /\ baselines[i].time <= b.time
    <3>1. PICK c : c = baselines[i]
      OBVIOUS
    <3>2. c \in OldBundles /\ c.time \in Nat \ {0} /\ When(c) = c.time
      BY <2>3, <2>7, <3>1, BundlesHaveATime DEF When
    <3>3. i \in Earlier
      BY <2>5, <2>7, <3>1, <3>2 DEF Earlier
    <3>4. CASE i = chosen
      BY <2>3, <2>4, <2>7, <3>1, <3>2, <3>4
    <3>5. CASE i # chosen
      <4>1. Precedes(i, c, chosen, b)
        BY <2>1, <2>3, <3>1, <3>3, <3>5 DEF IsLatest
      <4>2. When(c) < When(b) \/ When(c) = When(b)
        BY <4>1 DEF Precedes
      <4> QED
        BY <2>4, <3>1, <3>2, <4>2
    <3> QED
      BY <3>4, <3>5
  <2>8. \A i \in DOMAIN baselines : baselines[i].time \in Nat
    BY <2>3, BundlesHaveATime
  <2>9. ASSUME NEW i \in DOMAIN baselines, baselines[i].dated
        PROVE  /\ b.dated => ~(b.time < baselines[i].time /\ baselines[i].time <= cur.time)
               /\ ~b.dated => baselines[i].time > cur.time
    <3>1. baselines[i].time <= cur.time => b.dated /\ baselines[i].time <= b.time
      BY <2>7, <2>9
    <3>2. baselines[i].time \in Nat
      BY <2>8
    <3> QED
      BY <2>4, <2>5, <3>1, <3>2
  <2> QED
    BY <2>2, <2>6, <2>9
<1> QED
  BY <1>1, AnalysisInvariant, PTL

-----------------------------------------------------------------------------
(* None of the files the rule needs holds an error body. *)
CleanIn(b, r) == \A g \in Requires[r] : \A f \in g : b.files[f] # "error body"

(* Then a rule that is not skipped has data, and observes what is true. *)
LEMMA CleanIsTrue ==
  ASSUME NEW b \in Bundles \cup OldBundles, NEW r \in Rule, CleanIn(b, r),
         MissingInputs(b, r) = {}
  PROVE  HasData(b, r) /\ Observed(b, r) = {b.truth[r]}
<1>1. /\ \A f \in DOMAIN b.files : b.files[f] \in {"data", "error body", "absent"}
      /\ UNION Requires[r] \subseteq DOMAIN b.files
  BY BundleAssumption
<1>2. HasData(b, r)
  <2> SUFFICES ASSUME NEW g \in Requires[r]
               PROVE  \E f \in g : b.files[f] = "data"
    BY DEF HasData
  <2>1. PICK f \in g : b.files[f] # "absent"
    BY DEF MissingInputs, Exists
  <2>2. f \in DOMAIN b.files
    BY <1>1
  <2> QED
    BY <1>1, <2>1, <2>2 DEF CleanIn
<1> QED
  BY <1>2 DEF Observed

(* The serious findings of a report and the problems that are true of its  *)
(* bundle: what is found is true, with its severity, and what is true is   *)
(* found by a rule that ran.                                               *)
LEMMA FoundIsTrue ==
  ASSUME TypeOK, NEW b \in Bundles \cup OldBundles, NEW rep, Told(rep, b, Len(Rules) + 1),
         NEW r \in Ids(SeriousIn(rep)), CleanIn(b, r)
  PROVE  /\ r \in only /\ Bad(b.truth[r])
         /\ SeverityIn(SeriousIn(rep), r) = b.truth[r]
<1>1. only \subseteq Rule
  BY DEF TypeOK
<1>2. \A f \in rep.found : f.id \in only /\ MissingInputs(b, f.id) = {} /\ Seen(b, f.id, f)
  BY DEF Told
<1>3. \A f \in SeriousIn(rep) : f \in rep.found /\ f.severity \in Serious
  BY DEF SeriousIn, SeriousOf
<1>4. PICK e \in SeriousIn(rep) : e.id = r
  BY DEF Ids
<1>5. r \in only /\ r \in Rule /\ MissingInputs(b, r) = {}
  BY <1>1, <1>2, <1>3, <1>4
<1>6. Observed(b, r) = {b.truth[r]}
  BY <1>5, CleanIsTrue
<1>7. \A f \in SeriousIn(rep) : f.id = r => f.severity = b.truth[r]
  BY <1>2, <1>3, <1>6 DEF Seen
<1>8. SeverityIn(SeriousIn(rep), r) = b.truth[r]
  BY <1>4, <1>7 DEF SeverityIn
<1> QED
  BY <1>3, <1>4, <1>5, <1>7, <1>8 DEF Bad

LEMMA TrueIsFound ==
  ASSUME TypeOK, NEW b \in Bundles \cup OldBundles, NEW rep, Told(rep, b, Len(Rules) + 1),
         NEW r \in only \ NotRun(rep), CleanIn(b, r), Bad(b.truth[r])
  PROVE  r \in Ids(SeriousIn(rep))
<1>1. r \in Rule
  BY DEF TypeOK
<1>2. PICK i \in 1 .. Len(Rules) : r = Rules[i]
  BY <1>1, RulesAreAList DEF Rule
<1>3. i < Len(Rules) + 1
  BY RulesAreAList
<1>4. Tells(rep, b, r)
  BY <1>2, <1>3 DEF Told
<1>5. MissingInputs(b, r) = {}
  BY <1>4 DEF Tells
<1>6. HasData(b, r)
  BY <1>1, <1>5, CleanIsTrue
<1>7. b.truth[r] # "none" /\ b.truth[r] \in Serious
  BY DEF Bad, Serious
<1>8. Finding(r, b.truth[r]) \in rep.found
  BY <1>4, <1>6, <1>7 DEF Tells
<1>9. Finding(r, b.truth[r]).id = r /\ Finding(r, b.truth[r]).severity = b.truth[r]
  BY DEF Finding
<1> QED
  BY <1>7, <1>8, <1>9 DEF SeriousIn, SeriousOf, Ids

(* DIF-012 lists what changed in the cluster, no more and no less, for any *)
(* rules, whichever were skipped or failed on either side.                 *)
THEOREM ChangesAreToldThm == Spec => []ChangesAreTold
<1>1. ASSUME AInv, chosen # 0, Compared, ~DifferentClusters(base, cur),
             NEW r \in Rule, Clean(r)
      PROVE  /\ r \in change.new   => ReallyNew(r)
             /\ r \in change.fixed => ReallyFixed(r)
             /\ r \in change.worse => ReallyWorse(r)
             /\ r \in only \ (NotRun(report) \cup NotRun(baseReport)) =>
                   /\ ReallyNew(r)   => r \in change.new
                   /\ ReallyFixed(r) => r \in change.fixed
                   /\ ReallyWorse(r) => r \in change.worse
  <2> DEFINE bs == SeriousIn(baseReport)
             cs == SeriousIn(report)
  <2>1. TypeOK /\ ReportsAreTold /\ TrendIsCompared
    BY <1>1 DEF AInv
  <2>2. base \in Bundles \cup OldBundles /\ cur \in Bundles \cup OldBundles
    BY <1>1, <2>1, TheBaseIsABundle
  <2>3. CleanIn(cur, r) /\ CleanIn(base, r)
    BY <1>1 DEF Clean, CleanIn
  <2>4. Told(report, cur, Len(Rules) + 1) /\ Told(baseReport, base, Len(Rules) + 1)
    BY <1>1, <2>1 DEF ReportsAreTold, Compared, Turn
  <2>5. r \in Ids(cs) => /\ r \in only /\ Bad(cur.truth[r])
                         /\ SeverityIn(cs, r) = cur.truth[r]
    BY <2>1, <2>2, <2>3, <2>4, FoundIsTrue
  <2>6. r \in Ids(bs) => /\ r \in only /\ Bad(base.truth[r])
                         /\ SeverityIn(bs, r) = base.truth[r]
    BY <2>1, <2>2, <2>3, <2>4, FoundIsTrue
  <2>7. r \in only \ NotRun(report) /\ Bad(cur.truth[r]) => r \in Ids(cs)
    BY <2>1, <2>2, <2>3, <2>4, TrueIsFound
  <2>8. r \in only \ NotRun(baseReport) /\ Bad(base.truth[r]) => r \in Ids(bs)
    BY <2>1, <2>2, <2>3, <2>4, TrueIsFound
  <2>9. /\ r \in change.new <=>
              r \in Ids(cs) /\ r \notin Ids(bs) /\ r \notin NotRun(baseReport)
        /\ r \in change.fixed <=>
              r \in Ids(bs) /\ r \notin Ids(cs) /\ r \notin NotRun(report)
        /\ r \in change.worse <=>
              /\ r \in Ids(cs) /\ r \in Ids(bs)
              /\ Rank[SeverityIn(cs, r)] < Rank[SeverityIn(bs, r)]
    <3>1. change = FindingDelta(baseReport, report)
      BY <1>1, <2>1 DEF TrendIsCompared
    <3> QED
      BY <3>1 DEF FindingDelta
  <2> HIDE DEF bs, cs
  <2>10. r \in change.new => ReallyNew(r)
    BY <2>5, <2>8, <2>9 DEF ReallyNew
  <2>11. r \in change.fixed => ReallyFixed(r)
    BY <2>6, <2>7, <2>9 DEF ReallyFixed
  <2>12. r \in change.worse => ReallyWorse(r)
    BY <2>5, <2>6, <2>9 DEF ReallyWorse
  <2>13. ASSUME r \in only \ (NotRun(report) \cup NotRun(baseReport))
         PROVE  /\ ReallyNew(r)   => r \in change.new
                /\ ReallyFixed(r) => r \in change.fixed
                /\ ReallyWorse(r) => r \in change.worse
    <3>1. r \in only \ NotRun(report) /\ r \in only \ NotRun(baseReport)
      BY <2>13
    <3>2. ReallyNew(r) => r \in change.new
      BY <2>6, <2>7, <2>9, <3>1 DEF ReallyNew
    <3>3. ReallyFixed(r) => r \in change.fixed
      BY <2>5, <2>8, <2>9, <3>1 DEF ReallyFixed
    <3>4. ReallyWorse(r) => r \in change.worse
      BY <2>5, <2>6, <2>7, <2>8, <2>9, <3>1 DEF ReallyWorse
    <3> QED
      BY <3>2, <3>3, <3>4
  <2> QED
    BY <2>10, <2>11, <2>12, <2>13
<1>2. ASSUME AInv, ~Compared \/ DifferentClusters(base, cur)
      PROVE  change.new = {} /\ change.fixed = {} /\ change.worse = {}
  <2>1. change = NoChange
    BY <1>2 DEF AInv, TrendIsCompared
  <2> QED
    BY <2>1 DEF NoChange
<1>3. AInv => ChangesAreReal
  BY <1>1, <1>2 DEF ChangesAreReal
<1>4. AInv => ChangesAreComplete
  <2> SUFFICES ASSUME AInv, done, chosen # 0, ~DifferentClusters(base, cur),
                      NEW r \in only \ (NotRun(report) \cup NotRun(baseReport)), Clean(r)
               PROVE  /\ ReallyNew(r)   => r \in change.new
                      /\ ReallyFixed(r) => r \in change.fixed
                      /\ ReallyWorse(r) => r \in change.worse
    BY DEF ChangesAreComplete
  <2>1. Compared /\ TypeOK
    BY DEF AInv, Compared, done
  <2>2. r \in Rule
    BY <2>1 DEF TypeOK
  <2> QED
    BY <1>1, <2>1, <2>2
<1>5. AInv => ChangesAreTold
  BY <1>3, <1>4 DEF ChangesAreTold
<1> QED
  BY <1>5, AnalysisInvariant, PTL

-----------------------------------------------------------------------------
(* The conclusions of Result.  No step of the analysis is looked at here;  *)
(* that findings are well formed, which is what is needed of them, is the  *)
(* invariant above.                                                        *)

(* The findings have a severity and an id of a rule or of the comparison. *)
WellFormed == all \subseteq [id : Rule \cup Trends, severity : Severities]

LEMMA FindingsAreWellFormed == TypeOK => WellFormed
BY DEF TypeOK, WellFormed, Reports, all

(* There are finitely many rules, and so finitely many findings. *)
LEMMA FindingsAreFinite ==
  ASSUME WellFormed
  PROVE  IsFiniteSet(all)
<1> DEFINE I == Rule \cup Trends
           P == I \X Severities
           F == [id : I, severity : Severities]
           mk == [p \in P |-> [id |-> p[1], severity |-> p[2]]]
<1>1. IsFiniteSet(Rule)
  <2> DEFINE N == 1 .. Len(Rules)
             nth == [n \in N |-> Rules[n]]
  <2>1. Len(Rules) \in Nat /\ DOMAIN Rules = N
    BY RulesAreAList
  <2>2. IsFiniteSet(N)
    BY <2>1, FS_Interval
  <2>3. nth \in Surjection(N, Rule)
    BY <2>1 DEF Rule, Surjection
  <2> QED
    BY <2>2, <2>3, FS_Surjection
<1>2. IsFiniteSet(I)
  <2>1. IsFiniteSet({"DIF-012", "DIF-013", "DIF-014"})
    <3>1. /\ IsFiniteSet({"DIF-012"}) /\ IsFiniteSet({"DIF-013"})
          /\ IsFiniteSet({"DIF-014"})
      BY FS_Singleton
    <3>2. IsFiniteSet({"DIF-012"} \cup {"DIF-013"})
      BY <3>1, FS_Union
    <3>3. IsFiniteSet(({"DIF-012"} \cup {"DIF-013"}) \cup {"DIF-014"})
      BY <3>1, <3>2, FS_Union
    <3> QED
      BY <3>3
  <2>2. IsFiniteSet(Trends)
    BY <2>1, RulesAssumption, FS_Union DEF Trends
  <2> QED
    BY <1>1, <2>2, FS_Union
<1>3. IsFiniteSet(P)
  <2>1. IsFiniteSet(Severities)
    <3>1. /\ IsFiniteSet({"CRITICAL"}) /\ IsFiniteSet({"WARNING"})
          /\ IsFiniteSet({"INFO"}) /\ IsFiniteSet({"OK"})
      BY FS_Singleton
    <3>2. /\ IsFiniteSet({"CRITICAL"} \cup {"WARNING"})
          /\ IsFiniteSet({"INFO"} \cup {"OK"})
      BY <3>1, FS_Union
    <3>3. IsFiniteSet(({"CRITICAL"} \cup {"WARNING"}) \cup ({"INFO"} \cup {"OK"}))
      BY <3>2, FS_Union
    <3>4. Severities = ({"CRITICAL"} \cup {"WARNING"}) \cup ({"INFO"} \cup {"OK"})
      BY DEF Severities
    <3> QED
      BY <3>3, <3>4
  <2> QED
    BY <1>2, <2>1, FS_Product
<1>4. IsFiniteSet(F)
  <2>1. mk \in Surjection(P, F)
    <3>1. mk \in [P -> F]
      OBVIOUS
    <3>2. ASSUME NEW f \in F PROVE \E p \in P : mk[p] = f
      <4>1. <<f.id, f.severity>> \in P
        OBVIOUS
      <4>2. mk[<<f.id, f.severity>>] = [id |-> f.id, severity |-> f.severity]
        BY <4>1
      <4>3. f = [id |-> f.id, severity |-> f.severity]
        OBVIOUS
      <4> QED
        BY <4>1, <4>2, <4>3
    <3> QED
      BY <3>1, <3>2 DEF Surjection
  <2> QED
    BY <1>3, <2>1, FS_Surjection
<1>5. all \subseteq F
  BY DEF WellFormed
<1> QED
  BY <1>4, <1>5, FS_Subset

(* --no-ok changes what is shown and nothing of what is counted. *)
LEMMA CountedIsAll == Counted = all
BY DEF Counted, shown, hidden

(* A count is above zero if there is something to count. *)
LEMMA CountsCount ==
  ASSUME WellFormed, NEW fs, fs \subseteq all, NEW s
  PROVE  Count(fs, s) \in Nat /\ (Count(fs, s) > 0 <=> \E f \in fs : f.severity = s)
<1> DEFINE S == {f \in fs : f.severity = s}
<1>1. IsFiniteSet(S)
  <2>1. S \subseteq all
    OBVIOUS
  <2> QED
    BY <2>1, FindingsAreFinite, FS_Subset
<1>2. Cardinality(S) \in Nat
  BY <1>1, FS_CardinalityType
<1>3. Cardinality(S) = 0 <=> S = {}
  BY <1>1, FS_EmptySet
<1>4. S # {} <=> \E f \in fs : f.severity = s
  OBVIOUS
<1>5. Count(fs, s) = Cardinality(S)
  BY DEF Count
<1> HIDE DEF S
<1> QED
  BY <1>2, <1>3, <1>4, <1>5

-----------------------------------------------------------------------------
(* The status of an area is that of the worst finding in it. *)
LEMMA StatusIsTheWorst ==
  ASSUME WellFormed, NEW a \in DOMAIN Areas
  PROVE  LET critical == \E f \in InArea(a) : f.severity = "CRITICAL"
             warning  == \E f \in InArea(a) : f.severity = "WARNING"
         IN  /\ AreaStatus(a) = "action" <=> critical
             /\ AreaStatus(a) = "review" <=> ~critical /\ warning
             /\ InArea(a) # {} => AreaStatus(a) # "none"
<1> DEFINE critical == \E f \in InArea(a) : f.severity = "CRITICAL"
           warning  == \E f \in InArea(a) : f.severity = "WARNING"
           c == Count(InArea(a), "CRITICAL")
           w == Count(InArea(a), "WARNING")
<1>1. InArea(a) \subseteq all
  BY CountedIsAll DEF InArea
<1>2. c \in Nat /\ (c > 0 <=> critical)
  BY <1>1, CountsCount
<1>3. w \in Nat /\ (w > 0 <=> warning)
  BY <1>1, CountsCount
<1>4. (\A f \in InArea(a) : f.severity \notin Serious) <=> ~critical /\ ~warning
  BY DEF Serious
<1>5. c = 0 <=> ~critical
  <2> HIDE DEF c, critical
  <2> QED
    BY <1>2
<1> HIDE DEF c, w, critical, warning
<1>6. AreaStatus(a) = CASE c > 0 -> "action"
                        [] c = 0 /\ w > 0 -> "review"
                        [] ~critical /\ ~warning ->
                               IF InArea(a) = {} THEN "none" ELSE "good"
  BY <1>4 DEF AreaStatus, c, w
<1>7. CASE critical
  <2>1. InArea(a) # {}
    BY <1>7 DEF critical
  <2>2. AreaStatus(a) = "action"
    BY <1>2, <1>5, <1>6, <1>7
  <2> QED
    BY <1>7, <2>1, <2>2 DEF critical, warning
<1>8. CASE ~critical /\ warning
  <2>1. AreaStatus(a) = "review"
    BY <1>2, <1>3, <1>5, <1>6, <1>8
  <2> QED
    BY <1>8, <2>1 DEF critical, warning
<1>9. CASE ~critical /\ ~warning
  <2>1. AreaStatus(a) = IF InArea(a) = {} THEN "none" ELSE "good"
    BY <1>2, <1>3, <1>5, <1>6, <1>9
  <2> QED
    BY <1>9, <2>1 DEF critical, warning
<1> QED
  BY <1>7, <1>8, <1>9

(* Every finding is in an area that the report shows. *)
LEMMA EveryFindingHasAnArea ==
  ASSUME WellFormed, NEW f \in all
  PROVE  \E a \in AreaRows : CategoryOf(f) \in Areas[a] /\ f \in InArea(a)
<1>1. \E a \in DOMAIN Areas : CategoryOf(f) \in Areas[a]
  <2>1. CASE f.id \in Rule
    BY <2>1, CategoryAssumption DEF CategoryOf
  <2>2. CASE f.id \notin Rule
    BY <2>2 DEF CategoryOf, Areas
  <2> QED
    BY <2>1, <2>2
<1>2. PICK a \in DOMAIN Areas : CategoryOf(f) \in Areas[a]
  BY <1>1
<1>3. f \in InArea(a)
  BY <1>2, CountedIsAll DEF InArea
<1> QED
  BY <1>2, <1>3 DEF AreaRows

(* Grade, areas and exit status are all of the worst finding. *)
LEMMA GradeFollows == TypeOK => GradeIsTheWorstArea
<1> SUFFICES ASSUME TypeOK PROVE GradeIsTheWorstArea
  OBVIOUS
<1>0. WellFormed
  BY FindingsAreWellFormed
<1> DEFINE statuses == {AreaStatus(a) : a \in AreaRows}
           critical == \E f \in all : f.severity = "CRITICAL"
           warning  == \E f \in all : f.severity = "WARNING"
           c == Count(Counted, "CRITICAL")
           w == Count(Counted, "WARNING")
<1>1. c \in Nat /\ (c > 0 <=> critical)
  BY <1>0, CountedIsAll, CountsCount
<1>2. w \in Nat /\ (w > 0 <=> warning)
  BY <1>0, CountedIsAll, CountsCount
<1>3. \A a \in AreaRows : a \in DOMAIN Areas /\ InArea(a) \subseteq all
  BY CountedIsAll DEF AreaRows, InArea
<1>4. "action" \in statuses <=> critical
  <2>1. ASSUME "action" \in statuses PROVE critical
    <3>1. PICK a \in AreaRows : AreaStatus(a) = "action"
      BY <2>1
    <3>2. \E f \in InArea(a) : f.severity = "CRITICAL"
      BY <1>0, <1>3, <3>1, StatusIsTheWorst
    <3> QED
      BY <1>3, <3>2
  <2>2. ASSUME critical PROVE "action" \in statuses
    <3>1. PICK f \in all : f.severity = "CRITICAL"
      BY <2>2
    <3>2. PICK a \in AreaRows : f \in InArea(a)
      BY <1>0, EveryFindingHasAnArea
    <3>3. AreaStatus(a) = "action"
      BY <1>0, <1>3, <3>1, <3>2, StatusIsTheWorst
    <3> QED
      BY <3>3
  <2> QED
    BY <2>1, <2>2
<1>5. "review" \in statuses => warning
  <2> SUFFICES ASSUME "review" \in statuses PROVE warning
    OBVIOUS
  <2>1. PICK a \in AreaRows : AreaStatus(a) = "review"
    OBVIOUS
  <2>2. \E f \in InArea(a) : f.severity = "WARNING"
    BY <1>0, <1>3, <2>1, StatusIsTheWorst
  <2> QED
    BY <1>3, <2>2
<1>6. ~critical /\ warning => "review" \in statuses
  <2> SUFFICES ASSUME ~critical, warning PROVE "review" \in statuses
    OBVIOUS
  <2>1. PICK f \in all : f.severity = "WARNING"
    OBVIOUS
  <2>2. PICK a \in AreaRows : f \in InArea(a)
    BY <1>0, EveryFindingHasAnArea
  <2>3. ~\E e \in InArea(a) : e.severity = "CRITICAL"
    BY <1>3
  <2>4. AreaStatus(a) = "review"
    BY <1>0, <1>3, <2>1, <2>2, <2>3, StatusIsTheWorst
  <2> QED
    BY <2>4
<1>7. \A f \in all : \E a \in AreaRows :
          CategoryOf(f) \in Areas[a] /\ AreaStatus(a) # "none"
  <2> SUFFICES ASSUME NEW f \in all
               PROVE  \E a \in AreaRows :
                          CategoryOf(f) \in Areas[a] /\ AreaStatus(a) # "none"
    OBVIOUS
  <2>1. PICK a \in AreaRows : CategoryOf(f) \in Areas[a] /\ f \in InArea(a)
    BY <1>0, EveryFindingHasAnArea
  <2>2. AreaStatus(a) # "none"
    BY <1>0, <1>3, <2>1, StatusIsTheWorst
  <2> QED
    BY <2>1, <2>2
<1> HIDE DEF statuses, critical, warning, c, w
<1>8. /\ Grade = "action" <=> c > 0
      /\ Grade \in {"review", "fair"} <=> c = 0 /\ w > 0
  <2>1. Grade = CASE c > 0 -> "action"
                  [] c = 0 /\ w >= 5 -> "review"
                  [] c = 0 /\ w \in 1 .. 4 -> "fair"
                  [] OTHER -> "good"
    BY DEF Grade, c, w
  <2>2. CASE c > 0
    BY <1>1, <2>1, <2>2
  <2>3. CASE c = 0 /\ w >= 5
    BY <1>1, <1>2, <2>1, <2>3
  <2>4. CASE c = 0 /\ w \in 1 .. 4
    BY <1>1, <1>2, <2>1, <2>4
  <2>5. CASE c = 0 /\ w = 0
    BY <1>1, <1>2, <2>1, <2>5
  <2> QED
    BY <1>1, <1>2, <2>2, <2>3, <2>4, <2>5
<1>9. /\ FailsOn("critical") <=> c > 0
      /\ FailsOn("warning") <=> c > 0 \/ w > 0
  BY DEF FailsOn, c, w
<1>10. c = 0 <=> ~critical
  BY <1>1
<1>11. statuses \cap {"action", "review"} # {} <=> critical \/ warning
  BY <1>4, <1>5, <1>6
<1>12. /\ Grade = "action" <=> "action" \in statuses
       /\ FailsOn("critical") <=> "action" \in statuses
  BY <1>1, <1>4, <1>8, <1>9
<1>13. Grade \in {"review", "fair"} <=> "review" \in statuses /\ "action" \notin statuses
  BY <1>2, <1>4, <1>5, <1>6, <1>8, <1>10
<1>14. FailsOn("warning") <=> statuses \cap {"action", "review"} # {}
  BY <1>1, <1>2, <1>9, <1>11
<1> QED
  BY <1>7, <1>12, <1>13, <1>14 DEF GradeIsTheWorstArea, statuses

-----------------------------------------------------------------------------
(* A finding that calls for action has rank 0 or 1. *)
LEMMA RanksAreKnown ==
  ASSUME NEW i \in Ids(Actionable)
  PROVE  RankOf(i) \in {0, 1}
<1>1. \E f \in Actionable : f.id = i
  BY DEF Ids
<1>2. SeverityIn(Actionable, i) \in Serious
  <2>1. (CHOOSE f \in Actionable : f.id = i) \in Actionable
    BY <1>1
  <2>2. \A f \in Actionable : f.severity \in Serious
    BY DEF Actionable
  <2> QED
    BY <2>1, <2>2 DEF SeverityIn
<1> QED
  BY <1>2 DEF RankOf, Rank, Serious

(* No id is in two of the root-cause groups, so that a finding has at most *)
(* one root cause.                                                         *)
LEMMA GroupsAreDisjoint ==
  ASSUME NEW k \in DOMAIN RootGroups, NEW m \in DOMAIN RootGroups,
         NEW i \in DOMAIN RootGroups[k], NEW j \in DOMAIN RootGroups[m],
         RootGroups[k][i] = RootGroups[m][j]
  PROVE  k = m
<1> DEFINE G(s) ==
      IF s \in {"CLU-001", "CLU-002", "CLU-003", "CLU-004.shards_availability", "IDX-002"} THEN 1
      ELSE IF s \in {"DISK-001", "DISK-002", "DISK-003", "CLU-004.disk"} THEN 2
      ELSE IF s \in {"DIF-005", "TP-001"} THEN 3
      ELSE IF s \in {"DIF-007", "BRK-001"} THEN 4
      ELSE IF s \in {"DIF-002", "OS-006"} THEN 5 ELSE 6
<1>1. ASSUME NEW n \in DOMAIN RootGroups, NEW h \in DOMAIN RootGroups[n]
      PROVE  G(RootGroups[n][h]) = n
  <2>1. n \in 1 .. 6
    BY DEF RootGroups
  <2>2. CASE n = 1
    BY <2>2 DEF RootGroups
  <2>3. CASE n = 2
    BY <2>3 DEF RootGroups
  <2>4. CASE n = 3
    BY <2>4 DEF RootGroups
  <2>5. CASE n = 4
    BY <2>5 DEF RootGroups
  <2>6. CASE n = 5
    BY <2>6 DEF RootGroups
  <2>7. CASE n = 6
    BY <2>7 DEF RootGroups
  <2> QED
    BY <2>1, <2>2, <2>3, <2>4, <2>5, <2>6, <2>7
<1> QED
  BY <1>1

(* A group that is present has a leader: a member no other is ahead of. *)
IsLead(g, i) ==
    \E c \in Present(g) :
        /\ g[c] = i
        /\ \A j \in Present(g) : \/ RankOf(i) < RankOf(g[j])
                                 \/ RankOf(i) = RankOf(g[j]) /\ c <= j

LEMMA AGroupHasALead ==
  ASSUME NEW g, DOMAIN g \subseteq Nat, IsFiniteSet(DOMAIN g), Present(g) # {}
  PROVE  IsLead(g, Lead(g))
<1> DEFINE Ranked(n) == {i \in Present(g) : RankOf(g[i]) = n}
           First(c) == \A j \in Present(g) : \/ RankOf(g[c]) < RankOf(g[j])
                                             \/ RankOf(g[c]) = RankOf(g[j]) /\ c <= j
<1>1. /\ Present(g) \subseteq Nat
      /\ \A i \in Present(g) : RankOf(g[i]) = 0 \/ RankOf(g[i]) = 1
  BY RanksAreKnown DEF Present
<1>2. PICK n \in {0, 1} : Ranked(n) # {} /\ \A j \in Present(g) : n <= RankOf(g[j])
  <2>1. CASE Ranked(0) # {}
    BY <1>1, <2>1
  <2>2. CASE Ranked(0) = {}
    BY <1>1, <2>2
  <2> QED
    BY <2>1, <2>2
<1>3. PICK c \in Ranked(n) : \A j \in Ranked(n) : c <= j
  <2>1. Ranked(n) \subseteq DOMAIN g /\ Ranked(n) \subseteq Int
    BY DEF Present
  <2>2. IsFiniteSet(Ranked(n))
    BY <2>1, FS_Subset
  <2> HIDE DEF Ranked
  <2> QED
    BY <1>2, <2>1, <2>2, ThereIsALeast
<1>5. First(c)
  <2> SUFFICES ASSUME NEW j \in Present(g)
               PROVE  \/ RankOf(g[c]) < RankOf(g[j])
                      \/ RankOf(g[c]) = RankOf(g[j]) /\ c <= j
    OBVIOUS
  <2>1. RankOf(g[c]) = n /\ n <= RankOf(g[j])
    BY <1>2, <1>3
  <2>2. RankOf(g[j]) = n => c <= j
    BY <1>3
  <2>3. n \in Nat /\ RankOf(g[j]) \in Nat
    BY <1>1, <1>2
  <2> QED
    BY <2>1, <2>2, <2>3
<1>6. PICK d \in Present(g) : First(d) /\ Lead(g) = g[d]
  <2>1. \E d \in Present(g) : First(d)
    BY <1>5
  <2> DEFINE d == CHOOSE d \in Present(g) : First(d)
  <2>2. d \in Present(g) /\ First(d)
    BY <2>1
  <2>3. Lead(g) = g[d]
    BY DEF Lead
  <2> QED
    BY <2>2, <2>3
<1> QED
  BY <1>6 DEF IsLead

(* The groups whose members share a row have a leader that is shown. *)
LEMMA SharedCausesHaveALead ==
  ASSUME NEW k \in SharedCauses
  PROVE  /\ k \in DOMAIN RootGroups
         /\ IsLead(RootGroups[k], Lead(RootGroups[k]))
<1>1. k \in DOMAIN RootGroups /\ Cardinality(Present(RootGroups[k])) >= 2
  BY DEF SharedCauses
<1>2. DOMAIN RootGroups[k] \subseteq Nat /\ IsFiniteSet(DOMAIN RootGroups[k])
  <2>1. k \in 1 .. 6
    BY <1>1 DEF RootGroups
  <2>2. \E n \in {2, 4, 5} : DOMAIN RootGroups[k] = 1 .. n
    BY <2>1 DEF RootGroups
  <2> QED
    BY <2>2, FS_Interval
<1>3. Present(RootGroups[k]) # {}
  <2>1. Cardinality({}) = 0
    BY FS_EmptySet
  <2> QED
    BY <1>1, <2>1
<1> QED
  BY <1>1, <1>2, <1>3, AGroupHasALead

(* The rows of a group: what is in it besides its leader, and at no other. *)
LEMMA RelatedIsInOneGroup ==
  ASSUME NEW k \in SharedCauses, NEW i \in Related(RootGroups[k])
  PROVE  /\ \A m \in SharedCauses : i \in Related(RootGroups[m]) => m = k
         /\ \A m \in SharedCauses : i # Lead(RootGroups[m])
<1>1. PICK h \in DOMAIN RootGroups[k] : RootGroups[k][h] = i
  BY DEF Related, Present
<1>2. k \in DOMAIN RootGroups
  BY SharedCausesHaveALead
<1>3. ASSUME NEW m \in SharedCauses, i \in Related(RootGroups[m])
      PROVE  m = k
  <2>1. m \in DOMAIN RootGroups
    BY SharedCausesHaveALead
  <2>2. PICK j \in DOMAIN RootGroups[m] : RootGroups[m][j] = i
    BY <1>3 DEF Related, Present
  <2> QED
    BY <1>1, <1>2, <2>1, <2>2, GroupsAreDisjoint
<1>4. ASSUME NEW m \in SharedCauses, i = Lead(RootGroups[m])
      PROVE  FALSE
  <2>1. m \in DOMAIN RootGroups /\ IsLead(RootGroups[m], i)
    BY <1>4, SharedCausesHaveALead
  <2>2. PICK j \in DOMAIN RootGroups[m] : RootGroups[m][j] = i
    BY <2>1 DEF IsLead, Present
  <2>3. m = k
    BY <1>1, <1>2, <2>1, <2>2, GroupsAreDisjoint
  <2> QED
    BY <1>4, <2>3 DEF Related
<1> QED
  BY <1>3, <1>4

(* The rows of the list are findings that no other row has taken in. *)
LEMMA RowsAreFindings ==
  /\ DOMAIN PriorityRows = Ids(Actionable) \ Absorbed
  /\ \A l \in DOMAIN PriorityRows :
         PriorityRows[l] = UNION {Related(RootGroups[k]) :
                                     k \in {j \in SharedCauses : Lead(RootGroups[j]) = l}}
BY DEF PriorityRows

(* Every problem is in exactly one row. *)
LEMMA OneRowEach == EveryProblemHasOneRow
<1> SUFFICES ASSUME NEW i \in Ids(Actionable)
             PROVE  Cardinality({l \in DOMAIN PriorityRows :
                                     i = l \/ i \in PriorityRows[l]}) = 1
  BY DEF EveryProblemHasOneRow
<1> DEFINE rows == {l \in DOMAIN PriorityRows : i = l \/ i \in PriorityRows[l]}
<1>1. ASSUME NEW l \in DOMAIN PriorityRows, i \in PriorityRows[l]
      PROVE  \E k \in SharedCauses : Lead(RootGroups[k]) = l /\ i \in Related(RootGroups[k])
  BY <1>1, RowsAreFindings
<1>2. \E l : rows = {l}
  <2>1. CASE i \notin Absorbed
    <3>1. i \in DOMAIN PriorityRows
      BY <2>1, RowsAreFindings
    <3>2. \A l \in DOMAIN PriorityRows : i \notin PriorityRows[l]
      BY <1>1, <2>1 DEF Absorbed
    <3>3. rows = {i}
      BY <3>1, <3>2
    <3> QED
      BY <3>3
  <2>2. CASE i \in Absorbed
    <3>1. PICK k \in SharedCauses : i \in Related(RootGroups[k])
      BY <2>2 DEF Absorbed
    <3> DEFINE l == Lead(RootGroups[k])
    <3>2. l \in Ids(Actionable)
      BY SharedCausesHaveALead DEF IsLead, Present
    <3>3. l \notin Absorbed
      BY RelatedIsInOneGroup DEF Absorbed
    <3>4. l \in DOMAIN PriorityRows /\ i \in PriorityRows[l]
      BY <3>1, <3>2, <3>3, RowsAreFindings
    <3>5. ASSUME NEW m \in DOMAIN PriorityRows, i = m \/ i \in PriorityRows[m]
          PROVE  m = l
      <4>1. i \in PriorityRows[m]
        BY <2>2, <3>5, RowsAreFindings
      <4>2. PICK n \in SharedCauses : Lead(RootGroups[n]) = m /\ i \in Related(RootGroups[n])
        BY <1>1, <4>1
      <4> QED
        BY <3>1, <4>2, RelatedIsInOneGroup
    <3>6. rows = {l}
      BY <3>4, <3>5
    <3> QED
      BY <3>6
  <2> QED
    BY <2>1, <2>2
<1> HIDE DEF rows
<1>3. Cardinality(rows) = 1
  BY <1>2, FS_Singleton
<1> QED
  BY <1>3 DEF rows

(* A row is headed by the most severe of its findings. *)
LEMMA LeadsLead == LeadsAreTheMostSevere
<1> SUFFICES ASSUME NEW l \in DOMAIN PriorityRows, NEW i \in PriorityRows[l]
             PROVE  RankOf(l) <= RankOf(i)
  BY DEF LeadsAreTheMostSevere
<1>1. PICK k \in SharedCauses : Lead(RootGroups[k]) = l /\ i \in Related(RootGroups[k])
  BY RowsAreFindings
<1>2. PICK j \in Present(RootGroups[k]) : RootGroups[k][j] = i
  BY <1>1 DEF Related
<1>3. IsLead(RootGroups[k], l)
  BY <1>1, SharedCausesHaveALead
<1>4. /\ l \in Ids(Actionable) /\ i \in Ids(Actionable)
      /\ RankOf(l) < RankOf(i) \/ RankOf(l) = RankOf(i)
  BY <1>2, <1>3 DEF IsLead, Present
<1>5. RankOf(l) \in {0, 1} /\ RankOf(i) \in {0, 1}
  BY <1>4, RanksAreKnown
<1> QED
  BY <1>4, <1>5

(* Grade, areas, exit status and priority list agree: engine.py draws them *)
(* from one list of findings, and no category or root-cause group is such  *)
(* that one of them tells more, or less, than another.                     *)
THEOREM ConclusionsAgreeThm == Spec => []ConclusionsAgree
<1>1. TypeOK => ConclusionsAgree
  BY GradeFollows, OneRowEach, LeadsLead DEF ConclusionsAgree
<1> QED
  BY <1>1, AnalysisTypes, PTL
=============================================================================
