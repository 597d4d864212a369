------------------------------ MODULE Findings ------------------------------
(***************************************************************************)
(* Findings of the rules: an id and a severity, and for the rules that     *)
(* name nodes or indices the names.                                        *)
(***************************************************************************)
EXTENDS Integers

Severities == {"CRITICAL", "WARNING", "INFO", "OK"}
Rank == [CRITICAL |-> 0, WARNING |-> 1, INFO |-> 2, OK |-> 3]
Serious == {"CRITICAL", "WARNING"}

Finding(i, s) == [id |-> i, severity |-> s]
Naming(i, s, names) == [id |-> i, severity |-> s, affected |-> names]

Ids(fs) == {f.id : f \in fs}

SeverityIn(fs, i) == (CHOOSE f \in fs : f.id = i).severity

SeriousOf(fs) == {f \in fs : f.severity \in Serious}

(* A rule that reports when something is there to report.                  *)
IfSo(condition, f) == IF condition THEN {f} ELSE {}

-----------------------------------------------------------------------------
(* A report is what the rules made of a bundle: the findings, the rules    *)
(* that were skipped and those that failed.                                *)

(* Mutant: a rule that failed counts as run. *)
Skipped(rep) == rep.skipped

(* The rules that did not run on a bundle. *)
NotRun(rep) == rep.skipped \cup rep.failed

(* The rows of DIF-012: ids that are new, worse and resolved.              *)
SeriousIn(rep) == SeriousOf(rep.found)

FindingDelta(old, new) ==
    LET bs == SeriousIn(old)
        cs == SeriousIn(new)
    IN  [new   |-> {i \in Ids(cs) \ Ids(bs) : i \notin NotRun(old)},
         fixed |-> {i \in Ids(bs) \ Ids(cs) : i \notin NotRun(new)},
         worse |-> {i \in Ids(cs) \cap Ids(bs) :
                       Rank[SeverityIn(cs, i)] < Rank[SeverityIn(bs, i)]}]
=============================================================================
