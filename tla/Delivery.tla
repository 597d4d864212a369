------------------------------- MODULE Delivery -------------------------------
(***************************************************************************)
(* What a run of the program promises to whoever asked for files: it comes *)
(* to its own end only with every file asked for, complete and written by  *)
(* this run, and what its exit status says is true.  The files it has not  *)
(* been asked for are left alone.                                          *)
(*                                                                         *)
(* A run may also be asked to grade what it read with its exit status.  It *)
(* then has one status less to say how it ended: a graded run may say      *)
(* "either", the bad grade or a failure.                                   *)
(***************************************************************************)
CONSTANT File

VARIABLES
    asked,      \* the files the run has to write
    graded,     \* whether the exit status is to grade, too
    delivered,  \* complete files this run wrote
    outcome,    \* "none", "open", "delivered" or "failed"
    verdict     \* what the exit status says of it

vars == <<asked, graded, delivered, outcome, verdict>>

Init ==
    /\ asked = {} /\ graded = FALSE
    /\ delivered = {}
    /\ outcome = "none" /\ verdict = "none"

Ask ==
    /\ outcome # "open"
    /\ asked' \subseteq File /\ graded' \in BOOLEAN
    /\ delivered' = {}
    /\ outcome' = "open" /\ verdict' = "open"

(* The files come one at a time. *)
Deliver(f) ==
    /\ outcome = "open"
    /\ f \in asked \ delivered
    /\ delivered' = delivered \cup {f}
    /\ UNCHANGED <<asked, graded, outcome, verdict>>

(* The run ends, and says so or, when it is graded, may not tell. *)
Close(how) ==
    /\ outcome = "open"
    /\ outcome' = how
    /\ verdict' = how \/ (graded /\ verdict' = "either")
    /\ UNCHANGED <<asked, graded, delivered>>

Conclude == delivered = asked /\ Close("delivered")

GiveUp == Close("failed")

Next ==
    \/ Ask
    \/ \E f \in File : Deliver(f)
    \/ Conclude
    \/ GiveUp

Spec == Init /\ [][Next]_vars
=============================================================================
