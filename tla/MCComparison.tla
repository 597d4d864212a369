---------------------------- MODULE MCComparison ----------------------------
(* Instances of Comparison and Throughput for TLC. *)
EXTENDS Throughput, TLC

CONSTANTS n1, n2

(* A node counted nothing, or one event of every kind, before the model    *)
(* starts to watch it.                                                     *)
SomePast == {Zero, [k \in Counter |-> 1]}

(* One tier. *)
OneTier == [n \in Node |-> "hot"]

NodeSymmetry == Permutations({n1, n2})
=============================================================================
