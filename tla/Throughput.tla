---------------------------- MODULE Throughput ------------------------------
(***************************************************************************)
(* What diff.py says each node did between the two bundles: the operations *)
(* per second and their skew within a tier (DIF-009), and the table of     *)
(* nodes at the head of the comparison.  All nodes of the model hold data. *)
(***************************************************************************)
EXTENDS Comparison, FiniteSetsExt

CONSTANTS
    Indexing,        \* the operation whose skew is judged
    Tier,            \* node -> its tier
    SkewNum, SkewDen,  \* workload_skew_ratio_warn, as a fraction
    MinWork          \* workload_skew_min_per_sec, in operations in the interval

ASSUME ThroughputAssumption ==
    /\ Indexing \in Work \/ Work = {}
    /\ {SkewNum, SkewDen, MinWork} \subseteq Nat

-----------------------------------------------------------------------------
(* Mutant: a node that restarted is rated. *)
RatedAll == base.listed \cap cur.listed

(* The nodes of both bundles whose counters were not reset, and what they  *)
(* did; counters that are missing read as 0.                               *)
Rated == {n \in base.listed \cap cur.listed : ~Restarted(n)}
Done(n, k) == Max({0, cur.count[n][k] - base.count[n][k]})

WorkOf(k) == SumFunction([n \in Rated |-> Done(n, k)])

(* Whether the values of nodes are far apart: the most of one against the  *)
(* average.                                                                *)
Apart(value) ==
    LET nodes == DOMAIN value
        sum   == SumFunction(value)
    IN  /\ Cardinality(nodes) >= 2 /\ sum > 0
        /\ sum >= MinWork * Cardinality(nodes)
        /\ \E n \in nodes : SkewDen * value[n] * Cardinality(nodes) >= SkewNum * sum

SkewedTiers ==
    {tier \in {Tier[n] : n \in Rated} :
        Apart([n \in {m \in Rated : Tier[m] = tier} |-> Done(n, Indexing)])}

(* The severity of DIF-009, or "none". *)
r_throughput ==
    CASE ~Known \/ \A k \in Work : WorkOf(k) = 0 -> "none"
      [] Known /\ (\E k \in Work : WorkOf(k) > 0) /\ SkewedTiers # {} -> "WARNING"
      [] OTHER -> "INFO"

-----------------------------------------------------------------------------
(* A row of the table of nodes; work is shown as a rate if the interval is *)
(* known.                                                                  *)
Rejected(b, n) == SumFunction([k \in Pool |-> b.count[n][k]])

(* Mutant: a restart shows only if the uptime went down. *)
node_changes_by_fall(n) ==
    CASE n \notin base.listed -> [shows |-> "new"]
      [] n \in base.listed \ cur.listed -> [shows |-> "left"]
      [] n \in base.listed \cap cur.listed ->
           IF RestartedByFall(n) THEN [shows |-> "restarted"]
           ELSE [shows    |-> "before and now",
                 rejected |-> Max({0, Rejected(cur, n) - Rejected(base, n)}),
                 gc       |-> Max({0, cur.count[n][GcCount] - base.count[n][GcCount]}),
                 work     |-> [k \in Work |-> Done(n, k)]]

node_changes(n) ==
    CASE n \notin base.listed -> [shows |-> "new"]
      [] n \in base.listed \ cur.listed -> [shows |-> "left"]
      [] n \in base.listed \cap cur.listed ->
           IF Restarted(n) THEN [shows |-> "restarted"]
           ELSE [shows    |-> "before and now",
                 rejected |-> Max({0, Rejected(cur, n) - Rejected(base, n)}),
                 gc       |-> Max({0, cur.count[n][GcCount] - base.count[n][GcCount]}),
                 work     |-> [k \in Work |-> Done(n, k)]]

-----------------------------------------------------------------------------
(* Every node that both bundles list has stats in both and was up long     *)
(* enough for a restart to show.                                           *)
AllShow == Known /\ \A n \in base.listed \cap cur.listed : n \in Answered /\ LongUp(n)

Kept == (base.listed \cap cur.listed) \ bounced

(* DIF-009 counts no operation that was done before the earlier bundle,    *)
(* even of nodes that are silent in the later one or whose restart does    *)
(* not show, and every one of the nodes that kept running, if all show.    *)
WorkIsWhatWasDone ==
    Compares =>
        \A k \in Work :
            LET Really(nodes) == SumFunction([n \in nodes |-> since[n][k]])
            IN  /\ base.listed \cap cur.listed \subseteq base.answered
                     => WorkOf(k) <= Really(base.listed \cap cur.listed)
                /\ AllShow => WorkOf(k) = Really(Kept)

(* A tier is said to be skewed if and only if the nodes in it that kept    *)
(* running did their work unevenly: a restart is not taken for idleness.   *)
SkewIsReal ==
    Compares /\ AllShow /\ Indexing \in Work =>
        (r_throughput = "WARNING" <=>
            \E tier \in {Tier[n] : n \in Kept} :
                Apart([n \in {m \in Kept : Tier[m] = tier} |-> since[n][Indexing]]))

(* DIF-009, its totals and its skew, is about the interval.                *)
ThroughputIsReal == WorkIsWhatWasDone /\ SkewIsReal

(* The table shows no rejection and no collection of old, and all of those *)
(* of a node that kept running; a node is shown as restarted when it was.  *)
TableShowsWhatHappened ==
    Compares =>
        \A n \in Answered :
            LET row == node_changes(n)
                rejections == SumFunction([k \in Pool |-> since[n][k]])
            IN  /\ row.shows = "before and now" =>
                      row.rejected <= rejections /\ row.gc <= since[n][GcCount]
                /\ Known /\ LongUp(n) =>
                      /\ (row.shows = "restarted") = (n \in bounced)
                      /\ n \notin bounced => row.rejected = rejections /\ row.gc = since[n][GcCount]
=============================================================================
