----------------------------- MODULE Comparison -----------------------------
(***************************************************************************)
(* The counter rules of esdoctor/diff.py: what compare() concludes from    *)
(* the two bundles of ClusterHistory about restarts, membership and the    *)
(* growth of the cumulative counters (DIF-002 to DIF-007).  compare() is a *)
(* function of the two bundles, so the rules are operators over `base` and *)
(* `cur`; the properties below relate their result to what really happened *)
(* in the cluster between the two stats calls.                             *)
(***************************************************************************)
EXTENDS ClusterHistory, Functions

CONSTANTS
    MinSlack,       \* the slack of 10 minutes (600000 ms)
    SlackShare,     \* the slack of 5%: one part in 20 of the interval
    RejectedCrit,   \* threshold rejected_crit
    BreakerCrit,    \* threshold breaker_delta_crit
    GcPerHour,      \* threshold old_gc_per_hour_warn, and how long an hour is
    Hour,
    GcShareNum,     \* threshold old_gc_time_ratio_warn, as a fraction
    GcShareDen

ASSUME SlackAssumption ==
    /\ MinSlack \in Nat
    /\ SlackShare \in Nat \ {0}
    /\ MaxLag <= MinSlack
    /\ {RejectedCrit, BreakerCrit} \subseteq Nat
    /\ {GcPerHour, Hour, GcShareNum, GcShareDen} \subseteq Nat

-----------------------------------------------------------------------------
(* The interval is known when both bundles are dated and time passed.      *)
Known == base.dated /\ cur.dated /\ cur.opened > base.opened

Elapsed == cur.opened - base.opened

(* Both sides of the code's comparison are whole milliseconds but for the  *)
(* slack, so its integer part decides in the same way.                     *)
Slack == IF Elapsed \div SlackShare > MinSlack THEN Elapsed \div SlackShare
                                               ELSE MinSlack

(* Mutant: only an uptime that fell counts. *)
RestartedByFall(n) ==
    base.uptime[n] # 0 /\ cur.uptime[n] # 0 /\ cur.uptime[n] < base.uptime[n]

(* _restarted: an uptime of 0 or None says nothing. *)
Restarted(n) ==
    /\ base.uptime[n] # 0
    /\ cur.uptime[n] # 0
    /\ \/ cur.uptime[n] < base.uptime[n]
       \/ Known /\ cur.uptime[n] + Slack < base.uptime[n] + Elapsed

(* Mutant: any uptime will do. *)
JoinedAnyhow(n) == cur.uptime[n] # 0 /\ Known

(* _joined_fresh: the node started inside the interval. *)
JoinedFresh(n) ==
    /\ cur.uptime[n] # 0
    /\ Known
    /\ cur.uptime[n] <= Elapsed + Slack

(* Mutant: every rate divides by the interval. *)
SpanOfInterval(n) == Elapsed

(* _span_hours: what a rate divides by; there is none for a node that kept *)
(* running in an interval that is not known.                               *)
HasSpan(n) == Known \/ Restarted(n)

Span(n) ==
    IF n \in base.listed /\ ~Restarted(n) THEN Elapsed
    ELSE IF cur.uptime[n] # 0 THEN cur.uptime[n] ELSE Elapsed

-----------------------------------------------------------------------------
(* r_node_restart *)
RestartedNodes == {n \in base.listed \cap cur.listed : Restarted(n)}
LeftNodes      == base.listed \ cur.listed
JoinedNodes    == cur.listed \ base.listed

(* The nodes whose counters are compared, shared by the three delta rules. *)
Compared == {n \in cur.listed : n \in base.listed \/ JoinedFresh(n)}

(* Mutants: no baseline at all; no reset at a restart. *)
BeforeIsNothing(n, k) == 0

BeforeIsKept(n, k) == IF n \notin base.listed THEN 0 ELSE base.count[n][k]

(* The value the current one is compared with: 0 for a node that joined or *)
(* restarted.                                                              *)
Before(n, k) ==
    IF n \notin base.listed \/ Restarted(n) THEN 0 ELSE base.count[n][k]

Difference(n, k) == cur.count[n][k] - Before(n, k)

(* A row of r_rejections_delta or r_breaker_delta: a counter that grew. *)
Grown(kinds) == {r \in Compared \X kinds : Difference(r[1], r[2]) > 0}

Total(kinds) == SumFunction([r \in Grown(kinds) |-> Difference(r[1], r[2])])

(* r_gc_delta leaves out a node whose collection count went down. *)
GcRows == {n \in Compared : Difference(n, GcCount) > 0}

GcTimeGrowth(n) == Difference(n, GcTime)

(* Old GC worth a warning: collections per hour, or the share of the time. *)
TooMuchGc(collections, time, span) ==
    \/ collections * Hour >= GcPerHour * span
    \/ time * GcShareDen >= GcShareNum * span

(* The severity of DIF-006, or "none". *)
r_gc_delta ==
    CASE GcRows = {} -> "none"
      [] \E n \in GcRows :
           HasSpan(n) /\ TooMuchGc(Difference(n, GcCount), GcTimeGrowth(n), Span(n))
           -> "WARNING"
      [] OTHER -> "INFO"

(* r_rejections_delta: past history when nothing grew but some node has    *)
(* rejections.                                                             *)
PastHistory ==
    /\ Grown(Pool) = {}
    /\ \E n \in cur.listed, k \in Pool : cur.count[n][k] # 0

RejectionsCritical == Grown(Pool) # {} /\ Total(Pool) >= RejectedCrit
BreakersCritical   == Grown(Breaker) # {} /\ Total(Breaker) >= BreakerCrit

(* What compare() reports, as finding ids. *)
Findings ==
    {f \in {"DIF-002", "DIF-003", "DIF-004", "DIF-005", "DIF-006", "DIF-007"} :
        CASE f = "DIF-002" -> RestartedNodes # {}
          [] f = "DIF-003" -> LeftNodes # {} \/ JoinedNodes # {}
          [] f = "DIF-004" -> PastHistory
          [] f = "DIF-005" -> Grown(Pool) # {}
          [] f = "DIF-006" -> r_gc_delta # "none"
          [] f = "DIF-007" -> Grown(Breaker) # {}}

-----------------------------------------------------------------------------
Compares == phase = "done"

(* The nodes both bundles have statistics of. *)
Answered == base.answered \cap cur.answered

(* A node that was up for longer than the slack when the earlier bundle    *)
(* was read, so that a restart after it shows in the uptime.               *)
LongUp(n) == n \in base.answered /\ base.uptime[n] > Slack + MaxLag

(* DIF-002 and every reset to 0 rest on a restart that took place: a node  *)
(* that kept running is never taken for a restarted one, however late the  *)
(* stats of either bundle were read after its date.                        *)
RestartsAreReal == Compares => \A n \in RestartedNodes : n \in bounced

(* A restart in a known interval does not go unnoticed when the node had   *)
(* been up for longer than the slack.                                      *)
RestartsAreNoticed ==
    Compares /\ Known =>
        \A n \in Answered \cap bounced : LongUp(n) => Restarted(n)

(* Restarts are told from late answers and from downtimes of the           *)
(* collector, in both directions.                                          *)
RestartsAreTold == RestartsAreReal /\ RestartsAreNoticed

(* The growth of a counter is never more than the events that took place   *)
(* since the earlier stats call: old history is not reported as new.       *)
GrowthIsReal ==
    Compares => \A n \in Answered, k \in Counter : Difference(n, k) <= since[n][k]

(* For a node whose restarts show, the growth misses nothing that the      *)
(* process now running has counted, and for one that kept running it is    *)
(* exactly what took place.                                                *)
GrowthIsComplete ==
    Compares /\ Known =>
        \A n \in Answered, k \in Counter :
            LongUp(n) => Difference(n, k) =
                            IF n \in bounced THEN cur.count[n][k] ELSE since[n][k]

(* A node missing from the earlier bundle contributes only what it counted *)
(* after a start that lies inside the interval, up to the slack.           *)
JoinedGrowthIsRecent ==
    Compares =>
        \A n \in Compared \ base.listed :
            cur.began[n] + Slack + MaxLag >= base.at

(* What the process that the later bundle saw counted after the earlier    *)
(* stats call, and the time it had for it; everything for a process that   *)
(* started later, or that no earlier stats tell of.                        *)
IsAllNew(n) == n \in bounced \/ n \notin base.answered

Recent(n, k) == IF IsAllNew(n) THEN cur.count[n][k] ELSE since[n][k]

RecentTime(n) == IF IsAllNew(n) THEN cur.uptime[n] ELSE cur.at - base.at

(* When every node's restarts show, rejections called past history         *)
(* (DIF-004) have stopped: no process that is running rejected anything    *)
(* since the earlier bundle.                                               *)
PastHistoryHasStopped ==
    Compares /\ Known /\ "DIF-004" \in Findings
      /\ (\A n \in cur.listed : n \in Answered /\ LongUp(n)) =>
        \A n \in cur.listed, k \in Pool : Recent(n, k) = 0

(* The old GC time shown for an interval is never negative when restarts   *)
(* show, although the rule guards only the collection count.               *)
GcTimeNeverRunsBack ==
    Compares /\ Known =>
        \A n \in GcRows \cap Answered : LongUp(n) => GcTimeGrowth(n) >= 0

(* What the delta rules take for growth (DIF-004 to DIF-007) is what       *)
(* happened since the earlier stats call: nothing old, nothing missing,    *)
(* nothing negative, and nothing still going on is called past.            *)
GrowthIsExact ==
    GrowthIsReal /\ GrowthIsComplete /\ GcTimeNeverRunsBack /\ PastHistoryHasStopped

(* The share of the interval that DIF-006 says a node spent in old GC is   *)
(* at most 100%, but for the time between the date and the stats of a      *)
(* bundle: the growth of the GC time is divided by a span that covers it.  *)
GcShareIsAShare ==
    Compares /\ Known =>
        \A n \in GcRows : n \in base.answered \/ n \notin base.listed
                            => GcTimeGrowth(n) <= Span(n) + MaxLag

(* Whether all that counts for the three delta rules shows: every node     *)
(* they compare joined, or has stats in both bundles and was up for long.  *)
GrowthShows ==
    Known /\ \A n \in Compared \cap base.listed : n \in Answered /\ LongUp(n)

(* A critical DIF-005 or DIF-007 stands for at least as many rejections,   *)
(* or trips, of the processes now running as its threshold says, summed    *)
(* over the nodes: none that was told before, none that a restart took     *)
(* away, whichever nodes were silent.  When all growth shows, it is raised *)
(* whenever so many took place.                                            *)
RecentTotal(kinds) == SumFunction([r \in Compared \X kinds |-> Recent(r[1], r[2])])

VerdictsAreEarned ==
    Compares =>
        /\ RejectionsCritical => RecentTotal(Pool) >= RejectedCrit
        /\ BreakersCritical => RecentTotal(Breaker) >= BreakerCrit
        /\ GrowthShows /\ RecentTotal(Pool) > 0 /\ RecentTotal(Pool) >= RejectedCrit
             => RejectionsCritical
        /\ GrowthShows /\ RecentTotal(Breaker) > 0 /\ RecentTotal(Breaker) >= BreakerCrit
             => BreakersCritical

(* A DIF-006 that warns stands for a node whose process really spent that  *)
(* much on old GC in the time it had, but for a node that the earlier      *)
(* bundle lists without stats; and it warns when a process did, if that    *)
(* shows.  Time is right up to the lag between the date and the stats.     *)
GcWarningIsEarned ==
    Compares =>
        /\ r_gc_delta = "WARNING" =>
             \E n \in Compared :
                \/ n \in base.listed \ base.answered
                \/ /\ Recent(n, GcCount) > 0
                   /\ TooMuchGc(Recent(n, GcCount), Recent(n, GcTime), RecentTime(n) - MaxLag)
        /\ \A n \in Compared :
             /\ Known /\ (n \in base.listed => n \in Answered /\ LongUp(n))
             /\ Recent(n, GcCount) > 0
             /\ TooMuchGc(Recent(n, GcCount), Recent(n, GcTime), RecentTime(n) + MaxLag)
             => r_gc_delta = "WARNING"

(* The rates and shares of DIF-006, and its severity, are those of the     *)
(* process that ran: a restart neither hides old GC nor inflates it.       *)
GcVerdictIsEarned == GcWarningIsEarned /\ GcShareIsAShare

-----------------------------------------------------------------------------
(* What the docstring of _joined_fresh says: a node that ran all along but *)
(* was missing from the earlier stats has old history, so its counters are *)
(* no growth.                                                              *)
MissingStatsAreHistory ==
    Compares /\ Known =>
        \A n \in cur.answered \ base.answered, k \in Pool :
            cur.uptime[n] > Elapsed + Slack => <<n, k>> \notin Grown(Pool)
=============================================================================
