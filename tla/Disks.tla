------------------------------- MODULE Disks --------------------------------
(***************************************************************************)
(* Disks of the data nodes, from the moment they fill up to what the       *)
(* program says of them: the watermarks as context.py computes them, the   *)
(* findings of r_disk and the disk indicator of r_internal_health on one   *)
(* bundle, and r_disk_projection on two.                                   *)
(*                                                                         *)
(* Elasticsearch and the collector are external.  A collection reads       *)
(* nodes.json, the health report and the stats at three moments, and disks *)
(* fill, empty and grow and nodes come and go between any two of them.     *)
(* Bytes are units; percentages of a total are kept exact by comparing a   *)
(* hundred times the bytes.                                                *)
(***************************************************************************)
EXTENDS Findings, FiniteSetsExt, Functions, Sequences

CONSTANTS
    Node,         \* the data nodes
    Tier,         \* their tiers as tier_of() labels them
    Layouts,      \* the disks nodes may start with: node -> data paths
    Settings,     \* the watermarks a cluster may have
    Silent,       \* sets of nodes that may fail to answer the stats call
    TickHours,    \* hours between two ticks of the clock
    WarnDays,     \* disk_projection_days_warn
    Margin,       \* disk_low_margin_pct
    Imbalance,    \* disk_imbalance_pct_warn
    MaxTicks,     \* bound: ticks of the clock
    MaxEvents     \* bound: changes of disks and nodes

Kind == {"low", "high", "flood_stage", "flood_stage.frozen"}

(* A headroom that is not set, and one that is set to -1, which is none.   *)
NotSet == -2

(* Disks have a size and not more free than that.                          *)
Disks_ == {d \in [total : Nat, avail : Nat] : d.avail <= d.total}

ASSUME LayoutsAssumption ==
    /\ IsFiniteSet(Node)
    /\ \A l \in Layouts : l \in [Node -> Seq(Disks_) \ {<<>>}]
    /\ {TickHours, Margin, Imbalance, MaxTicks, MaxEvents} \subseteq Nat
    /\ WarnDays \in Nat /\ WarnDays >= 7

(* The places a headroom may be set in, and whether the watermark itself   *)
(* is more than a default.                                                 *)
ASSUME SettingsAssumption ==
    \A s \in Settings :
        /\ s.old \in BOOLEAN
        /\ \A k \in Kind :
              /\ s.mark[k].percent \in BOOLEAN /\ s.mark[k].value \in Nat
              /\ s.mark[k].percent => s.mark[k].value <= 100
              /\ s.explicit[k] \in BOOLEAN
              /\ \A place \in {"cluster", "yml", "defaults"} : s.head[k][place] \in Int

VARIABLES
    settings,   \* the cluster's watermarks
    member,     \* nodes in the cluster
    disk,       \* node -> its data paths
    clock,      \* ticks since the start
    events,     \* changes of disks and nodes so far
    stage,      \* what the collector does next: see Call
    base, cur,  \* the two bundles
    grown,      \* ghost: bytes written less those deleted since the base's stats
    calm        \* ghost: nothing happened since the last health report

vars == <<settings, member, disk, clock, events, stage, base, cur, grown, calm>>

(* A bundle: its date, the nodes it lists, the disk indicator and the data *)
(* paths of the nodes that answered; calm and everyone are ghosts.         *)
Empty == [date |-> 0, nodes |-> {}, health |-> "green", fs |-> <<>>,
          calm |-> FALSE, everyone |-> FALSE]

Init ==
    /\ settings \in Settings
    /\ member = Node
    /\ disk \in Layouts
    /\ clock = 0 /\ events = 0 /\ stage = 1
    /\ base = Empty /\ cur = Empty
    /\ grown = [n \in Node |-> 0] /\ calm = FALSE

-----------------------------------------------------------------------------
(* Watermarks.  RequiredFree is a hundred times the bytes that have to     *)
(* stay free below a watermark.                                            *)
Headroom(s, kind) ==
    LET head == s.head[kind]
    IN  CASE head.cluster # NotSet -> head.cluster
          [] head.cluster = NotSet /\ head.yml # NotSet -> head.yml
          [] OTHER ->
               IF (s.old /\ kind # "flood_stage.frozen") \/ s.explicit[kind]
               THEN NotSet ELSE head.defaults

(* Elasticsearch takes no flood stage that is passed before high: both are *)
(* percentages or both are bytes, and a headroom of high needs one of      *)
(* flood stage that is no larger.                                          *)
ASSUME LegalAssumption ==
    \A s \in Settings :
        LET high  == s.mark["high"]
            flood == s.mark["flood_stage"]
            head  == Headroom(s, "high")
        IN  /\ high.percent = flood.percent
            /\ IF high.percent THEN high.value <= flood.value ELSE flood.value <= high.value
            /\ head >= 0 => Headroom(s, "flood_stage") \in 0 .. head

RequiredFree(s, kind, total) ==
    LET mark == s.mark[kind]
        part == total * (100 - mark.value)
        head == 100 * Headroom(s, kind)
    IN  CASE ~mark.percent -> 100 * mark.value
          [] mark.percent /\ head >= 0 -> IF head < part THEN head ELSE part
          [] OTHER -> part

(* A watermark of exactly 0% used reads as none. *)
Rated(s, kind, total) == RequiredFree(s, kind, total) # 100 * total

Over(s, kind, path) ==
    /\ Rated(s, kind, path.total)
    /\ 100 * path.avail <= RequiredFree(s, kind, path.total)

Nearly(s, kind, path) ==
    /\ Rated(s, kind, path.total)
    /\ 100 * path.avail <= RequiredFree(s, kind, path.total) + Margin * path.total

(* ES judges flood stage and high on the path with the least bytes free    *)
(* and low on the one with the most; one path is taken from fs.total.      *)
Fuller(p, q) == p.avail < q.avail \/ (p.avail = q.avail /\ p.total <= q.total)

LeastPath(fs) ==
    CHOOSE p \in {fs[i] : i \in DOMAIN fs} : \A i \in DOMAIN fs : Fuller(p, fs[i])

MostPath(fs) ==
    CHOOSE p \in {fs[i] : i \in DOMAIN fs} : \A i \in DOMAIN fs : Fuller(fs[i], p)

Whole(fs) == [total |-> SumFunction([i \in DOMAIN fs |-> fs[i].total]),
              avail |-> SumFunction([i \in DOMAIN fs |-> fs[i].avail])]

-----------------------------------------------------------------------------
(* The rules on one bundle b.  A node that did not answer has no disk.     *)
Seen(b) == DOMAIN b.fs

Frozen(b) == {n \in Seen(b) : Tier[n] = "frozen"}
Warm(b)   == Seen(b) \ Frozen(b)

OverFlood(b) == {n \in Warm(b) : Over(settings, "flood_stage", LeastPath(b.fs[n]))}

OverHigh(b) ==
    {n \in Warm(b) \ OverFlood(b) : Over(settings, "high", LeastPath(b.fs[n]))}

OverLow(b) ==
    {n \in Warm(b) \ (OverFlood(b) \cup OverHigh(b)) :
        Over(settings, "low", MostPath(b.fs[n]))}

NearLow(b) ==
    {n \in Warm(b) \ (OverFlood(b) \cup OverHigh(b) \cup OverLow(b)) :
        Nearly(settings, "low", MostPath(b.fs[n]))}

OverFrozen(b) ==
    {n \in Frozen(b) : Over(settings, "flood_stage.frozen", LeastPath(b.fs[n]))}

(* Used p exceeds used q by the imbalance. *)
Apart(p, q) ==
    100 * ((p.total - p.avail) * q.total - (q.total - q.avail) * p.total)
        >= Imbalance * p.total * q.total

Uneven(b) ==
    \E n, o \in Warm(b) : Tier[n] = Tier[o] /\ Apart(LeastPath(b.fs[n]), LeastPath(b.fs[o]))

(* Mutant: DISK-001 of the caches takes the place of that of the others. *)
DiskFindingsOneEach(b) ==
    IF OverFrozen(b) # {} THEN {Finding("DISK-001", "INFO")}
    ELSE IfSo(OverFlood(b) # {}, Finding("DISK-001", "CRITICAL"))
         \cup IfSo(OverHigh(b) # {}, Finding("DISK-002", "CRITICAL"))
         \cup IfSo(OverLow(b) # {}, Finding("DISK-003", "WARNING"))

DiskFindings(b) ==
    IfSo(OverFlood(b) # {}, Finding("DISK-001", "CRITICAL"))
    \cup IfSo(OverFrozen(b) # {}, Finding("DISK-001", "INFO"))
    \cup IfSo(OverHigh(b) # {}, Finding("DISK-002", "CRITICAL"))
    \cup IfSo(OverLow(b) # {}, Finding("DISK-003", "WARNING"))
    \cup IfSo(/\ NearLow(b) # {}
              /\ OverFlood(b) \cup OverHigh(b) \cup OverLow(b) = {},
              Finding("DISK-004", "WARNING"))
    \cup IfSo(Uneven(b), Finding("DISK-005", "WARNING"))

r_disk(b) ==
    CASE Seen(b) = {} -> {}
      [] Seen(b) # {} /\ DiskFindings(b) = {} -> {Finding("DISK-001", "OK")}
      [] OTHER -> DiskFindings(b)

(* Mutant: a cache over its flood stage is reason enough. *)
any_frozen_alarm(b) == OverFrozen(b) # {}

(* context: only frozen nodes, which are caches, are over their flood stage. *)
frozen_disk_only_alarm(b) ==
    /\ OverFrozen(b) # {}
    /\ ~\E n \in Warm(b) : Over(settings, "high", LeastPath(b.fs[n]))

(* The disk indicator of the health report as r_internal_health passes it on. *)
DiskIndicator(b) ==
    CASE b.health = "green" -> Finding("CLU-004", "OK")
      [] b.health # "green" /\ frozen_disk_only_alarm(b) -> Finding("CLU-004.disk", "INFO")
      [] b.health = "yellow" /\ ~frozen_disk_only_alarm(b) -> Finding("CLU-004.disk", "WARNING")
      [] OTHER -> Finding("CLU-004.disk", "CRITICAL")

-----------------------------------------------------------------------------
(* r_disk_projection on the base and the current bundle.                   *)
Hours == (cur.date - base.date) * TickHours

InTier(b, t) == {n \in b.nodes : Tier[n] = t}

Projected == {n \in Warm(base) \cap Warm(cur) : n \in base.nodes /\ n \in cur.nodes}

Used(fs) == Whole(fs).total - Whole(fs).avail

(* Mutant: growth is the loss of free bytes, which a resized disk hides. *)
GrowthOfFree(n) == Whole(base.fs[n]).avail - Whole(cur.fs[n]).avail

Growth(n) == Used(cur.fs[n]) - Used(base.fs[n])

(* A hundred times the bytes left before high; without a watermark 90%.    *)
Left(n) ==
    LET disk_ == Whole(cur.fs[n])
        left  == 100 * disk_.avail - (IF Rated(settings, "high", disk_.total)
                                      THEN RequiredFree(settings, "high", disk_.total)
                                      ELSE 10 * disk_.total)
    IN  IF left > 0 THEN left ELSE 0

TierGrowth(t) == SumFunction([n \in Projected \cap InTier(cur, t) |-> Growth(n)])
TierLeft(t)   == SumFunction([n \in Projected \cap InTier(cur, t) |-> Left(n)])

RatedTiers ==
    {t \in {Tier[n] : n \in Projected} : InTier(base, t) = InTier(cur, t)}

(* The tier is over high, or will be within so many days.                  *)
Within(t, days) ==
    \/ TierLeft(t) = 0
    \/ TierGrowth(t) > 0 /\ TierLeft(t) * Hours <= 100 * TierGrowth(t) * 24 * days

r_disk_projection ==
    LET soon == {t \in RatedTiers : Within(t, WarnDays)}
    IN  IF Hours = 0 \/ Projected = {} THEN {}
        ELSE {Finding("DIF-008",
                      CASE \E t \in soon : Within(t, 7) -> "CRITICAL"
                        [] soon # {} /\ ~\E t \in soon : Within(t, 7) -> "WARNING"
                        [] OTHER -> "INFO")}
-----------------------------------------------------------------------------
(* The cluster.  What happens to a disk or to the membership.              *)
Call == <<"nodes", "health", "stats", "nodes", "health", "stats", "done">>

(* What happened before the first health report is in Init.                *)
Happens ==
    /\ stage \in 3 .. 6
    /\ events < MaxEvents
    /\ events' = events + 1
    /\ calm' = FALSE
    /\ UNCHANGED <<settings, clock, stage, base, cur>>

Write(n, p) ==
    /\ Happens
    /\ n \in member /\ disk[n][p].avail > 0
    /\ disk' = [disk EXCEPT ![n][p].avail = @ - 1]
    /\ grown' = [grown EXCEPT ![n] = @ + 1]
    /\ UNCHANGED member

Delete(n, p) ==
    /\ Happens
    /\ n \in member /\ disk[n][p].avail < disk[n][p].total
    /\ disk' = [disk EXCEPT ![n][p].avail = @ + 1]
    /\ grown' = [grown EXCEPT ![n] = @ - 1]
    /\ UNCHANGED member

Enlarge(n, p) ==
    /\ Happens
    /\ disk' = [disk EXCEPT ![n][p] = [total |-> @.total + 1, avail |-> @.avail + 1]]
    /\ UNCHANGED <<member, grown>>

LeaveOrJoin(n) ==
    /\ Happens
    /\ member' = IF n \in member THEN member \ {n} ELSE member \cup {n}
    /\ UNCHANGED <<disk, grown>>

(* A collection takes no time next to what lies between two.              *)
Tick ==
    /\ stage = 4
    /\ clock < MaxTicks
    /\ clock' = clock + 1
    /\ UNCHANGED <<settings, member, disk, events, stage, base, cur, grown, calm>>

(* Elasticsearch's own disk indicator.                                     *)
Full(n, kind) ==
    100 * LeastPath(disk[n]).avail <= RequiredFree(settings, kind, LeastPath(disk[n]).total)

Stage(n) == IF Tier[n] = "frozen" THEN "flood_stage.frozen" ELSE "flood_stage"

Indicator ==
    CASE \E n \in member : Full(n, Stage(n)) -> "red"
      [] /\ ~\E n \in member : Full(n, Stage(n))
         /\ \E n \in member : Tier[n] # "frozen" /\ Full(n, "high") -> "yellow"
      [] OTHER -> "green"

(* The collector: of each bundle nodes.json with its date, the health       *)
(* report and the stats of the nodes that answer.                          *)
Collects(b) ==
    /\ stage' = stage + 1
    /\ IF stage <= 3 THEN base' = b /\ UNCHANGED cur ELSE cur' = b /\ UNCHANGED base
    /\ UNCHANGED <<settings, member, disk, clock, events>>

bundle == IF stage <= 3 THEN base ELSE cur

ListNodes ==
    /\ Call[stage] = "nodes"
    /\ Collects([Empty EXCEPT !.date = clock, !.nodes = member])
    /\ UNCHANGED <<grown, calm>>

ReadHealth ==
    /\ Call[stage] = "health"
    /\ Collects([bundle EXCEPT !.health = Indicator])
    /\ calm' = TRUE
    /\ UNCHANGED grown

(* Mutant: the node list is that of nodes.json alone. *)
ReadStatsOfListed(silent) ==
    /\ Call[stage] = "stats"
    /\ Collects([bundle EXCEPT !.fs = [n \in member \ silent |-> disk[n]], !.calm = calm,
                               !.everyone = (member \cap silent = {})])
    /\ grown' = IF stage = 3 THEN [n \in Node |-> 0] ELSE grown
    /\ UNCHANGED calm

ReadStats(silent) ==
    /\ Call[stage] = "stats"
    /\ Collects([bundle EXCEPT !.nodes = @ \cup (member \ silent),
                               !.fs = [n \in member \ silent |-> disk[n]],
                               !.calm = calm,
                               !.everyone = (member \cap silent = {})])
    /\ grown' = IF stage = 3 THEN [n \in Node |-> 0] ELSE grown
    /\ UNCHANGED calm

Next ==
    \/ \E n \in Node : \/ \E p \in DOMAIN disk[n] : Write(n, p) \/ Delete(n, p) \/ Enlarge(n, p)
                       \/ LeaveOrJoin(n)
    \/ Tick
    \/ ListNodes \/ ReadHealth
    \/ \E silent \in Silent : ReadStats(silent)

Spec == Init /\ [][Next]_vars

-----------------------------------------------------------------------------
(* The types; a node that answered is a node of the bundle. *)
TypeOK ==
    /\ settings \in Settings /\ member \subseteq Node
    /\ \A n \in Node : \A p \in DOMAIN disk[n] : disk[n][p].avail \in 0 .. disk[n][p].total
    /\ stage \in 1 .. 7 /\ clock \in 0 .. MaxTicks /\ events \in 0 .. MaxEvents
    /\ \A b \in {base, cur} : Seen(b) \subseteq b.nodes /\ b.date <= clock

collected == Call[stage] = "done"

(* Each watermark leaves something of each disk to use: one that does not  *)
(* reads as none and is not what Elasticsearch runs with.                  *)
Marked(b) ==
    \A n \in Seen(b) : \A p \in DOMAIN b.fs[n], kind \in {"high", "flood_stage", "flood_stage.frozen"} :
        Rated(settings, kind, b.fs[n][p].total)

(* The bundle whose stats were read last. *)
Collected == CASE stage = 4 -> {base} [] collected -> {cur} [] OTHER -> {}

(* The two rules that look at the disks of one moment tell the same story, *)
(* each with conditions of its own: when every node answered and nothing   *)
(* happened between the two calls, CLU-004.disk is serious just when       *)
(* DISK-001 or DISK-002 is critical, and it is played down to INFO just    *)
(* when caches alone are over their flood stage.                           *)
SameStory ==
    \A b \in Collected : b.calm /\ b.everyone /\ Marked(b) =>
        LET disks == r_disk(b)
            critical == \E f \in disks : f.severity = "CRITICAL"
        IN  /\ DiskIndicator(b).severity \in Serious <=> critical
            /\ DiskIndicator(b).severity = "INFO" <=>
                  ~critical /\ Finding("DISK-001", "INFO") \in disks

(* A cluster whose disks only got fuller is never told a milder DISK-001 to *)
(* DISK-004 than before, whichever path of a node, whichever node and      *)
(* whichever of the four took the growth.  (Of paths of two sizes ES takes *)
(* the one with the least bytes, not the fullest: there it may be.)        *)
Worst(fs) ==
    LET ranks == {Rank[f.severity] : f \in {g \in fs : g.id # "DISK-005"}}
    IN  IF ranks = {} THEN 3 ELSE Min(ranks)

OnlyFuller ==
    /\ DOMAIN base.fs = DOMAIN cur.fs
    /\ \A n \in DOMAIN base.fs : \A p \in DOMAIN base.fs[n] :
          /\ cur.fs[n][p].total = base.fs[n][p].total
          /\ cur.fs[n][p].avail <= base.fs[n][p].avail

OneSize(fs) == \A p, q \in DOMAIN fs : fs[p].total = fs[q].total

FullerIsNeverMilder ==
    collected /\ OnlyFuller /\ (\A n \in DOMAIN cur.fs : OneSize(cur.fs[n])) =>
        Worst(r_disk(cur)) <= Worst(r_disk(base))

(* The projection is of what was written: when all nodes of a tier that    *)
(* kept its nodes answered twice, DIF-008 warns of the tier if and only if *)
(* its disks have no room below high, or what was written less what was    *)
(* deleted fills it in time at that pace, however disks were enlarged.     *)
Followed(t) ==
    /\ base.everyone /\ cur.everyone
    /\ InTier(base, t) = InTier(cur, t) /\ InTier(cur, t) \subseteq Projected

WrittenIn(t) == SumFunction([n \in InTier(cur, t) |-> grown[n]])

Fills(t) ==
    \/ TierLeft(t) = 0
    \/ /\ WrittenIn(t) > 0
       /\ TierLeft(t) * Hours <= 100 * WrittenIn(t) * 24 * WarnDays

ProjectionFollowsWrites ==
    collected /\ Hours > 0 /\ (\A n \in Projected : Followed(Tier[n])) =>
        (\E f \in r_disk_projection : f.severity \in Serious)
            <=> \E n \in Projected : Followed(Tier[n]) /\ Fills(Tier[n])

(* A tier that DIF-008 counts as full is full for r_disk as well: with one *)
(* path per node every one of its nodes is over high or flood stage.       *)
FullTiersAreOverHigh ==
    collected /\ Hours > 0 /\ Marked(cur) =>
        \A t \in RatedTiers :
            TierLeft(t) = 0 /\ (\A n \in Projected : Len(cur.fs[n]) = 1) =>
                Projected \cap InTier(cur, t) \subseteq OverFlood(cur) \cup OverHigh(cur)

(* Three rules compute from the watermarks and agree on which disks are    *)
(* full.                                                                   *)
DiskRulesAgree == SameStory /\ FullTiersAreOverHigh

-----------------------------------------------------------------------------
(* en.txt: resolved findings are "the result of earlier actions", "to      *)
(* confirm the effect of earlier actions": on disks that only got fuller   *)
(* none is resolved.                                                       *)
Report(b) == [found |-> r_disk(b), skipped |-> {}, failed |-> {}]

ResolvedIsRelieved ==
    collected /\ OnlyFuller => FindingDelta(Report(base), Report(cur)).fixed \subseteq {"DISK-005"}
=============================================================================
