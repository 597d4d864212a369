---------------------------- MODULE Disks_proofs -----------------------------
(***************************************************************************)
(* What the rules say of disks, for any nodes, tiers, data paths and       *)
(* watermarks (LayoutsAssumption, SettingsAssumption, LegalAssumption) and *)
(* any number of ticks and of changes between two reads: the inductive     *)
(* invariant says what a bundle knows of the disks at the time of its      *)
(* stats and of its health report, and how much was written since.  The    *)
(* rest is arithmetic of the watermarks and of the sums over paths and     *)
(* nodes.                                                                  *)
(***************************************************************************)
EXTENDS Disks, SetTheorems, SequenceTheorems

(* The data paths of a node: one or more. *)
Paths == Seq(Disks_) \ {<<>>}

-----------------------------------------------------------------------------
(* The watermarks. *)
Watched == {"high", "flood_stage", "flood_stage.frozen"}

LEMMA HeadroomIsInt ==
  ASSUME NEW s \in Settings, NEW kind \in Kind
  PROVE  Headroom(s, kind) \in Int
<1>1. \A place \in {"cluster", "yml", "defaults"} : s.head[kind][place] \in Int
  BY SettingsAssumption
<1>2. /\ s.head[kind].cluster \in Int /\ s.head[kind].yml \in Int
      /\ s.head[kind].defaults \in Int
  BY <1>1
<1> QED
  BY <1>2 DEF Headroom, NotSet

LEMMA RequiredFreeIsInt ==
  ASSUME NEW s \in Settings, NEW kind \in Kind, NEW total \in Nat
  PROVE  RequiredFree(s, kind, total) \in Int
<1> DEFINE part == total * (100 - s.mark[kind].value)
           head == Headroom(s, kind)
<1>1. s.mark[kind].value \in Nat /\ s.mark[kind].percent \in BOOLEAN
  BY SettingsAssumption
<1>2. part \in Int /\ head \in Int /\ 100 * s.mark[kind].value \in Int
  BY <1>1, HeadroomIsInt
<1>3. RequiredFree(s, kind, total) =
        CASE ~s.mark[kind].percent -> 100 * s.mark[kind].value
          [] s.mark[kind].percent /\ 100 * head >= 0 -> IF 100 * head < part THEN 100 * head ELSE part
          [] OTHER -> part
  BY DEF RequiredFree
<1> HIDE DEF part, head
<1> QED
  BY <1>1, <1>2, <1>3

(* More than one factor cannot be less. *)
LEMMA ProductsGrow ==
  ASSUME NEW t \in Nat, NEW a \in Int, NEW b \in Int, a <= b
  PROVE  t * a <= t * b
OBVIOUS

(* Flood stage leaves no more free than high. *)
LEMMA FloodIsPastHigh ==
  ASSUME NEW total \in Nat, settings \in Settings
  PROVE  RequiredFree(settings, "flood_stage", total) <= RequiredFree(settings, "high", total)
<1> DEFINE s == settings
           high == s.mark["high"]
           flood == s.mark["flood_stage"]
           hh == Headroom(s, "high")
           fh == Headroom(s, "flood_stage")
           hp == total * (100 - high.value)
           fp == total * (100 - flood.value)
<1>1. /\ high.percent = flood.percent
      /\ high.percent => high.value <= flood.value
      /\ ~high.percent => flood.value <= high.value
      /\ hh >= 0 => fh \in 0 .. hh
  BY LegalAssumption
<1>2. "high" \in Kind /\ "flood_stage" \in Kind
  BY DEF Kind
<1>3. /\ high.value \in Nat /\ flood.value \in Nat
      /\ high.percent \in BOOLEAN /\ flood.percent \in BOOLEAN
      /\ high.percent => high.value <= 100 /\ flood.value <= 100
  BY <1>1, <1>2, SettingsAssumption
<1>4. hh \in Int /\ fh \in Int /\ hp \in Int /\ fp \in Int
  BY <1>2, <1>3, HeadroomIsInt
<1>5. high.percent => fp <= hp
  <2>1. high.percent => 100 - flood.value <= 100 - high.value
    BY <1>1, <1>3
  <2>2. 100 - flood.value \in Int /\ 100 - high.value \in Int
    BY <1>3
  <2> QED
    BY <2>1, <2>2, ProductsGrow
<1>6. RequiredFree(s, "high", total) =
        CASE ~high.percent -> 100 * high.value
          [] high.percent /\ 100 * hh >= 0 -> IF 100 * hh < hp THEN 100 * hh ELSE hp
          [] OTHER -> hp
  BY DEF RequiredFree
<1>7. RequiredFree(s, "flood_stage", total) =
        CASE ~flood.percent -> 100 * flood.value
          [] flood.percent /\ 100 * fh >= 0 -> IF 100 * fh < fp THEN 100 * fh ELSE fp
          [] OTHER -> fp
  BY DEF RequiredFree
<1>8. CASE ~high.percent
  <2>1. RequiredFree(s, "high", total) = 100 * high.value
    BY <1>6, <1>8
  <2>2. RequiredFree(s, "flood_stage", total) = 100 * flood.value
    BY <1>1, <1>7, <1>8
  <2> QED
    BY <1>1, <1>3, <1>8, <2>1, <2>2
<1>9. CASE high.percent
  <2> HIDE DEF hp, fp, hh, fh
  <2>1. CASE hh >= 0
    <3>1. RequiredFree(s, "high", total) = IF 100 * hh < hp THEN 100 * hh ELSE hp
      BY <1>4, <1>6, <1>9, <2>1
    <3>2. RequiredFree(s, "flood_stage", total) = IF 100 * fh < fp THEN 100 * fh ELSE fp
      BY <1>1, <1>4, <1>7, <1>9, <2>1
    <3> QED
      BY <1>1, <1>4, <1>5, <1>9, <2>1, <3>1, <3>2
  <2>2. CASE ~(hh >= 0)
    <3>1. RequiredFree(s, "high", total) = hp
      BY <1>4, <1>6, <1>9, <2>2
    <3>2. RequiredFree(s, "flood_stage", total) <= fp /\ RequiredFree(s, "flood_stage", total) \in Int
      BY <1>1, <1>4, <1>7, <1>9
    <3> QED
      BY <1>4, <1>5, <1>9, <3>1, <3>2
  <2> QED
    BY <2>1, <2>2
<1> QED
  BY <1>3, <1>8, <1>9

-----------------------------------------------------------------------------
(* A node has a path with the least bytes free and one with the most.      *)
LEMMA APathIsFullest ==
  ASSUME NEW fs \in Paths
  PROVE  /\ \E i \in DOMAIN fs : LeastPath(fs) = fs[i]
         /\ \E i \in DOMAIN fs : MostPath(fs) = fs[i]
         /\ \A i \in DOMAIN fs : Fuller(LeastPath(fs), fs[i]) /\ Fuller(fs[i], MostPath(fs))
<1> DEFINE D == DOMAIN fs
           R == {r \in D \X D : Fuller(fs[r[1]], fs[r[2]])}
           B == {r \in D \X D : Fuller(fs[r[2]], fs[r[1]])}
<1>1. D = 1 .. Len(fs) /\ Len(fs) \in Nat \ {0} /\ \A i \in D : fs[i] \in Disks_
  BY DEF Paths
<1>2. IsFiniteSet(D) /\ D # {}
  <2> HIDE DEF D
  <2>1. IsFiniteSet(D)
    BY <1>1, FS_Interval
  <2> QED
    BY <1>1, <2>1
<1>3. \A i \in D : fs[i].total \in Nat /\ fs[i].avail \in Nat
  BY <1>1 DEF Disks_
<1>4. \A i, j \in D : /\ <<i, j>> \in R <=> Fuller(fs[i], fs[j])
                      /\ <<i, j>> \in B <=> Fuller(fs[j], fs[i])
  OBVIOUS
<1> HIDE DEF D, R, B
<1>5. /\ \A i, j \in D : Fuller(fs[i], fs[j]) \/ Fuller(fs[j], fs[i])
      /\ \A i, j, k \in D : Fuller(fs[i], fs[j]) /\ Fuller(fs[j], fs[k]) => Fuller(fs[i], fs[k])
  BY <1>3 DEF Fuller
<1>6. \E i \in D : \A j \in D : Fuller(fs[i], fs[j])
  <2>1. /\ \A i, j \in D : <<i, j>> \in R \/ <<j, i>> \in R
        /\ \A i, j, k \in D : <<i, j>> \in R /\ <<j, k>> \in R => <<i, k>> \in R
    BY <1>4, <1>5
  <2>2. \E i \in D : \A j \in D : <<i, j>> \in R
    BY <1>2, <2>1, OneComesFirst
  <2> QED
    BY <1>4, <2>2
<1>7. \E i \in D : \A j \in D : Fuller(fs[j], fs[i])
  <2>1. /\ \A i, j \in D : <<i, j>> \in B \/ <<j, i>> \in B
        /\ \A i, j, k \in D : <<i, j>> \in B /\ <<j, k>> \in B => <<i, k>> \in B
    BY <1>4, <1>5
  <2>2. \E i \in D : \A j \in D : <<i, j>> \in B
    BY <1>2, <2>1, OneComesFirst
  <2> QED
    BY <1>4, <2>2
<1>8. /\ \E i \in D : LeastPath(fs) = fs[i]
      /\ \A i \in D : Fuller(LeastPath(fs), fs[i])
  BY <1>6 DEF LeastPath, D
<1>9. /\ \E i \in D : MostPath(fs) = fs[i]
      /\ \A i \in D : Fuller(fs[i], MostPath(fs))
  BY <1>7 DEF MostPath, D
<1> QED
  BY <1>8, <1>9 DEF D

LEMMA PathsAreDisks ==
  ASSUME NEW fs \in Paths
  PROVE  /\ \A i \in DOMAIN fs : fs[i].total \in Nat /\ fs[i].avail \in Nat /\ fs[i].avail <= fs[i].total
         /\ LeastPath(fs).total \in Nat /\ LeastPath(fs).avail \in Nat
         /\ MostPath(fs).total \in Nat /\ MostPath(fs).avail \in Nat
<1>1. \A i \in DOMAIN fs : fs[i] \in Disks_
  BY DEF Paths
<1>2. \A i \in DOMAIN fs : fs[i].total \in Nat /\ fs[i].avail \in Nat /\ fs[i].avail <= fs[i].total
  BY <1>1 DEF Disks_
<1> QED
  BY <1>2, APathIsFullest

-----------------------------------------------------------------------------
(* What is used of a node's paths. *)
LEMMA WholeIsNat ==
  ASSUME NEW fs \in Paths
  PROVE  Whole(fs).total \in Nat /\ Whole(fs).avail \in Nat /\ Used(fs) \in Int
<1> DEFINE total == [i \in DOMAIN fs |-> fs[i].total]
           avail == [i \in DOMAIN fs |-> fs[i].avail]
<1>1. IsFiniteSet(DOMAIN fs)
  BY FS_Interval DEF Paths
<1>2. \A i \in DOMAIN fs : total[i] \in Nat /\ avail[i] \in Nat
  BY PathsAreDisks
<1>3. DOMAIN total = DOMAIN fs /\ DOMAIN avail = DOMAIN fs
  OBVIOUS
<1>4. Whole(fs).total = SumFunctionOnSet(total, DOMAIN fs) /\ Whole(fs).avail = SumFunctionOnSet(avail, DOMAIN fs)
  BY <1>3 DEF Whole, SumFunction
<1> HIDE DEF total, avail
<1>5. Whole(fs).total \in Nat /\ Whole(fs).avail \in Nat
  BY <1>1, <1>2, <1>4, SumIsNat
<1> QED
  BY <1>5 DEF Used

(* A change of one path changes what is used by what is used of it. *)
LEMMA OnePathIsChanged ==
  ASSUME NEW fs \in Paths, NEW p \in DOMAIN fs, NEW d \in Disks_
  PROVE  /\ [fs EXCEPT ![p] = d] \in Paths /\ DOMAIN [fs EXCEPT ![p] = d] = DOMAIN fs
         /\ [fs EXCEPT ![p] = d][p] = d
         /\ \A i \in DOMAIN fs : i # p => [fs EXCEPT ![p] = d][i] = fs[i]
<1>1. DOMAIN fs = 1 .. Len(fs) /\ Len(fs) \in Nat /\ fs \in Seq(Disks_) /\ fs # <<>>
  BY DEF Paths
<1>2. /\ [fs EXCEPT ![p] = d] \in Seq(Disks_) /\ Len([fs EXCEPT ![p] = d]) = Len(fs)
      /\ DOMAIN [fs EXCEPT ![p] = d] = DOMAIN fs
  BY <1>1, ExceptSeq
<1>3. [fs EXCEPT ![p] = d] # <<>>
  <2>1. Len(<<>>) = 0 /\ Len(fs) # 0
    BY <1>1
  <2> QED
    BY <1>2, <2>1
<1> QED
  BY <1>1, <1>2, <1>3 DEF Paths

LEMMA OnePathChanges ==
  ASSUME NEW fs \in Paths, NEW gs \in Paths, NEW p \in DOMAIN fs, DOMAIN gs = DOMAIN fs,
         \A i \in DOMAIN fs : i # p => gs[i] = fs[i]
  PROVE  Used(gs) = Used(fs) + (gs[p].total - gs[p].avail) - (fs[p].total - fs[p].avail)
<1> DEFINE D == DOMAIN fs
           ft == [i \in D |-> fs[i].total]
           fa == [i \in D |-> fs[i].avail]
           gt == [i \in D |-> gs[i].total]
           ga == [i \in D |-> gs[i].avail]
<1>1. D = 1 .. Len(fs) /\ Len(fs) \in Nat
  BY DEF Paths
<1>4. IsFiniteSet(D)
  <2> HIDE DEF D
  <2> QED
    BY <1>1, FS_Interval
<1>5. \A i \in D : /\ ft[i] = fs[i].total /\ fa[i] = fs[i].avail
                   /\ gt[i] = gs[i].total /\ ga[i] = gs[i].avail
                   /\ ft[i] \in Int /\ fa[i] \in Int /\ gt[i] \in Int /\ ga[i] \in Int
  <2>1. \A i \in D : fs[i].total \in Int /\ fs[i].avail \in Int
    BY PathsAreDisks
  <2>2. \A i \in DOMAIN gs : gs[i].total \in Int /\ gs[i].avail \in Int
    BY PathsAreDisks
  <2> QED
    BY <2>1, <2>2
<1>6. \A i \in D : i # p => gt[i] = ft[i] /\ ga[i] = fa[i]
  OBVIOUS
<1>7. /\ Whole(fs).total = SumFunctionOnSet(ft, D) /\ Whole(fs).avail = SumFunctionOnSet(fa, D)
      /\ Whole(gs).total = SumFunctionOnSet(gt, D) /\ Whole(gs).avail = SumFunctionOnSet(ga, D)
  BY DEF Whole, SumFunction
<1> HIDE DEF ft, fa, gt, ga
<1>8. /\ SumFunctionOnSet(gt, D) = SumFunctionOnSet(ft, D) + gt[p] - ft[p]
      /\ SumFunctionOnSet(ga, D) = SumFunctionOnSet(fa, D) + ga[p] - fa[p]
  <2> HIDE DEF D
  <2>1. p \in D
    BY DEF D
  <2> QED
    BY <1>4, <1>5, <1>6, <2>1, SumChangesByOne
<1>9. /\ Whole(fs).total \in Nat /\ Whole(fs).avail \in Nat
      /\ Whole(gs).total \in Nat /\ Whole(gs).avail \in Nat
  BY WholeIsNat
<1>10. /\ ft[p] = fs[p].total /\ fa[p] = fs[p].avail /\ gt[p] = gs[p].total /\ ga[p] = gs[p].avail
       /\ ft[p] \in Int /\ fa[p] \in Int /\ gt[p] \in Int /\ ga[p] \in Int
  BY <1>5
<1> QED
  BY <1>7, <1>8, <1>9, <1>10 DEF Used

-----------------------------------------------------------------------------
(* The invariant: what a bundle is at a time, what the collector knows of  *)
(* the disks and how much was written since.                               *)
IsBundle(b, now, disks) ==
    /\ b = [date |-> b.date, nodes |-> b.nodes, health |-> b.health, fs |-> b.fs,
            calm |-> b.calm, everyone |-> b.everyone]
    /\ b.date \in 0 .. now /\ b.nodes \subseteq Node /\ Seen(b) \subseteq b.nodes
    /\ b.calm \in BOOLEAN /\ b.everyone \in BOOLEAN
    /\ \A n \in Seen(b) : b.fs[n] \in Paths /\ DOMAIN b.fs[n] = DOMAIN disks[n]

ClusterInv ==
    /\ settings \in Settings /\ member \subseteq Node
    /\ disk \in [Node -> Paths] /\ grown \in [Node -> Int]
    /\ stage \in 1 .. 7 /\ clock \in 0 .. MaxTicks /\ events \in 0 .. MaxEvents
    /\ calm \in BOOLEAN

(* The health report that goes with the disks of a bundle. *)
FullAt(s, paths, kind) ==
    100 * LeastPath(paths).avail <= RequiredFree(s, kind, LeastPath(paths).total)

Told(s, fs) ==
    CASE \E n \in DOMAIN fs : FullAt(s, fs[n], Stage(n)) -> "red"
      [] /\ ~\E n \in DOMAIN fs : FullAt(s, fs[n], Stage(n))
         /\ \E n \in DOMAIN fs : Tier[n] # "frozen" /\ FullAt(s, fs[n], "high") -> "yellow"
      [] OTHER -> "green"

HealthInv ==
    /\ stage <= 3 => ~base.calm
    /\ stage <= 6 => ~cur.calm
    /\ stage = 3 /\ calm => base.health = Indicator
    /\ stage = 6 /\ calm => cur.health = Indicator
    /\ base.calm /\ base.everyone => base.health = Told(settings, base.fs)
    /\ cur.calm /\ cur.everyone => cur.health = Told(settings, cur.fs)

WrittenInv ==
    /\ stage >= 4 => \A n \in Seen(base) : grown[n] = Used(disk[n]) - Used(base.fs[n])
    /\ stage = 7 => \A n \in Seen(cur) : cur.fs[n] = disk[n]

IInv ==
    /\ ClusterInv
    /\ IsBundle(base, clock, disk) /\ IsBundle(cur, clock, disk)
    /\ HealthInv /\ WrittenInv

-----------------------------------------------------------------------------
LEMMA BoundsAreNat == MaxTicks \in Nat /\ MaxEvents \in Nat
BY LayoutsAssumption

LEMMA Stages ==
  ASSUME stage \in 1 .. 7
  PROVE  /\ Call[stage] = "nodes" => stage \in {1, 4}
         /\ Call[stage] = "health" => stage \in {2, 5}
         /\ Call[stage] = "stats" => stage \in {3, 6}
         /\ Call[stage] = "done" => stage = 7
BY DEF Call

LEMMA EmptyIsBundle ==
  ASSUME NEW now \in Nat, NEW disks, NEW date \in 0 .. now, NEW nodes \in SUBSET Node,
         NEW b, b = [Empty EXCEPT !.date = date, !.nodes = nodes]
  PROVE  IsBundle(b, now, disks) /\ ~b.calm /\ Seen(b) = {}
<1>1. DOMAIN <<>> = {}
  OBVIOUS
<1>2. b = [date |-> date, nodes |-> nodes, health |-> Empty.health, fs |-> Empty.fs,
           calm |-> Empty.calm, everyone |-> Empty.everyone]
  BY DEF Empty
<1>3. Empty.fs = <<>> /\ Empty.calm = FALSE /\ Empty.everyone = FALSE
  BY DEF Empty
<1> QED
  BY <1>1, <1>2, <1>3 DEF IsBundle, Seen

(* A bundle stays one when time goes by and disks change. *)
LEMMA BundlesStay ==
  ASSUME NEW b, NEW now \in Nat, NEW later \in Nat, NEW disks, NEW after,
         IsBundle(b, now, disks), now <= later,
         \A n \in Node : DOMAIN after[n] = DOMAIN disks[n]
  PROVE  IsBundle(b, later, after)
<1>1. Seen(b) \subseteq Node /\ b.date \in 0 .. later
  BY DEF IsBundle
<1> QED
  BY <1>1 DEF IsBundle

LEMMA IndicatorIsTold ==
  ASSUME NEW fs, DOMAIN fs = member, \A n \in member : fs[n] = disk[n]
  PROVE  Indicator = Told(settings, fs)
<1>1. \A n \in member : \A kind : Full(n, kind) <=> FullAt(settings, fs[n], kind)
  BY DEF Full, FullAt
<1>2. (\E n \in member : Full(n, Stage(n))) <=> \E n \in DOMAIN fs : FullAt(settings, fs[n], Stage(n))
  BY <1>1
<1>3. (\E n \in member : Tier[n] # "frozen" /\ Full(n, "high"))
        <=> \E n \in DOMAIN fs : Tier[n] # "frozen" /\ FullAt(settings, fs[n], "high")
  BY <1>1
<1> QED
  BY <1>2, <1>3 DEF Indicator, Told

LEMMA InitHolds == Init => IInv
<1> SUFFICES ASSUME Init PROVE IInv
  OBVIOUS
<1>1. DOMAIN <<>> = {}
  OBVIOUS
<1>2. ClusterInv
  <2>1. disk \in [Node -> Paths]
    BY LayoutsAssumption DEF Init, Paths
  <2>2. settings \in Settings /\ member \subseteq Node /\ grown \in [Node -> Int]
    BY DEF Init
  <2>4. calm \in BOOLEAN
    BY DEF Init
  <2>3. stage \in 1 .. 7 /\ clock \in 0 .. MaxTicks /\ events \in 0 .. MaxEvents
    <3>1. stage = 1 /\ clock = 0 /\ events = 0
      BY DEF Init
    <3> QED
      BY <3>1, BoundsAreNat
  <2> QED
    BY <2>1, <2>2, <2>3, <2>4 DEF ClusterInv
<1>3. IsBundle(base, clock, disk) /\ IsBundle(cur, clock, disk)
  BY <1>1 DEF Init, Empty, IsBundle, Seen
<1>4. HealthInv /\ WrittenInv
  BY DEF Init, Empty, HealthInv, WrittenInv
<1> QED
  BY <1>2, <1>3, <1>4 DEF IInv

-----------------------------------------------------------------------------
(* What happens to a path changes what is used by what is counted, and the *)
(* collector knows nothing of it.                                          *)
LEMMA APathChanges ==
  ASSUME IInv, Happens, NEW n \in Node, NEW p \in DOMAIN disk[n], NEW d \in Disks_,
         disk' = [disk EXCEPT ![n] = [disk[n] EXCEPT ![p] = d]], member' = member,
         grown' \in [Node -> Int], \A m \in Node \ {n} : grown'[m] = grown[m],
         grown'[n] = grown[n] + (d.total - d.avail) - (disk[n][p].total - disk[n][p].avail)
  PROVE  IInv'
<1>1. ClusterInv /\ IsBundle(base, clock, disk) /\ IsBundle(cur, clock, disk) /\ HealthInv /\ WrittenInv
  BY DEF IInv
<1>2. /\ stage \in 3 .. 6 /\ events' \in 0 .. MaxEvents /\ calm' = FALSE
      /\ UNCHANGED <<settings, clock, stage, base, cur>>
  BY <1>1, BoundsAreNat DEF Happens, ClusterInv
<1>3. disk[n] \in Paths /\ clock \in Nat
  BY <1>1, BoundsAreNat DEF ClusterInv
<1>4. /\ disk'[n] = [disk[n] EXCEPT ![p] = d]
      /\ \A m \in Node \ {n} : disk'[m] = disk[m]
      /\ disk' \in [Node -> Paths]
  BY <1>1, <1>3, OnePathIsChanged DEF ClusterInv
<1>5. \A m \in Node : DOMAIN disk'[m] = DOMAIN disk[m]
  BY <1>3, <1>4, OnePathIsChanged
<1>6. Used(disk'[n]) = Used(disk[n]) + (d.total - d.avail) - (disk[n][p].total - disk[n][p].avail)
  <2> DEFINE fs == disk[n]
             gs == [fs EXCEPT ![p] = d]
  <2>1. /\ gs \in Paths /\ DOMAIN gs = DOMAIN fs /\ gs[p] = d
        /\ \A i \in DOMAIN fs : i # p => gs[i] = fs[i]
    BY <1>3, OnePathIsChanged
  <2> HIDE DEF gs
  <2>2. Used(gs) = Used(fs) + (gs[p].total - gs[p].avail) - (fs[p].total - fs[p].avail)
    BY <1>3, <2>1, OnePathChanges
  <2>3. disk'[n] = gs
    BY <1>4 DEF gs
  <2> QED
    BY <2>1, <2>2, <2>3
<1>7. ClusterInv'
  BY <1>1, <1>2, <1>4 DEF ClusterInv
<1>8. IsBundle(base, clock, disk)' /\ IsBundle(cur, clock, disk)'
  <2>1. \A b : IsBundle(b, clock, disk) => IsBundle(b, clock, disk')
    <3>1. clock <= clock
      BY <1>3
    <3> QED
      BY <1>3, <1>5, <3>1, BundlesStay
  <2>2. IsBundle(base, clock, disk') /\ IsBundle(cur, clock, disk')
    BY <1>1, <2>1
  <2> QED
    BY <1>2, <2>2
<1>9. HealthInv'
  BY <1>1, <1>2 DEF HealthInv
<1>10. WrittenInv'
  <2>1. ASSUME stage >= 4, NEW m \in Seen(base)
        PROVE  grown'[m] = Used(disk'[m]) - Used(base.fs[m])
    <3>1. m \in Node /\ base.fs[m] \in Paths /\ grown[m] = Used(disk[m]) - Used(base.fs[m])
      BY <1>1, <2>1 DEF IsBundle, WrittenInv
    <3>2. CASE m # n
      BY <1>4, <3>1, <3>2
    <3>3. CASE m = n
      <4>1. /\ d.total \in Nat /\ d.avail \in Nat
            /\ disk[n][p].total \in Nat /\ disk[n][p].avail \in Nat
        BY <1>3, PathsAreDisks DEF Disks_
      <4>2. Used(disk[n]) \in Int /\ Used(base.fs[n]) \in Int
        BY <1>3, <3>1, <3>3, WholeIsNat
      <4> QED
        BY <1>6, <3>1, <3>3, <4>1, <4>2
    <3> QED
      BY <3>2, <3>3
  <2> QED
    BY <1>2, <2>1 DEF WrittenInv, Seen
<1> QED
  BY <1>7, <1>8, <1>9, <1>10 DEF IInv

LEMMA AfterWrite == ASSUME IInv, NEW n \in Node, NEW p \in DOMAIN disk[n], Write(n, p) PROVE IInv'
<1> DEFINE old == disk[n][p]
           d == [total |-> old.total, avail |-> old.avail - 1]
<1>1. disk \in [Node -> Paths] /\ disk[n] \in Paths /\ grown \in [Node -> Int]
  BY DEF IInv, ClusterInv
<1>2. old \in Disks_ /\ old.avail > 0
  BY <1>1 DEF Write, Paths
<1>3. d \in Disks_ /\ d = [old EXCEPT !.avail = old.avail - 1]
  BY <1>2 DEF Disks_
<1>4. disk' = [disk EXCEPT ![n] = [disk[n] EXCEPT ![p] = d]]
  BY <1>1, <1>3 DEF Write
<1>5. grown' \in [Node -> Int] /\ grown'[n] = grown[n] + 1 /\ \A m \in Node \ {n} : grown'[m] = grown[m]
  BY <1>1 DEF Write
<1>6. d.total = old.total /\ d.avail = old.avail - 1 /\ old.total \in Nat /\ old.avail \in Nat
  BY <1>2 DEF Disks_
<1>7. grown[n] \in Int
  BY <1>1
<1> HIDE DEF d
<1>8. grown'[n] = grown[n] + (d.total - d.avail) - (old.total - old.avail)
  BY <1>5, <1>6, <1>7
<1>9. Happens /\ member' = member
  BY DEF Write
<1> QED
  BY <1>3, <1>4, <1>5, <1>8, <1>9, APathChanges

LEMMA AfterDelete == ASSUME IInv, NEW n \in Node, NEW p \in DOMAIN disk[n], Delete(n, p) PROVE IInv'
<1> DEFINE old == disk[n][p]
           d == [total |-> old.total, avail |-> old.avail + 1]
<1>1. disk \in [Node -> Paths] /\ disk[n] \in Paths /\ grown \in [Node -> Int]
  BY DEF IInv, ClusterInv
<1>2. old \in Disks_ /\ old.avail < old.total
  BY <1>1 DEF Delete, Paths
<1>3. d \in Disks_ /\ d = [old EXCEPT !.avail = old.avail + 1]
  BY <1>2 DEF Disks_
<1>4. disk' = [disk EXCEPT ![n] = [disk[n] EXCEPT ![p] = d]]
  BY <1>1, <1>3 DEF Delete
<1>5. grown' \in [Node -> Int] /\ grown'[n] = grown[n] - 1 /\ \A m \in Node \ {n} : grown'[m] = grown[m]
  BY <1>1 DEF Delete
<1>6. d.total = old.total /\ d.avail = old.avail + 1 /\ old.total \in Nat /\ old.avail \in Nat
  BY <1>2 DEF Disks_
<1>7. grown[n] \in Int
  BY <1>1
<1> HIDE DEF d
<1>8. grown'[n] = grown[n] + (d.total - d.avail) - (old.total - old.avail)
  BY <1>5, <1>6, <1>7
<1>9. Happens /\ member' = member
  BY DEF Delete
<1> QED
  BY <1>3, <1>4, <1>5, <1>8, <1>9, APathChanges

LEMMA AfterEnlarge == ASSUME IInv, NEW n \in Node, NEW p \in DOMAIN disk[n], Enlarge(n, p) PROVE IInv'
<1> DEFINE old == disk[n][p]
           d == [total |-> old.total + 1, avail |-> old.avail + 1]
<1>1. disk \in [Node -> Paths] /\ disk[n] \in Paths /\ grown \in [Node -> Int]
  BY DEF IInv, ClusterInv
<1>2. old \in Disks_
  BY <1>1 DEF Paths
<1>3. d \in Disks_
  BY <1>2 DEF Disks_
<1>4. disk' = [disk EXCEPT ![n] = [disk[n] EXCEPT ![p] = d]]
  BY <1>1 DEF Enlarge
<1>5. grown' = grown
  BY DEF Enlarge
<1>6. d.total = old.total + 1 /\ d.avail = old.avail + 1 /\ old.total \in Nat /\ old.avail \in Nat
  BY <1>2 DEF Disks_
<1>7. grown[n] \in Int
  BY <1>1
<1> HIDE DEF d
<1>8. grown'[n] = grown[n] + (d.total - d.avail) - (old.total - old.avail)
  BY <1>5, <1>6, <1>7
<1>9. Happens /\ member' = member
  BY DEF Enlarge
<1> QED
  BY <1>1, <1>3, <1>4, <1>5, <1>8, <1>9, APathChanges

LEMMA AfterLeaveOrJoin == ASSUME IInv, NEW n \in Node, LeaveOrJoin(n) PROVE IInv'
<1>1. ClusterInv /\ IsBundle(base, clock, disk) /\ IsBundle(cur, clock, disk) /\ HealthInv /\ WrittenInv
  BY DEF IInv
<1>2. /\ stage \in 3 .. 6 /\ events' \in 0 .. MaxEvents /\ calm' = FALSE
      /\ UNCHANGED <<settings, clock, stage, base, cur, disk, grown>>
  BY <1>1, BoundsAreNat DEF LeaveOrJoin, Happens, ClusterInv
<1>3. member' \subseteq Node
  BY <1>1 DEF LeaveOrJoin, ClusterInv
<1>4. ClusterInv'
  BY <1>1, <1>2, <1>3 DEF ClusterInv
<1>5. IsBundle(base, clock, disk)' /\ IsBundle(cur, clock, disk)'
  BY <1>1, <1>2
<1>6. HealthInv'
  BY <1>1, <1>2 DEF HealthInv
<1>7. WrittenInv'
  BY <1>1, <1>2 DEF WrittenInv, Seen
<1> QED
  BY <1>4, <1>5, <1>6, <1>7 DEF IInv

LEMMA AfterTick == ASSUME IInv, Tick PROVE IInv'
<1>1. ClusterInv /\ IsBundle(base, clock, disk) /\ IsBundle(cur, clock, disk) /\ HealthInv /\ WrittenInv
  BY DEF IInv
<1>2. /\ stage = 4 /\ clock \in Nat /\ clock' = clock + 1 /\ clock' \in 0 .. MaxTicks
      /\ UNCHANGED <<settings, member, disk, events, stage, base, cur, grown, calm>>
  BY <1>1, BoundsAreNat DEF Tick, ClusterInv
<1>3. ClusterInv'
  BY <1>1, <1>2 DEF ClusterInv
<1>4. IsBundle(base, clock, disk)' /\ IsBundle(cur, clock, disk)'
  <2>1. clock' \in Nat /\ clock <= clock'
    BY <1>2
  <2>2. IsBundle(base, clock', disk) /\ IsBundle(cur, clock', disk)
    BY <1>1, <1>2, <2>1, BundlesStay
  <2> QED
    BY <1>2, <2>2
<1>5. HealthInv'
  BY <1>1, <1>2 DEF HealthInv
<1>6. WrittenInv'
  BY <1>1, <1>2 DEF WrittenInv, Seen
<1> QED
  BY <1>3, <1>4, <1>5, <1>6 DEF IInv

(* The collector's calls: each is of one of the two bundles.               *)
LEMMA AfterListNodes == ASSUME IInv, ListNodes PROVE IInv'
<1> DEFINE b == [Empty EXCEPT !.date = clock, !.nodes = member]
<1>1. ClusterInv /\ IsBundle(base, clock, disk) /\ IsBundle(cur, clock, disk) /\ HealthInv /\ WrittenInv
  BY DEF IInv
<1>2. /\ stage \in {1, 4} /\ stage' = stage + 1
      /\ UNCHANGED <<settings, member, disk, clock, events, grown, calm>>
      /\ stage = 1 => base' = b /\ cur' = cur
      /\ stage = 4 => cur' = b /\ base' = base
  BY <1>1, Stages DEF ListNodes, Collects, ClusterInv
<1>3. IsBundle(b, clock, disk) /\ ~b.calm /\ Seen(b) = {}
  <2>1. clock \in Nat /\ clock \in 0 .. clock /\ member \in SUBSET Node
    BY <1>1, BoundsAreNat DEF ClusterInv
  <2> QED
    BY <2>1, EmptyIsBundle
<1> HIDE DEF b
<1>4. ClusterInv'
  BY <1>1, <1>2 DEF ClusterInv
<1>5. CASE stage = 1
  <2>1. base' = b /\ cur' = cur /\ stage' = 2
    BY <1>2, <1>5
  <2>2. IsBundle(base, clock, disk)' /\ IsBundle(cur, clock, disk)'
    BY <1>1, <1>2, <1>3, <2>1
  <2>3. HealthInv'
    BY <1>1, <1>2, <1>3, <1>5, <2>1 DEF HealthInv
  <2>4. WrittenInv'
    BY <2>1 DEF WrittenInv
  <2> QED
    BY <1>4, <2>2, <2>3, <2>4 DEF IInv
<1>6. CASE stage = 4
  <2>1. cur' = b /\ base' = base /\ stage' = 5
    BY <1>2, <1>6
  <2>2. IsBundle(base, clock, disk)' /\ IsBundle(cur, clock, disk)'
    BY <1>1, <1>2, <1>3, <2>1
  <2>3. HealthInv'
    BY <1>1, <1>2, <1>3, <1>6, <2>1 DEF HealthInv
  <2>4. WrittenInv'
    BY <1>1, <1>2, <1>6, <2>1 DEF WrittenInv, Seen
  <2> QED
    BY <1>4, <2>2, <2>3, <2>4 DEF IInv
<1> QED
  BY <1>2, <1>5, <1>6

LEMMA AfterReadHealth == ASSUME IInv, ReadHealth PROVE IInv'
<1> DEFINE b == [bundle EXCEPT !.health = Indicator]
<1>1. ClusterInv /\ IsBundle(base, clock, disk) /\ IsBundle(cur, clock, disk) /\ HealthInv /\ WrittenInv
  BY DEF IInv
<1>2. /\ stage \in {2, 5} /\ stage' = stage + 1 /\ calm' = TRUE
      /\ UNCHANGED <<settings, member, disk, clock, events, grown>>
      /\ stage = 2 => base' = b /\ cur' = cur
      /\ stage = 5 => cur' = b /\ base' = base
  BY <1>1, Stages DEF ReadHealth, Collects, ClusterInv
<1>3. IsBundle(bundle, clock, disk) /\ ~bundle.calm
  BY <1>1, <1>2 DEF bundle, HealthInv
<1>4. /\ IsBundle(b, clock, disk) /\ b.health = Indicator /\ Seen(b) = Seen(bundle)
      /\ b.calm = bundle.calm /\ b.everyone = bundle.everyone /\ b.fs = bundle.fs
  BY <1>3 DEF IsBundle, Seen
<1>5. ~b.calm
  BY <1>3, <1>4
<1> HIDE DEF b
<1>6. ClusterInv'
  BY <1>1, <1>2 DEF ClusterInv
<1>7. Indicator' = Indicator
  BY <1>2 DEF Indicator, Full, Stage
<1>8. CASE stage = 2
  <2>1. base' = b /\ cur' = cur /\ stage' = 3
    BY <1>2, <1>8
  <2>2. IsBundle(base, clock, disk)' /\ IsBundle(cur, clock, disk)'
    BY <1>1, <1>2, <1>4, <2>1
  <2>3. HealthInv'
    BY <1>1, <1>2, <1>4, <1>5, <1>7, <1>8, <2>1 DEF HealthInv
  <2>4. WrittenInv'
    BY <2>1 DEF WrittenInv
  <2> QED
    BY <1>6, <2>2, <2>3, <2>4 DEF IInv
<1>9. CASE stage = 5
  <2>1. cur' = b /\ base' = base /\ stage' = 6
    BY <1>2, <1>9
  <2>2. IsBundle(base, clock, disk)' /\ IsBundle(cur, clock, disk)'
    BY <1>1, <1>2, <1>4, <2>1
  <2>3. HealthInv'
    BY <1>1, <1>2, <1>4, <1>5, <1>7, <1>9, <2>1 DEF HealthInv
  <2>4. WrittenInv'
    BY <1>1, <1>2, <1>9, <2>1 DEF WrittenInv, Seen
  <2> QED
    BY <1>6, <2>2, <2>3, <2>4 DEF IInv
<1> QED
  BY <1>2, <1>8, <1>9

LEMMA AfterReadStats == ASSUME IInv, NEW silent \in Silent, ReadStats(silent) PROVE IInv'
<1> DEFINE fs == [n \in member \ silent |-> disk[n]]
           b == [bundle EXCEPT !.nodes = @ \cup (member \ silent), !.fs = fs, !.calm = calm,
                               !.everyone = (member \cap silent = {})]
<1>1. ClusterInv /\ IsBundle(base, clock, disk) /\ IsBundle(cur, clock, disk) /\ HealthInv /\ WrittenInv
  BY DEF IInv
<1>2. /\ stage \in {3, 6} /\ stage' = stage + 1 /\ calm' = calm
      /\ UNCHANGED <<settings, member, disk, clock, events>>
      /\ grown' = IF stage = 3 THEN [n \in Node |-> 0] ELSE grown
      /\ stage = 3 => base' = b /\ cur' = cur
      /\ stage = 6 => cur' = b /\ base' = base
  BY <1>1, Stages DEF ReadStats, Collects, ClusterInv
<1>3. IsBundle(bundle, clock, disk) /\ (calm => bundle.health = Indicator)
  BY <1>1, <1>2 DEF bundle, HealthInv
<1>4. /\ DOMAIN fs = member \ silent /\ member \subseteq Node /\ calm \in BOOLEAN
      /\ \A n \in member \ silent : fs[n] = disk[n] /\ fs[n] \in Paths
  BY <1>1 DEF ClusterInv
<1> HIDE DEF fs
<1>5. /\ b.fs = fs /\ b.calm = calm /\ b.everyone = (member \cap silent = {})
      /\ b.health = bundle.health /\ b.date = bundle.date
      /\ b.nodes = bundle.nodes \cup (member \ silent)
      /\ b = [date |-> b.date, nodes |-> b.nodes, health |-> b.health, fs |-> b.fs,
              calm |-> b.calm, everyone |-> b.everyone]
  <2> DEFINE old == bundle
             all == (member \cap silent = {})
             nodes == old.nodes \cup (member \ silent)
  <2>1. old = [date |-> old.date, nodes |-> old.nodes, health |-> old.health, fs |-> old.fs,
               calm |-> old.calm, everyone |-> old.everyone]
    BY <1>3 DEF IsBundle
  <2>2. b = [old EXCEPT !.nodes = nodes, !.fs = fs, !.calm = calm, !.everyone = all]
    OBVIOUS
  <2> HIDE DEF old, all, nodes, b
  <2>3. b = [date |-> old.date, nodes |-> nodes, health |-> old.health, fs |-> fs,
             calm |-> calm, everyone |-> all]
    BY <2>1, <2>2
  <2>4. /\ b.fs = fs /\ b.calm = calm /\ b.everyone = all
        /\ b.health = old.health /\ b.date = old.date /\ b.nodes = nodes
    BY <2>3
  <2> QED
    BY <2>3, <2>4 DEF old, all, nodes
<1> HIDE DEF b
<1>6. IsBundle(b, clock, disk)
  BY <1>3, <1>4, <1>5 DEF IsBundle, Seen
<1>7. b.calm /\ b.everyone => b.health = Told(settings, b.fs)
  <2> SUFFICES ASSUME b.calm, b.everyone PROVE b.health = Told(settings, b.fs)
    OBVIOUS
  <2>1. DOMAIN fs = member /\ \A n \in member : fs[n] = disk[n]
    BY <1>4, <1>5
  <2>2. Indicator = Told(settings, fs)
    BY <2>1, IndicatorIsTold
  <2> QED
    BY <1>3, <1>5, <2>2
<1>8. ClusterInv'
  BY <1>1, <1>2 DEF ClusterInv
<1>9. CASE stage = 3
  <2>1. base' = b /\ cur' = cur /\ stage' = 4 /\ grown' = [n \in Node |-> 0]
    BY <1>2, <1>9
  <2>2. IsBundle(base, clock, disk)' /\ IsBundle(cur, clock, disk)'
    BY <1>1, <1>2, <1>6, <2>1
  <2>3. HealthInv'
    BY <1>1, <1>2, <1>7, <1>9, <2>1 DEF HealthInv
  <2>4. \A n \in Seen(b) : grown'[n] = Used(disk'[n]) - Used(b.fs[n])
    <3> TAKE n \in Seen(b)
    <3>1. n \in Node /\ b.fs[n] = disk[n] /\ disk[n] \in Paths
      BY <1>4, <1>5 DEF Seen
    <3>2. Used(disk[n]) \in Int /\ grown'[n] = 0
      BY <2>1, <3>1, WholeIsNat
    <3> QED
      BY <1>2, <3>1, <3>2
  <2>5. WrittenInv'
    BY <2>1, <2>4 DEF WrittenInv, Seen
  <2> QED
    BY <1>8, <2>2, <2>3, <2>5 DEF IInv
<1>10. CASE stage = 6
  <2>1. cur' = b /\ base' = base /\ stage' = 7 /\ grown' = grown
    BY <1>2, <1>10
  <2>2. IsBundle(base, clock, disk)' /\ IsBundle(cur, clock, disk)'
    BY <1>1, <1>2, <1>6, <2>1
  <2>3. HealthInv'
    BY <1>1, <1>2, <1>7, <1>10, <2>1 DEF HealthInv
  <2>4. \A n \in Seen(b) : b.fs[n] = disk'[n]
    BY <1>2, <1>4, <1>5 DEF Seen
  <2>5. WrittenInv'
    BY <1>1, <1>2, <1>10, <2>1, <2>4 DEF WrittenInv, Seen
  <2> QED
    BY <1>8, <2>2, <2>3, <2>5 DEF IInv
<1> QED
  BY <1>2, <1>9, <1>10

(* The inductive invariant holds. *)
THEOREM DisksInvariant == Spec => []IInv
<1>1. ASSUME IInv, [Next]_vars PROVE IInv'
  <2>1. ASSUME NEW n \in Node, NEW p \in DOMAIN disk[n], Write(n, p) \/ Delete(n, p) \/ Enlarge(n, p)
        PROVE  IInv'
    BY <1>1, <2>1, AfterWrite, AfterDelete, AfterEnlarge
  <2>2. ASSUME NEW n \in Node, LeaveOrJoin(n) PROVE IInv'
    BY <1>1, <2>2, AfterLeaveOrJoin
  <2>3. CASE Tick
    BY <1>1, <2>3, AfterTick
  <2>4. CASE ListNodes
    BY <1>1, <2>4, AfterListNodes
  <2>5. CASE ReadHealth
    BY <1>1, <2>5, AfterReadHealth
  <2>6. ASSUME NEW silent \in Silent, ReadStats(silent) PROVE IInv'
    BY <1>1, <2>6, AfterReadStats
  <2>7. CASE UNCHANGED vars
    <3>1. UNCHANGED <<settings, member, disk, clock, events, stage, base, cur, grown, calm>>
      BY <2>7 DEF vars
    <3>2. ClusterInv' /\ IsBundle(base, clock, disk)' /\ IsBundle(cur, clock, disk)' /\ WrittenInv'
      BY <1>1, <3>1 DEF IInv, ClusterInv, WrittenInv, Seen
    <3>3. HealthInv'
      BY <1>1, <3>1 DEF IInv, HealthInv, Indicator, Full, Stage
    <3> QED
      BY <3>2, <3>3 DEF IInv
  <2> QED
    BY <1>1, <2>1, <2>2, <2>3, <2>4, <2>5, <2>6, <2>7 DEF Next
<1> QED
  BY <1>1, InitHolds, PTL DEF Spec

(* Disks never have more free than their size, the nodes that answered are *)
(* listed and no bundle is of the future. *)
THEOREM DisksTypes == Spec => []TypeOK
<1>1. IInv => TypeOK
  <2> SUFFICES ASSUME IInv PROVE TypeOK
    OBVIOUS
  <2>1. ClusterInv /\ IsBundle(base, clock, disk) /\ IsBundle(cur, clock, disk)
    BY DEF IInv
  <2>2. \A n \in Node : \A p \in DOMAIN disk[n] : disk[n][p].avail \in 0 .. disk[n][p].total
    BY <2>1, PathsAreDisks DEF ClusterInv
  <2>3. clock \in Nat
    BY <2>1, BoundsAreNat DEF ClusterInv
  <2>4. \A b \in {base, cur} : Seen(b) \subseteq b.nodes /\ b.date <= clock
    BY <2>1, <2>3 DEF IsBundle
  <2> QED
    BY <2>1, <2>2, <2>4 DEF TypeOK, ClusterInv
<1> QED
  BY <1>1, DisksInvariant, PTL

-----------------------------------------------------------------------------
(* What r_disk finds. *)
LEMMA DiskFindingsAre ==
  ASSUME NEW b, NEW f
  PROVE  f \in DiskFindings(b) <=>
           \/ OverFlood(b) # {} /\ f = Finding("DISK-001", "CRITICAL")
           \/ OverFrozen(b) # {} /\ f = Finding("DISK-001", "INFO")
           \/ OverHigh(b) # {} /\ f = Finding("DISK-002", "CRITICAL")
           \/ OverLow(b) # {} /\ f = Finding("DISK-003", "WARNING")
           \/ /\ NearLow(b) # {} /\ OverFlood(b) \cup OverHigh(b) \cup OverLow(b) = {}
              /\ f = Finding("DISK-004", "WARNING")
           \/ Uneven(b) /\ f = Finding("DISK-005", "WARNING")
BY DEF DiskFindings, IfSo

LEMMA WhatDisksAreFound ==
  ASSUME NEW b, NEW f
  PROVE  f \in r_disk(b) <=>
           /\ Seen(b) # {}
           /\ f \in DiskFindings(b) \/ (DiskFindings(b) = {} /\ f = Finding("DISK-001", "OK"))
<1>1. CASE Seen(b) = {}
  BY <1>1 DEF r_disk
<1>2. CASE Seen(b) # {} /\ DiskFindings(b) = {}
  BY <1>2 DEF r_disk
<1>3. CASE Seen(b) # {} /\ DiskFindings(b) # {}
  BY <1>3 DEF r_disk
<1> QED
  BY <1>1, <1>2, <1>3

(* The rank of what is found, that of DISK-005 left out. *)
LEMMA RanksOfDisks ==
  ASSUME NEW b, NEW f \in r_disk(b), f.id # "DISK-005"
  PROVE  /\ Rank[f.severity] \in 0 .. 3
         /\ Rank[f.severity] = 0 => OverFlood(b) \cup OverHigh(b) # {}
         /\ Rank[f.severity] = 1 => OverFlood(b) \cup OverHigh(b) \cup OverLow(b) \cup NearLow(b) # {}
         /\ Rank[f.severity] = 2 => OverFrozen(b) # {}
<1>1. \/ OverFlood(b) # {} /\ f = Finding("DISK-001", "CRITICAL")
      \/ OverFrozen(b) # {} /\ f = Finding("DISK-001", "INFO")
      \/ OverHigh(b) # {} /\ f = Finding("DISK-002", "CRITICAL")
      \/ OverLow(b) # {} /\ f = Finding("DISK-003", "WARNING")
      \/ NearLow(b) # {} /\ f = Finding("DISK-004", "WARNING")
      \/ f = Finding("DISK-005", "WARNING")
      \/ f = Finding("DISK-001", "OK")
  BY WhatDisksAreFound, DiskFindingsAre
<1>2. /\ f.id = "DISK-005" \/ f.severity \in Severities
      /\ f.severity = "CRITICAL" => OverFlood(b) # {} \/ OverHigh(b) # {}
      /\ f.severity = "WARNING" => OverLow(b) # {} \/ NearLow(b) # {}
      /\ f.severity = "INFO" => OverFrozen(b) # {}
  BY <1>1 DEF Finding, Severities
<1>3. /\ Rank["CRITICAL"] = 0 /\ Rank["WARNING"] = 1 /\ Rank["INFO"] = 2 /\ Rank["OK"] = 3
  BY DEF Rank
<1> QED
  BY <1>2, <1>3 DEF Severities

LEMMA SeriousDisksAreFound ==
  ASSUME NEW b
  PROVE  /\ OverFlood(b) \cup OverHigh(b) # {} =>
              \E f \in DiskFindings(b) : f.id # "DISK-005" /\ Rank[f.severity] = 0
         /\ OverFlood(b) \cup OverHigh(b) \cup OverLow(b) \cup NearLow(b) # {} =>
              \E f \in DiskFindings(b) : f.id # "DISK-005" /\ Rank[f.severity] \in {0, 1}
         /\ OverFrozen(b) # {} =>
              \E f \in DiskFindings(b) : f.id # "DISK-005" /\ Rank[f.severity] = 2
<1>1. \A i, s : Finding(i, s).id = i /\ Finding(i, s).severity = s
  BY DEF Finding
<1>2. Rank["CRITICAL"] = 0 /\ Rank["WARNING"] = 1 /\ Rank["INFO"] = 2
  BY DEF Rank
<1>3. /\ OverFlood(b) # {} => Finding("DISK-001", "CRITICAL") \in DiskFindings(b)
      /\ OverFrozen(b) # {} => Finding("DISK-001", "INFO") \in DiskFindings(b)
      /\ OverHigh(b) # {} => Finding("DISK-002", "CRITICAL") \in DiskFindings(b)
      /\ OverLow(b) # {} => Finding("DISK-003", "WARNING") \in DiskFindings(b)
      /\ NearLow(b) # {} /\ OverFlood(b) \cup OverHigh(b) \cup OverLow(b) = {} =>
           Finding("DISK-004", "WARNING") \in DiskFindings(b)
  BY DiskFindingsAre
<1>4. /\ OverFlood(b) \cup OverHigh(b) # {} =>
           \E f \in DiskFindings(b) : f.id # "DISK-005" /\ f.severity = "CRITICAL"
      /\ OverLow(b) # {} => \E f \in DiskFindings(b) : f.id # "DISK-005" /\ f.severity = "WARNING"
      /\ NearLow(b) # {} /\ OverFlood(b) \cup OverHigh(b) \cup OverLow(b) = {} =>
           \E f \in DiskFindings(b) : f.id # "DISK-005" /\ f.severity = "WARNING"
      /\ OverFrozen(b) # {} => \E f \in DiskFindings(b) : f.id # "DISK-005" /\ f.severity = "INFO"
  BY <1>1, <1>3
<1> QED
  BY <1>2, <1>4

(* A report that has a finding as grave for every finding is no milder.    *)
LEMMA GraverIsNoMilder ==
  ASSUME NEW fs, NEW gs,
         \A f \in fs \cup gs : f.id # "DISK-005" => Rank[f.severity] \in 0 .. 3,
         \A f \in fs : f.id # "DISK-005" /\ Rank[f.severity] # 3 =>
            \E g \in gs : g.id # "DISK-005" /\ Rank[g.severity] <= Rank[f.severity]
  PROVE  Worst(gs) <= Worst(fs)
<1> DEFINE R(s) == {Rank[f.severity] : f \in {g \in s : g.id # "DISK-005"}}
           W(s) == IF R(s) = {} THEN 3 ELSE Min(R(s))
<1>1. \A s : Worst(s) = W(s)
  BY DEF Worst
<1>2. \A s : s \subseteq fs \cup gs => R(s) \subseteq 0 .. 3
  OBVIOUS
<1>3. ASSUME NEW s, s \subseteq fs \cup gs
      PROVE  W(s) \in 0 .. 3 /\ (\A r \in R(s) : W(s) <= r) /\ (W(s) # 3 => W(s) \in R(s))
  <2>1. CASE R(s) = {}
    BY <2>1
  <2>2. CASE R(s) # {}
    <3> HIDE DEF R
    <3>1. R(s) \subseteq 0 .. 3
      BY <1>2, <1>3
    <3>2. R(s) \subseteq Int /\ IsFiniteSet(R(s))
      <4>1. IsFiniteSet(0 .. 3)
        BY FS_Interval, 0 \in Int, 3 \in Int
      <4> QED
        BY <3>1, <4>1, FS_Subset
    <3>3. \E c \in R(s) : \A r \in R(s) : c <= r
      BY <2>2, <3>2, ThereIsALeast
    <3>4. Min(R(s)) \in R(s) /\ \A r \in R(s) : Min(R(s)) <= r
      BY <3>3 DEF Min
    <3> QED
      BY <2>2, <3>1, <3>4
  <2> QED
    BY <2>1, <2>2
<1>4. W(fs) \in 0 .. 3 /\ W(gs) \in 0 .. 3
  BY <1>3
<1>5. CASE W(fs) = 3
  <2> HIDE DEF W
  <2>1. W(gs) <= 3
    BY <1>4
  <2> QED
    BY <1>1, <1>5, <2>1
<1>6. CASE W(fs) # 3
  <2>1. PICK f \in fs : f.id # "DISK-005" /\ Rank[f.severity] = W(fs)
    <3>1. W(fs) \in R(fs)
      BY <1>3, <1>6
    <3> HIDE DEF W
    <3> QED
      BY <3>1
  <2> HIDE DEF W
  <2>2. PICK g \in gs : g.id # "DISK-005" /\ Rank[g.severity] <= Rank[f.severity]
    BY <1>6, <2>1
  <2>3. Rank[g.severity] \in R(gs) /\ Rank[g.severity] \in 0 .. 3
    BY <2>2
  <2>4. W(gs) <= Rank[g.severity]
    BY <1>3, <2>3
  <2> QED
    BY <1>1, <1>4, <2>1, <2>2, <2>3, <2>4
<1> QED
  BY <1>5, <1>6

(* Less free is no less over a watermark. *)
LEMMA FullerIsOver ==
  ASSUME settings \in Settings, NEW kind \in Kind, NEW p, NEW q,
         p.total \in Nat, p.avail \in Int, q.avail \in Int, q.total = p.total, q.avail <= p.avail
  PROVE  /\ Over(settings, kind, p) => Over(settings, kind, q)
         /\ Nearly(settings, kind, p) => Nearly(settings, kind, q)
<1>1. RequiredFree(settings, kind, p.total) \in Int /\ Margin * p.total \in Int
  <2>1. Margin \in Nat
    BY LayoutsAssumption
  <2> QED
    BY <2>1, RequiredFreeIsInt
<1> QED
  BY <1>1 DEF Over, Nearly, Rated

LEMMA FullerPaths ==
  ASSUME NEW fs \in Paths, NEW gs \in Paths, DOMAIN gs = DOMAIN fs, OneSize(gs),
         \A p \in DOMAIN fs : gs[p].total = fs[p].total /\ gs[p].avail <= fs[p].avail
  PROVE  /\ LeastPath(gs).total = LeastPath(fs).total /\ LeastPath(gs).avail <= LeastPath(fs).avail
         /\ MostPath(gs).total = MostPath(fs).total /\ MostPath(gs).avail <= MostPath(fs).avail
<1>1. \A i \in DOMAIN fs : fs[i].total \in Nat /\ fs[i].avail \in Nat
  BY PathsAreDisks
<1>2. \A i \in DOMAIN gs : gs[i].total \in Nat /\ gs[i].avail \in Nat
  BY PathsAreDisks
<1>3. PICK i \in DOMAIN fs : LeastPath(fs) = fs[i]
  BY APathIsFullest
<1>4. PICK j \in DOMAIN gs : LeastPath(gs) = gs[j] /\ Fuller(gs[j], gs[i])
  BY <1>3, APathIsFullest
<1>5. PICK k \in DOMAIN gs : MostPath(gs) = gs[k]
  BY APathIsFullest
<1>6. PICK l \in DOMAIN fs : MostPath(fs) = fs[l] /\ Fuller(fs[k], fs[l])
  BY <1>5, APathIsFullest
<1>7. gs[j].avail <= gs[i].avail /\ fs[k].avail <= fs[l].avail
  BY <1>1, <1>2, <1>4, <1>6 DEF Fuller
<1>8. gs[j].total = gs[i].total /\ gs[k].total = gs[l].total
  BY DEF OneSize
<1> QED
  BY <1>1, <1>2, <1>3, <1>4, <1>5, <1>6, <1>7, <1>8

LEMMA FullerDisksAreOver ==
  ASSUME IInv, OnlyFuller, \A n \in DOMAIN cur.fs : OneSize(cur.fs[n])
  PROVE  /\ Seen(cur) = Seen(base)
         /\ OverFlood(base) \cup OverHigh(base) # {} => OverFlood(cur) \cup OverHigh(cur) # {}
         /\ OverFlood(base) \cup OverHigh(base) \cup OverLow(base) \cup NearLow(base) # {} =>
              OverFlood(cur) \cup OverHigh(cur) \cup OverLow(cur) \cup NearLow(cur) # {}
         /\ OverFrozen(base) # {} => OverFrozen(cur) # {}
<1>1. settings \in Settings /\ IsBundle(base, clock, disk) /\ IsBundle(cur, clock, disk)
  BY DEF IInv, ClusterInv
<1>2. Seen(cur) = Seen(base) /\ Warm(cur) = Warm(base) /\ Frozen(cur) = Frozen(base)
  BY DEF OnlyFuller, Seen, Warm, Frozen
<1>3. ASSUME NEW n \in Seen(base), NEW kind \in Kind
      PROVE  /\ Over(settings, kind, LeastPath(base.fs[n])) => Over(settings, kind, LeastPath(cur.fs[n]))
             /\ Over(settings, kind, MostPath(base.fs[n])) => Over(settings, kind, MostPath(cur.fs[n]))
             /\ Nearly(settings, kind, MostPath(base.fs[n])) => Nearly(settings, kind, MostPath(cur.fs[n]))
  <2> DEFINE fs == base.fs[n]
             gs == cur.fs[n]
  <2>1. fs \in Paths /\ gs \in Paths /\ DOMAIN gs = DOMAIN fs /\ OneSize(gs)
    BY <1>1, <1>2 DEF IsBundle, Seen
  <2>2. \A p \in DOMAIN fs : gs[p].total = fs[p].total /\ gs[p].avail <= fs[p].avail
    BY DEF OnlyFuller, Seen
  <2> HIDE DEF fs, gs
  <2>3. /\ LeastPath(gs).total = LeastPath(fs).total /\ LeastPath(gs).avail <= LeastPath(fs).avail
        /\ MostPath(gs).total = MostPath(fs).total /\ MostPath(gs).avail <= MostPath(fs).avail
    BY <2>1, <2>2, FullerPaths
  <2>4. /\ LeastPath(fs).total \in Nat /\ LeastPath(fs).avail \in Int /\ LeastPath(gs).avail \in Int
        /\ MostPath(fs).total \in Nat /\ MostPath(fs).avail \in Int /\ MostPath(gs).avail \in Int
    BY <2>1, PathsAreDisks
  <2>5. /\ Over(settings, kind, LeastPath(fs)) => Over(settings, kind, LeastPath(gs))
        /\ Over(settings, kind, MostPath(fs)) => Over(settings, kind, MostPath(gs))
        /\ Nearly(settings, kind, MostPath(fs)) => Nearly(settings, kind, MostPath(gs))
    BY <1>1, <2>3, <2>4, FullerIsOver
  <2> QED
    BY <2>5 DEF fs, gs
<1>4. "high" \in Kind /\ "flood_stage" \in Kind /\ "low" \in Kind /\ "flood_stage.frozen" \in Kind
  BY DEF Kind
<1>5. Warm(base) \subseteq Seen(base) /\ Frozen(base) \subseteq Seen(base)
  BY DEF Warm, Frozen
<1>6. ASSUME NEW n \in OverFlood(base) \cup OverHigh(base) PROVE n \in OverFlood(cur) \cup OverHigh(cur)
  BY <1>2, <1>3, <1>4, <1>5 DEF OverFlood, OverHigh
<1>7. ASSUME NEW n \in OverLow(base)
      PROVE  n \in OverFlood(cur) \cup OverHigh(cur) \cup OverLow(cur)
  BY <1>2, <1>3, <1>4, <1>5 DEF OverLow
<1>8. ASSUME NEW n \in NearLow(base)
      PROVE  n \in OverFlood(cur) \cup OverHigh(cur) \cup OverLow(cur) \cup NearLow(cur)
  BY <1>2, <1>3, <1>4, <1>5 DEF NearLow
<1>9. ASSUME NEW n \in OverFrozen(base) PROVE n \in OverFrozen(cur)
  BY <1>2, <1>3, <1>4, <1>5 DEF OverFrozen
<1> QED
  BY <1>2, <1>6, <1>7, <1>8, <1>9

(* Disks that only got fuller are never told a milder DISK-001 to DISK-004 *)
(* than before, for any paths and any legal watermarks. *)
THEOREM FullerIsGraver == Spec => []FullerIsNeverMilder
<1>1. IInv => FullerIsNeverMilder
  <2> SUFFICES ASSUME IInv, OnlyFuller, \A n \in DOMAIN cur.fs : OneSize(cur.fs[n])
               PROVE  Worst(r_disk(cur)) <= Worst(r_disk(base))
    BY DEF FullerIsNeverMilder
  <2>1. \A f \in r_disk(base) \cup r_disk(cur) : f.id # "DISK-005" => Rank[f.severity] \in 0 .. 3
    BY RanksOfDisks
  <2>2. ASSUME NEW f \in r_disk(base), f.id # "DISK-005", Rank[f.severity] # 3
        PROVE  \E g \in r_disk(cur) : g.id # "DISK-005" /\ Rank[g.severity] <= Rank[f.severity]
    <3>1. Seen(cur) # {}
      BY WhatDisksAreFound, FullerDisksAreOver
    <3>2. Rank[f.severity] \in {0, 1, 2}
      BY <2>1, <2>2
    <3>3. \E g \in DiskFindings(cur) : g.id # "DISK-005" /\ Rank[g.severity] <= Rank[f.severity]
      <4>1. CASE Rank[f.severity] = 0
        <5>1. OverFlood(cur) \cup OverHigh(cur) # {}
          BY <2>2, <4>1, RanksOfDisks, FullerDisksAreOver
        <5>2. PICK g \in DiskFindings(cur) : g.id # "DISK-005" /\ Rank[g.severity] = 0
          BY <5>1, SeriousDisksAreFound
        <5> QED
          BY <4>1, <5>2
      <4>2. CASE Rank[f.severity] = 1
        <5>1. OverFlood(cur) \cup OverHigh(cur) \cup OverLow(cur) \cup NearLow(cur) # {}
          BY <2>2, <4>2, RanksOfDisks, FullerDisksAreOver
        <5>2. PICK g \in DiskFindings(cur) : g.id # "DISK-005" /\ Rank[g.severity] \in {0, 1}
          BY <5>1, SeriousDisksAreFound
        <5> QED
          BY <4>2, <5>2
      <4>3. CASE Rank[f.severity] = 2
        <5>1. OverFrozen(cur) # {}
          BY <2>2, <4>3, RanksOfDisks, FullerDisksAreOver
        <5>2. PICK g \in DiskFindings(cur) : g.id # "DISK-005" /\ Rank[g.severity] = 2
          BY <5>1, SeriousDisksAreFound
        <5> QED
          BY <4>3, <5>2
      <4> QED
        BY <3>2, <4>1, <4>2, <4>3
    <3> QED
      BY <3>1, <3>3, WhatDisksAreFound
  <2> QED
    BY <2>1, <2>2, GraverIsNoMilder
<1> QED
  BY <1>1, DisksInvariant, PTL

-----------------------------------------------------------------------------
(* Where every watermark leaves something of a disk, the rules and         *)
(* Elasticsearch call the same disks full.                                 *)
LEMMA MarkedIsFull ==
  ASSUME NEW b, IsBundle(b, clock, disk), Marked(b), NEW n \in Seen(b), NEW kind \in Watched
  PROVE  Over(settings, kind, LeastPath(b.fs[n])) <=> FullAt(settings, b.fs[n], kind)
<1>1. b.fs[n] \in Paths
  BY DEF IsBundle
<1>2. \E i \in DOMAIN b.fs[n] : LeastPath(b.fs[n]) = b.fs[n][i]
  BY <1>1, APathIsFullest
<1>3. Rated(settings, kind, LeastPath(b.fs[n]).total)
  BY <1>2 DEF Marked, Watched
<1> QED
  BY <1>3 DEF Over, FullAt

LEMMA OverFloodIsOverHigh ==
  ASSUME settings \in Settings, NEW b, IsBundle(b, clock, disk), Marked(b), NEW n \in Seen(b),
         Over(settings, "flood_stage", LeastPath(b.fs[n]))
  PROVE  Over(settings, "high", LeastPath(b.fs[n]))
<1> DEFINE p == LeastPath(b.fs[n])
<1>1. p.total \in Nat /\ p.avail \in Nat
  BY PathsAreDisks DEF IsBundle
<1>2. "high" \in Watched /\ "high" \in Kind /\ "flood_stage" \in Kind
  BY DEF Watched, Kind
<1>3. RequiredFree(settings, "flood_stage", p.total) <= RequiredFree(settings, "high", p.total)
  BY <1>1, FloodIsPastHigh
<1>4. /\ RequiredFree(settings, "flood_stage", p.total) \in Int
      /\ RequiredFree(settings, "high", p.total) \in Int
  BY <1>1, <1>2, RequiredFreeIsInt
<1>5. 100 * p.avail <= RequiredFree(settings, "flood_stage", p.total)
  BY DEF Over
<1> HIDE DEF p
<1>6. 100 * p.avail <= RequiredFree(settings, "high", p.total)
  BY <1>1, <1>3, <1>4, <1>5
<1> QED
  BY <1>2, <1>6, MarkedIsFull DEF FullAt, p

LEMMA TheIndicatorIsTheRule ==
  ASSUME settings \in Settings, NEW b, IsBundle(b, clock, disk), Marked(b),
         b.health = Told(settings, b.fs)
  PROVE  LET disks == r_disk(b)
             critical == \E f \in disks : f.severity = "CRITICAL"
         IN  /\ DiskIndicator(b).severity \in Serious <=> critical
             /\ DiskIndicator(b).severity = "INFO" <=>
                   ~critical /\ Finding("DISK-001", "INFO") \in disks
<1> DEFINE A == \E n \in Warm(b) : Over(settings, "flood_stage", LeastPath(b.fs[n]))
           H == \E n \in Warm(b) : Over(settings, "high", LeastPath(b.fs[n]))
           Z == OverFrozen(b) # {}
           critical == \E f \in r_disk(b) : f.severity = "CRITICAL"
<1>1. /\ Warm(b) = {n \in Seen(b) : Tier[n] # "frozen"}
      /\ Frozen(b) = {n \in Seen(b) : Tier[n] = "frozen"}
  BY DEF Warm, Frozen
<1>2. A => H
  BY <1>1, OverFloodIsOverHigh
<1>3. (OverFlood(b) # {} <=> A) /\ (OverFlood(b) \cup OverHigh(b) # {} <=> H)
  BY <1>2 DEF OverFlood, OverHigh
<1>4. (\E n \in DOMAIN b.fs : FullAt(settings, b.fs[n], Stage(n))) <=> A \/ Z
  <2>1. \A n \in Warm(b) : Stage(n) = "flood_stage" /\ n \in Seen(b)
    BY <1>1 DEF Stage
  <2>2. \A n \in Frozen(b) : Stage(n) = "flood_stage.frozen" /\ n \in Seen(b)
    BY <1>1 DEF Stage
  <2>3. \A n \in Warm(b) : Over(settings, "flood_stage", LeastPath(b.fs[n])) <=> FullAt(settings, b.fs[n], Stage(n))
    BY <2>1, MarkedIsFull DEF Watched
  <2>4. \A n \in Frozen(b) : Over(settings, "flood_stage.frozen", LeastPath(b.fs[n])) <=> FullAt(settings, b.fs[n], Stage(n))
    BY <2>2, MarkedIsFull DEF Watched
  <2>5. DOMAIN b.fs = Warm(b) \cup Frozen(b)
    BY <1>1 DEF Seen
  <2> QED
    BY <2>3, <2>4, <2>5 DEF OverFrozen
<1>5. (\E n \in DOMAIN b.fs : Tier[n] # "frozen" /\ FullAt(settings, b.fs[n], "high")) <=> H
  <2>1. \A n \in Warm(b) : Over(settings, "high", LeastPath(b.fs[n])) <=> FullAt(settings, b.fs[n], "high")
    BY <1>1, MarkedIsFull DEF Watched
  <2> QED
    BY <1>1, <2>1 DEF Seen
<1>6. frozen_disk_only_alarm(b) <=> Z /\ ~H
  BY DEF frozen_disk_only_alarm
<1>7. b.health = CASE A \/ Z -> "red" [] ~(A \/ Z) /\ H -> "yellow" [] OTHER -> "green"
  BY <1>4, <1>5 DEF Told
<1>8. critical <=> H
  <2>1. ASSUME NEW f \in r_disk(b), f.severity = "CRITICAL" PROVE H
    <3>1. f.id # "DISK-005"
      BY <2>1, WhatDisksAreFound, DiskFindingsAre DEF Finding
    <3>2. Rank[f.severity] = 0
      BY <2>1 DEF Rank
    <3> HIDE DEF H
    <3> QED
      BY <1>3, <3>1, <3>2, RanksOfDisks
  <2>2. ASSUME H PROVE critical
    <3>1. Seen(b) # {}
      BY <1>1, <2>2
    <3>2. OverFlood(b) # {} \/ OverHigh(b) # {}
      BY <1>3, <2>2
    <3>3. \/ Finding("DISK-001", "CRITICAL") \in r_disk(b)
          \/ Finding("DISK-002", "CRITICAL") \in r_disk(b)
      BY <3>1, <3>2, WhatDisksAreFound, DiskFindingsAre
    <3> QED
      BY <3>3 DEF Finding
  <2> QED
    BY <2>1, <2>2
<1>9. Finding("DISK-001", "INFO") \in r_disk(b) <=> Z
  <2>1. ASSUME Finding("DISK-001", "INFO") \in r_disk(b) PROVE Z
    <3>1. Finding("DISK-001", "INFO").id = "DISK-001" /\ Finding("DISK-001", "INFO").severity = "INFO"
      BY DEF Finding
    <3>2. Rank["INFO"] = 2
      BY DEF Rank
    <3> QED
      BY <2>1, <3>1, <3>2, RanksOfDisks
  <2>2. ASSUME Z PROVE Finding("DISK-001", "INFO") \in r_disk(b)
    <3>1. Seen(b) # {}
      BY <1>1, <2>2 DEF OverFrozen
    <3> QED
      BY <2>2, <3>1, WhatDisksAreFound, DiskFindingsAre
  <2> QED
    BY <2>1, <2>2
<1>10. \A i, s : Finding(i, s).severity = s
  BY DEF Finding
<1> HIDE DEF A, H, Z, critical
<1>11. DiskIndicator(b).severity \in Serious <=> H
  <2>1. CASE H
    <3>1. b.health # "green"
      BY <1>7, <2>1
    <3>2. ~frozen_disk_only_alarm(b)
      BY <1>6, <2>1
    <3> QED
      BY <1>10, <2>1, <3>1, <3>2 DEF DiskIndicator, Serious
  <2>2. CASE ~H /\ Z
    <3>1. b.health # "green" /\ frozen_disk_only_alarm(b)
      BY <1>6, <1>7, <2>2
    <3> QED
      BY <1>10, <2>2, <3>1 DEF DiskIndicator, Serious
  <2>3. CASE ~H /\ ~Z
    <3>1. b.health = "green"
      BY <1>2, <1>7, <2>3
    <3> QED
      BY <1>10, <2>3, <3>1 DEF DiskIndicator, Serious
  <2> QED
    BY <2>1, <2>2, <2>3
<1>12. DiskIndicator(b).severity = "INFO" <=> ~H /\ Z
  <2>1. CASE H
    BY <1>11, <2>1 DEF Serious
  <2>2. CASE ~H /\ Z
    <3>1. b.health # "green" /\ frozen_disk_only_alarm(b)
      BY <1>6, <1>7, <2>2
    <3> QED
      BY <1>10, <2>2, <3>1 DEF DiskIndicator
  <2>3. CASE ~H /\ ~Z
    <3>1. b.health = "green"
      BY <1>2, <1>7, <2>3
    <3> QED
      BY <1>10, <2>3, <3>1 DEF DiskIndicator
  <2> QED
    BY <2>1, <2>2, <2>3
<1> QED
  BY <1>8, <1>9, <1>11, <1>12 DEF critical

LEMMA OneStory == IInv => SameStory
<1> SUFFICES ASSUME IInv, NEW b \in Collected, b.calm, b.everyone, Marked(b)
             PROVE  LET disks == r_disk(b)
                        critical == \E f \in disks : f.severity = "CRITICAL"
                    IN  /\ DiskIndicator(b).severity \in Serious <=> critical
                        /\ DiskIndicator(b).severity = "INFO" <=>
                              ~critical /\ Finding("DISK-001", "INFO") \in disks
  BY DEF SameStory
<1>1. b = base \/ b = cur
  BY DEF Collected
<1>2. settings \in Settings /\ IsBundle(b, clock, disk) /\ b.health = Told(settings, b.fs)
  BY <1>1 DEF IInv, ClusterInv, HealthInv
<1> QED
  BY <1>2, TheIndicatorIsTheRule

-----------------------------------------------------------------------------
(* The projection. *)
ProjectedOf(t) == Projected \cap InTier(cur, t)

LEMMA LeftIsNat ==
  ASSUME IInv, NEW n \in Projected
  PROVE  Left(n) \in Nat /\ Growth(n) \in Int
<1>1. n \in Seen(base) /\ n \in Seen(cur)
  BY DEF Projected, Warm
<1>2. base.fs[n] \in Paths /\ cur.fs[n] \in Paths /\ settings \in Settings
  BY <1>1 DEF IInv, ClusterInv, IsBundle
<1> DEFINE w == Whole(cur.fs[n])
<1>3. w.total \in Nat /\ w.avail \in Nat /\ Used(cur.fs[n]) \in Int /\ Used(base.fs[n]) \in Int
  BY <1>2, WholeIsNat
<1>4. "high" \in Kind
  BY DEF Kind
<1>5. RequiredFree(settings, "high", w.total) \in Int
  BY <1>2, <1>3, <1>4, RequiredFreeIsInt
<1>6. Left(n) = LET left == 100 * w.avail - (IF Rated(settings, "high", w.total)
                                             THEN RequiredFree(settings, "high", w.total)
                                             ELSE 10 * w.total)
                IN  IF left > 0 THEN left ELSE 0
  BY DEF Left
<1> HIDE DEF w
<1>7. Left(n) \in Nat
  BY <1>3, <1>5, <1>6
<1> QED
  BY <1>3, <1>7 DEF Growth

LEMMA NodesAreFinite ==
  ASSUME IInv
  PROVE  /\ IsFiniteSet(Projected) /\ Projected \subseteq Node
         /\ \A t : IsFiniteSet(ProjectedOf(t))
<1>1. Projected \subseteq Node
  BY DEF IInv, IsBundle, Projected
<1>2. \A t : ProjectedOf(t) \subseteq Node
  BY <1>1 DEF ProjectedOf
<1> QED
  BY <1>1, <1>2, FS_Subset, LayoutsAssumption

(* With one path the whole is the path. *)
LEMMA OnePathIsWhole ==
  ASSUME NEW fs \in Paths, Len(fs) = 1
  PROVE  Whole(fs).total = LeastPath(fs).total /\ Whole(fs).avail = LeastPath(fs).avail
<1> DEFINE total == [i \in DOMAIN fs |-> fs[i].total]
           avail == [i \in DOMAIN fs |-> fs[i].avail]
<1>1. DOMAIN fs = {1} /\ LeastPath(fs) = fs[1]
  <2>1. DOMAIN fs = {1}
    BY DEF Paths
  <2> QED
    BY <2>1, APathIsFullest
<1>2. fs[1].total \in Nat /\ fs[1].avail \in Nat
  BY <1>1, PathsAreDisks
<1>3. Whole(fs).total = SumFunctionOnSet(total, {1}) /\ Whole(fs).avail = SumFunctionOnSet(avail, {1})
  BY <1>1 DEF Whole, SumFunction
<1>4. total[1] = fs[1].total /\ avail[1] = fs[1].avail
  BY <1>1
<1> HIDE DEF total, avail
<1>5. /\ SumFunctionOnSet(total, {1}) = total[1] + SumFunctionOnSet(total, {1} \ {1})
      /\ SumFunctionOnSet(avail, {1}) = avail[1] + SumFunctionOnSet(avail, {1} \ {1})
  <2>1. IsFiniteSet({1}) /\ 1 \in {1}
    BY FS_Singleton
  <2>2. (\A i \in {1} : total[i] \in Int) /\ (\A i \in {1} : avail[i] \in Int)
    BY <1>2, <1>4
  <2> QED
    BY <2>1, <2>2, SumTakesOut
<1>6. {1} \ {1} = {}
  OBVIOUS
<1>7. SumFunctionOnSet(total, {}) = 0 /\ SumFunctionOnSet(avail, {}) = 0
  BY SumOfNothing
<1> QED
  BY <1>1, <1>2, <1>3, <1>4, <1>5, <1>6, <1>7

LEMMA FullTiers == IInv => FullTiersAreOverHigh
<1> SUFFICES ASSUME IInv, Marked(cur), NEW t \in RatedTiers, TierLeft(t) = 0,
                    \A n \in Projected : Len(cur.fs[n]) = 1, NEW n \in ProjectedOf(t)
             PROVE  n \in OverFlood(cur) \cup OverHigh(cur)
  BY DEF FullTiersAreOverHigh, ProjectedOf
<1>1. n \in Projected /\ n \in Warm(cur) /\ n \in Seen(cur)
  BY DEF ProjectedOf, Projected, Warm
<1>2. settings \in Settings /\ IsBundle(cur, clock, disk)
  BY DEF IInv, ClusterInv
<1>3. cur.fs[n] \in Paths /\ Len(cur.fs[n]) = 1
  BY <1>1, <1>2 DEF IsBundle
<1>4. Left(n) = 0
  <2> DEFINE S == ProjectedOf(t)
             f == [m \in S |-> Left(m)]
  <2>1. TierLeft(t) = SumFunctionOnSet(f, S)
    BY DEF TierLeft, SumFunction, ProjectedOf
  <2>2. \A m \in S : f[m] \in Nat
    BY LeftIsNat DEF ProjectedOf
  <2>3. IsFiniteSet(S) /\ n \in S /\ f[n] = Left(n)
    BY NodesAreFinite
  <2> HIDE DEF S, f
  <2>4. f[n] <= SumFunctionOnSet(f, S)
    BY <2>2, <2>3, SumBoundsEach
  <2>5. f[n] \in Nat
    BY <2>2, <2>3
  <2> QED
    BY <2>1, <2>3, <2>4, <2>5
<1> DEFINE p == LeastPath(cur.fs[n])
<1>5. Whole(cur.fs[n]).total = p.total /\ Whole(cur.fs[n]).avail = p.avail
  BY <1>3, OnePathIsWhole
<1>6. p.total \in Nat /\ p.avail \in Nat
  BY <1>3, PathsAreDisks
<1>7. Rated(settings, "high", p.total)
  <2>1. \E i \in DOMAIN cur.fs[n] : p = cur.fs[n][i]
    BY <1>3, APathIsFullest
  <2> QED
    BY <1>1, <2>1 DEF Marked
<1>8. RequiredFree(settings, "high", p.total) \in Int
  BY <1>2, <1>6, RequiredFreeIsInt DEF Kind
<1>9. Left(n) = LET left == 100 * p.avail - RequiredFree(settings, "high", p.total)
                IN  IF left > 0 THEN left ELSE 0
  BY <1>5, <1>7 DEF Left
<1> HIDE DEF p
<1>10. 100 * p.avail <= RequiredFree(settings, "high", p.total)
  BY <1>4, <1>6, <1>8, <1>9
<1>11. Over(settings, "high", LeastPath(cur.fs[n]))
  BY <1>7, <1>10 DEF Over, p
<1> QED
  BY <1>1, <1>11 DEF OverHigh

(* The three rules that look at the watermarks agree on which disks are    *)
(* full, for any nodes, paths and legal watermarks. *)
THEOREM WatermarksAreOne == Spec => []DiskRulesAgree
<1>1. IInv => DiskRulesAgree
  BY OneStory, FullTiers DEF DiskRulesAgree
<1> QED
  BY <1>1, DisksInvariant, PTL

(* What was written is what the stats grew by. *)
LEMMA WrittenIsGrowth ==
  ASSUME IInv, collected, NEW n \in Projected
  PROVE  Growth(n) = grown[n]
<1>1. n \in Seen(base) /\ n \in Seen(cur)
  BY DEF Projected, Warm
<1>2. stage = 7
  BY Stages DEF collected, IInv, ClusterInv
<1>3. grown[n] = Used(disk[n]) - Used(base.fs[n]) /\ cur.fs[n] = disk[n]
  BY <1>1, <1>2 DEF IInv, WrittenInv
<1> QED
  BY <1>3 DEF Growth

LEMMA FollowedTiers ==
  ASSUME IInv, collected, NEW t, Followed(t)
  PROVE  TierGrowth(t) = WrittenIn(t)
<1>1. Projected \cap InTier(cur, t) = InTier(cur, t)
  BY DEF Followed
<1>2. [n \in Projected \cap InTier(cur, t) |-> Growth(n)] = [n \in InTier(cur, t) |-> grown[n]]
  <2>1. \A n \in InTier(cur, t) : Growth(n) = grown[n]
    BY <1>1, WrittenIsGrowth
  <2> QED
    BY <1>1, <2>1
<1> QED
  BY <1>2 DEF TierGrowth, WrittenIn

(* DIF-008 warns of a tier just when what was written less what was deleted *)
(* fills it in time, whatever became of the size of its disks. *)
THEOREM ProjectionIsOfWrites == Spec => []ProjectionFollowsWrites
<1>1. IInv => ProjectionFollowsWrites
  <2> SUFFICES ASSUME IInv, collected, Hours > 0, \A n \in Projected : Followed(Tier[n])
               PROVE  (\E f \in r_disk_projection : f.severity \in Serious)
                        <=> \E n \in Projected : Followed(Tier[n]) /\ Fills(Tier[n])
    BY DEF ProjectionFollowsWrites
  <2> DEFINE soon == {t \in RatedTiers : Within(t, WarnDays)}
  <2>1. RatedTiers = {Tier[n] : n \in Projected}
    BY DEF RatedTiers, Followed
  <2>2. \A n \in Projected : Within(Tier[n], WarnDays) <=> Fills(Tier[n])
    BY FollowedTiers DEF Within, Fills
  <2>3. soon # {} <=> \E n \in Projected : Followed(Tier[n]) /\ Fills(Tier[n])
    BY <2>1, <2>2
  <2>4. Hours # 0
    <3>1. Hours \in Int
      <4>1. cur.date \in Int /\ base.date \in Int /\ TickHours \in Int
        BY LayoutsAssumption DEF IInv, IsBundle
      <4> QED
        BY <4>1 DEF Hours
    <3> QED
      BY <3>1
  <2>5. CASE Projected = {}
    BY <2>5 DEF r_disk_projection
  <2>6. CASE Projected # {}
    <3>1. r_disk_projection =
            {Finding("DIF-008",
                     CASE \E t \in soon : Within(t, 7) -> "CRITICAL"
                       [] soon # {} /\ ~\E t \in soon : Within(t, 7) -> "WARNING"
                       [] OTHER -> "INFO")}
      BY <2>4, <2>6 DEF r_disk_projection
    <3>2. \A s : Finding("DIF-008", s).severity = s
      BY DEF Finding
    <3> HIDE DEF soon
    <3>3. CASE \E t \in soon : Within(t, 7)
      <4>1. r_disk_projection = {Finding("DIF-008", "CRITICAL")} /\ soon # {}
        BY <3>1, <3>3
      <4> QED
        BY <2>3, <3>2, <4>1 DEF Serious
    <3>4. CASE soon # {} /\ ~\E t \in soon : Within(t, 7)
      <4>1. r_disk_projection = {Finding("DIF-008", "WARNING")}
        BY <3>1, <3>4
      <4> QED
        BY <2>3, <3>2, <3>4, <4>1 DEF Serious
    <3>5. CASE soon = {}
      <4>1. r_disk_projection = {Finding("DIF-008", "INFO")}
        BY <3>1, <3>5
      <4> QED
        BY <2>3, <3>2, <3>5, <4>1 DEF Serious
    <3> QED
      BY <3>3, <3>4, <3>5
  <2> QED
    BY <2>5, <2>6
<1> QED
  BY <1>1, DisksInvariant, PTL
=============================================================================
