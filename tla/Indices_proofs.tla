--------------------------- MODULE Indices_proofs ----------------------------
(***************************************************************************)
(* What the program takes indices to be is what they are, for any series   *)
(* of indices and whatever happens to them: the invariant says how the     *)
(* name, the mount, the stream and the alias of an index hang together,    *)
(* which is what context.py and the rules rely on when a file is missing.  *)
(***************************************************************************)
EXTENDS Indices, SetTheorems

Records ==
    [size : 0 .. MaxSize, mount : {"no", "full", "partial"},
     block : {"none", "write", "flood"}, complete : BOOLEAN, replicas : {0, 1},
     traits : SUBSET Traits, ilm : {"ilm", "ilm_unpreferred", "none"}]

(* What is mounted has the prefix of its mount, and a series that rolls    *)
(* over has no other names with one; an alias lets go of an index when it  *)
(* is complete.                                                            *)
NameFits(n, rec) ==
    /\ rec.mount = "partial" <=> n.form = "partial"
    /\ rec.mount = "full" => n.form = "restored"
    /\ rec.mount # "no" => Kind[n.series] \in {"stream", "alias"}
    /\ Kind[n.series] # "alone" => (n.form = "index" <=> rec.mount = "no")
    /\ Kind[n.series] = "alias" /\ rec.mount # "no" => rec.complete

(* A series that rolls over has one index of each generation.              *)
SameGeneration(n, m) ==
    Kind[n.series] # "alone" /\ n.series = m.series /\ n.gen = m.gen

IndicesFit(ix) ==
    /\ DOMAIN ix \subseteq Name
    /\ ix \in [DOMAIN ix -> Records]
    /\ \A n \in DOMAIN ix : NameFits(n, ix[n])
    /\ \A n, m \in DOMAIN ix : SameGeneration(n, m) => n = m

(* A stream lists indices there are, each once, and writes to the last,    *)
(* which is no mount.                                                      *)
ListFits(names, ix) ==
    /\ names \in Seq(Name) /\ names # <<>>
    /\ \A k \in DOMAIN names : names[k] \in DOMAIN ix
    /\ \A k, l \in DOMAIN names : names[k] = names[l] => k = l
    /\ ix[names[Len(names)]].mount = "no"

StreamsFit == DOMAIN backing = Streams /\ \A s \in Streams : ListFits(backing[s], index)

(* An alias is on indices there are and writes to one at most, no mount.   *)
FlagsFit(flags, ix) ==
    /\ DOMAIN flags \subseteq DOMAIN ix
    /\ \A n \in DOMAIN flags : flags[n] = "true" => ix[n].mount = "no"
    /\ \A n, m \in DOMAIN flags : flags[n] = "true" /\ flags[m] = "true" => n = m

AliasesFit == DOMAIN members = Series /\ \A s \in Series : FlagsFit(members[s], index)

(* A failure store is always under a lifecycle. *)
ManagersFit ==
    /\ template \in [Series -> {"ilm", "ilm_unpreferred", "none"}]
    /\ lifecycle \in [Series -> BOOLEAN]
    /\ \A s \in Series : Kind[s] = "failure" => lifecycle[s]

IInv ==
    /\ events \in 0 .. MaxEvents
    /\ IndicesFit(index) /\ StreamsFit /\ AliasesFit /\ ManagersFit

-----------------------------------------------------------------------------
(* What keeps each part of the invariant, first of any indices and lists.  *)
(* Indices keep their names and mounts.                                    *)
Keeps(ix, iy) == \A n \in DOMAIN ix : n \in DOMAIN iy /\ iy[n].mount = ix[n].mount

LEMMA KeptListFits ==
  ASSUME NEW names, NEW ix, NEW iy, ListFits(names, ix), Keeps(ix, iy)
  PROVE  ListFits(names, iy)
<1>1. Len(names) \in DOMAIN names
  BY DEF ListFits
<1> QED
  BY <1>1 DEF ListFits, Keeps

LEMMA KeptFlagsFit ==
  ASSUME NEW flags, NEW ix, NEW iy, FlagsFit(flags, ix), Keeps(ix, iy)
  PROVE  FlagsFit(flags, iy)
BY DEF FlagsFit, Keeps

(* One index changes, and its mount does not. *)
LEMMA ChangedIndexFits ==
  ASSUME NEW ix, IndicesFit(ix), NEW n \in DOMAIN ix, NEW rec \in Records,
         rec.mount = ix[n].mount, ix[n].complete => rec.complete
  PROVE  LET iy == [ix EXCEPT ![n] = rec]
         IN  IndicesFit(iy) /\ Keeps(ix, iy)
<1> DEFINE iy == [ix EXCEPT ![n] = rec]
<1>1. /\ DOMAIN iy = DOMAIN ix
      /\ \A m \in DOMAIN ix : iy[m] = IF m = n THEN rec ELSE ix[m]
  OBVIOUS
<1>2. iy \in [DOMAIN ix -> Records]
  BY DEF IndicesFit
<1> HIDE DEF iy
<1>3. \A m \in DOMAIN ix : NameFits(m, iy[m])
  BY <1>1 DEF IndicesFit, NameFits
<1>4. IndicesFit(iy)
  BY <1>1, <1>2, <1>3 DEF IndicesFit
<1>5. Keeps(ix, iy)
  BY <1>1 DEF Keeps
<1> QED
  BY <1>4, <1>5 DEF iy

(* An index comes that there was not; another may be marked complete.      *)
Adds(ix, new, iy) ==
    /\ new \in Name /\ new \notin DOMAIN ix
    /\ iy \in [DOMAIN ix \cup {new} -> Records]
    /\ \A n \in DOMAIN ix : iy[n].mount = ix[n].mount /\ (ix[n].complete => iy[n].complete)
    /\ NameFits(new, iy[new])
    /\ \A n \in DOMAIN ix : ~SameGeneration(n, new)

LEMMA AddedIndexFits ==
  ASSUME NEW ix, IndicesFit(ix), NEW new, NEW iy, Adds(ix, new, iy)
  PROVE  IndicesFit(iy) /\ Keeps(ix, iy)
<1> USE DEF Adds
<1>1. DOMAIN iy = DOMAIN ix \cup {new}
  OBVIOUS
<1>2. \A n \in DOMAIN iy : NameFits(n, iy[n])
  BY <1>1 DEF IndicesFit, NameFits
<1>3. \A n, m \in DOMAIN iy : SameGeneration(n, m) => n = m
  BY <1>1 DEF IndicesFit, SameGeneration
<1>4. IndicesFit(iy)
  BY <1>1, <1>2, <1>3 DEF IndicesFit
<1> QED
  BY <1>1, <1>4 DEF Keeps

(* An index goes.                                                          *)
LEMMA FewerIndicesFit ==
  ASSUME NEW ix, IndicesFit(ix), NEW n
  PROVE  IndicesFit([m \in DOMAIN ix \ {n} |-> ix[m]])
BY DEF IndicesFit

(* What a list of names is without one of them. *)
LEMMA WithoutFits ==
  ASSUME NEW names, NEW ix, ListFits(names, ix), NEW n, n # names[Len(names)]
  PROVE  ListFits(Without(names, n), [m \in DOMAIN ix \ {n} |-> ix[m]])
<1> DEFINE iy == [m \in DOMAIN ix \ {n} |-> ix[m]]
<1>1. /\ names \in Seq(Name) /\ Len(names) \in Nat /\ DOMAIN names = 1 .. Len(names)
      /\ Len(names) # 0 /\ Len(names) \in DOMAIN names
      /\ \A k \in DOMAIN names : names[k] \in Name
  BY DEF ListFits
<1>2. CASE ~\E k \in DOMAIN names : names[k] = n
  <2>1. Without(names, n) = names
    BY <1>2 DEF Without
  <2> QED
    BY <1>1, <1>2, <2>1 DEF ListFits
<1>3. CASE \E k \in DOMAIN names : names[k] = n
  <2>1. PICK at \in DOMAIN names :
            /\ names[at] = n
            /\ Without(names, n) =
                  [k \in 1 .. Len(names) - 1 |-> names[IF k < at THEN k ELSE k + 1]]
    BY <1>3 DEF Without
  <2> DEFINE L == Len(names)
             rest == [k \in 1 .. L - 1 |-> names[IF k < at THEN k ELSE k + 1]]
             from(k) == IF k < at THEN k ELSE k + 1
  <2>2. /\ at \in 1 .. L /\ at # L /\ L \in Nat
        /\ \A k, l \in 1 .. L : names[k] = names[l] => k = l
    BY <1>1, <2>1 DEF ListFits
  <2> HIDE DEF L
  <2>3. \A k \in 1 .. L - 1 : from(k) \in 1 .. L /\ from(k) # at
    BY <2>2
  <2>4. \A k, l \in 1 .. L - 1 : from(k) = from(l) => k = l
    BY <2>2
  <2>5. L - 1 \in 1 .. L - 1 /\ from(L - 1) = L
    BY <2>2
  <2> HIDE DEF from
  <2>6. \A k \in 1 .. L - 1 : rest[k] = names[from(k)]
    BY DEF from
  <2>7. DOMAIN rest = 1 .. L - 1 /\ L - 1 \in Nat
    BY <2>2
  <2> HIDE DEF rest
  <2>8. \A k \in 1 .. L - 1 : rest[k] \in Name /\ rest[k] \in DOMAIN ix /\ rest[k] # n
    BY <1>1, <2>1, <2>2, <2>3, <2>6 DEF ListFits, L
  <2>9. rest \in Seq(Name) /\ Len(rest) = L - 1
    <3>1. rest = [k \in 1 .. L - 1 |-> rest[k]]
      BY <2>7 DEF rest
    <3>2. rest \in [1 .. L - 1 -> Name]
      BY <2>8, <3>1
    <3> QED
      BY <2>7, <3>2
  <2>10. \A k, l \in 1 .. L - 1 : rest[k] = rest[l] => k = l
    BY <2>2, <2>3, <2>4, <2>6
  <2>11. rest[Len(rest)] = names[L]
    BY <2>5, <2>6, <2>9
  <2>12. rest # <<>>
    BY <2>2, <2>5, <2>7
  <2>13. iy[names[L]] = ix[names[L]] /\ ix[names[L]].mount = "no"
    BY <1>1 DEF ListFits, L
  <2>14. \A k \in DOMAIN rest : rest[k] \in DOMAIN iy
    BY <2>7, <2>8
  <2>15. Without(names, n) = rest
    BY <2>1 DEF rest, L
  <2> HIDE DEF iy
  <2>16. ListFits(rest, iy)
    BY <2>7, <2>9, <2>10, <2>11, <2>12, <2>13, <2>14 DEF ListFits
  <2> QED
    BY <2>15, <2>16 DEF iy
<1> QED
  BY <1>2, <1>3

(* What a mount does to the indices, to a stream and to an alias. *)
Mounted(n, mount) == [n EXCEPT !.form = IF mount = "full" THEN "restored" ELSE "partial"]

WithMount(ix, n, mount) ==
    [m \in (DOMAIN ix \ {n}) \cup {Mounted(n, mount)} |->
        IF m = Mounted(n, mount)
        THEN [ix[n] EXCEPT !.mount = mount, !.block = "write", !.replicas = 0]
        ELSE ix[m]]

CanMount(ix, n, mount) ==
    /\ IndicesFit(ix) /\ n \in DOMAIN ix /\ mount \in {"full", "partial"}
    /\ Kind[n.series] \in {"stream", "alias"}
    /\ Kind[n.series] = "alias" => ix[n].complete
    /\ ix[n].mount \notin {mount, "partial"}

LEMMA MountedIsNew ==
  ASSUME NEW ix, NEW n, NEW mount, CanMount(ix, n, mount)
  PROVE  /\ Mounted(n, mount) \in Name /\ Mounted(n, mount) \notin DOMAIN ix
         /\ Mounted(n, mount).series = n.series /\ Mounted(n, mount).gen = n.gen
         /\ Mounted(n, mount).form = IF mount = "full" THEN "restored" ELSE "partial"
<1> DEFINE new == Mounted(n, mount)
<1>1. n \in Name /\ mount \in {"full", "partial"} /\ Kind[n.series] # "alone"
  BY DEF CanMount, IndicesFit
<1>2. /\ new \in Name /\ new.series = n.series /\ new.gen = n.gen
      /\ new.form = IF mount = "full" THEN "restored" ELSE "partial"
  BY <1>1 DEF Mounted, Name, Forms
<1> HIDE DEF new
<1>3. n.form # new.form
  <2>1. NameFits(n, ix[n]) /\ ix[n].mount \in {"no", "full", "partial"}
    BY DEF CanMount, IndicesFit, Records
  <2> QED
    BY <1>1, <1>2, <2>1 DEF CanMount, NameFits
<1>4. new \notin DOMAIN ix
  BY <1>1, <1>2, <1>3 DEF CanMount, IndicesFit, SameGeneration
<1> QED
  BY <1>2, <1>4 DEF new

LEMMA MountedIndexFits ==
  ASSUME NEW ix, NEW n, NEW mount, CanMount(ix, n, mount)
  PROVE  IndicesFit(WithMount(ix, n, mount))
<1> DEFINE new == Mounted(n, mount)
           iy == WithMount(ix, n, mount)
           rec == [ix[n] EXCEPT !.mount = mount, !.block = "write", !.replicas = 0]
<1>1. /\ new \in Name /\ new \notin DOMAIN ix /\ new.series = n.series /\ new.gen = n.gen
      /\ new.form = IF mount = "full" THEN "restored" ELSE "partial"
  BY MountedIsNew
<1>2. ix[n] \in Records /\ mount \in {"full", "partial"} /\ IndicesFit(ix) /\ n \in DOMAIN ix
  BY DEF CanMount, IndicesFit
<1>3. rec \in Records /\ rec.mount = mount /\ rec.complete = ix[n].complete
  BY <1>2 DEF Records
<1>4. /\ DOMAIN iy = (DOMAIN ix \ {n}) \cup {new}
      /\ iy[new] = rec /\ \A m \in DOMAIN ix \ {n} : iy[m] = ix[m]
      /\ iy \in [DOMAIN iy -> Records]
  BY <1>1, <1>2, <1>3 DEF WithMount, IndicesFit
<1> HIDE DEF new, iy, rec
<1>5. NameFits(new, iy[new])
  BY <1>1, <1>2, <1>3, <1>4 DEF CanMount, NameFits
<1>6. \A m \in DOMAIN iy : NameFits(m, iy[m])
  BY <1>2, <1>4, <1>5 DEF IndicesFit
<1>7. \A m, k \in DOMAIN iy : SameGeneration(m, k) => m = k
  BY <1>1, <1>2, <1>4 DEF IndicesFit, SameGeneration
<1> QED
  BY <1>1, <1>2, <1>4, <1>6, <1>7 DEF IndicesFit, iy

LEMMA MountedListFits ==
  ASSUME NEW ix, NEW n, NEW mount, CanMount(ix, n, mount),
         NEW names, ListFits(names, ix), n # names[Len(names)]
  PROVE  ListFits([k \in DOMAIN names |-> IF names[k] = n THEN Mounted(n, mount) ELSE names[k]],
                  WithMount(ix, n, mount))
<1> DEFINE new == Mounted(n, mount)
           iy == WithMount(ix, n, mount)
           list == [k \in DOMAIN names |-> IF names[k] = n THEN new ELSE names[k]]
<1>1. new \in Name /\ new \notin DOMAIN ix
  BY MountedIsNew
<1>2. /\ names \in Seq(Name) /\ Len(names) \in Nat /\ DOMAIN names = 1 .. Len(names)
      /\ Len(names) # 0 /\ Len(names) \in DOMAIN names
      /\ \A k \in DOMAIN names : names[k] \in Name /\ names[k] \in DOMAIN ix
      /\ \A k, l \in DOMAIN names : names[k] = names[l] => k = l
      /\ ix[names[Len(names)]].mount = "no"
  BY DEF ListFits
<1>3. /\ DOMAIN iy = (DOMAIN ix \ {n}) \cup {new}
      /\ \A m \in DOMAIN ix \ {n} : iy[m] = ix[m]
  BY <1>1 DEF WithMount
<1>4. /\ DOMAIN list = DOMAIN names
      /\ \A k \in DOMAIN names : list[k] = IF names[k] = n THEN new ELSE names[k]
  OBVIOUS
<1>5. list \in Seq(Name) /\ Len(list) = Len(names)
  <2>1. list \in [1 .. Len(names) -> Name]
    BY <1>1, <1>2
  <2> HIDE DEF list
  <2> QED
    BY <1>2, <2>1
<1> HIDE DEF new, iy, list
<1>6. \A k \in DOMAIN list : list[k] \in DOMAIN iy
  BY <1>2, <1>3, <1>4
<1>7. \A k, l \in DOMAIN list : list[k] = list[l] => k = l
  BY <1>1, <1>2, <1>4
<1>8. iy[list[Len(list)]].mount = "no" /\ list # <<>>
  BY <1>2, <1>3, <1>4, <1>5
<1>9. ListFits(list, iy)
  BY <1>5, <1>6, <1>7, <1>8 DEF ListFits
<1> QED
  BY <1>9 DEF list, iy, new

LEMMA MountedFlagsFit ==
  ASSUME NEW ix, NEW n, NEW mount, CanMount(ix, n, mount), NEW flags, FlagsFit(flags, ix)
  PROVE  FlagsFit(IF n \notin DOMAIN flags THEN flags
                  ELSE [m \in (DOMAIN flags \ {n}) \cup {Mounted(n, mount)} |->
                           IF m = Mounted(n, mount) THEN "none" ELSE flags[m]],
                  WithMount(ix, n, mount))
<1> DEFINE new == Mounted(n, mount)
           iy == WithMount(ix, n, mount)
<1>1. new \in Name /\ new \notin DOMAIN ix
  BY MountedIsNew
<1>2. /\ DOMAIN iy = (DOMAIN ix \ {n}) \cup {new}
      /\ \A m \in DOMAIN ix \ {n} : iy[m] = ix[m]
  BY <1>1 DEF WithMount
<1>3. new \notin DOMAIN flags
  BY <1>1 DEF FlagsFit
<1> HIDE DEF new, iy
<1>4. CASE n \notin DOMAIN flags
  BY <1>2, <1>4 DEF FlagsFit, iy, new
<1>5. CASE n \in DOMAIN flags
  BY <1>2, <1>3, <1>5 DEF FlagsFit, iy, new
<1> QED
  BY <1>4, <1>5

(* The latest generation of a series is one of its generations. *)
LEMMA MaxIsGreatest ==
  ASSUME NEW S, S \subseteq Int, IsFiniteSet(S), S # {}
  PROVE  Max(S) \in S /\ \A j \in S : Max(S) >= j
<1>1. \E x \in S : \A j \in S : x >= j
  BY ThereIsAGreatest
<1> QED
  BY <1>1 DEF Max

(* The index that a rollover makes is of a generation that was not there.  *)
LEMMA NextIsNew ==
  ASSUME IInv, NEW s \in Series, CanGrow(s)
  PROVE  /\ Next_(s) \in Name /\ Next_(s) \notin Exists
         /\ Next_(s).series = s /\ Next_(s).form = "index"
         /\ \A n \in Exists : ~SameGeneration(n, Next_(s))
<1> DEFINE G == Generations(s)
           g == Max(G)
<1>1. Exists \subseteq Name /\ \A n \in Name : n.gen \in 1 .. MaxGen
  BY DEF IInv, IndicesFit, Exists, Name
<1>2. G \subseteq 1 .. MaxGen /\ G # {} /\ \A n \in Exists : n.series = s => n.gen \in G
  BY <1>1 DEF CanGrow, Generations
<1>3. g \in G /\ \A j \in G : g >= j
  <2>1. IsFiniteSet(1 .. MaxGen)
    BY SeriesAssumption, FS_Interval
  <2>2. G \subseteq Int /\ IsFiniteSet(G)
    <3>1. G \subseteq Int
      BY <1>2, SeriesAssumption
    <3> HIDE DEF G
    <3> QED
      BY <1>2, <2>1, <3>1, FS_Subset
  <2> HIDE DEF G
  <2> QED
    BY <1>2, <2>2, MaxIsGreatest
<1>4. g < MaxGen
  BY DEF CanGrow
<1>5. Next_(s) = [series |-> s, gen |-> g + 1, form |-> "index"]
  BY DEF Next_, Of
<1>6. MaxGen \in Nat
  BY SeriesAssumption
<1> HIDE DEF g, G
<1>7. g + 1 \in 1 .. MaxGen /\ \A j \in G : j \in Nat /\ j # g + 1
  BY <1>2, <1>3, <1>4, <1>6
<1>8. Next_(s) \in Name
  BY <1>5, <1>7 DEF Name, Forms
<1>9. \A n \in Exists : n.series = s => n.gen # g + 1
  BY <1>2, <1>7
<1> QED
  BY <1>5, <1>8, <1>9 DEF SameGeneration

-----------------------------------------------------------------------------
(* A mount is told by the settings or, without them, by the name. *)
LEMMA MountsAreKnown ==
  ASSUME IInv, NEW n \in Exists, NEW read
  PROVE  /\ is_partial_mount(read, n) <=> index[n].mount = "partial"
         /\ index[n].mount # "no" => is_searchable_snapshot(read, n)
         /\ "settings" \in read /\ index[n].mount = "no" => ~is_searchable_snapshot(read, n)
<1>1. NameFits(n, index[n]) /\ index[n] \in Records
  BY DEF IInv, IndicesFit, Exists
<1>2. index[n].mount \in {"no", "full", "partial"}
  BY <1>1 DEF Records
<1> QED
  BY <1>1, <1>2 DEF NameFits, is_partial_mount, is_searchable_snapshot

(* The last index of a stream is one that there is. *)
LEMMA LastExists ==
  ASSUME IInv, NEW s \in Streams
  PROVE  /\ backing[s][Len(backing[s])] \in Exists
         /\ index[backing[s][Len(backing[s])]].mount = "no"
<1>1. ListFits(backing[s], index)
  BY DEF IInv, StreamsFit
<1>2. Len(backing[s]) \in DOMAIN backing[s]
  BY <1>1 DEF ListFits
<1> QED
  BY <1>1, <1>2 DEF ListFits, Exists

(* A write index is no mount. *)
LEMMA WriteIndicesAreNoMounts ==
  ASSUME IInv, NEW n \in Exists, WriteIndex(n)
  PROVE  index[n].mount = "no"
<1>1. CASE \E s \in Streams : n = backing[s][Len(backing[s])]
  BY <1>1, LastExists
<1>2. CASE \E s \in Series : n \in DOMAIN members[s] /\ members[s][n] = "true"
  BY <1>2 DEF IInv, AliasesFit, FlagsFit, Exists
<1> QED
  BY <1>1, <1>2 DEF WriteIndex

(* What is named as being filled for sure takes writes. *)
LEMMA NamedIsFilled ==
  ASSUME IInv, NEW read, NEW n \in explicit_write_targets(read)
  PROVE  Receives(n)
<1>1. CASE \E s \in Listed(read) : n = backing[s][Len(backing[s])]
  BY <1>1 DEF Listed, Receives
<1>2. ASSUME NEW s \in Aliases(read), n \in DOMAIN members[s],
             \/ members[s][n] = "true"
             \/ /\ OnlyMember(s, n) /\ "settings" \in read
                /\ RolloverAlias(n) /\ n.series = s /\ ~index[n].complete
      PROVE  Receives(n)
  <2>1. s \in Series
    BY <1>2 DEF Aliases
  <2>2. CASE members[s][n] = "true"
    BY <1>2, <2>1, <2>2 DEF Receives
  <2>3. CASE OnlyMember(s, n) /\ RolloverAlias(n) /\ ~index[n].complete
    <3>1. n \in Exists
      BY <1>2, <2>1 DEF IInv, AliasesFit, FlagsFit, Exists
    <3>2. index[n].mount = "no"
      BY <2>3, <3>1 DEF IInv, IndicesFit, Exists, NameFits, RolloverAlias
    <3> QED
      BY <1>2, <2>1, <2>3, <3>2 DEF Receives, OnlyMember
  <2> QED
    BY <1>2, <2>2, <2>3
<1> QED
  BY <1>1, <1>2 DEF explicit_write_targets

(* What takes writes is known from streams, aliases and settings. *)
LEMMA FilledIsKnown ==
  ASSUME NEW read, {"aliases", "streams", "settings"} \subseteq read, NEW n, Receives(n)
  PROVE  n \in write_targets(read)
<1>1. CASE \E s \in Streams : n = backing[s][Len(backing[s])]
  BY <1>1 DEF write_targets, explicit_write_targets, Listed
<1>2. ASSUME NEW s \in Series, n \in DOMAIN members[s],
             \/ members[s][n] = "true"
             \/ /\ members[s][n] = "none" /\ DOMAIN members[s] = {n}
                /\ index[n].mount = "no"
      PROVE  n \in write_targets(read)
  <2>1. s \in Aliases(read)
    BY <1>2 DEF Aliases
  <2>2. CASE members[s][n] = "true"
    BY <1>2, <2>1, <2>2 DEF write_targets, explicit_write_targets
  <2>3. CASE members[s][n] = "none" /\ DOMAIN members[s] = {n} /\ index[n].mount = "no"
    <3>1. ~is_searchable_snapshot(read, n)
      BY <2>3 DEF is_searchable_snapshot
    <3> QED
      BY <1>2, <2>1, <2>3, <3>1 DEF write_targets, OnlyMember
  <2> QED
    BY <1>2, <2>2, <2>3
<1> QED
  BY <1>1, <1>2 DEF Receives

(* A write index is named, if streams and aliases could be read. *)
LEMMA WriteIndicesAreNamed ==
  ASSUME NEW n, WriteIndex(n)
  PROVE  n \in explicit_write_targets(File) /\ n \in write_targets(File)
BY DEF WriteIndex, explicit_write_targets, write_targets, Listed, Aliases, File

LEMMA IndicesAreUnderstoodStep == IInv => IndicesAreUnderstood
<1> SUFFICES ASSUME IInv PROVE IndicesAreUnderstood
  OBVIOUS
<1>1. FilledIsFilled
  <2>1. {"aliases", "streams", "settings"} \subseteq File
    BY DEF File
  <2> QED
    BY <2>1, NamedIsFilled, FilledIsKnown DEF FilledIsFilled
<1>2. FinishedIsFinished
  BY FilledIsKnown DEF FinishedIsFinished, rolled_over
<1>3. ManagerIsKnown
  <2> SUFFICES ASSUME ~Old, NEW read, {"explain", "streams"} \subseteq read, NEW n \in Exists
               PROVE  /\ ilm_policy_of(read, n) = (Manager(n) = "ilm")
                      /\ dlm_managed(read, n) = (Manager(n) = "dlm")
    BY DEF ManagerIsKnown
  <2> DEFINE s == n.series
  <2>1. "explain" \in read /\ "streams" \in read
    OBVIOUS
  <2>2. s \in Series /\ index[n].ilm \in {"ilm", "ilm_unpreferred", "none"}
    BY DEF IInv, IndicesFit, Exists, Name, Records
  <2>3. Kind[s] \in {"stream", "failure", "alias", "alone"} /\ lifecycle[s] \in BOOLEAN
    BY <2>2, SeriesAssumption DEF IInv, ManagersFit
  <2>4. Manager(n) \in {"ilm", "dlm", "none"}
    BY <2>2 DEF Manager
  <2>5. Manager(n) = "dlm" => Kind[s] \in {"stream", "failure"}
    BY <2>2 DEF Manager, Streams
  <2>6. Kind[s] = "failure" => Manager(n) # "none"
    <3> SUFFICES ASSUME Kind[s] = "failure" PROVE Manager(n) # "none"
      OBVIOUS
    <3>1. lifecycle[s] /\ s \in Streams
      BY <2>2 DEF IInv, ManagersFit, Streams
    <3> QED
      BY <2>2, <3>1 DEF Manager
  <2>7. ilm_policy_of(read, n) = (Manager(n) = "ilm")
    BY <2>1 DEF ilm_policy_of
  <2>8. dlm_managed(read, n) = (Manager(n) = "dlm")
    <3>1. CASE Kind[s] = "failure"
      <4>1. dlm_managed(read, n) = (Manager(n) # "ilm")
        BY <2>1, <3>1 DEF dlm_managed
      <4> QED
        BY <2>4, <2>6, <3>1, <4>1
    <3>2. CASE Kind[s] = "stream"
      BY <2>1, <3>2 DEF dlm_managed
    <3>3. CASE Kind[s] \notin {"stream", "failure"}
      <4>1. dlm_managed(read, n) = FALSE
        BY <2>1, <3>3 DEF dlm_managed
      <4> QED
        BY <2>5, <3>3, <4>1
    <3> QED
      BY <3>1, <3>2, <3>3
  <2> QED
    BY <2>7, <2>8
<1> QED
  BY <1>1, <1>2, <1>3 DEF IndicesAreUnderstood

-----------------------------------------------------------------------------
(* The names that a row of findings lists. *)
LEMMA RowsName ==
  ASSUME NEW i, NEW s, NEW names, NEW f \in Rows(i, s, names)
  PROVE  f.id = i /\ f.severity = s /\ f.affected = names
BY DEF Rows, IfSo, Naming

LEMMA AdviceFitsStep == IInv => AdviceFitsTheIndex
<1> SUFFICES ASSUME IInv PROVE AdviceFitsTheIndex
  OBVIOUS
<1>1. MountsGetNoAdvice
  <2> SUFFICES ASSUME NEW read,
                      NEW f \in r_replica_zero(read) \cup r_deleted_docs(read)
                                  \cup r_segments(read) \cup r_mapping_limits(read)
                                  \cup r_index_oversharding(read),
                      NEW n \in f.affected
               PROVE  index[n].mount = "no"
    BY DEF MountsGetNoAdvice
  <2>1. CASE f \in r_replica_zero(read)
    BY <2>1, RowsName DEF r_replica_zero
  <2>2. CASE f \in r_deleted_docs(read)
    BY <2>2, RowsName, MountsAreKnown DEF r_deleted_docs, With
  <2>3. CASE f \in r_segments(read)
    BY <2>3, RowsName, MountsAreKnown DEF r_segments, With
  <2>4. CASE f \in r_mapping_limits(read)
    <3>1. PICK c : r_mapping_limits(read) =
              Rows("MAP-001", c, {m \in With("fields") :
                  /\ "settings" \in read /\ ~is_system_index(read, m)
                  /\ ~is_searchable_snapshot(read, m)})
              \cup IfSo(ManyFields, Naming("MAP-002", "INFO", {}))
      BY DEF r_mapping_limits
    <3>2. n \in Exists /\ ~is_searchable_snapshot(read, n)
      BY <2>4, <3>1, RowsName DEF IfSo, Naming, With
    <3> QED
      BY <3>2, MountsAreKnown
  <2>5. CASE f \in r_index_oversharding(read)
    <3>1. n \in Exists /\ ~is_searchable_snapshot(read, n)
      BY <2>5 DEF r_index_oversharding, IfSo, Naming
    <3> QED
      BY <3>1, MountsAreKnown
  <2> QED
    BY <2>1, <2>2, <2>3, <2>4, <2>5
<1>2. BlocksAreJudged
  <2> DEFINE bad == UNION {f.affected : f \in {g \in r_read_only_blocks(File) : g.severity = "CRITICAL"}}
             blocked == {n \in Exists : "settings" \in File /\ index[n].block # "none"}
             flood == {n \in blocked : index[n].block = "flood"}
             rest == {n \in blocked \ flood : ~is_searchable_snapshot(File, n)}
             written == rest \cap explicit_write_targets(File)
  <2>1. bad = flood \cup written
    <3>1. \A f \in r_read_only_blocks(File) :
              f.severity = "CRITICAL" => f \in Rows("IDX-008", "CRITICAL", flood \cup written)
      BY DEF r_read_only_blocks, Rows, IfSo, Naming
    <3>2. Rows("IDX-008", "CRITICAL", flood \cup written) \subseteq r_read_only_blocks(File)
      BY DEF r_read_only_blocks
    <3> HIDE DEF flood, written
    <3>3. \A f \in Rows("IDX-008", "CRITICAL", flood \cup written) :
              f.severity = "CRITICAL" /\ f.affected = flood \cup written
      BY RowsName
    <3>4. flood \cup written # {} =>
              \E f \in Rows("IDX-008", "CRITICAL", flood \cup written) : TRUE
      BY DEF Rows, IfSo
    <3> QED
      BY <3>1, <3>2, <3>3, <3>4
  <2>2. ASSUME NEW n \in Exists, index[n].block = "write"
        PROVE  /\ WriteIndex(n) => n \in flood \cup written
               /\ n \in flood \cup written => Receives(n)
    <3>1. n \notin flood
      BY <2>2
    <3>2. WriteIndex(n) => n \in written
      BY <2>2, WriteIndicesAreNamed, WriteIndicesAreNoMounts, MountsAreKnown DEF File
    <3>3. n \in written => Receives(n)
      BY NamedIsFilled
    <3> QED
      BY <3>1, <3>2, <3>3
  <2> HIDE DEF flood, written
  <2> QED
    BY <2>1, <2>2 DEF BlocksAreJudged
<1>3. FilledIsNotSmall
  <2> SUFFICES ASSUME NEW f \in r_small_shards(File) \cup r_index_oversharding(File)
                                  \cup r_hot_rolled_over(File, Exists),
                      NEW n \in f.affected
               PROVE  n \notin explicit_write_targets(File) \/ n \notin write_targets(File)
    BY WriteIndicesAreNamed DEF FilledIsNotSmall
  <2>1. CASE f \in r_small_shards(File)
    BY <2>1 DEF r_small_shards, IfSo, Naming
  <2>2. CASE f \in r_index_oversharding(File)
    BY <2>2 DEF r_index_oversharding, IfSo, Naming
  <2>3. CASE f \in r_hot_rolled_over(File, Exists)
    BY <2>3, RowsName DEF r_hot_rolled_over
  <2> QED
    BY <2>1, <2>2, <2>3
<1>4. BlamedPoliciesAreNamed
  <2> SUFFICES ASSUME NEW f \in r_datastream_small_rollover(File), f.severity = "WARNING"
               PROVE  /\ \E g \in r_ilm_policies(File) : g.id = "ILM-004"
                      /\ SmallStreams(File) \cap Unsized(File) # {}
    BY DEF BlamedPoliciesAreNamed
  <2>1. PICK s \in SmallStreams(File) : AgeOnly(s)
    BY DEF r_datastream_small_rollover, IfSo, Naming
  <2>2. s \in Series /\ Kind[s] = "stream" /\ Owner[s] = "user"
    BY DEF SmallStreams, Listed, Streams
  <2>3. template[s] # "none" /\ Rollover[s] = {"age"}
    BY <2>1 DEF AgeOnly
  <2>4. Users(File, s) # {}
    BY <2>2, <2>3 DEF Users, StreamUses
  <2>5. s \in Unsized(File)
    BY <2>2, <2>3, <2>4 DEF Unsized
  <2>6. Naming("ILM-004", "WARNING", {}) \in r_ilm_policies(File)
    BY <2>5 DEF r_ilm_policies, IfSo
  <2> QED
    BY <2>5, <2>6 DEF Naming
<1> QED
  BY <1>1, <1>2, <1>3, <1>4 DEF AdviceFitsTheIndex

-----------------------------------------------------------------------------
(* What is critical of the size of a shard, and of a block. *)
Oversized == {n \in Exists : index[n].mount # "partial" /\ Size(n) >= SizeCrit}

Flooded == {n \in Exists : index[n].block = "flood"}

BlockedAndWritten(read) ==
    {n \in explicit_write_targets(read) :
        /\ n \in Exists /\ index[n].block \notin {"none", "flood"}
        /\ ~is_searchable_snapshot(read, n)}

Stopped(read) == IF "settings" \in read THEN Flooded \cup BlockedAndWritten(read) ELSE {}

(* What is critical of a latency. *)
Laggards == {f \in r_search_latency(File) : f.severity = "CRITICAL"}

(* Which index is too large or slow does not depend on what could be read, *)
(* and no other rule than these three finds anything of an index critical. *)
LEMMA WhatIsCritical ==
  ASSUME IInv, NEW read
  PROVE  CriticalOf(read) = Rows("SHD-002", "CRITICAL", Oversized)
                            \cup Rows("IDX-008", "CRITICAL", Stopped(read)) \cup Laggards
<1>1. ASSUME NEW f \in r_small_shards(read) \cup r_replica_zero(read) \cup r_deleted_docs(read)
                         \cup r_segments(read) \cup r_merge_throttle \cup r_indexing_throttle
      PROVE  f.severity # "CRITICAL"
  <2>1. CASE f \in r_small_shards(read)
    BY <2>1 DEF r_small_shards, IfSo, Naming
  <2>2. CASE f \in r_replica_zero(read) \cup r_deleted_docs(read) \cup r_segments(read)
    BY <2>2, RowsName DEF r_replica_zero, r_deleted_docs, r_segments
  <2>3. CASE f \in r_merge_throttle
    BY <2>3 DEF r_merge_throttle, IfSo, Naming
  <2>4. CASE f \in r_indexing_throttle
    BY <2>4 DEF r_indexing_throttle, IfSo, Naming
  <2> QED
    BY <1>1, <2>1, <2>2, <2>3, <2>4
<1>2. ASSUME NEW f \in r_index_failures(read)
                         \cup r_mapping_limits(read) \cup r_refresh_interval(read)
                         \cup r_index_oversharding(read) \cup r_shard_size_distribution(read)
                         \cup r_datastream_small_rollover(read)
      PROVE  f.severity # "CRITICAL"
  <2>1. CASE f \in r_mapping_limits(read) \cup r_refresh_interval(read)
    <3>1. PICK c, names :
                 /\ c \in {"INFO", "WARNING"}
                 /\ r_mapping_limits(read) = Rows("MAP-001", c, names)
                                               \cup IfSo(ManyFields, Naming("MAP-002", "INFO", {}))
      BY DEF r_mapping_limits
    <3> QED
      BY <2>1, <3>1, RowsName DEF r_refresh_interval, IfSo, Naming
  <2>2. CASE f \in r_index_failures(read)
    BY <2>2 DEF r_index_failures, IfSo, Naming
  <2>3. CASE f \in r_index_oversharding(read)
    BY <2>3 DEF r_index_oversharding, IfSo, Naming
  <2>4. CASE f \in r_shard_size_distribution(read)
    BY <2>4 DEF r_shard_size_distribution, IfSo, Naming
  <2>5. CASE f \in r_datastream_small_rollover(read)
    BY <2>5 DEF r_datastream_small_rollover, IfSo, Naming
  <2> QED
    BY <1>2, <2>1, <2>2, <2>3, <2>4, <2>5
<1>3. {f \in r_shard_size(read) : f.severity = "CRITICAL"} = Rows("SHD-002", "CRITICAL", Oversized)
  <2>1. Oversized = {n \in {m \in Exists : ~is_partial_mount(read, m)} : Size(n) >= SizeCrit}
    BY MountsAreKnown DEF Oversized
  <2>2. \E names : r_shard_size(read) = Rows("SHD-002", "CRITICAL", Oversized)
                                        \cup Rows("SHD-003", "WARNING", names)
    BY <2>1 DEF r_shard_size
  <2> QED
    BY <2>2, RowsName
<1>4. {f \in r_read_only_blocks(read) : f.severity = "CRITICAL"}
        = Rows("IDX-008", "CRITICAL", Stopped(read))
  <2> DEFINE blocked == {n \in Exists : "settings" \in read /\ index[n].block # "none"}
             flood == {n \in blocked : index[n].block = "flood"}
             rest == {n \in blocked \ flood : ~is_searchable_snapshot(read, n)}
             written == rest \cap explicit_write_targets(read)
  <2>1. flood \cup written = Stopped(read)
    BY DEF Stopped, Flooded, BlockedAndWritten
  <2>2. PICK names, c : r_read_only_blocks(read) =
            Rows("IDX-008", "CRITICAL", flood \cup written) \cup Rows("IDX-011", "INFO", names)
            \cup IfSo(c, Naming("IDX-008", "OK", {}))
    BY DEF r_read_only_blocks
  <2>3. \A f \in IfSo(c, Naming("IDX-008", "OK", {})) : f.severity = "OK"
    BY DEF IfSo, Naming
  <2>4. \A f \in Rows("IDX-008", "CRITICAL", flood \cup written) : f.severity = "CRITICAL"
    BY RowsName
  <2>5. \A f \in Rows("IDX-011", "INFO", names) : f.severity = "INFO"
    BY RowsName
  <2> HIDE DEF flood, written
  <2> QED
    BY <2>1, <2>2, <2>3, <2>4, <2>5
<1>5. {f \in r_search_latency(read) : f.severity = "CRITICAL"} = Laggards
  <2>1. {n \in Exists : ~is_partial_mount(read, n)} = {n \in Exists : ~is_partial_mount(File, n)}
    BY MountsAreKnown
  <2>2. r_search_latency(read) = r_search_latency(File)
    BY <2>1 DEF r_search_latency
  <2> QED
    BY <2>2 DEF Laggards
<1> QED
  BY <1>1, <1>2, <1>3, <1>4, <1>5 DEF CriticalOf, IndexFindings

(* What is blocked and written with fewer files is with all of them. *)
LEMMA StoppedIsStopped ==
  ASSUME NEW read \in SUBSET File
  PROVE  Stopped(read) \subseteq Stopped(File)
<1> SUFFICES ASSUME "settings" \in read, NEW n \in BlockedAndWritten(read)
             PROVE  n \in BlockedAndWritten(File)
  BY DEF Stopped, File
<1>1. \A m : is_searchable_snapshot(read, m) <=> is_searchable_snapshot(File, m)
  BY DEF is_searchable_snapshot, File
<1>2. Listed(read) \subseteq Listed(File) /\ Aliases(read) \subseteq Aliases(File)
  BY DEF Listed, Aliases, File
<1>3. explicit_write_targets(read) \subseteq explicit_write_targets(File)
  BY <1>2 DEF explicit_write_targets, File
<1> QED
  BY <1>1, <1>3 DEF BlockedAndWritten

LEMMA MissingFilesStep == IInv => MissingFilesAlarmNobody
<1> SUFFICES ASSUME IInv, NEW read \in SUBSET File, NEW f \in CriticalOf(read)
             PROVE  \E g \in CriticalOf(File) : g.id = f.id /\ f.affected \subseteq g.affected
  BY DEF MissingFilesAlarmNobody
<1>1. CASE f \in Rows("SHD-002", "CRITICAL", Oversized)
  BY <1>1, WhatIsCritical
<1>2. CASE f \in Rows("IDX-008", "CRITICAL", Stopped(read))
  <2>1. f.id = "IDX-008" /\ f.affected = Stopped(read) /\ Stopped(read) # {}
    BY <1>2 DEF Rows, IfSo, Naming
  <2>2. Stopped(read) \subseteq Stopped(File)
    BY StoppedIsStopped
  <2>3. Naming("IDX-008", "CRITICAL", Stopped(File)) \in CriticalOf(File)
    BY <2>1, <2>2, WhatIsCritical DEF Rows, IfSo
  <2> QED
    BY <2>1, <2>2, <2>3 DEF Naming
<1>3. CASE f \in Laggards
  BY <1>3, WhatIsCritical
<1> QED
  BY <1>1, <1>2, <1>3, WhatIsCritical

-----------------------------------------------------------------------------
(* The one index of a generation stays the same one, whatever its name. *)
LEMMA MountsAreNoChangeStep == IInv => MountsAreNoChange
<1> SUFFICES ASSUME IInv PROVE MountsAreNoChange
  OBVIOUS
<1> DEFINE told == UNION {f.affected : f \in {g \in r_index_growth : g.id = "DIF-011"}}
           There(n) == \E m \in Exists : m.series = n.series /\ m.gen = n.gen
<1>1. Exists \subseteq Name /\ Earlier \subseteq Name
  <2>1. 1 \in 1 .. MaxGen
    BY SeriesAssumption
  <2> QED
    BY <2>1 DEF IInv, IndicesFit, Exists, Earlier, Of, Name, Forms
<1>2. told = Deleted \cup Added
  <2>1. \A f \in r_index_growth : f.id = "DIF-011" => f.affected = Deleted \cup Added
    BY RowsName DEF r_index_growth, IfSo, Naming
  <2>2. Deleted \cup Added # {} =>
            \E f \in r_index_growth : f.id = "DIF-011" /\ f.affected = Deleted \cup Added
    <3>1. Deleted \cup Added # {} =>
              Naming("DIF-011", "INFO", Deleted \cup Added) \in r_index_growth
      BY DEF r_index_growth, IfSo
    <3>2. /\ Naming("DIF-011", "INFO", Deleted \cup Added).id = "DIF-011"
          /\ Naming("DIF-011", "INFO", Deleted \cup Added).affected = Deleted \cup Added
      BY DEF Naming
    <3> QED
      BY <3>1, <3>2
  <2> QED
    BY <2>1, <2>2
<1>3. \A n \in Name : plain(n) = [series |-> n.series, gen |-> n.gen, form |-> "index"]
  BY DEF plain, Name
<1>4. \A n \in Name : n \in Earlier <=> n.gen = 1 /\ n.form = "index"
  BY DEF Earlier, Of, Name
<1>5. \A n, m \in Name : plain(n) = plain(m) <=> n.series = m.series /\ n.gen = m.gen
  BY <1>3
<1>6. \A n \in Name : plain(n) # n <=> n.form # "index"
  BY <1>3 DEF Name
<1>7. \A n, m \in Name : n.series = m.series => (UserName(n) <=> UserName(m))
  BY DEF UserName
<1>8. \A n, m \in Name : n = m <=> n.series = m.series /\ n.gen = m.gen /\ n.form = m.form
  BY DEF Name
<1>9. Missing \subseteq Name /\ Appeared \subseteq Name
  BY <1>1 DEF Missing, Appeared
<1>10. ASSUME NEW n \in Earlier
       PROVE  n \in told <=> UserName(n) /\ ~There(n)
  <2>1. n \notin Added
    BY DEF Added, Appeared
  <2>2. ASSUME n \in Missing, There(n)
        PROVE  n \in {pair[1] : pair \in Moved}
    <3>1. PICK m \in Exists : m.series = n.series /\ m.gen = n.gen
      BY <2>2
    <3>2. n \in Name /\ m \in Name /\ n.form = "index" /\ n \notin Exists /\ UserName(n)
      BY <1>1, <1>4, <2>2 DEF Missing
    <3>3. m.form # "index"
      BY <1>8, <3>1, <3>2
    <3>4. m \in Appeared
      BY <1>4, <1>7, <3>1, <3>2, <3>3 DEF Appeared
    <3>5. PICK k \in Appeared : MovesTo(n, k)
      <4>1. CASE \E k \in Appeared : k.form = "partial" /\ plain(k) = plain(m)
        <5>1. PICK k \in Appeared : k.form = "partial" /\ plain(k) = plain(m)
          BY <4>1
        <5>2. plain(n) = plain(k) /\ plain(k) # k /\ k.form # "restored"
          BY <1>5, <1>6, <1>9, <3>1, <3>2, <5>1
        <5> QED
          BY <5>2 DEF MovesTo
      <4>2. CASE ~\E k \in Appeared : k.form = "partial" /\ plain(k) = plain(m)
        <5>1. plain(n) = plain(m) /\ plain(m) # m
          BY <1>5, <1>6, <3>1, <3>2, <3>3
        <5> QED
          BY <3>4, <4>2, <5>1 DEF MovesTo
      <4> QED
        BY <4>1, <4>2
    <3>6. <<n, k>> \in Moved
      BY <2>2, <3>5 DEF Moved
    <3> QED
      BY <3>6
  <2>3. ASSUME n \in {pair[1] : pair \in Moved}
        PROVE  There(n)
    <3>1. PICK k \in Appeared : MovesTo(n, k)
      BY <2>3 DEF Moved
    <3>2. plain(n) = plain(k)
      BY <3>1 DEF MovesTo
    <3>3. k \in Exists /\ k.series = n.series /\ k.gen = n.gen
      BY <1>1, <1>5, <1>9, <3>2 DEF Appeared
    <3> QED
      BY <3>3
  <2>4. n \in Exists => There(n)
    OBVIOUS
  <2> HIDE DEF told, There
  <2> QED
    BY <1>2, <2>1, <2>2, <2>3, <2>4 DEF Deleted, Missing
<1>11. ASSUME NEW m \in Exists, index[m].mount # "no", m.gen = 1
       PROVE  m \notin told
  <2> DEFINE n == Of(m.series, 1)
  <2>1. /\ Kind[m.series] \in {"stream", "alias"} /\ m.form # "index"
        /\ index[m].mount = "full" => m.form = "restored"
    BY <1>11 DEF IInv, IndicesFit, Exists, NameFits
  <2>2. m \in Name /\ m.series \in Series
    BY <1>1 DEF Name
  <2>3. n \in Earlier /\ n \in Name /\ n.series = m.series /\ n.gen = m.gen /\ n.form = "index"
    BY <1>1, <1>11, <2>2 DEF Earlier, Of
  <2>4. \A k \in Exists : k.series = m.series /\ k.gen = m.gen => k = m
    BY <2>1 DEF IInv, IndicesFit, Exists, SameGeneration
  <2>5. n \notin Exists /\ m \notin Earlier
    BY <1>4, <2>1, <2>2, <2>3, <2>4
  <2>6. m \notin Deleted
    BY <2>5 DEF Deleted, Missing
  <2>7. m \in Appeared => <<n, m>> \in Moved
    <3> SUFFICES ASSUME m \in Appeared PROVE <<n, m>> \in Moved
      OBVIOUS
    <3>1. n \in Missing
      BY <1>7, <2>2, <2>3, <2>5 DEF Missing, Appeared
    <3>2. plain(n) = plain(m) /\ plain(m) # m
      BY <1>5, <1>6, <2>1, <2>2, <2>3
    <3>3. m.form = "restored" => ~\E k \in Appeared : k.form = "partial" /\ plain(k) = plain(m)
      <4> SUFFICES ASSUME m.form = "restored", NEW k \in Appeared,
                          k.form = "partial", plain(k) = plain(m)
                   PROVE  FALSE
        OBVIOUS
      <4>1. k \in Exists /\ k.series = m.series /\ k.gen = m.gen
        BY <1>5, <1>9, <2>2 DEF Appeared
      <4> QED
        BY <2>4, <4>1
    <3>4. MovesTo(n, m)
      BY <3>2, <3>3 DEF MovesTo
    <3> HIDE DEF n
    <3> QED
      BY <3>1, <3>4 DEF Moved
  <2>8. m \notin Added
    BY <2>7 DEF Added
  <2> QED
    BY <1>2, <2>6, <2>8
<1> HIDE DEF told, There
<1> QED
  BY <1>10, <1>11 DEF MountsAreNoChange, told, There

-----------------------------------------------------------------------------
(* The steps.  An event is counted; most leave the templates alone.        *)
LEMMA EventsCount == IInv /\ Happens => events' \in 0 .. MaxEvents
<1> SUFFICES ASSUME IInv, Happens PROVE events' \in 0 .. MaxEvents
  OBVIOUS
<1>1. events \in 0 .. MaxEvents /\ events < MaxEvents /\ events' = events + 1
  BY DEF IInv, Happens
<1>2. MaxEvents \in Nat
  BY SeriesAssumption
<1> QED
  BY <1>1, <1>2

LEMMA UnmanagedFits == IInv /\ Unmanaged => ManagersFit'
BY DEF IInv, Unmanaged, ManagersFit

(* Indices come or change, and streams and aliases are as they were. *)
LEMMA IndexStep ==
  ASSUME IInv, Happens, Unmanaged, UNCHANGED <<backing, members>>,
         IndicesFit(index'), Keeps(index, index')
  PROVE  IInv'
<1>1. StreamsFit'
  BY KeptListFits DEF IInv, StreamsFit
<1>2. AliasesFit'
  BY KeptFlagsFit DEF IInv, AliasesFit
<1> QED
  BY <1>1, <1>2, EventsCount, UnmanagedFits DEF IInv

(* One index changes and stays mounted or not, complete or not. *)
LEMMA SetStep ==
  ASSUME IInv, Happens, Unmanaged, NEW n \in Exists, NEW rec \in Records,
         rec.mount = index[n].mount, rec.complete = index[n].complete, Set(n, rec)
  PROVE  IInv'
<1>1. index' = [index EXCEPT ![n] = rec] /\ UNCHANGED <<backing, members>>
  BY DEF Set
<1>2. IndicesFit(index) /\ n \in DOMAIN index
  BY DEF IInv, Exists
<1>3. IndicesFit(index') /\ Keeps(index, index')
  BY <1>1, <1>2, ChangedIndexFits
<1> QED
  BY <1>1, <1>3, IndexStep

LEMMA RecordsOf ==
  ASSUME IInv, NEW n \in Exists
  PROVE  index[n] \in Records
BY DEF IInv, IndicesFit, Exists

LEMMA AfterWrite ==
  ASSUME IInv, NEW n \in Exists, Write(n)
  PROVE  IInv'
<1> DEFINE rec == [index[n] EXCEPT !.size = @ + 1]
<1>1. /\ Happens /\ Unmanaged /\ Set(n, rec) /\ index[n].size < MaxSize
  BY DEF Write
<1>2. index[n] \in Records /\ index[n].size \in 0 .. MaxSize
  BY RecordsOf DEF Records
<1>3. index[n].size + 1 \in 0 .. MaxSize
  BY <1>1, <1>2, SeriesAssumption
<1>4. rec \in Records /\ rec.mount = index[n].mount /\ rec.complete = index[n].complete
  BY <1>2, <1>3 DEF Records
<1> HIDE DEF rec
<1> QED
  BY <1>1, <1>4, SetStep

LEMMA AfterNoReplicas ==
  ASSUME IInv, NEW n \in Exists, NoReplicas(n)
  PROVE  IInv'
<1> DEFINE rec == [index[n] EXCEPT !.replicas = 0]
<1>1. Happens /\ Unmanaged /\ Set(n, rec)
  BY DEF NoReplicas
<1>2. rec \in Records /\ rec.mount = index[n].mount /\ rec.complete = index[n].complete
  BY RecordsOf DEF Records
<1> HIDE DEF rec
<1> QED
  BY <1>1, <1>2, SetStep

LEMMA AfterBlock ==
  ASSUME IInv, NEW n \in Exists, NEW block \in {"none", "write", "flood"}, Block(n, block)
  PROVE  IInv'
<1> DEFINE rec == [index[n] EXCEPT !.block = block]
<1>1. Happens /\ Unmanaged /\ Set(n, rec)
  BY DEF Block
<1>2. rec \in Records /\ rec.mount = index[n].mount /\ rec.complete = index[n].complete
  BY RecordsOf DEF Records
<1> HIDE DEF rec
<1> QED
  BY <1>1, <1>2, SetStep

LEMMA AfterAcquire ==
  ASSUME IInv, NEW n \in Exists, NEW t \in Trait, Acquire(n, t)
  PROVE  IInv'
<1> DEFINE rec == [index[n] EXCEPT !.traits = @ \cup {t}]
<1>1. Happens /\ Unmanaged /\ Set(n, rec)
  BY DEF Acquire
<1>2. index[n] \in Records /\ index[n].traits \cup {t} \in SUBSET Traits
  BY RecordsOf, TraitAssumption DEF Records
<1>3. rec \in Records /\ rec.mount = index[n].mount /\ rec.complete = index[n].complete
  BY <1>2 DEF Records
<1> HIDE DEF rec
<1> QED
  BY <1>1, <1>3, SetStep

LEMMA AfterUnthrottle ==
  ASSUME IInv, NEW n \in Exists, Unthrottle(n)
  PROVE  IInv'
<1> DEFINE rec == [index[n] EXCEPT !.traits = (@ \ {"throttling"}) \cup {"throttled"}]
<1>1. Happens /\ Unmanaged /\ Set(n, rec)
  BY DEF Unthrottle
<1>2. /\ index[n] \in Records
      /\ (index[n].traits \ {"throttling"}) \cup {"throttled"} \in SUBSET Traits
  BY RecordsOf DEF Records, Traits
<1>3. rec \in Records /\ rec.mount = index[n].mount /\ rec.complete = index[n].complete
  BY <1>2 DEF Records
<1> HIDE DEF rec
<1> QED
  BY <1>1, <1>3, SetStep

LEMMA AfterRestore ==
  ASSUME IInv, NEW n \in Exists, Restore(n)
  PROVE  IInv'
<1> DEFINE new == [n EXCEPT !.form = "restored"]
<1>1. /\ Happens /\ Unmanaged /\ UNCHANGED <<backing, members>>
      /\ Kind[n.series] = "alone" /\ new \notin DOMAIN index
      /\ index' = [m \in DOMAIN index \cup {new} |-> IF m = new THEN index[n] ELSE index[m]]
  BY DEF Restore, Exists
<1>2. /\ IndicesFit(index) /\ n \in DOMAIN index /\ n \in Name
      /\ index[n] \in Records /\ index \in [DOMAIN index -> Records] /\ NameFits(n, index[n])
  BY DEF IInv, IndicesFit, Exists
<1>3. new \in Name /\ new.form = "restored" /\ new.series = n.series
  BY <1>2 DEF Name, Forms
<1> HIDE DEF new
<1>4. /\ index' \in [DOMAIN index \cup {new} -> Records] /\ index'[new] = index[n]
      /\ \A m \in DOMAIN index : index'[m] = index[m]
  BY <1>1, <1>2
<1>5. index[n].mount = "no"
  BY <1>1, <1>2 DEF NameFits
<1>6. NameFits(new, index'[new])
  BY <1>1, <1>3, <1>4, <1>5 DEF NameFits
<1>7. \A m \in DOMAIN index : ~SameGeneration(m, new)
  BY <1>1, <1>3 DEF SameGeneration
<1>8. IndicesFit(index') /\ Keeps(index, index')
  <2>1. Adds(index, new, index')
    BY <1>1, <1>2, <1>3, <1>4, <1>6, <1>7 DEF Adds
  <2> QED
    BY <1>2, <2>1, AddedIndexFits
<1> QED
  BY <1>1, <1>8, IndexStep

(* A rollover makes a new index, and marks the old one.                    *)
Rolls(s, old) ==
    index' = [n \in Exists \cup {Next_(s)} |->
                 CASE n = Next_(s) -> New(s) [] n = old -> Completed(old) [] OTHER -> index[n]]

LEMMA RolledIndexFits ==
  ASSUME IInv, NEW s \in Series, CanGrow(s), NEW old \in Exists, Rolls(s, old)
  PROVE  /\ IndicesFit(index') /\ Keeps(index, index') /\ DOMAIN index' = Exists \cup {Next_(s)}
         /\ index'[Next_(s)].mount = "no"
<1> DEFINE new == Next_(s)
<1>1. /\ new \in Name /\ new \notin Exists /\ new.series = s /\ new.form = "index"
      /\ \A n \in Exists : ~SameGeneration(n, new)
  BY NextIsNew
<1>2. IndicesFit(index) /\ Exists = DOMAIN index /\ index \in [DOMAIN index -> Records]
  BY DEF IInv, IndicesFit, Exists
<1>3. New(s) \in Records /\ New(s).mount = "no"
  <2>1. template[s] \in {"ilm", "ilm_unpreferred", "none"}
    BY DEF IInv, ManagersFit
  <2>2. 0 \in 0 .. MaxSize
    BY SeriesAssumption
  <2> QED
    BY <2>1, <2>2 DEF New, Records
<1>4. /\ Completed(old) \in Records /\ Completed(old).mount = index[old].mount
      /\ index[old].complete => Completed(old).complete
  BY RecordsOf DEF Completed, Records
<1> HIDE DEF new
<1>5. /\ DOMAIN index' = Exists \cup {new} /\ index'[new] = New(s)
      /\ \A n \in Exists : index'[n] = IF n = old THEN Completed(old) ELSE index[n]
  BY <1>1 DEF new, Rolls
<1>6. index' \in [DOMAIN index \cup {new} -> Records]
  <2>1. \A n \in Exists \cup {new} : index'[n] \in Records
    BY <1>2, <1>3, <1>4, <1>5
  <2>2. index' = [n \in Exists \cup {new} |-> index'[n]]
    BY DEF Rolls, new
  <2> QED
    BY <1>2, <2>1, <2>2
<1>7. NameFits(new, index'[new])
  BY <1>1, <1>3, <1>5 DEF NameFits
<1>8. \A n \in DOMAIN index :
          /\ index'[n].mount = index[n].mount
          /\ index[n].complete => index'[n].complete
  BY <1>2, <1>4, <1>5
<1>9. new \in Name /\ new \notin DOMAIN index /\ \A n \in DOMAIN index : ~SameGeneration(n, new)
  BY <1>1, <1>2
<1>10. Adds(index, new, index')
  BY <1>6, <1>7, <1>8, <1>9 DEF Adds
<1>11. IndicesFit(index') /\ Keeps(index, index')
  BY <1>2, <1>10, AddedIndexFits
<1> QED
  BY <1>3, <1>5, <1>11 DEF new

LEMMA AfterRollStream ==
  ASSUME IInv, NEW s \in Streams, RollStream(s)
  PROVE  IInv'
<1> DEFINE old == backing[s][Len(backing[s])]
           new == Next_(s)
<1>1. /\ Happens /\ CanGrow(s) /\ Unmanaged /\ members' = members
      /\ backing' = [backing EXCEPT ![s] = Append(@, new)]
      /\ Rolls(s, old)
  BY DEF RollStream, Rolls
<1>2. s \in Series /\ old \in Exists
  BY LastExists DEF Streams
<1>3. /\ IndicesFit(index') /\ Keeps(index, index') /\ DOMAIN index' = Exists \cup {new}
      /\ index'[new].mount = "no" /\ new \in Name /\ new \notin Exists
  BY <1>1, <1>2, RolledIndexFits, NextIsNew
<1> HIDE DEF old, new
<1>4. /\ DOMAIN backing = Streams /\ DOMAIN backing' = Streams
      /\ backing'[s] = Append(backing[s], new)
      /\ \A t \in Streams \ {s} : backing'[t] = backing[t]
  BY <1>1 DEF IInv, StreamsFit
<1>5. \A t \in Streams : ListFits(backing[t], index')
  BY <1>3, KeptListFits DEF IInv, StreamsFit
<1>6. ListFits(backing'[s], index')
  <2> DEFINE names == backing[s]
             list == Append(names, new)
  <2>1. /\ names \in Seq(Name) /\ Len(names) \in Nat /\ DOMAIN names = 1 .. Len(names)
        /\ \A k \in DOMAIN names : names[k] \in Exists
        /\ \A k, l \in DOMAIN names : names[k] = names[l] => k = l
    BY DEF IInv, StreamsFit, ListFits, Exists
  <2> HIDE DEF names
  <2>2. /\ list \in Seq(Name) /\ Len(list) = Len(names) + 1 /\ DOMAIN list = 1 .. Len(names) + 1
        /\ list[Len(names) + 1] = new /\ \A k \in 1 .. Len(names) : list[k] = names[k]
    BY <1>3, <2>1
  <2> HIDE DEF list
  <2>3. \A k \in 1 .. Len(names) + 1 : k = Len(names) + 1 \/ k \in 1 .. Len(names)
    BY <2>1
  <2>4. \A k \in DOMAIN list : list[k] \in DOMAIN index'
    BY <1>3, <2>1, <2>2, <2>3
  <2>5. \A k, l \in DOMAIN list : list[k] = list[l] => k = l
    BY <1>3, <2>1, <2>2, <2>3
  <2>6. list # <<>>
    BY <2>1, <2>2
  <2>7. ListFits(list, index')
    BY <1>3, <2>2, <2>4, <2>5, <2>6 DEF ListFits
  <2> QED
    BY <1>4, <2>7 DEF list, names
<1>7. StreamsFit'
  BY <1>4, <1>5, <1>6 DEF StreamsFit
<1>8. AliasesFit'
  BY <1>1, <1>3, KeptFlagsFit DEF IInv, AliasesFit
<1> QED
  BY <1>1, <1>3, <1>7, <1>8, EventsCount, UnmanagedFits DEF IInv

LEMMA AfterRollAlias ==
  ASSUME IInv, NEW s \in Series, NEW old \in Exists, RollAlias(s, old)
  PROVE  IInv'
<1> DEFINE new == Next_(s)
           kept == IF members[s][old] = "true" THEN DOMAIN members[s] ELSE {}
           flags == [n \in kept \cup {new} |-> CASE n = new -> members[s][old]
                                                [] n = old -> "false"
                                                [] OTHER   -> members[s][n]]
<1>1. /\ Happens /\ CanGrow(s) /\ Unmanaged /\ backing' = backing
      /\ old \in DOMAIN members[s]
      /\ members' = [members EXCEPT ![s] = flags]
      /\ Rolls(s, old)
  BY DEF RollAlias, Rolls
<1>2. /\ IndicesFit(index') /\ Keeps(index, index') /\ DOMAIN index' = Exists \cup {new}
      /\ index'[new].mount = "no" /\ new \in Name /\ new \notin Exists
  BY <1>1, RolledIndexFits, NextIsNew
<1> HIDE DEF new
<1>3. \A t \in Series : FlagsFit(members[t], index')
  BY <1>2, KeptFlagsFit DEF IInv, AliasesFit
<1>4. FlagsFit(flags, index')
  <2>1. FlagsFit(members[s], index')
    BY <1>3
  <2>2. /\ DOMAIN flags = kept \cup {new} /\ flags[new] = members[s][old]
        /\ \A n \in kept : n # new => flags[n] = IF n = old THEN "false" ELSE members[s][n]
    <3>1. /\ DOMAIN flags = kept \cup {new}
          /\ \A n \in kept \cup {new} :
                flags[n] = CASE n = new -> members[s][old] [] n = old -> "false"
                             [] OTHER -> members[s][n]
      BY Zenon
    <3>4. old # new
      BY <1>2
    <3> HIDE DEF flags, kept
    <3>2. flags[new] = members[s][old]
      BY <3>1, <3>4
    <3>3. ASSUME NEW n \in kept, n # new
          PROVE  flags[n] = IF n = old THEN "false" ELSE members[s][n]
      <4>1. flags[n] = CASE n = new -> members[s][old] [] n = old -> "false"
                         [] OTHER -> members[s][n]
        BY <3>1
      <4> QED
        BY <3>3, <4>1
    <3> QED
      BY <3>1, <3>2, <3>3
  <2>3. CASE members[s][old] = "true"
    <3>1. \A n \in kept : n # new => flags[n] # "true"
      BY <1>1, <2>1, <2>2, <2>3 DEF FlagsFit
    <3>2. kept \subseteq DOMAIN index'
      BY <2>1 DEF FlagsFit
    <3> HIDE DEF flags, kept
    <3> QED
      BY <1>2, <2>2, <3>1, <3>2 DEF FlagsFit
  <2>4. CASE members[s][old] # "true"
    <3>1. kept = {}
      BY <2>4
    <3> HIDE DEF flags, kept
    <3> QED
      BY <1>2, <2>2, <3>1 DEF FlagsFit
  <2> QED
    BY <2>3, <2>4
<1> HIDE DEF flags
<1>5. /\ DOMAIN members' = Series /\ members'[s] = flags
      /\ \A t \in Series \ {s} : members'[t] = members[t]
  BY <1>1 DEF IInv, AliasesFit
<1>6. AliasesFit'
  BY <1>3, <1>4, <1>5 DEF AliasesFit
<1>7. StreamsFit'
  BY <1>1, <1>2, KeptListFits DEF IInv, StreamsFit
<1> QED
  BY <1>1, <1>2, <1>6, <1>7, EventsCount, UnmanagedFits DEF IInv

(* Only one alias changes. *)
LEMMA FlagsStep ==
  ASSUME IInv, Happens, Unmanaged, UNCHANGED <<index, backing>>,
         NEW s \in Series, NEW flags, FlagsFit(flags, index),
         members' = [members EXCEPT ![s] = flags]
  PROVE  IInv'
<1>1. /\ DOMAIN members' = Series /\ members'[s] = flags
      /\ \A t \in Series \ {s} : members'[t] = members[t]
  BY DEF IInv, AliasesFit
<1>2. AliasesFit'
  BY <1>1 DEF IInv, AliasesFit
<1>3. StreamsFit'
  BY DEF IInv, StreamsFit
<1> QED
  BY <1>2, <1>3, EventsCount, UnmanagedFits DEF IInv

LEMMA AfterSwitchAlias ==
  ASSUME IInv, NEW s \in Series, NEW n \in Exists, SwitchAlias(s, n)
  PROVE  IInv'
<1> DEFINE flagged == [m \in DOMAIN members[s] \cup {n} |-> IF m = n THEN "true" ELSE "false"]
           moved == [m \in {n} |-> "none"]
           any == \E m \in DOMAIN members[s] : members[s][m] # "none"
<1>1. /\ Happens /\ Unmanaged /\ UNCHANGED <<index, backing>> /\ index[n].mount = "no"
      /\ members' = [members EXCEPT ![s] = IF any THEN flagged ELSE moved]
  BY DEF SwitchAlias
<1>2. n \in DOMAIN index /\ DOMAIN members[s] \subseteq DOMAIN index
  BY DEF IInv, AliasesFit, FlagsFit, Exists
<1>3. FlagsFit(flagged, index)
  BY <1>1, <1>2 DEF FlagsFit
<1>4. FlagsFit(moved, index)
  BY <1>2 DEF FlagsFit
<1> HIDE DEF flagged, moved, any
<1> QED
  BY <1>1, <1>3, <1>4, FlagsStep

LEMMA AfterReadAlias ==
  ASSUME IInv, NEW s \in Series, NEW n \in Exists, ReadAlias(s, n)
  PROVE  IInv'
<1> DEFINE less == [m \in DOMAIN members[s] \ {n} |-> members[s][m]]
           more == [m \in DOMAIN members[s] \cup {n} |-> "none"]
<1>1. /\ Happens /\ Unmanaged /\ UNCHANGED <<index, backing>>
      /\ members' = [members EXCEPT ![s] = IF n \in DOMAIN members[s] THEN less ELSE more]
  BY DEF ReadAlias
<1>2. n \in DOMAIN index /\ FlagsFit(members[s], index)
  BY DEF IInv, AliasesFit, Exists
<1>3. FlagsFit(less, index)
  BY <1>2 DEF FlagsFit
<1>4. FlagsFit(more, index)
  BY <1>2 DEF FlagsFit
<1> HIDE DEF less, more
<1> QED
  BY <1>1, <1>3, <1>4, FlagsStep

LEMMA AfterMount ==
  ASSUME IInv, NEW n \in Exists, NEW mount \in {"full", "partial"}, Mount(n, mount)
  PROVE  IInv'
<1> DEFINE list(s) == [k \in DOMAIN backing[s] |-> IF backing[s][k] = n THEN Mounted(n, mount)
                                                  ELSE backing[s][k]]
           flags(s) == IF n \notin DOMAIN members[s] THEN members[s]
                       ELSE [m \in (DOMAIN members[s] \ {n}) \cup {Mounted(n, mount)} |->
                                IF m = Mounted(n, mount) THEN "none" ELSE members[s][m]]
<1>1. /\ Happens /\ Unmanaged /\ ~Receives(n) /\ Kind[n.series] \in {"stream", "alias"}
      /\ Kind[n.series] = "alias" => index[n].complete
      /\ index[n].mount \notin {mount, "partial"}
      /\ index' = WithMount(index, n, mount)
      /\ backing' = [s \in Streams |-> list(s)]
      /\ members' = [s \in Series |-> flags(s)]
  BY DEF Mount, WithMount, Mounted, Exists
<1>2. CanMount(index, n, mount)
  BY <1>1 DEF CanMount, IInv, Exists
<1>3. IndicesFit(index')
  BY <1>1, <1>2, MountedIndexFits
<1>4. ASSUME NEW s \in Streams PROVE ListFits(backing'[s], index')
  <2>1. ListFits(backing[s], index) /\ n # backing[s][Len(backing[s])]
    BY <1>1 DEF IInv, StreamsFit, Receives
  <2>2. ListFits(list(s), WithMount(index, n, mount))
    BY <1>2, <2>1, MountedListFits
  <2> HIDE DEF list
  <2> QED
    BY <1>1, <2>2
<1>5. ASSUME NEW s \in Series PROVE FlagsFit(members'[s], index')
  <2>1. FlagsFit(members[s], index)
    BY DEF IInv, AliasesFit
  <2>2. FlagsFit(flags(s), WithMount(index, n, mount))
    BY <1>2, <2>1, MountedFlagsFit
  <2> HIDE DEF flags
  <2> QED
    BY <1>1, <2>2
<1>6. DOMAIN backing' = Streams /\ DOMAIN members' = Series
  BY <1>1
<1>7. StreamsFit' /\ AliasesFit'
  BY <1>4, <1>5, <1>6 DEF StreamsFit, AliasesFit
<1> QED
  BY <1>1, <1>3, <1>7, EventsCount, UnmanagedFits DEF IInv

LEMMA AfterDelete ==
  ASSUME IInv, NEW n \in Exists, Delete(n)
  PROVE  IInv'
<1> DEFINE iy == [m \in DOMAIN index \ {n} |-> index[m]]
           flags(s) == [m \in DOMAIN members[s] \ {n} |-> members[s][m]]
<1>1. /\ Happens /\ Unmanaged
      /\ \A s \in Streams : n # backing[s][Len(backing[s])]
      /\ index' = iy
      /\ backing' = [s \in Streams |-> Without(backing[s], n)]
      /\ members' = [s \in Series |-> flags(s)]
  BY DEF Delete, Exists
<1>2. IndicesFit(index')
  BY <1>1, FewerIndicesFit DEF IInv
<1>3. ASSUME NEW s \in Streams PROVE ListFits(backing'[s], index')
  <2>1. ListFits(backing[s], index) /\ n # backing[s][Len(backing[s])]
    BY <1>1 DEF IInv, StreamsFit
  <2>2. ListFits(Without(backing[s], n), iy)
    BY <2>1, WithoutFits
  <2> HIDE DEF iy
  <2> QED
    BY <1>1, <2>2
<1>4. ASSUME NEW s \in Series PROVE FlagsFit(members'[s], index')
  <2>1. FlagsFit(members[s], index)
    BY DEF IInv, AliasesFit
  <2>2. FlagsFit(flags(s), iy)
    BY <2>1 DEF FlagsFit
  <2> HIDE DEF flags, iy
  <2> QED
    BY <1>1, <2>2
<1>5. DOMAIN backing' = Streams /\ DOMAIN members' = Series
  BY <1>1
<1>6. StreamsFit' /\ AliasesFit'
  BY <1>3, <1>4, <1>5 DEF StreamsFit, AliasesFit
<1> QED
  BY <1>1, <1>2, <1>6, EventsCount, UnmanagedFits DEF IInv

(* A template or a lifecycle changes; a failure store keeps its own. *)
LEMMA AfterManagement ==
  ASSUME IInv,
         \/ \E s \in Streams : SetLifecycle(s)
         \/ \E s \in Series, t \in {"ilm", "ilm_unpreferred", "none"} : SetTemplate(s, t)
  PROVE  IInv'
<1>1. Happens /\ UNCHANGED <<index, backing, members>>
  BY DEF SetLifecycle, SetTemplate
<1>2. ManagersFit'
  <2>1. ASSUME NEW s \in Streams, SetLifecycle(s) PROVE ManagersFit'
    <3>1. /\ Kind[s] = "stream" /\ lifecycle' = [lifecycle EXCEPT ![s] = ~@]
          /\ template' = template
      BY <2>1 DEF SetLifecycle
    <3>2. s \in Series /\ ManagersFit
      BY DEF IInv, Streams
    <3>3. lifecycle' \in [Series -> BOOLEAN]
      BY <3>1, <3>2 DEF ManagersFit
    <3>4. \A t \in Series : Kind[t] = "failure" => lifecycle'[t]
      BY <3>1, <3>2 DEF ManagersFit
    <3> QED
      BY <3>1, <3>2, <3>3, <3>4 DEF ManagersFit
  <2>2. ASSUME NEW s \in Series, NEW t \in {"ilm", "ilm_unpreferred", "none"}, SetTemplate(s, t)
        PROVE  ManagersFit'
    BY <2>2 DEF SetTemplate, IInv, ManagersFit
  <2> QED
    BY <2>1, <2>2
<1>3. StreamsFit' /\ AliasesFit' /\ IndicesFit(index')
  BY <1>1 DEF IInv, StreamsFit, AliasesFit
<1> QED
  BY <1>1, <1>2, <1>3, EventsCount DEF IInv

(* At the start there is the first index of every series.                  *)
LEMMA IInvStarts == Init => IInv
<1> SUFFICES ASSUME Init PROVE IInv
  OBVIOUS
<1> DEFINE First == {Of(s, 1) : s \in Series}
<1>1. /\ template \in [Series -> {"ilm", "none"}]
      /\ \A s \in Series : Kind[s] \in {"failure", "alone"} => template[s] = "none"
      /\ lifecycle = [s \in Series |-> Kind[s] \in {"stream", "failure"} /\ template[s] = "none"]
      /\ backing = [s \in Streams |-> <<Of(s, 1)>>]
      /\ index = [n \in First |-> New(n.series)]
      /\ events = 0
  BY DEF Init
<1>2. PICK flag \in {"true", "none"} :
          members = [s \in Series |-> IF Kind[s] = "alias" THEN [n \in {Of(s, 1)} |-> flag]
                                      ELSE [n \in {} |-> flag]]
  BY DEF Init
<1>3. /\ \A s \in Series : /\ Of(s, 1) \in Name /\ Of(s, 1).series = s
                           /\ Of(s, 1).gen = 1 /\ Of(s, 1).form = "index"
      /\ DOMAIN index = First
  <2>1. 1 \in 1 .. MaxGen
    BY SeriesAssumption
  <2> QED
    BY <1>1, <2>1 DEF Of, Name, Forms
<1>4. \A s \in Series : New(s) \in Records /\ New(s).mount = "no"
  <2>1. 0 \in 0 .. MaxSize
    BY SeriesAssumption
  <2> QED
    BY <1>1, <2>1 DEF New, Records
<1>5. \A n \in First : n.series \in Series /\ n = Of(n.series, 1)
  BY <1>3
<1> HIDE DEF First
<1>6. \A n \in First : index[n] \in Records /\ index[n].mount = "no"
  BY <1>1, <1>4, <1>5
<1>7. IndicesFit(index)
  <2>1. \A n \in First : NameFits(n, index[n])
    BY <1>3, <1>5, <1>6 DEF NameFits
  <2>2. \A n, m \in First : SameGeneration(n, m) => n = m
    BY <1>5 DEF SameGeneration
  <2>3. index \in [First -> Records] /\ First \subseteq Name
    BY <1>1, <1>3, <1>5, <1>6
  <2> QED
    BY <1>3, <2>1, <2>2, <2>3 DEF IndicesFit
<1>8. \A s \in Series : Of(s, 1) \in First
  BY DEF First
<1>9. StreamsFit
  <2>1. \A s \in Streams : s \in Series
    BY DEF Streams
  <2>2. ASSUME NEW s \in Streams PROVE ListFits(backing[s], index)
    <3>1. PICK n : n = Of(s, 1)
      OBVIOUS
    <3>2. n \in Name /\ n \in DOMAIN index /\ index[n].mount = "no" /\ backing[s] = <<n>>
      BY <1>1, <1>3, <1>6, <1>8, <2>1, <3>1
    <3>3. /\ <<n>> \in Seq(Name) /\ Len(<<n>>) = 1 /\ <<n>>[1] = n /\ <<n>> # <<>>
          /\ \A k \in DOMAIN <<n>> : k = 1
      BY <3>2
    <3> QED
      BY <3>2, <3>3 DEF ListFits
  <2> QED
    BY <1>1, <2>2 DEF StreamsFit
<1>10. AliasesFit
  <2>1. ASSUME NEW s \in Series PROVE FlagsFit(members[s], index)
    BY <1>2, <1>3, <1>6, <1>8 DEF FlagsFit
  <2> QED
    BY <1>2, <2>1 DEF AliasesFit
<1>11. ManagersFit
  <2>1. template \in [Series -> {"ilm", "ilm_unpreferred", "none"}]
    BY <1>1
  <2>2. lifecycle \in [Series -> BOOLEAN]
    BY <1>1
  <2>3. \A s \in Series : Kind[s] = "failure" => lifecycle[s]
    BY <1>1
  <2> QED
    BY <2>1, <2>2, <2>3 DEF ManagersFit
<1>12. events \in 0 .. MaxEvents
  BY <1>1, SeriesAssumption
<1> QED
  BY <1>7, <1>9, <1>10, <1>11, <1>12 DEF IInv

(* Names, mounts, streams and aliases hang together, whatever happens.     *)
THEOREM IndexInvariant == Spec => []IInv
<1>1. IInv /\ [Next]_vars => IInv'
  <2> SUFFICES ASSUME IInv, [Next]_vars PROVE IInv'
    OBVIOUS
  <2>1. ASSUME NEW n \in Exists,
               \/ Write(n) \/ Restore(n) \/ NoReplicas(n) \/ Unthrottle(n) \/ Delete(n)
               \/ \E mount \in {"full", "partial"} : Mount(n, mount)
               \/ \E block \in {"none", "write", "flood"} : Block(n, block)
               \/ \E t \in Trait : Acquire(n, t)
               \/ \E s \in Series : RollAlias(s, n) \/ SwitchAlias(s, n) \/ ReadAlias(s, n)
        PROVE  IInv'
    BY <2>1, AfterWrite, AfterRestore, AfterNoReplicas, AfterUnthrottle, AfterDelete,
       AfterMount, AfterBlock, AfterAcquire, AfterRollAlias, AfterSwitchAlias, AfterReadAlias
  <2>2. CASE \E s \in Streams : RollStream(s)
    BY <2>2, AfterRollStream
  <2>3. CASE \/ \E s \in Streams : SetLifecycle(s)
             \/ \E s \in Series, t \in {"ilm", "ilm_unpreferred", "none"} : SetTemplate(s, t)
    BY <2>3, AfterManagement
  <2>4. CASE UNCHANGED vars
    BY <2>4 DEF vars, IInv, StreamsFit, AliasesFit, ManagersFit
  <2> QED
    BY <2>1, <2>2, <2>3, <2>4 DEF Next
<1> QED
  BY IInvStarts, <1>1, PTL DEF Spec

(* Streams and aliases name indices there are, and an alias has at most    *)
(* one write index.                                                        *)
THEOREM IndexTypes == Spec => []TypeOK
<1>1. IInv => TypeOK
  <2> SUFFICES ASSUME IInv PROVE TypeOK
    OBVIOUS
  <2>1. ASSUME NEW n \in Exists
        PROVE  /\ n \in Name /\ index[n].size \in 0 .. MaxSize
               /\ index[n].traits \subseteq Traits
               /\ (index[n].mount = "partial") = (n.form = "partial")
               /\ index[n].mount = "full" => n.form = "restored"
    <3>1. n \in Name /\ index[n] \in Records /\ NameFits(n, index[n])
      BY DEF IInv, IndicesFit, Exists
    <3> QED
      BY <3>1 DEF Records, NameFits
  <2>2. ASSUME NEW s \in Streams
        PROVE  backing[s] # <<>> /\ \A k \in DOMAIN backing[s] : backing[s][k] \in Exists
    BY DEF IInv, StreamsFit, ListFits, Exists
  <2>3. ASSUME NEW s \in Series
        PROVE  /\ DOMAIN members[s] \subseteq Exists
               /\ Cardinality({n \in DOMAIN members[s] : members[s][n] = "true"}) <= 1
    <3> DEFINE T == {n \in DOMAIN members[s] : members[s][n] = "true"}
    <3>1. FlagsFit(members[s], index)
      BY DEF IInv, AliasesFit
    <3>2. T = {} \/ \E n : T = {n}
      BY <3>1 DEF FlagsFit
    <3> HIDE DEF T
    <3>3. Cardinality(T) = 0 \/ Cardinality(T) = 1
      BY <3>2, FS_EmptySet, FS_Singleton
    <3>4. Cardinality(T) <= 1
      BY <3>3
    <3> QED
      BY <3>1, <3>4 DEF FlagsFit, T, Exists
  <2>4. events \in 0 .. MaxEvents
    BY DEF IInv
  <2> QED
    BY <2>1, <2>2, <2>3, <2>4 DEF TypeOK
<1> QED
  BY <1>1, IndexInvariant, PTL

(* What context.py takes for filled, finished and managed is so, whichever *)
(* files could be read.                                                    *)
THEOREM IndicesAreUnderstoodThm == Spec => []IndicesAreUnderstood
BY IndicesAreUnderstoodStep, IndexInvariant, PTL

(* No advice of shards.py and sharding.py goes to a mount, no block of a   *)
(* write index passes, and no index is called small while it is filled.    *)
THEOREM AdviceFitsThm == Spec => []AdviceFitsTheIndex
BY AdviceFitsStep, IndexInvariant, PTL

(* Whatever files are missing, the index rules find nothing critical that  *)
(* they would not find with all of them.                                   *)
THEOREM MissingFilesThm == Spec => []MissingFilesAlarmNobody
BY MissingFilesStep, IndexInvariant, PTL

(* DIF-011 of diff.py lists an index as deleted if it is there in no form, *)
(* and no mount as new.                                                    *)
THEOREM MountsAreNoChangeThm == Spec => []MountsAreNoChange
BY MountsAreNoChangeStep, IndexInvariant, PTL
=============================================================================
