------------------------------ MODULE Cli_proofs ------------------------------
(***************************************************************************)
(* A run delivers what it is asked for or says that it did not, and its    *)
(* files belong together, for any number of languages, runs and sets of    *)
(* reports, with a kill or a failed write at any step.  The invariant      *)
(* follows main(): which languages are behind the current pass, which      *)
(* kinds of file are behind the current step, and that the files of this   *)
(* run are the ones these two have written.                                *)
(*                                                                         *)
(* Aliases can be read back and never change, a released text holds no     *)
(* name and comes back word for word, for every bundle and every text.     *)
(* What a scan of a text comes to is found from its steps: a text for      *)
(* which it fails has a last place where what is left of it fails.         *)
(***************************************************************************)
EXTENDS Cli, Masker, SetTheorems, SequenceTheorems

Running == step \notin {"idle", "ended"}

(* The languages whose pass is over. *)
Done == {opt.langs[i] : i \in 1 .. Len(opt.langs) - Len(todo)}

(* The steps of a pass after the summary, and after its map. *)
AfterSummary == {"map", "html", "md", "json", "next"}
AfterMap     == AfterSummary \ {"map"}

(* The kinds of file whose turn in this pass is over. *)
Behind(k) ==
    \/ k = "summary" /\ step \in AfterSummary
    \/ k = "html" /\ step \in {"md", "json", "next"}
    \/ k = "md" /\ step \in {"json", "next"}
    \/ k = "json" /\ step = "next"

(* The languages that need no file of this kind any more, and no map. *)
Has(k) == Done \cup (IF Behind(k) THEN {pass} ELSE {})
Mapped == Done \cup (IF step \in AfterMap THEN {pass} ELSE {})

(* The languages to do are a tail of the languages of the run. *)
PassesInOrder ==
    step # "idle" =>
        /\ opt \in Arguments
        /\ Len(todo) \in 1 .. Len(opt.langs)
        /\ \A i \in 1 .. Len(todo) :
              todo[i] = opt.langs[Len(opt.langs) - Len(todo) + i]
        /\ step \in AfterSummary \cup {"summary"} => lang = pass
        /\ step = "summary" => opt.summary # "off"
        /\ step = "map" => opt.summary = "masked"

(* Each file of this run is one that a finished step has written. *)
FilesOfThisRun ==
    /\ \A f \in Files : disk[f] # NoFile => disk[f].run <= run
    /\ Running =>
        /\ \A f \in Files : Mine(f) => disk[f].whole
        /\ \A k \in Reports \cup {"summary"}, s \in Langs \cup {"none"} :
              Mine(<<k, s>>) <=> k \in Kinds /\ \E l \in Has(k) : s = Suffix(l)
        /\ \A f \in Files : Mine(f) => disk[f].lang \in Has("summary")

(* Bundles are refused by the first pass or by none. *)
RefusedAtOnce ==
    /\ opened # "good" => \A f \in Files : ~Mine(f)
    /\ Running => opened # "refused"
    /\ step = "check" => opened = "unopened"
    /\ step \in AfterSummary \cup {"summary"} => opened = "good"

(* The map file holds the aliases of the first language, and a language    *)
(* has a map of its own when its summary uses others.                      *)
Own(l) == <<"map", l>>

MapsOfThisRun ==
    Running /\ opt.summary = "masked" =>
        /\ firstMap = NoAliases <=> Mapped = {}
        /\ \A l \in Langs : Mine(Own(l)) => l \in Mapped \ {screen}
        /\ firstMap # NoAliases =>
              Mine(<<"map", "none">>) /\ disk[<<"map", "none">>].aliases = firstMap
        /\ \A l \in Mapped :
              LET s == disk[<<"summary", Suffix(l)>>]
              IN  s.aliases = IF Mine(Own(l)) THEN disk[Own(l)].aliases ELSE firstMap
        /\ step = "map" =>
              aliases \in Aliases /\ disk[<<"summary", Suffix(pass)>>].aliases = aliases

IInv ==
    /\ TypeOK
    /\ step = "idle" <=> run = 0
    /\ PassesInOrder
    /\ FilesOfThisRun
    /\ RefusedAtOnce
    /\ MapsOfThisRun
    /\ FilesBelongTogether
    /\ RefusalsLeaveNothing
-----------------------------------------------------------------------------
(* The languages of a run are all different, whatever their number. *)
LEMMA LangListsAreInjective ==
  ASSUME NEW s \in LangLists
  PROVE  /\ s \in Seq(Langs) /\ Len(s) \in Nat \ {0} /\ DOMAIN s = 1 .. Len(s)
         /\ \A i \in 1 .. Len(s) : s[i] \in Langs
         /\ \A i, j \in 1 .. Len(s) : s[i] = s[j] => i = j
<1>1. CASE \E l \in Langs : s = <<l>>
  BY <1>1
<1>2. CASE s \in {t \in [1 .. Cardinality(Langs) -> Langs] :
                     \A i, j \in DOMAIN t : t[i] = t[j] => i = j}
  <2>1. Cardinality(Langs) \in Nat
    BY LangsAssumption, FS_CardinalityType
  <2>2. Cardinality(Langs) # 0
    BY LangsAssumption, FS_EmptySet
  <2>3. s \in Seq(Langs) /\ Len(s) = Cardinality(Langs)
    BY <1>2, <2>1
  <2> QED
    BY <1>2, <2>1, <2>2, <2>3
<1> QED
  BY <1>1, <1>2 DEF LangLists

(* Where the run is: at one of its languages, and past some others. *)
LEMMA PassIsNew ==
  ASSUME TypeOK, PassesInOrder, step # "idle"
  PROVE  /\ opt.langs \in LangLists
         /\ Len(opt.langs) \in Nat \ {0} /\ Len(todo) \in Nat \ {0}
         /\ Len(todo) <= Len(opt.langs)
         /\ pass = opt.langs[Len(opt.langs) - Len(todo) + 1]
         /\ pass \in LangsOfRun /\ pass \notin Done
         /\ Done \subseteq LangsOfRun /\ LangsOfRun \subseteq Langs
         /\ screen \in LangsOfRun
<1>1. opt.langs \in LangLists
  BY DEF PassesInOrder, Arguments
<1> DEFINE s == opt.langs
<1>2. /\ s \in Seq(Langs) /\ Len(s) \in Nat \ {0} /\ DOMAIN s = 1 .. Len(s)
      /\ \A i \in 1 .. Len(s) : s[i] \in Langs
      /\ \A i, j \in 1 .. Len(s) : s[i] = s[j] => i = j
  BY <1>1, LangListsAreInjective
<1>3. Len(todo) \in 1 .. Len(s) /\ Len(todo) \in Nat \ {0} /\ todo \in Seq(Langs)
  <2>1. Len(todo) \in 1 .. Len(s)
    BY DEF PassesInOrder
  <2>2. todo \in Seq(Langs)
    BY DEF TypeOK
  <2> QED
    BY <2>1, <2>2
<1>4. pass = s[Len(s) - Len(todo) + 1]
  <2>1. pass = todo[1]
    BY <1>3 DEF pass
  <2>2. todo[1] = s[Len(s) - Len(todo) + 1]
    BY <1>3 DEF PassesInOrder
  <2> QED
    BY <2>1, <2>2
<1> HIDE DEF s
<1>5. LangsOfRun = {s[i] : i \in 1 .. Len(s)}
  BY <1>2 DEF LangsOfRun, s
<1>6. Done = {s[i] : i \in 1 .. Len(s) - Len(todo)}
  BY DEF Done, s
<1>7. Len(s) - Len(todo) + 1 \in 1 .. Len(s)
  BY <1>2, <1>3
<1>8. pass \in LangsOfRun
  BY <1>4, <1>5, <1>7
<1>9. Done \subseteq LangsOfRun
  BY <1>2, <1>3, <1>5, <1>6
<1>10. pass \notin Done
  <2> SUFFICES ASSUME NEW i \in 1 .. Len(s) - Len(todo), s[i] = pass
               PROVE  FALSE
    BY <1>6
  <2>1. i \in 1 .. Len(s) /\ i # Len(s) - Len(todo) + 1
    BY <1>2, <1>3
  <2> QED
    BY <1>2, <1>4, <1>7, <2>1
<1>11. LangsOfRun \subseteq Langs
  BY <1>2, <1>5
<1>12. screen \in LangsOfRun
  BY <1>2, <1>5 DEF screen, s
<1> QED
  BY <1>1, <1>2, <1>3, <1>4, <1>8, <1>9, <1>10, <1>11, <1>12 DEF s

(* A file of one language never has the name of another's. *)
LEMMA SuffixesDiffer ==
  ASSUME opt.langs \in LangLists, NEW l \in LangsOfRun
  PROVE  /\ Suffix(l) \in Langs \cup {"none"}
         /\ Suffix(l) = IF multi THEN l ELSE "none"
         /\ \A m \in LangsOfRun : Suffix(l) = Suffix(m) => l = m
         /\ (IF Suffix(l) = "none" THEN screen ELSE Suffix(l)) = l
<1> DEFINE s == opt.langs
<1>1. /\ Len(s) \in Nat \ {0} /\ DOMAIN s = 1 .. Len(s)
      /\ \A i \in 1 .. Len(s) : s[i] \in Langs
  BY LangListsAreInjective
<1>2. \A m \in LangsOfRun : m \in Langs /\ m # "none"
  BY <1>1, LangsAssumption DEF LangsOfRun
<1>3. CASE multi
  BY <1>2, <1>3 DEF Suffix
<1>4. CASE ~multi
  <2>1. Len(s) = 1
    <3>1. ~(Len(s) > 1)
      BY <1>4 DEF multi
    <3> HIDE DEF s
    <3> QED
      BY <1>1, <3>1
  <2>2. \A m \in LangsOfRun : m = screen
    BY <1>1, <2>1 DEF LangsOfRun, screen
  <2> QED
    BY <1>2, <1>4, <2>2 DEF Suffix
<1> QED
  BY <1>3, <1>4

(* What holds at every step of a run. *)
LEMMA AtAStep ==
  ASSUME IInv, Running
  PROVE  /\ run \in 1 .. MaxRuns /\ opt \in Arguments /\ opt.langs \in LangLists
         /\ pass \in Langs /\ pass \in LangsOfRun /\ pass \notin Done
         /\ \A k \in Reports \cup {"summary"} : <<k, Suffix(pass)>> \in Files
         /\ MapFile \in Files
<1>1. TypeOK /\ PassesInOrder /\ step # "idle" /\ (step = "idle" <=> run = 0)
  BY DEF IInv, Running
<1>2. run \in 1 .. MaxRuns
  <2>1. run \in 0 .. MaxRuns /\ run # 0
    BY <1>1 DEF TypeOK
  <2> QED
    BY <2>1, ValuesAssumption
<1>3. opt \in Arguments
  BY <1>1 DEF PassesInOrder
<1>4. /\ opt.langs \in LangLists /\ pass \in LangsOfRun /\ pass \notin Done
      /\ pass \in Langs
  BY <1>1, PassIsNew
<1>5. Suffix(pass) \in Langs \cup {"none"}
  BY <1>4, SuffixesDiffer
<1>6. /\ \A k \in Reports \cup {"summary"} : <<k, Suffix(pass)>> \in Files
      /\ MapFile \in Files
  BY <1>4, <1>5 DEF Files, MapFile
<1> QED
  BY <1>2, <1>3, <1>4, <1>6

LEMMA TextOfRun ==
  ASSUME IInv, Running, NEW m \in Aliases \cup {NoAliases}
  PROVE  /\ Text(m) \in Texts /\ Text(m) # NoFile
         /\ Text(m).run = run /\ Text(m).lang = lang
         /\ Text(m).aliases = m /\ Text(m).whole = TRUE
<1>1. run \in 1 .. MaxRuns /\ lang \in Langs
  BY AtAStep DEF IInv, TypeOK
<1>2. Text(m) \in Texts
  BY <1>1 DEF Text, Texts
<1>3. Text(m) # NoFile
  BY <1>2, ValuesAssumption
<1> QED
  BY <1>2, <1>3 DEF Text

(* A write changes the one file. *)
LEMMA OneFile ==
  ASSUME TypeOK, NEW f \in Files, NEW t \in Texts, disk' = [disk EXCEPT ![f] = t]
  PROVE  /\ disk' \in [Files -> Texts \cup {NoFile}]
         /\ \A g \in Files : disk'[g] = IF g = f THEN t ELSE disk[g]
BY DEF TypeOK

(* What is said is said in a language. *)
LEMMA OneMessage ==
  ASSUME NEW heard, heard \subseteq {"error", "written"} \X Langs,
         NEW w \in {"error", "written"}, NEW l \in Langs
  PROVE  heard \cup {<<w, l>>} \subseteq {"error", "written"} \X Langs
OBVIOUS

(* Every step keeps the types. *)
LEMMA TypesAreKept ==
  ASSUME IInv, Next
  PROVE  TypeOK'
<1>1. TypeOK
  BY DEF IInv
<1> USE DEF Steps
<1>2. ASSUME NEW o \in Arguments, Start(o)
      PROVE  TypeOK'
  <2>1. /\ run' = run + 1 /\ run < MaxRuns /\ step' = "check" /\ opt' = o
        /\ todo' = o.langs /\ lang' = o.langs[1] /\ opened' = "unopened"
        /\ aliases' = NoAliases /\ firstMap' = NoAliases /\ cause' = "none"
        /\ said' = {} /\ disk' = disk /\ code' = code
    BY <1>2 DEF Start
  <2>2. o.langs \in LangLists
    BY DEF Arguments
  <2>3. o.langs \in Seq(Langs) /\ o.langs[1] \in Langs
    BY <2>2, LangListsAreInjective
  <2>4. run' \in 0 .. MaxRuns
    <3>1. run \in 0 .. MaxRuns
      BY <1>1 DEF TypeOK
    <3> QED
      BY <2>1, <3>1, ValuesAssumption
  <2> QED
    BY <1>1, <2>1, <2>3, <2>4 DEF TypeOK
<1>3. CASE CheckArguments
  <2>1. /\ UNCHANGED <<run, opt, todo, lang, opened, aliases, firstMap, disk>>
        /\ step' \in {"analyze", "ended"}
        /\ (code' = code \/ code' \in {1, 2})
        /\ cause' = cause \/ cause' \in {"input error", "exception"}
    BY <1>3 DEF CheckArguments, End
  <2>2. said' \subseteq {"error", "written"} \X Langs
    <3>1. said' = said \/ said' = said \cup {<<"error", lang>>}
      BY <1>3 DEF CheckArguments
    <3> QED
      BY <1>1, <3>1, OneMessage DEF TypeOK
  <2>3. code' \in {0, 1, 2, 137}
    BY <1>1, <2>1 DEF TypeOK
  <2>4. cause' \in {"none", "input error", "leak", "exception", "fail on", "success", "killed"}
    BY <1>1, <2>1 DEF TypeOK
  <2> QED
    BY <1>1, <2>1, <2>2, <2>3, <2>4 DEF TypeOK
<1>4. CASE Analyze
  <2>1. Running
    BY <1>4 DEF Analyze, Running
  <2>2. pass \in Langs
    BY <2>1, AtAStep
  <2>3. /\ UNCHANGED <<run, opt, todo, aliases, firstMap, disk>> /\ lang' = pass
        /\ opened' = opened \/ opened' \in {"good", "refused"}
        /\ step' \in {"summary", "html", "ended"}
        /\ (code' = code \/ code' = 2)
        /\ cause' = cause \/ cause' = "input error"
    BY <1>4 DEF Analyze, End
  <2>4. said' \subseteq {"error", "written"} \X Langs
    <3>1. said' = said \/ said' = said \cup {<<"error", lang'>>}
      BY <1>4 DEF Analyze
    <3> QED
      BY <1>1, <2>2, <2>3, <3>1, OneMessage DEF TypeOK
  <2>5. code' \in {0, 1, 2, 137}
    BY <1>1, <2>3 DEF TypeOK
  <2>6. cause' \in {"none", "input error", "leak", "exception", "fail on", "success", "killed"}
    BY <1>1, <2>3 DEF TypeOK
  <2>7. opened' \in {"unopened", "good", "refused"}
    BY <1>1, <2>3 DEF TypeOK
  <2> QED
    BY <1>1, <2>2, <2>3, <2>4, <2>5, <2>6, <2>7 DEF TypeOK
<1>5. CASE SummaryLeaks
  <2>1. /\ UNCHANGED <<run, opt, todo, lang, opened, aliases, firstMap, disk>>
        /\ step' = "ended" /\ code' = 2 /\ cause' = "leak"
        /\ said' = said \cup {<<"error", lang>>}
    BY <1>5 DEF SummaryLeaks, End
  <2>2. said' \subseteq {"error", "written"} \X Langs
    BY <1>1, <2>1, OneMessage DEF TypeOK
  <2> QED
    BY <1>1, <2>1, <2>2 DEF TypeOK
<1>6. ASSUME NEW m \in Aliases \cup {NoAliases}, WriteSummary(m)
      PROVE  TypeOK'
  <2>1. Running
    BY <1>6 DEF WriteSummary, Running
  <2>2. /\ UNCHANGED <<run, opt, todo, lang, opened, firstMap, code, cause, said>>
        /\ aliases' = m /\ step' \in {"map", "html"}
        /\ disk' = [disk EXCEPT ![<<"summary", Suffix(pass)>>] = Text(m)]
    BY <1>6 DEF WriteSummary
  <2>3. disk' \in [Files -> Texts \cup {NoFile}]
    BY <1>1, <2>1, <2>2, AtAStep, TextOfRun, OneFile
  <2> QED
    BY <1>1, <2>2, <2>3 DEF TypeOK
<1>7. CASE WriteMap
  <2>1. Running
    BY <1>7 DEF WriteMap, Running
  <2>2. /\ UNCHANGED <<run, opt, todo, lang, opened, aliases, code, cause, said>>
        /\ firstMap' \in {firstMap, aliases} /\ step' = "html"
        /\ disk' = disk \/ disk' = [disk EXCEPT ![MapFile] = Text(aliases)]
    BY <1>7 DEF WriteMap
  <2>3. aliases \in Aliases \cup {NoAliases}
    BY <1>1 DEF TypeOK
  <2>4. disk' \in [Files -> Texts \cup {NoFile}]
    BY <1>1, <2>1, <2>2, <2>3, AtAStep, TextOfRun, OneFile DEF TypeOK
  <2> QED
    BY <1>1, <2>2, <2>4 DEF TypeOK
<1>8. ASSUME NEW k \in Reports, WriteReport(k)
      PROVE  TypeOK'
  <2>1. Running
    BY <1>8 DEF WriteReport, Running, Reports
  <2>2. /\ UNCHANGED <<run, opt, todo, lang, opened, aliases, firstMap, code, cause, said>>
        /\ \/ disk' = disk
           \/ disk' = [disk EXCEPT ![<<k, Suffix(pass)>>] = Text(NoAliases)]
    BY <1>8 DEF WriteReport
  <2>3. step' \in {"md", "json", "next"}
    BY <1>8 DEF WriteReport, After, Reports
  <2>4. disk' \in [Files -> Texts \cup {NoFile}]
    BY <1>1, <2>1, <2>2, AtAStep, TextOfRun, OneFile DEF TypeOK
  <2> QED
    BY <1>1, <2>2, <2>3, <2>4 DEF TypeOK
<1>9. CASE NextLanguage
  <2>1. todo \in Seq(Langs) /\ todo # <<>>
    <3>1. todo \in Seq(Langs)
      BY <1>1 DEF TypeOK
    <3>2. Len(todo) > 1
      BY <1>9 DEF NextLanguage
    <3> QED
      BY <3>1, <3>2
  <2>2. Tail(todo) \in Seq(Langs)
    BY <2>1
  <2> QED
    BY <1>1, <1>9, <2>2 DEF TypeOK, NextLanguage
<1>10. ASSUME NEW worst, Finish(worst)
       PROVE  TypeOK'
  <2>1. step # "idle"
    BY <1>10 DEF Finish
  <2>2. screen \in Langs
    BY <1>1, <2>1, PassIsNew DEF IInv
  <2>3. /\ UNCHANGED <<run, opt, todo, opened, aliases, firstMap, disk>>
        /\ lang' = screen
        /\ step' = "ended" /\ code' \in {0, 1} /\ cause' \in {"fail on", "success"}
    BY <1>10 DEF Finish, End
  <2>4. said' \subseteq {"error", "written"} \X Langs
    <3>1. said' = said \cup {<<"written", lang'>>}
      BY <1>10 DEF Finish
    <3> QED
      BY <1>1, <2>2, <2>3, <3>1, OneMessage DEF TypeOK
  <2>5. code' \in {0, 1, 2, 137}
    BY <1>1, <2>3 DEF TypeOK
  <2>6. cause' \in {"none", "input error", "leak", "exception", "fail on", "success", "killed"}
    BY <1>1, <2>3 DEF TypeOK
  <2> QED
    BY <1>1, <2>2, <2>3, <2>4, <2>5, <2>6 DEF TypeOK
<1>11. ASSUME NEW f \in Files, WriteFails(f)
       PROVE  TypeOK'
  <2>1. Running
    BY <1>11 DEF WriteFails, Target, Running, Reports
  <2>2. [Text(NoAliases) EXCEPT !.whole = FALSE] \in Texts
    <3>1. Text(NoAliases) \in Texts
      BY <2>1, TextOfRun
    <3> QED
      BY <3>1 DEF Texts
  <2>3. disk' \in [Files -> Texts \cup {NoFile}]
    BY <1>1, <1>11, <2>2, OneFile DEF WriteFails
  <2> QED
    BY <1>1, <1>11, <2>3 DEF TypeOK, WriteFails, End
<1>12. CASE Killed
  BY <1>1, <1>12 DEF TypeOK, Killed, End
<1> QED
  BY <1>2, <1>3, <1>4, <1>5, <1>6, <1>7, <1>8, <1>9, <1>10, <1>11, <1>12 DEF Next, Main

(* A step of the same pass leaves the run at its place. *)
LEMMA SamePass ==
  ASSUME PassesInOrder, step # "idle", UNCHANGED <<opt, todo>>,
         step' \in AfterSummary \cup {"summary"} => lang' = pass,
         step' = "summary" => opt.summary # "off",
         step' = "map" => opt.summary = "masked"
  PROVE  PassesInOrder'
BY DEF PassesInOrder, pass

(* Counted from the end, a place moves with the head that is taken off. *)
LEMMA SamePlace ==
  ASSUME NEW n \in Nat, NEW t \in Nat, NEW i \in Int
  PROVE  n - t + (i + 1) = n - (t - 1) + i
OBVIOUS

LEMMA PassesAreKept ==
  ASSUME IInv, Next
  PROVE  PassesInOrder' /\ (step = "idle" <=> run = 0)'
<1>1. TypeOK /\ PassesInOrder /\ (step = "idle" <=> run = 0) /\ run \in Nat
  <2>1. run \in 0 .. MaxRuns
    BY DEF IInv, TypeOK
  <2> QED
    BY <2>1, ValuesAssumption DEF IInv
<1>2. ASSUME NEW o \in Arguments, Start(o)
      PROVE  PassesInOrder' /\ (step = "idle" <=> run = 0)'
  <2>1. /\ opt' = o /\ todo' = o.langs /\ step' = "check" /\ run' = run + 1
    BY <1>2 DEF Start
  <2>2. o.langs \in LangLists
    BY DEF Arguments
  <2>3. Len(o.langs) \in Nat \ {0}
    BY <2>2, LangListsAreInjective
  <2>4. Len(todo') \in 1 .. Len(opt'.langs) /\ Len(opt'.langs) - Len(todo') = 0
    BY <2>1, <2>3
  <2>5. \A i \in 1 .. Len(todo') : todo'[i] = opt'.langs[Len(opt'.langs) - Len(todo') + i]
    BY <2>1, <2>3
  <2> QED
    BY <1>1, <2>1, <2>4, <2>5 DEF PassesInOrder, AfterSummary
<1>3. CASE CheckArguments
  <2>1. /\ UNCHANGED <<run, opt, todo>> /\ step = "check" /\ step' \in {"analyze", "ended"}
    BY <1>3 DEF CheckArguments, End
  <2>2. PassesInOrder'
    BY <1>1, <2>1, SamePass DEF AfterSummary
  <2> QED
    BY <1>1, <2>1, <2>2
<1>4. CASE Analyze
  <2>1. /\ UNCHANGED <<run, opt, todo>> /\ step = "analyze" /\ lang' = pass
        /\ step' \in {"summary", "html", "ended"}
        /\ step' = "summary" => opt.summary # "off"
    BY <1>4 DEF Analyze, End
  <2>2. PassesInOrder'
    BY <1>1, <2>1, SamePass DEF AfterSummary
  <2> QED
    BY <1>1, <2>1, <2>2
<1>5. CASE SummaryLeaks
  <2>1. UNCHANGED <<run, opt, todo>> /\ step = "summary" /\ step' = "ended"
    BY <1>5 DEF SummaryLeaks, End
  <2>2. PassesInOrder'
    BY <1>1, <2>1, SamePass DEF AfterSummary
  <2> QED
    BY <1>1, <2>1, <2>2
<1>6. ASSUME NEW m \in Aliases \cup {NoAliases}, WriteSummary(m)
      PROVE  PassesInOrder' /\ (step = "idle" <=> run = 0)'
  <2>1. /\ UNCHANGED <<run, opt, todo, lang>> /\ step = "summary"
        /\ step' = IF opt.summary = "masked" THEN "map" ELSE "html"
    BY <1>6 DEF WriteSummary
  <2>2. lang = pass
    BY <1>1, <2>1 DEF PassesInOrder
  <2>3. PassesInOrder'
    BY <1>1, <2>1, <2>2, SamePass DEF AfterSummary
  <2> QED
    BY <1>1, <2>1, <2>3
<1>7. CASE WriteMap
  <2>1. UNCHANGED <<run, opt, todo, lang>> /\ step = "map" /\ step' = "html"
    BY <1>7 DEF WriteMap
  <2>2. lang = pass
    BY <1>1, <2>1 DEF PassesInOrder, AfterSummary
  <2>3. PassesInOrder'
    BY <1>1, <2>1, <2>2, SamePass DEF AfterSummary
  <2> QED
    BY <1>1, <2>1, <2>3
<1>8. ASSUME NEW k \in Reports, WriteReport(k)
      PROVE  PassesInOrder' /\ (step = "idle" <=> run = 0)'
  <2>1. /\ UNCHANGED <<run, opt, todo, lang>>
        /\ step \in {"html", "md", "json"} /\ step' \in {"md", "json", "next"}
    BY <1>8 DEF WriteReport, After, Reports
  <2>2. lang = pass
    BY <1>1, <2>1 DEF PassesInOrder, AfterSummary
  <2>3. PassesInOrder'
    BY <1>1, <2>1, <2>2, SamePass DEF AfterSummary
  <2> QED
    BY <1>1, <2>1, <2>3
<1>9. CASE NextLanguage
  <2>1. /\ UNCHANGED <<run, opt>> /\ step = "next" /\ step' = "analyze"
        /\ todo' = Tail(todo) /\ Len(todo) > 1
    BY <1>9 DEF NextLanguage
  <2>2. todo \in Seq(Langs)
    BY <1>1 DEF TypeOK
  <2>3. /\ Len(todo') = Len(todo) - 1 /\ Len(todo) \in Nat
        /\ \A i \in 1 .. Len(todo') : todo'[i] = todo[i + 1]
    BY <2>1, <2>2
  <2>4. /\ opt \in Arguments /\ Len(todo) \in 1 .. Len(opt.langs)
        /\ \A i \in 1 .. Len(todo) : todo[i] = opt.langs[Len(opt.langs) - Len(todo) + i]
    BY <1>1, <2>1 DEF PassesInOrder
  <2>5. Len(opt.langs) \in Nat
    BY <1>1, <2>1, PassIsNew
  <2>6. ASSUME NEW i \in 1 .. Len(todo')
        PROVE  todo'[i] = opt.langs[Len(opt.langs) - Len(todo') + i]
    <3>1. PICK j \in 1 .. Len(todo) : j = i + 1
      BY <2>3
    <3>2. todo'[i] = todo[j]
      BY <2>3, <3>1
    <3>3. todo[j] = opt.langs[Len(opt.langs) - Len(todo) + j]
      BY <2>4
    <3>4. Len(opt.langs) - Len(todo) + j = Len(opt.langs) - Len(todo') + i
      <4>1. Len(todo') = Len(todo) - 1 /\ Len(todo) \in Nat /\ Len(todo') \in Int
        BY <2>3
      <4>2. i \in Int /\ j = i + 1
        BY <3>1, <4>1
      <4> QED
        BY <2>5, <4>1, <4>2, SamePlace
    <3> QED
      BY <3>2, <3>3, <3>4
  <2>7. Len(todo') \in 1 .. Len(opt.langs)
    BY <2>1, <2>3, <2>4, <2>5
  <2> QED
    BY <1>1, <2>1, <2>4, <2>6, <2>7 DEF PassesInOrder, AfterSummary
<1>10. ASSUME NEW worst, Finish(worst)
       PROVE  PassesInOrder' /\ (step = "idle" <=> run = 0)'
  <2>1. UNCHANGED <<run, opt, todo>> /\ step = "next" /\ step' = "ended"
    BY <1>10 DEF Finish, End
  <2>2. PassesInOrder'
    BY <1>1, <2>1, SamePass DEF AfterSummary
  <2> QED
    BY <1>1, <2>1, <2>2
<1>11. ASSUME NEW f \in Files, WriteFails(f)
       PROVE  PassesInOrder' /\ (step = "idle" <=> run = 0)'
  <2>1. UNCHANGED <<run, opt, todo>> /\ step # "idle" /\ step' = "ended"
    BY <1>11 DEF WriteFails, End, Target, Reports
  <2>2. PassesInOrder'
    BY <1>1, <2>1, SamePass DEF AfterSummary
  <2> QED
    BY <1>1, <2>1, <2>2
<1>12. CASE Killed
  <2>1. UNCHANGED <<run, opt, todo>> /\ step # "idle" /\ step' = "ended"
    BY <1>12 DEF Killed, End
  <2>2. PassesInOrder'
    BY <1>1, <2>1, SamePass DEF AfterSummary
  <2> QED
    BY <1>1, <2>1, <2>2
<1> QED
  BY <1>2, <1>3, <1>4, <1>5, <1>6, <1>7, <1>8, <1>9, <1>10, <1>11, <1>12 DEF Next, Main

-----------------------------------------------------------------------------
(* The first pass is the one of the screen language, the last one leaves   *)
(* no language out, and a pass that is over is behind the next one.        *)
LEMMA FirstPass ==
  ASSUME TypeOK, PassesInOrder, step # "idle"
  PROVE  IF Done = {} THEN pass = screen ELSE screen \in Done
<1>1. /\ Len(opt.langs) \in Nat \ {0} /\ Len(todo) \in Nat \ {0}
      /\ Len(todo) <= Len(opt.langs)
      /\ pass = opt.langs[Len(opt.langs) - Len(todo) + 1]
  BY PassIsNew
<1>2. CASE Len(opt.langs) = Len(todo)
  <2>1. Done = {}
    BY <1>1, <1>2 DEF Done
  <2>2. Len(opt.langs) - Len(todo) + 1 = 1
    BY <1>1, <1>2
  <2> QED
    BY <1>1, <2>1, <2>2 DEF screen
<1>3. CASE Len(opt.langs) # Len(todo)
  <2>1. 1 \in 1 .. Len(opt.langs) - Len(todo)
    BY <1>1, <1>3
  <2>2. screen \in Done
    BY <2>1 DEF Done, screen
  <2> QED
    BY <2>2
<1> QED
  BY <1>2, <1>3

LEMMA LastPass ==
  ASSUME TypeOK, PassesInOrder, step # "idle", Len(todo) = 1
  PROVE  LangsOfRun = Done \cup {pass}
<1>1. /\ opt.langs \in LangLists
      /\ Len(opt.langs) \in Nat \ {0}
      /\ pass = opt.langs[Len(opt.langs) - Len(todo) + 1]
  BY PassIsNew
<1>2. DOMAIN opt.langs = 1 .. Len(opt.langs)
  BY <1>1, LangListsAreInjective
<1>3. Len(opt.langs) - Len(todo) + 1 = Len(opt.langs)
  BY <1>1
<1>4. 1 .. Len(opt.langs) = (1 .. Len(opt.langs) - Len(todo)) \cup {Len(opt.langs)}
  BY <1>1
<1> QED
  BY <1>1, <1>2, <1>3, <1>4 DEF LangsOfRun, Done

LEMMA NextPass ==
  ASSUME TypeOK, PassesInOrder, step # "idle", opt' = opt, Len(todo') = Len(todo) - 1
  PROVE  Done' = Done \cup {pass}
<1>1. /\ Len(opt.langs) \in Nat \ {0} /\ Len(todo) \in Nat \ {0}
      /\ Len(todo) <= Len(opt.langs)
      /\ pass = opt.langs[Len(opt.langs) - Len(todo) + 1]
  BY PassIsNew
<1> DEFINE n == Len(opt.langs) - Len(todo)
<1>2. n \in Nat /\ pass = opt.langs[n + 1]
  BY <1>1
<1>3. Len(opt.langs) - Len(todo') = n + 1
  BY <1>1
<1>4. Done = {opt.langs[i] : i \in 1 .. n}
  BY DEF Done
<1> HIDE DEF n
<1>5. Done' = {opt.langs[i] : i \in 1 .. n + 1}
  BY <1>3 DEF Done
<1>6. 1 .. n + 1 = (1 .. n) \cup {n + 1}
  BY <1>2
<1> QED
  BY <1>2, <1>4, <1>5, <1>6

(* What a step of the same pass, or of the same run, does not change. *)
LEMMA SameRun ==
  ASSUME UNCHANGED <<run, opt>>
  PROVE  /\ screen' = screen /\ LangsOfRun' = LangsOfRun /\ Kinds' = Kinds
         /\ \A l : Suffix(l)' = Suffix(l)
         /\ todo' = todo => pass' = pass /\ Done' = Done
BY DEF screen, LangsOfRun, Kinds, Suffix, multi, pass, Done

(* No file was written by a run that is still to come. *)
LEMMA FilesHaveRuns ==
  ASSUME IInv
  PROVE  /\ \A f \in Files : disk[f] \in Texts \cup {NoFile}
         /\ \A f \in Files : disk[f] # NoFile =>
                disk[f].run \in Nat /\ disk[f].run <= run
         /\ run \in Nat
<1>1. /\ \A f \in Files : disk[f] \in Texts \cup {NoFile}
      /\ \A f \in Files : disk[f] # NoFile => disk[f].run <= run
      /\ run \in 0 .. MaxRuns
  BY DEF IInv, TypeOK, FilesOfThisRun
<1>2. \A t \in Texts : t.run \in Nat
  BY ValuesAssumption DEF Texts
<1>3. run \in Nat
  BY <1>1, ValuesAssumption
<1> QED
  BY <1>1, <1>2, <1>3

(* A new run has no files yet. *)
LEMMA NewRunHasNone ==
  ASSUME IInv, run' = run + 1, disk' = disk
  PROVE  \A f \in Files : ~Mine(f)' /\ (disk'[f] # NoFile => disk'[f].run <= run')
<1> SUFFICES ASSUME NEW f \in Files, disk[f] # NoFile
             PROVE  disk[f].run # run + 1 /\ disk[f].run <= run + 1
  BY DEF Mine
<1>1. disk[f].run \in Nat /\ disk[f].run <= run /\ run \in Nat
  BY FilesHaveRuns
<1> QED
  BY <1>1

(* The step wrote nothing and no kind of file that the run is asked for    *)
(* has had its turn.                                                       *)
LEMMA NothingWritten ==
  ASSUME IInv, Running, UNCHANGED <<run, opt, disk>>,
         \A k \in Kinds : Has(k)' = Has(k),
         Has("summary") \subseteq Has("summary")'
  PROVE  FilesOfThisRun'
<1>1. \A f \in Files : Mine(f)' <=> Mine(f)
  BY DEF Mine
<1>2. Kinds' = Kinds /\ \A l : Suffix(l)' = Suffix(l)
  BY SameRun
<1>3. \A f \in Files : disk'[f] # NoFile => disk'[f].run <= run'
  BY DEF IInv, FilesOfThisRun
<1>4. \A f \in Files : Mine(f)' => disk'[f].whole /\ disk'[f].lang \in Has("summary")'
  BY <1>1 DEF IInv, FilesOfThisRun
<1>5. ASSUME NEW k \in Reports \cup {"summary"}, NEW s \in Langs \cup {"none"}
      PROVE  Mine(<<k, s>>)' <=> k \in Kinds' /\ \E l \in Has(k)' : s = Suffix(l)'
  <2>1. <<k, s>> \in Files
    BY DEF Files
  <2>2. Mine(<<k, s>>) <=> k \in Kinds /\ \E l \in Has(k) : s = Suffix(l)
    BY DEF IInv, FilesOfThisRun
  <2> QED
    BY <1>1, <1>2, <2>1, <2>2
<1> QED
  BY <1>3, <1>4, <1>5 DEF FilesOfThisRun

(* The step wrote a file, complete and in the language of the pass, and it *)
(* is the one of its kind whose turn it was, or a map.                     *)
LEMMA OneWritten ==
  ASSUME IInv, Running, UNCHANGED <<run, opt>>,
         NEW f \in Files, NEW t \in Texts,
         t.run = run, t.whole, t.lang \in Has("summary")',
         disk' = [disk EXCEPT ![f] = t],
         Has("summary") \subseteq Has("summary")',
         \A k \in Reports \cup {"summary"}, s \in Langs \cup {"none"} :
            (k \in Kinds /\ \E l \in Has(k)' : s = Suffix(l)) <=>
                \/ k \in Kinds /\ \E l \in Has(k) : s = Suffix(l)
                \/ <<k, s>> = f
  PROVE  FilesOfThisRun'
<1>1. Kinds' = Kinds /\ \A l : Suffix(l)' = Suffix(l)
  BY SameRun
<1>2. /\ \A g \in Files : disk'[g] = IF g = f THEN t ELSE disk[g]
      /\ t # NoFile /\ run \in Nat
  BY OneFile, ValuesAssumption, FilesHaveRuns DEF IInv
<1>3. \A g \in Files : Mine(g)' <=> g = f \/ Mine(g)
  BY <1>2 DEF Mine
<1>4. \A g \in Files : disk'[g] # NoFile => disk'[g].run <= run'
  BY <1>2 DEF IInv, FilesOfThisRun
<1>5. \A g \in Files : Mine(g)' => disk'[g].whole /\ disk'[g].lang \in Has("summary")'
  BY <1>2, <1>3 DEF IInv, FilesOfThisRun
<1>6. ASSUME NEW k \in Reports \cup {"summary"}, NEW s \in Langs \cup {"none"}
      PROVE  Mine(<<k, s>>)' <=> k \in Kinds' /\ \E l \in Has(k)' : s = Suffix(l)'
  <2>1. <<k, s>> \in Files
    BY DEF Files
  <2>2. Mine(<<k, s>>) <=> k \in Kinds /\ \E l \in Has(k) : s = Suffix(l)
    BY DEF IInv, FilesOfThisRun
  <2> QED
    BY <1>1, <1>3, <2>1, <2>2
<1> QED
  BY <1>4, <1>5, <1>6 DEF FilesOfThisRun

(* The turn of a kind ends with its file. *)
LEMMA KindWritten ==
  ASSUME IInv, Running, UNCHANGED <<run, opt>>, NEW k \in Kinds,
         NEW m \in Aliases \cup {NoAliases}, lang = pass,
         disk' = [disk EXCEPT ![<<k, Suffix(pass)>>] = Text(m)],
         Has(k)' = Has(k) \cup {pass},
         \A j \in Kinds \ {k} : Has(j)' = Has(j),
         Has("summary") \cup {pass} \subseteq Has("summary")'
  PROVE  FilesOfThisRun'
<1>1. k \in Reports \cup {"summary"}
  <2>1. opt \in Arguments
    BY AtAStep
  <2>2. opt.reports \subseteq Reports
    BY <2>1, ValuesAssumption DEF Arguments
  <2> QED
    BY <2>2 DEF Kinds
<1> DEFINE f == <<k, Suffix(pass)>>
<1>2. f \in Files
  BY <1>1, AtAStep
<1>3. /\ Text(m) \in Texts /\ Text(m).run = run /\ Text(m).whole
      /\ Text(m).lang \in Has("summary")'
  BY TextOfRun
<1>4. ASSUME NEW j \in Reports \cup {"summary"}, NEW s \in Langs \cup {"none"}
      PROVE  (j \in Kinds /\ \E l \in Has(j)' : s = Suffix(l)) <=>
                \/ j \in Kinds /\ \E l \in Has(j) : s = Suffix(l)
                \/ <<j, s>> = f
  <2>1. CASE j = k
    BY <2>1
  <2>2. CASE j # k
    BY <2>2
  <2> QED
    BY <2>1, <2>2
<1> HIDE DEF f
<1>5. disk' = [disk EXCEPT ![f] = Text(m)]
  BY DEF f
<1> QED
  BY <1>2, <1>3, <1>4, <1>5, OneWritten

(* A step that ends the run only has to keep the runs of the files. *)
LEMMA EndedFiles ==
  ASSUME IInv, step' = "ended", run' = run,
         \A f \in Files : disk'[f] # NoFile => disk'[f] = disk[f] \/ disk'[f].run = run
  PROVE  FilesOfThisRun'
<1>1. \A f \in Files : disk'[f] # NoFile => disk'[f].run <= run'
  BY FilesHaveRuns
<1> QED
  BY <1>1 DEF FilesOfThisRun, Running

LEMMA FilesAreKept ==
  ASSUME IInv, Next
  PROVE  FilesOfThisRun'
<1>1. TypeOK /\ PassesInOrder
  BY DEF IInv
<1>2. Kinds \subseteq {"summary", "html", "md", "json"} \/ step = "idle"
  <2>1. CASE step # "idle"
    <3>1. opt \in Arguments
      BY <1>1, <2>1 DEF PassesInOrder
    <3> QED
      BY <3>1, ValuesAssumption DEF Arguments, Kinds, Reports
  <2> QED
    BY <2>1
<1>3. ASSUME NEW o \in Arguments, Start(o)
      PROVE  FilesOfThisRun'
  <2>1. run' = run + 1 /\ disk' = disk /\ step' = "check" /\ opt' = o /\ todo' = o.langs
    BY <1>3 DEF Start
  <2>2. \A f \in Files : ~Mine(f)' /\ (disk'[f] # NoFile => disk'[f].run <= run')
    BY <2>1, NewRunHasNone
  <2>3. \A k : Has(k)' = {}
    <3>1. o.langs \in LangLists
      BY DEF Arguments
    <3>2. Len(o.langs) \in Nat
      BY <3>1, LangListsAreInjective
    <3>3. 1 .. Len(o.langs) - Len(o.langs) = {}
      BY <3>2
    <3>4. Done' = {}
      BY <2>1, <3>3 DEF Done
    <3> QED
      BY <2>1, <3>4 DEF Has, Behind, AfterSummary
  <2>4. \A k \in Reports \cup {"summary"}, s \in Langs \cup {"none"} : <<k, s>> \in Files
    BY DEF Files
  <2> QED
    BY <2>2, <2>3, <2>4 DEF FilesOfThisRun
<1>4. CASE CheckArguments
  <2>1. /\ UNCHANGED <<run, opt, todo, disk>> /\ step = "check"
        /\ step' \in {"analyze", "ended"}
    BY <1>4 DEF CheckArguments, End
  <2>2. CASE step' = "ended"
    BY <2>1, <2>2, EndedFiles
  <2>3. CASE step' = "analyze"
    <3>1. \A k : Has(k)' = Has(k)
      BY <2>1, <2>3, SameRun DEF Has, Behind, AfterSummary
    <3> QED
      BY <2>1, <3>1, NothingWritten DEF Running
  <2> QED
    BY <2>1, <2>2, <2>3
<1>5. CASE Analyze
  <2>1. /\ UNCHANGED <<run, opt, todo, disk>> /\ step = "analyze"
        /\ step' = "ended" \/ step' = IF opt.summary # "off" THEN "summary" ELSE "html"
    BY <1>5 DEF Analyze, End
  <2>2. CASE step' = "ended"
    BY <2>1, <2>2, EndedFiles
  <2>3. CASE step' = IF opt.summary # "off" THEN "summary" ELSE "html"
    <3>1. \A k : k # "summary" => Has(k)' = Has(k)
      BY <2>1, <2>3, SameRun DEF Has, Behind, AfterSummary
    <3>2. Has("summary") \subseteq Has("summary")'
      BY <2>1, SameRun DEF Has, Behind, AfterSummary
    <3>3. "summary" \in Kinds => Has("summary")' = Has("summary")
      <4>1. "summary" \in Kinds => opt.summary # "off"
        BY <2>1, <1>1, ValuesAssumption DEF Kinds, PassesInOrder, Arguments, Reports
      <4> QED
        BY <2>1, <2>3, <4>1, SameRun DEF Has, Behind, AfterSummary
    <3> QED
      BY <2>1, <3>1, <3>2, <3>3, NothingWritten DEF Running
  <2> QED
    BY <2>1, <2>2, <2>3
<1>6. CASE SummaryLeaks
  <2>1. run' = run /\ disk' = disk /\ step' = "ended"
    BY <1>6 DEF SummaryLeaks, End
  <2> QED
    BY <2>1, EndedFiles
<1>7. ASSUME NEW m \in Aliases \cup {NoAliases}, WriteSummary(m)
      PROVE  FilesOfThisRun'
  <2>1. /\ UNCHANGED <<run, opt, todo, lang>> /\ step = "summary" /\ Running
        /\ step' \in {"map", "html"}
        /\ disk' = [disk EXCEPT ![<<"summary", Suffix(pass)>>] = Text(m)]
    BY <1>7 DEF WriteSummary, Running
  <2>2. lang = pass /\ "summary" \in Kinds
    BY <1>1, <2>1 DEF PassesInOrder, Kinds
  <2>3. \A j : j # "summary" => Has(j)' = Has(j)
    BY <2>1, SameRun DEF Has, Behind, AfterSummary
  <2>4. Has("summary")' = Has("summary") \cup {pass}
    BY <2>1, SameRun DEF Has, Behind, AfterSummary
  <2> QED
    BY <2>1, <2>2, <2>3, <2>4, KindWritten
<1>8. CASE WriteMap
  <2>1. /\ UNCHANGED <<run, opt, todo, lang>> /\ step = "map" /\ Running
        /\ step' = "html"
        /\ disk' = disk \/ disk' = [disk EXCEPT ![MapFile] = Text(aliases)]
    BY <1>8 DEF WriteMap, Running
  <2>2. lang = pass
    BY <1>1, <2>1 DEF PassesInOrder, AfterSummary
  <2>3. \A j : Has(j)' = Has(j)
    BY <2>1, SameRun DEF Has, Behind, AfterSummary
  <2>4. CASE disk' = disk
    BY <2>1, <2>3, <2>4, NothingWritten
  <2>5. CASE disk' = [disk EXCEPT ![MapFile] = Text(aliases)]
    <3>1. aliases \in Aliases \cup {NoAliases}
      BY <1>1 DEF TypeOK
    <3>2. /\ Text(aliases) \in Texts /\ Text(aliases).run = run
          /\ Text(aliases).whole /\ Text(aliases).lang = pass
      BY <2>1, <2>2, <3>1, TextOfRun
    <3>3. pass \in Has("summary")'
      BY <2>1, <2>3 DEF Has, Behind, AfterSummary
    <3>4. MapFile \in Files
      BY <2>1, AtAStep
    <3>5. \A k \in Reports \cup {"summary"} : \A s : <<k, s>> # MapFile
      BY DEF Reports, MapFile
    <3> HIDE DEF MapFile
    <3> QED
      BY <2>1, <2>3, <2>5, <3>2, <3>3, <3>4, <3>5, OneWritten
  <2> QED
    BY <2>1, <2>4, <2>5
<1>9. ASSUME NEW k \in Reports, WriteReport(k)
      PROVE  FilesOfThisRun'
  <2>1. /\ UNCHANGED <<run, opt, todo, lang>> /\ step = k /\ Running
        /\ step' = IF k = "html" THEN "md" ELSE IF k = "md" THEN "json" ELSE "next"
        /\ IF k \in opt.reports
           THEN disk' = [disk EXCEPT ![<<k, Suffix(pass)>>] = Text(NoAliases)]
           ELSE disk' = disk
    BY <1>9 DEF WriteReport, Running, Reports, After
  <2>2. lang = pass /\ (k \in Kinds <=> k \in opt.reports)
    BY <1>1, <2>1 DEF PassesInOrder, Kinds, Reports, AfterSummary
  <2>3. \A j \in {"summary", "html", "md", "json"} \ {k} : Has(j)' = Has(j)
    BY <2>1, SameRun DEF Has, Behind, AfterSummary, Reports
  <2>4. Has(k)' = Has(k) \cup {pass}
    BY <2>1, SameRun DEF Has, Behind, AfterSummary, Reports
  <2>5. Has("summary") = Has("summary")' /\ pass \in Has("summary")
    BY <2>1, <2>3 DEF Has, Behind, AfterSummary, Reports
  <2>6. Kinds \subseteq {"summary", "html", "md", "json"}
    BY <1>2, <2>1 DEF Running
  <2>7. CASE k \in opt.reports
    BY <2>1, <2>2, <2>3, <2>4, <2>5, <2>6, <2>7, KindWritten
  <2>8. CASE k \notin opt.reports
    <3>1. \A j \in Kinds : Has(j)' = Has(j)
      BY <2>2, <2>3, <2>6, <2>8
    <3> QED
      BY <2>1, <2>5, <2>8, <3>1, NothingWritten
  <2> QED
    BY <2>7, <2>8
<1>10. CASE NextLanguage
  <2>1. /\ UNCHANGED <<run, opt, disk>> /\ step = "next" /\ step' = "analyze" /\ Running
        /\ todo' = Tail(todo) /\ Len(todo) > 1
    BY <1>10 DEF NextLanguage, Running
  <2>2. todo \in Seq(Langs)
    BY <1>1 DEF TypeOK
  <2>3. Len(todo') = Len(todo) - 1
    BY <2>1, <2>2
  <2>4. Done' = Done \cup {pass}
    BY <1>1, <2>1, <2>3, NextPass
  <2>5. \A k \in {"summary", "html", "md", "json"} : Has(k)' = Has(k)
    BY <2>1, <2>4 DEF Has, Behind, AfterSummary
  <2>6. \A k \in Kinds : Has(k)' = Has(k)
    BY <1>2, <2>1, <2>5
  <2> QED
    BY <2>1, <2>5, <2>6, NothingWritten
<1>11. ASSUME NEW worst, Finish(worst)
       PROVE  FilesOfThisRun'
  <2>1. run' = run /\ disk' = disk /\ step' = "ended"
    BY <1>11 DEF Finish, End
  <2> QED
    BY <2>1, EndedFiles
<1>12. ASSUME NEW f \in Files, WriteFails(f)
       PROVE  FilesOfThisRun'
  <2>1. /\ run' = run /\ step' = "ended"
        /\ disk' = [disk EXCEPT ![f] = [Text(NoAliases) EXCEPT !.whole = FALSE]]
    BY <1>12 DEF WriteFails, End
  <2>2. [Text(NoAliases) EXCEPT !.whole = FALSE].run = run
    BY DEF Text
  <2>3. \A g \in Files : disk'[g] = disk[g] \/ disk'[g].run = run
    BY <1>1, <2>1, <2>2 DEF TypeOK
  <2> QED
    BY <2>1, <2>3, EndedFiles
<1>13. CASE Killed
  <2>1. run' = run /\ disk' = disk /\ step' = "ended"
    BY <1>13 DEF Killed, End
  <2> QED
    BY <2>1, EndedFiles
<1> QED
  BY <1>3, <1>4, <1>5, <1>6, <1>7, <1>8, <1>9, <1>10, <1>11, <1>12, <1>13 DEF Next, Main

-----------------------------------------------------------------------------
LEMMA RefusalsAreKept ==
  ASSUME IInv, Next
  PROVE  RefusedAtOnce'
<1>1. /\ opened # "good" => \A f \in Files : ~Mine(f)
      /\ Running => opened # "refused"
      /\ step = "check" => opened = "unopened"
      /\ step \in AfterSummary \cup {"summary"} => opened = "good"
      /\ opened \in {"unopened", "good", "refused"}
  BY DEF IInv, RefusedAtOnce, TypeOK
<1>2. ASSUME NEW o \in Arguments, Start(o)
      PROVE  RefusedAtOnce'
  <2>1. run' = run + 1 /\ disk' = disk /\ step' = "check" /\ opened' = "unopened"
    BY <1>2 DEF Start
  <2>2. \A f \in Files : ~Mine(f)'
    BY <2>1, NewRunHasNone
  <2> QED
    BY <2>1, <2>2 DEF RefusedAtOnce, Running, AfterSummary
<1>3. CASE CheckArguments
  <2>1. /\ UNCHANGED <<run, disk, opened>> /\ step = "check"
        /\ step' \in {"analyze", "ended"}
    BY <1>3 DEF CheckArguments, End
  <2>2. \A f \in Files : Mine(f)' <=> Mine(f)
    BY <2>1 DEF Mine
  <2> QED
    BY <1>1, <2>1, <2>2 DEF RefusedAtOnce, Running, AfterSummary
<1>4. CASE Analyze
  <2>1. /\ UNCHANGED <<run, disk>> /\ step = "analyze" /\ Running
        /\ IF opened = "unopened" THEN opened' \in {"good", "refused"} ELSE opened' = opened
        /\ IF opened' = "refused" THEN step' = "ended" ELSE step' \in {"summary", "html"}
    BY <1>4 DEF Analyze, End, Running
  <2>2. \A f \in Files : Mine(f)' <=> Mine(f)
    BY <2>1 DEF Mine
  <2> QED
    BY <1>1, <2>1, <2>2 DEF RefusedAtOnce, Running, AfterSummary
<1>5. CASE SummaryLeaks
  <2>1. UNCHANGED <<run, disk, opened>> /\ step = "summary" /\ step' = "ended"
    BY <1>5 DEF SummaryLeaks, End
  <2> QED
    BY <1>1, <2>1 DEF RefusedAtOnce, Running, AfterSummary
<1>6. ASSUME NEW m \in Aliases \cup {NoAliases}, WriteSummary(m)
      PROVE  RefusedAtOnce'
  <2>1. opened' = opened /\ step = "summary" /\ step' \in {"map", "html"}
    BY <1>6 DEF WriteSummary
  <2> QED
    BY <1>1, <2>1 DEF RefusedAtOnce, Running, AfterSummary
<1>7. CASE WriteMap
  <2>1. opened' = opened /\ step = "map" /\ step' = "html"
    BY <1>7 DEF WriteMap
  <2> QED
    BY <1>1, <2>1 DEF RefusedAtOnce, Running, AfterSummary
<1>8. ASSUME NEW k \in Reports, WriteReport(k)
      PROVE  RefusedAtOnce'
  <2>1. /\ opened' = opened /\ step \in {"html", "md", "json"}
        /\ step' \in {"md", "json", "next"}
    BY <1>8 DEF WriteReport, After, Reports
  <2> QED
    BY <1>1, <2>1 DEF RefusedAtOnce, Running, AfterSummary
<1>9. CASE NextLanguage
  <2>1. opened' = opened /\ step = "next" /\ step' = "analyze"
    BY <1>9 DEF NextLanguage
  <2> QED
    BY <1>1, <2>1 DEF RefusedAtOnce, Running, AfterSummary
<1>10. ASSUME NEW worst, Finish(worst)
       PROVE  RefusedAtOnce'
  <2>1. opened' = opened /\ step = "next" /\ step' = "ended"
    BY <1>10 DEF Finish, End
  <2> QED
    BY <1>1, <2>1 DEF RefusedAtOnce, Running, AfterSummary
<1>11. ASSUME NEW f \in Files, WriteFails(f)
       PROVE  RefusedAtOnce'
  <2>1. opened' = opened /\ step' = "ended" /\ step \in AfterSummary \cup {"summary"}
    BY <1>11 DEF WriteFails, End, Target, Reports, AfterSummary
  <2> QED
    BY <1>1, <2>1 DEF RefusedAtOnce, Running, AfterSummary
<1>12. CASE Killed
  <2>1. UNCHANGED <<run, disk, opened>> /\ step' = "ended"
    BY <1>12 DEF Killed, End
  <2>2. \A f \in Files : Mine(f)' <=> Mine(f)
    BY <2>1 DEF Mine
  <2> QED
    BY <1>1, <2>1, <2>2 DEF RefusedAtOnce, Running, AfterSummary
<1> QED
  BY <1>2, <1>3, <1>4, <1>5, <1>6, <1>7, <1>8, <1>9, <1>10, <1>11, <1>12 DEF Next, Main

(* A step that writes neither a summary nor a map, and finishes none,      *)
(* leaves the maps as they belong to the summaries.                        *)
LEMMA SameMaps ==
  ASSUME IInv, Running, UNCHANGED <<run, opt, firstMap>>, Mapped' = Mapped,
         step' # "map",
         \A f \in Files : f[1] \in {"summary", "map"} => disk'[f] = disk[f]
  PROVE  MapsOfThisRun'
<1>1. \A s \in Langs \cup {"none"} :
         disk'[<<"map", s>>] = disk[<<"map", s>>] /\
         disk'[<<"summary", s>>] = disk[<<"summary", s>>]
  BY DEF Files
<1>2. /\ screen' = screen /\ \A l : Suffix(l)' = Suffix(l) /\ Own(l)' = Own(l)
  BY SameRun DEF Own
<1>3. \A l \in Langs : Mine(Own(l))' <=> Mine(Own(l))
  BY <1>1 DEF Mine, Own
<1>4. Mine(<<"map", "none">>)' <=> Mine(<<"map", "none">>)
  BY <1>1 DEF Mine
<1>5. \A l \in Mapped : l \in Langs /\ Suffix(l) \in Langs \cup {"none"}
  <2>1. /\ opt.langs \in LangLists /\ pass \in LangsOfRun
        /\ Done \subseteq LangsOfRun /\ LangsOfRun \subseteq Langs
    BY PassIsNew DEF IInv, Running
  <2>2. Mapped \subseteq LangsOfRun
    BY <2>1 DEF Mapped
  <2> QED
    BY <2>1, <2>2, SuffixesDiffer
<1>6. CASE opt.summary = "masked"
  <2>1. /\ firstMap = NoAliases <=> Mapped = {}
        /\ \A l \in Langs : Mine(Own(l)) => l \in Mapped \ {screen}
        /\ firstMap # NoAliases =>
              Mine(<<"map", "none">>) /\ disk[<<"map", "none">>].aliases = firstMap
    BY <1>6 DEF IInv, MapsOfThisRun
  <2>2. ASSUME NEW l \in Mapped
        PROVE  disk'[<<"summary", Suffix(l)'>>].aliases =
                  IF Mine(Own(l))' THEN disk'[Own(l)].aliases ELSE firstMap'
    <3>1. disk[<<"summary", Suffix(l)>>].aliases =
                  IF Mine(Own(l)) THEN disk[Own(l)].aliases ELSE firstMap
      BY <1>6 DEF IInv, MapsOfThisRun
    <3>2. disk'[Own(l)] = disk[Own(l)]
      BY <1>1, <1>5 DEF Own
    <3> QED
      BY <1>1, <1>2, <1>3, <1>5, <3>1, <3>2
  <2>3. firstMap' # NoAliases =>
              Mine(<<"map", "none">>)' /\ disk'[<<"map", "none">>].aliases = firstMap'
    BY <1>1, <1>4, <2>1
  <2> QED
    BY <1>2, <1>3, <2>1, <2>2, <2>3 DEF MapsOfThisRun
<1> QED
  BY <1>6 DEF MapsOfThisRun

(* A masked summary is written, its map is due. *)
LEMMA SummaryKeepsMaps ==
  ASSUME IInv, NEW m \in Aliases \cup {NoAliases}, WriteSummary(m), opt.summary = "masked"
  PROVE  MapsOfThisRun'
<1>1. /\ UNCHANGED <<run, opt, todo, firstMap>> /\ aliases' = m /\ m \in Aliases
      /\ step = "summary" /\ step' = "map" /\ Running /\ lang' = lang
      /\ disk' = [disk EXCEPT ![<<"summary", Suffix(pass)>>] = Text(m)]
  BY DEF WriteSummary, Running
<1> DEFINE f == <<"summary", Suffix(pass)>>
<1>2. f \in Files
  BY <1>1, AtAStep
<1>3. Text(m) \in Texts /\ Text(m).aliases = m
  BY <1>1, TextOfRun
<1>4. \A g \in Files : disk'[g] = IF g = f THEN Text(m) ELSE disk[g]
  BY <1>1, <1>2, <1>3, OneFile DEF IInv
<1>5. /\ opt.langs \in LangLists /\ pass \in LangsOfRun /\ pass \notin Done
      /\ Done \subseteq LangsOfRun /\ LangsOfRun \subseteq Langs
  BY <1>1, PassIsNew DEF IInv, Running
<1>6. /\ screen' = screen /\ \A l : Suffix(l)' = Suffix(l)
      /\ Mapped' = Mapped /\ Mapped = Done /\ pass' = pass
  BY <1>1, SameRun DEF Mapped, AfterMap, AfterSummary
<1>7. \A s \in Langs \cup {"none"} :
         <<"map", s>> \in Files /\ disk'[<<"map", s>>] = disk[<<"map", s>>]
  BY <1>4 DEF Files
<1>8. \A s \in Langs \cup {"none"} : Mine(<<"map", s>>)' <=> Mine(<<"map", s>>)
  BY <1>1, <1>7 DEF Mine
<1>9. /\ firstMap = NoAliases <=> Mapped = {}
      /\ \A l \in Langs : Mine(Own(l)) => l \in Mapped \ {screen}
      /\ firstMap # NoAliases =>
            Mine(<<"map", "none">>) /\ disk[<<"map", "none">>].aliases = firstMap
      /\ \A l \in Mapped : disk[<<"summary", Suffix(l)>>].aliases =
            IF Mine(Own(l)) THEN disk[Own(l)].aliases ELSE firstMap
  BY <1>1 DEF IInv, MapsOfThisRun
<1>10. \A l \in Langs : Mine(Own(l))' => l \in Mapped' \ {screen'}
  BY <1>6, <1>8, <1>9 DEF Own
<1>11. firstMap' # NoAliases =>
            Mine(<<"map", "none">>)' /\ disk'[<<"map", "none">>].aliases = firstMap'
  BY <1>1, <1>7, <1>8, <1>9
<1>12. ASSUME NEW l \in Mapped'
       PROVE  disk'[<<"summary", Suffix(l)'>>].aliases =
                 IF Mine(Own(l))' THEN disk'[Own(l)].aliases ELSE firstMap'
  <2>1. l \in LangsOfRun /\ l # pass /\ l \in Langs
    BY <1>5, <1>6
  <2>2. Suffix(l) \in Langs \cup {"none"} /\ Suffix(l) # Suffix(pass)
    BY <1>5, <2>1, SuffixesDiffer
  <2>3. <<"summary", Suffix(l)>> \in Files /\ <<"summary", Suffix(l)>> # f
    BY <2>2 DEF Files
  <2>4. disk'[<<"summary", Suffix(l)>>] = disk[<<"summary", Suffix(l)>>]
    BY <1>4, <2>3
  <2>5. disk'[Own(l)] = disk[Own(l)] /\ (Mine(Own(l))' <=> Mine(Own(l)))
    BY <1>7, <1>8, <2>1 DEF Own
  <2>6. disk[<<"summary", Suffix(l)>>].aliases =
                 IF Mine(Own(l)) THEN disk[Own(l)].aliases ELSE firstMap
    BY <1>6, <1>9
  <2> QED
    BY <1>1, <1>6, <2>4, <2>5, <2>6
<1>13. disk'[<<"summary", Suffix(pass)'>>].aliases = aliases'
  BY <1>1, <1>2, <1>3, <1>4, <1>6
<1>14. firstMap' = NoAliases <=> Mapped' = {}
  BY <1>1, <1>6, <1>9
<1> QED
  BY <1>1, <1>10, <1>11, <1>12, <1>13, <1>14 DEF MapsOfThisRun

(* The map is written, or it is the first one once more. *)
LEMMA MapKeepsMaps ==
  ASSUME IInv, WriteMap
  PROVE  MapsOfThisRun'
<1>1. /\ UNCHANGED <<run, opt, todo, aliases, lang>>
      /\ step = "map" /\ step' = "html" /\ Running
      /\ IF firstMap = aliases THEN disk' = disk
                               ELSE disk' = [disk EXCEPT ![MapFile] = Text(aliases)]
      /\ firstMap' = IF firstMap = NoAliases THEN aliases ELSE firstMap
  BY DEF WriteMap, Running
<1>2. /\ opt.langs \in LangLists /\ pass \in LangsOfRun /\ pass \notin Done
      /\ Done \subseteq LangsOfRun /\ LangsOfRun \subseteq Langs
      /\ IF Done = {} THEN pass = screen ELSE screen \in Done
  BY <1>1, PassIsNew, FirstPass DEF IInv, Running
<1>3. opt.summary = "masked"
  BY <1>1 DEF IInv, PassesInOrder
<1>4. /\ firstMap = NoAliases <=> Mapped = {}
      /\ \A l \in Langs : Mine(Own(l)) => l \in Mapped \ {screen}
      /\ firstMap # NoAliases =>
            Mine(<<"map", "none">>) /\ disk[<<"map", "none">>].aliases = firstMap
      /\ \A l \in Mapped : disk[<<"summary", Suffix(l)>>].aliases =
            IF Mine(Own(l)) THEN disk[Own(l)].aliases ELSE firstMap
      /\ aliases \in Aliases /\ disk[<<"summary", Suffix(pass)>>].aliases = aliases
  BY <1>1, <1>3 DEF IInv, MapsOfThisRun
<1>5. /\ Mapped = Done /\ Mapped' = Done \cup {pass} /\ screen' = screen
      /\ pass' = pass /\ \A l : Suffix(l)' = Suffix(l)
  BY <1>1, SameRun DEF Mapped, AfterMap, AfterSummary
<1>6. aliases # NoAliases /\ firstMap' # NoAliases
  BY <1>1, <1>4, ValuesAssumption
<1>7. /\ Text(aliases) \in Texts /\ Text(aliases).aliases = aliases
      /\ Text(aliases).run = run /\ Text(aliases) # NoFile
  BY <1>1, <1>4, TextOfRun
<1>8. MapFile \in Files
  BY <1>1, AtAStep
<1>9. disk' # disk =>
         \A g \in Files : disk'[g] = IF g = MapFile THEN Text(aliases) ELSE disk[g]
  BY <1>1, <1>7, <1>8, OneFile DEF IInv
<1>10. \A s \in Langs \cup {"none"} :
          <<"map", s>> \in Files /\ <<"summary", s>> \in Files
          /\ disk'[<<"summary", s>>] = disk[<<"summary", s>>]
  BY <1>9 DEF Files, MapFile
<1>11. \A l \in Done \cup {pass} : l \in Langs /\ Suffix(l) \in Langs \cup {"none"}
  BY <1>2, SuffixesDiffer
<1>15. ASSUME NEW l \in Mapped'
       PROVE  disk'[<<"summary", Suffix(l)'>>] = disk[<<"summary", Suffix(l)>>]
  <2>1. Suffix(l)' = Suffix(l) /\ Suffix(l) \in Langs \cup {"none"}
    BY <1>5, <1>11
  <2> QED
    BY <1>10, <2>1
<1>12. CASE firstMap = aliases
  <2>1. disk' = disk /\ firstMap' = firstMap
    BY <1>1, <1>12
  <2>2. \A f : Mine(f)' <=> Mine(f)
    BY <1>1, <2>1 DEF Mine
  <2>3. ~Mine(Own(pass))
    BY <1>2, <1>4, <1>5
  <2>4. \A l \in Langs : Mine(Own(l))' => l \in Mapped' \ {screen'}
    BY <1>4, <1>5, <2>2 DEF Own
  <2>5. \A l \in Mapped' : disk'[<<"summary", Suffix(l)'>>].aliases =
            IF Mine(Own(l))' THEN disk'[Own(l)].aliases ELSE firstMap'
    BY <1>4, <1>5, <1>12, <2>1, <2>2, <2>3
  <2>6. Mine(<<"map", "none">>)' /\ disk'[<<"map", "none">>].aliases = firstMap'
    BY <1>4, <1>6, <2>1, <2>2
  <2> QED
    BY <1>1, <1>5, <1>6, <2>4, <2>5, <2>6 DEF MapsOfThisRun, Own
<1>13. CASE firstMap # aliases /\ firstMap = NoAliases
  <2>1. MapFile = <<"map", "none">> /\ firstMap' = aliases
    BY <1>1, <1>13 DEF MapFile
  <2>2. \A g \in Files : disk'[g] = IF g = MapFile THEN Text(aliases) ELSE disk[g]
    BY <1>1, <1>7, <1>8, <1>13, OneFile DEF IInv
  <2>3. Done = {} /\ pass = screen /\ Mapped = {}
    BY <1>2, <1>4, <1>5, <1>13
  <2>4. \A l \in Langs : Own(l) \in Files /\ Own(l) # MapFile
    BY <2>1, LangsAssumption DEF Own, Files
  <2>5. \A l \in Langs : ~Mine(Own(l))'
    <3>1. \A l \in Langs : disk'[Own(l)] = disk[Own(l)] /\ ~Mine(Own(l))
      BY <1>4, <2>2, <2>3, <2>4
    <3> QED
      BY <1>1, <3>1 DEF Mine, Own
  <2>6. Mine(<<"map", "none">>)' /\ disk'[<<"map", "none">>].aliases = firstMap'
    BY <1>1, <1>7, <1>8, <2>1, <2>2 DEF Mine
  <2>7. \A l \in Mapped' : l = pass /\ l \in Langs
    BY <1>5, <1>11, <2>3
  <2>8. \A l \in Mapped' : disk'[<<"summary", Suffix(l)'>>].aliases =
            IF Mine(Own(l))' THEN disk'[Own(l)].aliases ELSE firstMap'
    BY <1>4, <1>15, <2>1, <2>5, <2>7
  <2> QED
    BY <1>1, <1>5, <1>6, <2>5, <2>6, <2>8 DEF MapsOfThisRun, Own
<1>14. CASE firstMap # aliases /\ firstMap # NoAliases
  <2>1. MapFile = Own(pass) /\ firstMap' = firstMap
    BY <1>1, <1>14 DEF MapFile, Own
  <2>2. \A g \in Files : disk'[g] = IF g = MapFile THEN Text(aliases) ELSE disk[g]
    BY <1>1, <1>7, <1>8, <1>14, OneFile DEF IInv
  <2>3. screen \in Done /\ pass # screen
    BY <1>2, <1>4, <1>5, <1>14
  <2>4. \A l \in Langs : Own(l) \in Files /\ (Own(l) = MapFile <=> l = pass)
    BY <2>1 DEF Own, Files
  <2>5. \A l \in Langs \ {pass} :
           disk'[Own(l)] = disk[Own(l)] /\ (Mine(Own(l))' <=> Mine(Own(l)))
    <3>1. \A l \in Langs \ {pass} : disk'[Own(l)] = disk[Own(l)]
      BY <2>2, <2>4
    <3> QED
      BY <1>1, <3>1 DEF Mine, Own
  <2>7. \A l \in Langs : Mine(Own(l))' => l \in Mapped' \ {screen'}
    BY <1>4, <1>5, <2>3, <2>5
  <2>8. Mine(<<"map", "none">>)' /\ disk'[<<"map", "none">>].aliases = firstMap'
    <3>1. <<"map", "none">> # MapFile
      BY <1>11, <2>1, LangsAssumption DEF Own
    <3>2. disk'[<<"map", "none">>] = disk[<<"map", "none">>]
      BY <1>10, <2>2, <3>1
    <3> QED
      BY <1>1, <1>4, <1>14, <2>1, <3>2 DEF Mine
  <2>9. ASSUME NEW l \in Mapped'
        PROVE  disk'[<<"summary", Suffix(l)'>>].aliases =
                  IF Mine(Own(l))' THEN disk'[Own(l)].aliases ELSE firstMap'
    <3>1. disk'[<<"summary", Suffix(l)'>>] = disk[<<"summary", Suffix(l)>>]
      BY <1>15
    <3>2. CASE l = pass
      <4>1. Mine(Own(l))' /\ disk'[Own(l)].aliases = aliases
        <5>1. disk'[Own(l)] = Text(aliases)
          BY <1>8, <2>1, <2>2, <3>2
        <5> QED
          BY <1>1, <1>7, <5>1 DEF Mine, Own
      <4>2. disk[<<"summary", Suffix(l)>>].aliases = aliases
        BY <1>4, <3>2
      <4> QED
        BY <3>1, <4>1, <4>2
    <3>3. CASE l # pass
      <4>1. l \in Mapped /\ l \in Langs \ {pass}
        BY <1>5, <1>11, <3>3
      <4> QED
        BY <1>4, <2>1, <2>5, <3>1, <4>1
    <3> QED
      BY <3>2, <3>3
  <2> QED
    BY <1>1, <1>5, <1>6, <2>7, <2>8, <2>9 DEF MapsOfThisRun, Own
<1> QED
  BY <1>12, <1>13, <1>14

LEMMA MapsAreKept ==
  ASSUME IInv, Next
  PROVE  MapsOfThisRun'
<1>1. ASSUME step' = "ended"
      PROVE  MapsOfThisRun'
  BY <1>1 DEF MapsOfThisRun, Running
<1>2. ASSUME opt'.summary # "masked"
      PROVE  MapsOfThisRun'
  BY <1>2 DEF MapsOfThisRun
<1>3. ASSUME NEW o \in Arguments, Start(o)
      PROVE  MapsOfThisRun'
  <2>1. /\ run' = run + 1 /\ disk' = disk /\ step' = "check" /\ opt' = o
        /\ todo' = o.langs /\ firstMap' = NoAliases
    BY <1>3 DEF Start
  <2>2. \A f \in Files : ~Mine(f)'
    BY <2>1, NewRunHasNone
  <2>3. Mapped' = {}
    <3>1. o.langs \in LangLists
      BY DEF Arguments
    <3>2. Len(o.langs) \in Nat
      BY <3>1, LangListsAreInjective
    <3>3. 1 .. Len(o.langs) - Len(o.langs) = {}
      BY <3>2
    <3>4. Done' = {}
      BY <2>1, <3>3 DEF Done
    <3> QED
      BY <2>1, <3>4 DEF Mapped, AfterMap, AfterSummary
  <2>4. \A l \in Langs : Own(l) \in Files
    BY DEF Files, Own
  <2>5. \A l \in Langs : ~Mine(Own(l))'
    BY <2>2, <2>4 DEF Own
  <2> QED
    BY <2>1, <2>3, <2>5 DEF MapsOfThisRun
<1>4. CASE CheckArguments
  <2>1. /\ UNCHANGED <<run, opt, todo, firstMap, disk>> /\ step = "check" /\ Running
        /\ step' \in {"analyze", "ended"}
    BY <1>4 DEF CheckArguments, End, Running
  <2>2. Mapped' = Mapped
    BY <2>1, SameRun DEF Mapped, AfterMap, AfterSummary
  <2> QED
    BY <2>1, <2>2, SameMaps
<1>5. CASE Analyze
  <2>1. /\ UNCHANGED <<run, opt, todo, firstMap, disk>> /\ step = "analyze" /\ Running
        /\ \/ step' = "ended" \/ step' = "summary"
           \/ step' = "html" /\ opt.summary = "off"
    BY <1>5 DEF Analyze, End, Running
  <2>2. CASE step' = "summary"
    <3>1. Mapped' = Mapped
      BY <2>1, <2>2, SameRun DEF Mapped, AfterMap, AfterSummary
    <3> QED
      BY <2>1, <2>2, <3>1, SameMaps
  <2> QED
    BY <1>1, <1>2, <2>1, <2>2
<1>6. CASE SummaryLeaks
  BY <1>1, <1>6 DEF SummaryLeaks, End
<1>7. ASSUME NEW m \in Aliases \cup {NoAliases}, WriteSummary(m)
      PROVE  MapsOfThisRun'
  BY <1>2, <1>7, SummaryKeepsMaps DEF WriteSummary
<1>8. CASE WriteMap
  BY <1>8, MapKeepsMaps
<1>9. ASSUME NEW k \in Reports, WriteReport(k)
      PROVE  MapsOfThisRun'
  <2>1. /\ UNCHANGED <<run, opt, todo, firstMap>> /\ Running
        /\ step \in {"html", "md", "json"} /\ step' \in {"md", "json", "next"}
        /\ \/ disk' = disk
           \/ disk' = [disk EXCEPT ![<<k, Suffix(pass)>>] = Text(NoAliases)]
    BY <1>9 DEF WriteReport, After, Reports, Running
  <2>2. Mapped' = Mapped
    BY <2>1, SameRun DEF Mapped, AfterMap, AfterSummary
  <2>3. \A f \in Files : f[1] \in {"summary", "map"} => disk'[f] = disk[f]
    <3>1. \A f \in Files : f[1] \in {"summary", "map"} => f # <<k, Suffix(pass)>>
      BY DEF Reports
    <3>2. disk \in [Files -> Texts \cup {NoFile}]
      BY DEF IInv, TypeOK
    <3> QED
      BY <2>1, <3>1, <3>2
  <2> QED
    BY <2>1, <2>2, <2>3, SameMaps
<1>10. CASE NextLanguage
  <2>1. /\ UNCHANGED <<run, opt, firstMap, disk>> /\ step = "next" /\ step' = "analyze"
        /\ Running /\ todo' = Tail(todo) /\ Len(todo) > 1
    BY <1>10 DEF NextLanguage, Running
  <2>2. todo \in Seq(Langs)
    BY DEF IInv, TypeOK
  <2>3. Len(todo') = Len(todo) - 1
    BY <2>1, <2>2
  <2>4. Done' = Done \cup {pass}
    BY <2>1, <2>3, NextPass DEF IInv
  <2>5. Mapped' = Mapped
    BY <2>1, <2>4 DEF Mapped, AfterMap, AfterSummary
  <2> QED
    BY <2>1, <2>5, SameMaps
<1>11. ASSUME NEW worst, Finish(worst)
       PROVE  MapsOfThisRun'
  BY <1>1, <1>11 DEF Finish, End
<1>12. ASSUME NEW f \in Files, WriteFails(f)
       PROVE  MapsOfThisRun'
  BY <1>1, <1>12 DEF WriteFails, End
<1>13. CASE Killed
  BY <1>1, <1>13 DEF Killed, End
<1> QED
  BY <1>3, <1>4, <1>5, <1>6, <1>7, <1>8, <1>9, <1>10, <1>11, <1>12, <1>13 DEF Next, Main

-----------------------------------------------------------------------------
(* A text that is written, whole or not, is in the language of its name.   *)
LEMMA TextSpeaks ==
  ASSUME IInv, step \in AfterSummary \cup {"summary"}, UNCHANGED <<run, opt>>,
         NEW f \in Files, NEW t \in Texts, t.lang = lang,
         f[1] # "map" => f[2] = Suffix(pass),
         disk' = [disk EXCEPT ![f] = t]
  PROVE  FilesSpeakTheirLanguage'
<1>1. lang = pass /\ Running
  BY DEF IInv, PassesInOrder, AfterSummary, Running
<1>2. (IF Suffix(pass) = "none" THEN screen ELSE Suffix(pass)) = pass
  BY <1>1, AtAStep, SuffixesDiffer
<1>3. \A g \in Files : disk'[g] = IF g = f THEN t ELSE disk[g]
  BY OneFile DEF IInv
<1>4. screen' = screen
  BY SameRun
<1>5. ASSUME NEW g \in Files, g[1] # "map", Mine(g)'
      PROVE  disk'[g].lang = IF g[2] = "none" THEN screen' ELSE g[2]
  <2>1. CASE g = f
    BY <1>1, <1>2, <1>3, <1>4, <1>5, <2>1
  <2>2. CASE g # f
    <3>1. Mine(g) /\ disk'[g] = disk[g]
      BY <1>3, <1>5, <2>2 DEF Mine
    <3>2. disk[g].lang = IF g[2] = "none" THEN screen ELSE g[2]
      BY <1>5, <3>1 DEF IInv, FilesBelongTogether, FilesSpeakTheirLanguage
    <3> QED
      BY <1>4, <3>1, <3>2
  <2> QED
    BY <2>1, <2>2
<1> QED
  BY <1>5 DEF FilesSpeakTheirLanguage

LEMMA SameTexts ==
  ASSUME IInv, UNCHANGED <<run, opt, disk>>
  PROVE  FilesSpeakTheirLanguage'
<1>1. \A f \in Files : Mine(f)' <=> Mine(f)
  BY DEF Mine
<1> QED
  BY <1>1, SameRun DEF IInv, FilesBelongTogether, FilesSpeakTheirLanguage

LEMMA LanguagesAreKept ==
  ASSUME IInv, Next
  PROVE  FilesSpeakTheirLanguage'
<1>1. TypeOK
  BY DEF IInv
<1>2. ASSUME NEW o \in Arguments, Start(o)
      PROVE  FilesSpeakTheirLanguage'
  <2>1. \A f \in Files : ~Mine(f)'
    BY <1>2, NewRunHasNone DEF Start
  <2> QED
    BY <2>1 DEF FilesSpeakTheirLanguage
<1>3. ASSUME NEW m \in Aliases \cup {NoAliases}, WriteSummary(m)
      PROVE  FilesSpeakTheirLanguage'
  <2>1. /\ UNCHANGED <<run, opt>> /\ step = "summary" /\ Running
        /\ disk' = [disk EXCEPT ![<<"summary", Suffix(pass)>>] = Text(m)]
    BY <1>3 DEF WriteSummary, Running
  <2>2. /\ Text(m) \in Texts /\ Text(m).lang = lang
        /\ <<"summary", Suffix(pass)>> \in Files
    BY <2>1, TextOfRun, AtAStep
  <2> QED
    BY <2>1, <2>2, TextSpeaks
<1>4. CASE WriteMap
  <2>1. /\ UNCHANGED <<run, opt>> /\ step = "map" /\ Running
        /\ disk' = disk \/ disk' = [disk EXCEPT ![MapFile] = Text(aliases)]
    BY <1>4 DEF WriteMap, Running
  <2>2. aliases \in Aliases \cup {NoAliases}
    BY <1>1 DEF TypeOK
  <2>3. /\ Text(aliases) \in Texts /\ Text(aliases).lang = lang
        /\ MapFile \in Files /\ MapFile[1] = "map"
    BY <2>1, <2>2, TextOfRun, AtAStep DEF MapFile
  <2> QED
    BY <2>1, <2>3, TextSpeaks, SameTexts DEF AfterSummary
<1>5. ASSUME NEW k \in Reports, WriteReport(k)
      PROVE  FilesSpeakTheirLanguage'
  <2>1. /\ UNCHANGED <<run, opt>> /\ step \in AfterSummary /\ Running
        /\ \/ disk' = disk
           \/ disk' = [disk EXCEPT ![<<k, Suffix(pass)>>] = Text(NoAliases)]
    BY <1>5 DEF WriteReport, Running, Reports, AfterSummary
  <2>2. /\ Text(NoAliases) \in Texts /\ Text(NoAliases).lang = lang
        /\ <<k, Suffix(pass)>> \in Files
    BY <2>1, TextOfRun, AtAStep
  <2> QED
    BY <2>1, <2>2, TextSpeaks, SameTexts
<1>6. ASSUME NEW f \in Files, WriteFails(f)
      PROVE  FilesSpeakTheirLanguage'
  <2>1. /\ UNCHANGED <<run, opt>> /\ step \in AfterSummary \cup {"summary"} /\ Running
        /\ f[1] # "map" => f[2] = Suffix(pass)
        /\ disk' = [disk EXCEPT ![f] = [Text(NoAliases) EXCEPT !.whole = FALSE]]
    <3>1. /\ UNCHANGED <<run, opt>> /\ f \in Target
          /\ disk' = [disk EXCEPT ![f] = [Text(NoAliases) EXCEPT !.whole = FALSE]]
      BY <1>6 DEF WriteFails
    <3>2. step \in AfterSummary \cup {"summary"}
      BY <3>1 DEF Target, Reports, AfterSummary
    <3>3. f \in {<<"summary", Suffix(pass)>>, MapFile, <<step, Suffix(pass)>>}
      BY <3>1 DEF Target
    <3>4. f[1] # "map" => f[2] = Suffix(pass)
      BY <3>3 DEF MapFile
    <3> QED
      BY <3>1, <3>2, <3>4 DEF Running, AfterSummary
  <2>2. Text(NoAliases) \in Texts /\ Text(NoAliases).lang = lang
    BY <2>1, TextOfRun
  <2>3. [Text(NoAliases) EXCEPT !.whole = FALSE] \in Texts
    BY <2>2 DEF Texts
  <2>4. [Text(NoAliases) EXCEPT !.whole = FALSE].lang = lang
    BY DEF Text
  <2> QED
    BY <2>1, <2>3, <2>4, TextSpeaks
<1>7. CASE UNCHANGED <<run, opt, disk>>
  BY <1>7, SameTexts
<1>8. CASE CheckArguments \/ Analyze \/ SummaryLeaks \/ NextLanguage \/ Killed
  BY <1>7, <1>8 DEF CheckArguments, Analyze, SummaryLeaks, NextLanguage, Killed
<1>9. ASSUME NEW worst, Finish(worst)
      PROVE  FilesSpeakTheirLanguage'
  BY <1>7, <1>9 DEF Finish
<1> QED
  BY <1>2, <1>3, <1>4, <1>5, <1>6, <1>8, <1>9 DEF Next, Main

(* Only the last step of a run says what was written, in the language of   *)
(* the screen.                                                             *)
LEMMA ListIsKept ==
  ASSUME IInv, Next
  PROVE  ListInScreenLanguage'
<1>1. \A m \in said : m[1] = "written" => m[2] = screen
  BY DEF IInv, FilesBelongTogether, ListInScreenLanguage
<1>2. ASSUME NEW o, Start(o)
      PROVE  ListInScreenLanguage'
  BY <1>2 DEF Start, ListInScreenLanguage
<1>3. ASSUME NEW worst, Finish(worst)
      PROVE  ListInScreenLanguage'
  <2>1. screen' = screen /\ said' = said \cup {<<"written", screen>>}
    BY <1>3, SameRun DEF Finish
  <2> QED
    BY <1>1, <2>1 DEF ListInScreenLanguage
<1>4. CASE screen' = screen /\ \A m \in said' : m \in said \/ m[1] = "error"
  BY <1>1, <1>4 DEF ListInScreenLanguage
<1>5. CASE CheckArguments \/ Analyze \/ SummaryLeaks
  <2>1. UNCHANGED <<run, opt>> /\ \A m \in said' : m \in said \/ m[1] = "error"
    <3>1. PICK l : said' = said \/ said' = said \cup {<<"error", l>>}
      BY <1>5 DEF CheckArguments, Analyze, SummaryLeaks
    <3>2. \A m \in said' : m \in said \/ m[1] = "error"
      BY <3>1
    <3> QED
      BY <1>5, <3>2 DEF CheckArguments, Analyze, SummaryLeaks
  <2> QED
    BY <1>4, <2>1, SameRun
<1>6. ASSUME UNCHANGED <<run, opt, said>>
      PROVE  ListInScreenLanguage'
  BY <1>4, <1>6, SameRun
<1>7. CASE NextLanguage \/ Killed \/ WriteMap
  BY <1>6, <1>7 DEF NextLanguage, Killed, WriteMap
<1>8. ASSUME NEW x, WriteSummary(x) \/ WriteReport(x) \/ WriteFails(x)
      PROVE  ListInScreenLanguage'
  BY <1>6, <1>8 DEF WriteSummary, WriteReport, WriteFails
<1> QED
  BY <1>2, <1>3, <1>5, <1>7, <1>8 DEF Next, Main

(* When the last pass is over, the summaries can be read with their maps.  *)
LEMMA ReadableAtTheEnd ==
  ASSUME IInv, NEW worst, Finish(worst)
  PROVE  SummariesCanBeRead'
<1>1. /\ UNCHANGED <<run, opt, todo, disk>> /\ step = "next" /\ Len(todo) = 1 /\ Running
  BY DEF Finish, Running
<1>2. LangsOfRun = Done \cup {pass} /\ Mapped = LangsOfRun /\ Has("summary") = LangsOfRun
  BY <1>1, LastPass DEF IInv, Running, Mapped, AfterMap, AfterSummary, Has, Behind
<1>3. /\ opt.langs \in LangLists /\ LangsOfRun \subseteq Langs
      /\ screen \in LangsOfRun /\ Len(opt.langs) \in Nat \ {0}
  BY <1>1, PassIsNew DEF IInv, Running
<1> SUFFICES ASSUME opt.summary = "masked", NEW l \in LangsOfRun, ~(multi /\ StaleMap(l))
             PROVE  /\ disk[<<"summary", Suffix(l)>>] # NoFile /\ MapFor(l) # NoFile
                    /\ disk[<<"summary", Suffix(l)>>].aliases = MapFor(l).aliases
  <2>1. /\ LangsOfRun' = LangsOfRun /\ (multi' <=> multi) /\ \A l : Suffix(l)' = Suffix(l)
        /\ \A l : StaleMap(l)' = StaleMap(l) /\ MapFor(l)' = MapFor(l)
    BY <1>1, SameRun DEF multi, StaleMap, MapFor
  <2> QED
    BY <1>1, <2>1 DEF SummariesCanBeRead
<1>4. Suffix(l) \in Langs \cup {"none"} /\ l \in Langs /\ (~multi => l = screen)
  <2>1. Suffix(l) \in Langs \cup {"none"} /\ Suffix(l) = IF multi THEN l ELSE "none"
    BY <1>3, SuffixesDiffer
  <2>2. ~multi => Suffix(l) = "none" /\ Suffix(screen) = "none"
    BY DEF Suffix
  <2> QED
    BY <1>3, <2>1, <2>2, SuffixesDiffer
<1>5. Mine(<<"summary", Suffix(l)>>)
  <2>1. "summary" \in Kinds
    BY DEF Kinds
  <2> QED
    BY <1>1, <1>2, <1>4, <2>1 DEF IInv, FilesOfThisRun
<1>6. /\ firstMap = NoAliases <=> Mapped = {}
      /\ \A m \in Langs : Mine(Own(m)) => m \in Mapped \ {screen}
      /\ firstMap # NoAliases =>
            Mine(<<"map", "none">>) /\ disk[<<"map", "none">>].aliases = firstMap
      /\ disk[<<"summary", Suffix(l)>>].aliases =
            IF Mine(Own(l)) THEN disk[Own(l)].aliases ELSE firstMap
  BY <1>1, <1>2 DEF IInv, MapsOfThisRun
<1>7. Mine(<<"map", "none">>) /\ disk[<<"map", "none">>].aliases = firstMap
  BY <1>2, <1>6
<1>8. CASE multi /\ disk[Own(l)] # NoFile
  <2>1. Mine(Own(l))
    BY <1>8 DEF StaleMap, Mine, Own
  <2> QED
    BY <1>5, <1>6, <1>8, <2>1 DEF MapFor, Mine, Own
<1>9. CASE ~(multi /\ disk[Own(l)] # NoFile)
  <2>1. ~Mine(Own(l))
    BY <1>4, <1>6, <1>9 DEF Mine
  <2>2. MapFor(l) = disk[<<"map", "none">>]
    BY <1>9 DEF MapFor, Own
  <2> QED
    BY <1>5, <1>6, <1>7, <2>1, <2>2 DEF Mine
<1> QED
  BY <1>8, <1>9

LEMMA ReadableIsKept ==
  ASSUME IInv, Next
  PROVE  SummariesCanBeRead'
<1>1. CASE ~(step' = "ended" /\ cause' \in {"success", "fail on"})
  BY <1>1 DEF SummariesCanBeRead, Ran
<1>2. ASSUME NEW worst, Finish(worst)
      PROVE  SummariesCanBeRead'
  BY <1>2, ReadableAtTheEnd
<1>3. ASSUME NEW o, Start(o)
      PROVE  SummariesCanBeRead'
  BY <1>1, <1>3 DEF Start
<1>4. CASE CheckArguments \/ Analyze \/ SummaryLeaks \/ Killed
  <2>1. step' = "ended" => cause' \in {"input error", "exception", "leak", "killed"}
    BY <1>4 DEF CheckArguments, Analyze, SummaryLeaks, Killed, End
  <2> QED
    BY <1>1, <2>1
<1>5. CASE NextLanguage \/ WriteMap
  BY <1>1, <1>5 DEF NextLanguage, WriteMap
<1>6. ASSUME NEW m, WriteSummary(m)
      PROVE  SummariesCanBeRead'
  <2>1. step' \in {"map", "html"}
    BY <1>6 DEF WriteSummary
  <2> QED
    BY <1>1, <2>1
<1>7. ASSUME NEW k \in Reports, WriteReport(k)
      PROVE  SummariesCanBeRead'
  <2>1. step' \in {"md", "json", "next"}
    BY <1>7 DEF WriteReport, After, Reports
  <2> QED
    BY <1>1, <2>1
<1>8. ASSUME NEW f, WriteFails(f)
      PROVE  SummariesCanBeRead'
  BY <1>1, <1>8 DEF WriteFails, End
<1> QED
  BY <1>2, <1>3, <1>4, <1>5, <1>6, <1>7, <1>8 DEF Next, Main

-----------------------------------------------------------------------------
LEMMA InputErrorsAreKept ==
  ASSUME IInv, Next
  PROVE  InputErrorsWriteNothing'
<1>1. CASE ~(step' = "ended" /\ cause' = "input error")
  BY <1>1 DEF InputErrorsWriteNothing, Ran
<1>2. CASE UNCHANGED <<run, disk>> /\ \A f \in Files : ~Mine(f)
  <2>1. \A f \in Files : ~Mine(f)'
    BY <1>2 DEF Mine
  <2> QED
    BY <2>1 DEF InputErrorsWriteNothing
<1>3. CASE CheckArguments
  BY <1>2, <1>3 DEF CheckArguments, IInv, RefusedAtOnce
<1>4. CASE Analyze
  <2>1. /\ UNCHANGED <<run, disk>>
        /\ IF opened = "unopened" THEN opened' \in {"good", "refused"} ELSE opened' = opened
        /\ opened' # "refused" => step' \in {"summary", "html"}
    BY <1>4 DEF Analyze
  <2>2. CASE opened' # "refused"
    BY <1>1, <2>1, <2>2
  <2>3. CASE opened' = "refused"
    <3>1. opened # "good"
      BY <2>1, <2>3
    <3> QED
      BY <1>2, <2>1, <3>1 DEF IInv, RefusedAtOnce
  <2> QED
    BY <2>2, <2>3
<1>5. CASE SummaryLeaks \/ Killed \/ NextLanguage \/ WriteMap
  BY <1>1, <1>5 DEF SummaryLeaks, Killed, NextLanguage, WriteMap, End
<1>6. ASSUME NEW worst, Finish(worst)
      PROVE  InputErrorsWriteNothing'
  BY <1>1, <1>6 DEF Finish, End
<1>7. ASSUME NEW o, Start(o)
      PROVE  InputErrorsWriteNothing'
  BY <1>1, <1>7 DEF Start
<1>8. ASSUME NEW m, WriteSummary(m)
      PROVE  InputErrorsWriteNothing'
  <2>1. step' \in {"map", "html"}
    BY <1>8 DEF WriteSummary
  <2> QED
    BY <1>1, <2>1
<1>9. ASSUME NEW k \in Reports, WriteReport(k)
      PROVE  InputErrorsWriteNothing'
  <2>1. step' \in {"md", "json", "next"}
    BY <1>9 DEF WriteReport, After, Reports
  <2> QED
    BY <1>1, <2>1
<1>10. ASSUME NEW f, WriteFails(f)
       PROVE  InputErrorsWriteNothing'
  BY <1>1, <1>10 DEF WriteFails, End
<1> QED
  BY <1>3, <1>4, <1>5, <1>6, <1>7, <1>8, <1>9, <1>10 DEF Next, Main

LEMMA LeaksAreKept ==
  ASSUME IInv, Next
  PROVE  LeaksKeepTheirText'
<1>1. CASE ~(step' = "ended" /\ cause' = "leak")
  BY <1>1 DEF LeaksKeepTheirText, Ran
<1>2. CASE SummaryLeaks
  <2>1. /\ UNCHANGED <<run, opt, todo, lang, disk>> /\ step = "summary" /\ Running
    BY <1>2 DEF SummaryLeaks, Running
  <2>2. lang = pass /\ Has("summary") = Done
    BY <2>1 DEF IInv, PassesInOrder, Has, Behind, AfterSummary
  <2>3. pass \notin Done /\ IF Done = {} THEN pass = screen ELSE screen \in Done
    BY <2>1, PassIsNew, FirstPass DEF IInv, Running
  <2>4. \A f \in Files : Mine(f) => disk[f].lang \in Done
    BY <2>1, <2>2 DEF IInv, FilesOfThisRun
  <2>5. \A f \in Files : Mine(f)' <=> Mine(f)
    BY <2>1 DEF Mine
  <2>6. screen' = screen
    BY <2>1, SameRun
  <2> QED
    BY <2>1, <2>2, <2>3, <2>4, <2>5, <2>6 DEF LeaksKeepTheirText
<1>3. CASE CheckArguments \/ Analyze \/ Killed \/ NextLanguage \/ WriteMap
  <2>1. step' = "ended" => cause' \in {"input error", "exception", "killed"}
    BY <1>3 DEF CheckArguments, Analyze, Killed, NextLanguage, WriteMap, End
  <2> QED
    BY <1>1, <2>1
<1>4. ASSUME NEW worst, Finish(worst)
      PROVE  LeaksKeepTheirText'
  BY <1>1, <1>4 DEF Finish, End
<1>5. ASSUME NEW o, Start(o)
      PROVE  LeaksKeepTheirText'
  BY <1>1, <1>5 DEF Start
<1>6. ASSUME NEW m, WriteSummary(m)
      PROVE  LeaksKeepTheirText'
  <2>1. step' \in {"map", "html"}
    BY <1>6 DEF WriteSummary
  <2> QED
    BY <1>1, <2>1
<1>7. ASSUME NEW k \in Reports, WriteReport(k)
      PROVE  LeaksKeepTheirText'
  <2>1. step' \in {"md", "json", "next"}
    BY <1>7 DEF WriteReport, After, Reports
  <2> QED
    BY <1>1, <2>1
<1>8. ASSUME NEW f, WriteFails(f)
      PROVE  LeaksKeepTheirText'
  BY <1>1, <1>8 DEF WriteFails, End
<1> QED
  BY <1>2, <1>3, <1>4, <1>5, <1>6, <1>7, <1>8 DEF Next, Main

-----------------------------------------------------------------------------
LEMMA InitKeeps == Init => IInv
<1> SUFFICES ASSUME Init
             PROVE  IInv
  OBVIOUS
<1>1. /\ run = 0 /\ step = "idle" /\ todo = <<>> /\ lang \in Langs
      /\ opened = "unopened" /\ aliases = NoAliases /\ firstMap = NoAliases
      /\ disk = [f \in Files |-> NoFile] /\ code = 0 /\ cause = "none" /\ said = {}
  BY DEF Init
<1>2. TypeOK
  BY <1>1, ValuesAssumption DEF TypeOK, Steps
<1>3. \A f \in Files : ~Mine(f) /\ disk[f] = NoFile
  BY <1>1 DEF Mine
<1>4. PassesInOrder /\ MapsOfThisRun
  BY <1>1 DEF PassesInOrder, MapsOfThisRun, Running
<1>5. FilesOfThisRun
  BY <1>1, <1>3 DEF FilesOfThisRun, Running
<1>6. RefusedAtOnce
  BY <1>1, <1>3 DEF RefusedAtOnce, Running, AfterSummary
<1>7. FilesBelongTogether
  BY <1>1, <1>3 DEF FilesBelongTogether, FilesSpeakTheirLanguage,
                    ListInScreenLanguage, SummariesCanBeRead, Ran
<1>8. RefusalsLeaveNothing
  BY <1>1 DEF RefusalsLeaveNothing, InputErrorsWriteNothing, LeaksKeepTheirText, Ran
<1> QED
  BY <1>1, <1>2, <1>4, <1>5, <1>6, <1>7, <1>8 DEF IInv

LEMMA StutterKeeps ==
  ASSUME IInv, UNCHANGED vars
  PROVE  IInv'
<1>1. /\ UNCHANGED <<run, step, opt, todo, lang, opened>>
      /\ UNCHANGED <<aliases, firstMap, disk, code, cause, said>>
  BY DEF vars
<1>2. TypeOK' /\ PassesInOrder' /\ (step = "idle" <=> run = 0)'
  <2>1. TypeOK'
    BY <1>1 DEF IInv, TypeOK
  <2>2. PassesInOrder'
    BY <1>1 DEF IInv, PassesInOrder, pass
  <2> QED
    BY <1>1, <2>1, <2>2 DEF IInv
<1>3. /\ \A f : Mine(f)' <=> Mine(f)
      /\ screen' = screen /\ LangsOfRun' = LangsOfRun /\ Kinds' = Kinds
      /\ \A l : Suffix(l)' = Suffix(l)
      /\ pass' = pass /\ Done' = Done /\ (multi' <=> multi)
  BY <1>1, SameRun DEF Mine, multi
<1>4. (\A k : Has(k)' = Has(k)) /\ Mapped' = Mapped /\ (Running' <=> Running)
  BY <1>1, <1>3 DEF Has, Behind, Mapped, Running
<1>5. FilesOfThisRun' /\ RefusedAtOnce'
  BY <1>1, <1>3, <1>4 DEF IInv, FilesOfThisRun, RefusedAtOnce
<1>6. MapsOfThisRun'
  <2>1. CASE Running /\ opt.summary = "masked"
    <3>1. disk'[<<"summary", Suffix(pass)'>>] = disk[<<"summary", Suffix(pass)>>]
      BY <1>1, <1>3
    <3> QED
      BY <1>1, <1>3, <1>4, <2>1, <3>1 DEF IInv, MapsOfThisRun, Own
  <2>2. CASE ~(Running /\ opt.summary = "masked")
    BY <1>1, <1>4, <2>2 DEF MapsOfThisRun
  <2> QED
    BY <2>1, <2>2
<1>7. FilesSpeakTheirLanguage' /\ ListInScreenLanguage'
  BY <1>1, <1>3 DEF IInv, FilesBelongTogether, FilesSpeakTheirLanguage, ListInScreenLanguage
<1>8. SummariesCanBeRead'
  BY <1>1, <1>3 DEF IInv, FilesBelongTogether, SummariesCanBeRead, Ran, StaleMap, MapFor
<1>9. RefusalsLeaveNothing'
  BY <1>1, <1>3 DEF IInv, RefusalsLeaveNothing, InputErrorsWriteNothing,
                    LeaksKeepTheirText, Ran
<1> QED
  BY <1>2, <1>5, <1>6, <1>7, <1>8, <1>9 DEF IInv, FilesBelongTogether

(* The invariant: a run is at a pass and a step of it, and its files are   *)
(* the ones that the passes and the steps behind these have written.       *)
THEOREM RunInvariant == Spec => []IInv
<1>1. IInv /\ [Next]_vars => IInv'
  <2>1. CASE UNCHANGED vars
    BY <2>1, StutterKeeps
  <2>2. ASSUME IInv, Next
        PROVE  IInv'
    <3>1. FilesBelongTogether'
      BY <2>2, LanguagesAreKept, ListIsKept, ReadableIsKept DEF FilesBelongTogether
    <3>2. RefusalsLeaveNothing'
      BY <2>2, InputErrorsAreKept, LeaksAreKept DEF RefusalsLeaveNothing
    <3> QED
      BY <2>2, <3>1, <3>2, TypesAreKept, PassesAreKept, FilesAreKept, RefusalsAreKept,
         MapsAreKept DEF IInv
  <2> QED
    BY <2>1, <2>2
<1> QED
  BY <1>1, InitKeeps, PTL DEF Spec

(* Every variable of main() keeps its type: a run is at a step of the      *)
(* program with arguments a user can give, and a file holds the text of a  *)
(* run that was started.                                                   *)
THEOREM RunTypes == Spec => []TypeOK
<1>1. IInv => TypeOK
  BY DEF IInv
<1> QED
  BY <1>1, RunInvariant, PTL

(* The files of a run belong together: their texts are in the languages of *)
(* their names, the list of them is in the language of the screen, and the *)
(* masked summaries of a run that succeeded can be read with their maps.   *)
THEOREM FilesBelongTogetherThm == Spec => []FilesBelongTogether
<1>1. IInv => FilesBelongTogether
  BY DEF IInv
<1> QED
  BY <1>1, RunInvariant, PTL

(* A run that refuses its input has written nothing, and one that stops at *)
(* a leak has written no text of the language that leaks.                  *)
THEOREM RefusalsLeaveNothingThm == Spec => []RefusalsLeaveNothing
<1>1. IInv => RefusalsLeaveNothing
  BY DEF IInv
<1> QED
  BY <1>1, RunInvariant, PTL

-----------------------------------------------------------------------------
(* The files that the promise calls delivered. *)
Delivered == {f \in Files : f[1] # "map" /\ Mine(f) /\ disk[f].whole}

LEMMA OutcomeIs ==
  /\ Running => Outcome = "open" /\ Verdict = "open"
  /\ Running' => Outcome' = "open" /\ Verdict' = "open"
  /\ ~Running => Outcome # "open"
BY DEF Outcome, Verdict, Running, Ran

(* What the exit status says when the run ends. *)
LEMMA VerdictIs ==
  ASSUME step' = "ended", opt' = opt
  PROVE  /\ Outcome' = IF cause' \in {"success", "fail on"} THEN "delivered" ELSE "failed"
         /\ Verdict' = IF code' = 0 THEN "delivered"
                       ELSE IF code' = 1 /\ Graded THEN "either" ELSE "failed"
BY DEF Outcome, Verdict, Ran, Graded

(* The files a run is asked for are settled by its arguments. *)
LEMMA SameWanted ==
  ASSUME opt' = opt
  PROVE  Wanted' = Wanted /\ Graded' = Graded
BY DEF Wanted, Kinds, LangsOfRun, Suffix, multi, Graded

LEMMA KindsAreKinds ==
  ASSUME IInv, Running
  PROVE  Kinds \subseteq Reports \cup {"summary"}
<1>1. opt \in Arguments
  BY AtAStep
<1> QED
  BY <1>1, ValuesAssumption DEF Arguments, Kinds

(* A file whose turn has not come is not there yet. *)
LEMMA TurnIsFree ==
  ASSUME IInv, Running, NEW k \in Kinds, ~Behind(k)
  PROVE  /\ <<k, Suffix(pass)>> \in Wanted \ Delivered
         /\ <<k, Suffix(pass)>> \in Files /\ k # "map"
         /\ ~Mine(<<k, Suffix(pass)>>)
<1>1. k \in Reports \cup {"summary"} /\ k # "map"
  BY KindsAreKinds DEF Reports
<1>2. /\ opt.langs \in LangLists /\ pass \in LangsOfRun /\ pass \notin Done
      /\ Done \subseteq LangsOfRun
  BY PassIsNew DEF IInv, Running
<1>3. <<k, Suffix(pass)>> \in Files /\ Suffix(pass) \in Langs \cup {"none"}
  BY <1>1, <1>2, AtAStep, SuffixesDiffer
<1>4. ~\E l \in Has(k) : Suffix(pass) = Suffix(l)
  BY <1>2, SuffixesDiffer DEF Has
<1>5. ~Mine(<<k, Suffix(pass)>>)
  BY <1>1, <1>3, <1>4 DEF IInv, FilesOfThisRun
<1>6. <<k, Suffix(pass)>> \in Wanted
  BY <1>2 DEF Wanted
<1> QED
  BY <1>1, <1>3, <1>5, <1>6 DEF Delivered

(* When the last pass is over, everything is there. *)
LEMMA AllDelivered ==
  ASSUME IInv, step = "next", Len(todo) = 1
  PROVE  Delivered = Wanted
<1>1. Running
  BY DEF Running
<1>2. Kinds \subseteq Reports \cup {"summary"}
  BY <1>1, KindsAreKinds
<1>3. LangsOfRun = Done \cup {pass}
  BY LastPass DEF IInv
<1>4. \A k \in Reports \cup {"summary"} : Has(k) = LangsOfRun
  BY <1>3 DEF Has, Behind, Reports, AfterSummary
<1>5. /\ \A f \in Files : Mine(f) => disk[f].whole
      /\ \A k \in Reports \cup {"summary"}, s \in Langs \cup {"none"} :
            Mine(<<k, s>>) <=> k \in Kinds /\ \E l \in LangsOfRun : s = Suffix(l)
  BY <1>1, <1>4 DEF IInv, FilesOfThisRun
<1>6. opt.langs \in LangLists
  BY <1>1, AtAStep
<1>7. ASSUME NEW f \in Delivered
      PROVE  f \in Wanted
  <2>1. PICK k \in Reports \cup {"summary", "map"}, s \in Langs \cup {"none"} : f = <<k, s>>
    BY DEF Delivered, Files
  <2>2. k \in Reports \cup {"summary"} /\ Mine(<<k, s>>)
    BY <2>1 DEF Delivered
  <2> QED
    BY <1>5, <2>1, <2>2 DEF Wanted
<1>8. ASSUME NEW f \in Wanted
      PROVE  f \in Delivered
  <2>1. PICK k \in Kinds, l \in LangsOfRun : f = <<k, Suffix(l)>>
    BY DEF Wanted
  <2>2. k \in Reports \cup {"summary"} /\ Suffix(l) \in Langs \cup {"none"}
    BY <1>2, <1>6, SuffixesDiffer
  <2>3. Mine(f) /\ f \in Files /\ f[1] # "map"
    BY <1>5, <2>1, <2>2 DEF Files, Reports
  <2> QED
    BY <1>5, <2>3 DEF Delivered
<1> QED
  BY <1>7, <1>8

(* The run writes the file whose turn it is. *)
LEMMA Delivering ==
  ASSUME IInv, Running, Running', UNCHANGED <<run, opt>>, NEW k \in Kinds, ~Behind(k),
         disk' = [disk EXCEPT ![<<k, Suffix(pass)>>] = Text(NoAliases)] \/
         \E m \in Aliases : disk' = [disk EXCEPT ![<<k, Suffix(pass)>>] = Text(m)]
  PROVE  Promise!Next
<1> DEFINE f == <<k, Suffix(pass)>>
<1>1. f \in Wanted \ Delivered /\ f \in Files /\ f[1] # "map" /\ ~Mine(f)
  BY TurnIsFree
<1>2. PICK m \in Aliases \cup {NoAliases} : disk' = [disk EXCEPT ![f] = Text(m)]
  OBVIOUS
<1>3. /\ Text(m) \in Texts /\ Text(m) # NoFile /\ Text(m).run = run /\ Text(m).whole
  BY TextOfRun
<1> HIDE DEF f
<1>4. \A g \in Files : disk'[g] = IF g = f THEN Text(m) ELSE disk[g]
  BY <1>1, <1>2, <1>3, OneFile DEF IInv
<1>5. Delivered' = Delivered \cup {f}
  <2>1. \A g \in Files : Mine(g)' /\ disk'[g].whole <=> g = f \/ (Mine(g) /\ disk[g].whole)
    BY <1>3, <1>4 DEF Mine
  <2> QED
    BY <1>1, <2>1 DEF Delivered
<1>6. Wanted' = Wanted /\ Graded' = Graded
  BY SameWanted
<1>7. Outcome = "open" /\ Outcome' = "open" /\ Verdict = "open" /\ Verdict' = "open"
  BY OutcomeIs
<1> QED
  BY <1>1, <1>5, <1>6, <1>7 DEF Promise!Next, Promise!Deliver, Delivered

(* A step that delivers nothing is a stutter of the promise, or gives up   *)
(* with a status that is not that of success.                              *)
GivesUp ==
    step' = "ended" /\ cause' \notin {"success", "fail on"} /\ code' # 0

LEMMA NoneIsZero == \A c \in {1, 2, 137} : c # 0
OBVIOUS

LEMMA WhatGivesUp ==
  ASSUME step' = "ended", code' \in {1, 2, 137},
         cause' \in {"input error", "leak", "exception", "killed"}
  PROVE  GivesUp
<1>1. code' # 0
  BY NoneIsZero, Zenon
<1>2. cause' \notin {"success", "fail on"}
  OBVIOUS
<1> QED
  BY <1>1, <1>2 DEF GivesUp

LEMMA Undelivered ==
  ASSUME Running, Delivered' = Delivered, UNCHANGED <<run, opt>>, Running' \/ GivesUp
  PROVE  Promise!Next \/ UNCHANGED Promise!vars
<1>1. Wanted' = Wanted /\ Graded' = Graded
  BY SameWanted
<1>2. Outcome = "open" /\ Verdict = "open"
  BY OutcomeIs
<1>3. CASE Running'
  <2>1. Outcome' = "open" /\ Verdict' = "open"
    BY <1>3, OutcomeIs
  <2> QED
    BY <1>1, <1>2, <2>1 DEF Promise!vars, Delivered
<1>4. CASE GivesUp
  <2>1. Outcome' = "failed" /\ Verdict' = IF code' = 1 /\ Graded THEN "either" ELSE "failed"
    BY <1>4, VerdictIs DEF GivesUp
  <2> QED
    BY <1>1, <1>2, <2>1 DEF Promise!Next, Promise!GiveUp, Promise!Close, Delivered
<1> QED
  BY <1>3, <1>4

LEMMA SameDelivered ==
  ASSUME UNCHANGED <<run, disk>>
  PROVE  Delivered' = Delivered
BY DEF Delivered, Mine

LEMMA InitPromises ==
  ASSUME Init
  PROVE  Promise!Init
<1>1. step = "idle" /\ opt.langs = <<>> /\ disk = [f \in Files |-> NoFile]
  BY DEF Init
<1>2. LangsOfRun = {}
  BY <1>1 DEF LangsOfRun
<1>3. Wanted = {}
  BY <1>2 DEF Wanted
<1>4. Delivered = {}
  BY <1>1 DEF Delivered, Mine
<1>5. Outcome = "none" /\ Verdict = "none"
  <2>1. Outcome = "none"
    BY <1>1 DEF Outcome, Ran
  <2>2. Verdict = "none"
    BY <1>1 DEF Verdict
  <2> QED
    BY <2>1, <2>2
<1>6. Graded = FALSE
  BY DEF Init, Graded
<1> QED
  BY <1>3, <1>4, <1>5, <1>6 DEF Promise!Init, Delivered

LEMMA StartAsks ==
  ASSUME IInv, NEW o \in Arguments, Start(o), IInv'
  PROVE  Promise!Next
<1>1. /\ step \in {"idle", "ended"} /\ run' = run + 1 /\ disk' = disk /\ opt' = o
      /\ step' = "check"
  BY DEF Start
<1>2. Outcome # "open" /\ Outcome' = "open" /\ Verdict' = "open"
  BY <1>1, OutcomeIs DEF Running
<1>3. Delivered' = {}
  <2>1. \A f \in Files : ~Mine(f)'
    BY <1>1, NewRunHasNone
  <2> QED
    BY <2>1 DEF Delivered
<1>4. Wanted' \subseteq Files
  <2>1. o.langs \in LangLists /\ o.reports \subseteq Reports
    BY ValuesAssumption DEF Arguments
  <2>2. \A i \in DOMAIN o.langs : o.langs[i] \in Langs
    BY <2>1, LangListsAreInjective
  <2>3. LangsOfRun' \subseteq Langs
    BY <1>1, <2>2 DEF LangsOfRun
  <2>4. \A l \in Langs : Suffix(l)' \in Langs \cup {"none"}
    BY DEF Suffix
  <2>5. Kinds' \subseteq Reports \cup {"summary"}
    BY <1>1, <2>1 DEF Kinds
  <2> QED
    BY <2>3, <2>4, <2>5 DEF Wanted, Files
<1>5. Graded' \in BOOLEAN
  BY DEF Graded
<1> QED
  BY <1>2, <1>3, <1>4, <1>5 DEF Promise!Next, Promise!Ask, Delivered

LEMMA FinishConcludes ==
  ASSUME IInv, NEW worst, Finish(worst)
  PROVE  Promise!Next
<1>1. /\ UNCHANGED <<run, opt, disk>> /\ step = "next" /\ Len(todo) = 1
      /\ step' = "ended" /\ cause' \in {"success", "fail on"}
      /\ code' = IF FailOn(worst) THEN 1 ELSE 0
  BY DEF Finish, End
<1>2. /\ Delivered = Wanted /\ Delivered' = Delivered /\ Wanted' = Wanted
      /\ Graded' = Graded
  BY <1>1, AllDelivered, SameDelivered, SameWanted
<1>3. Outcome = "open" /\ Verdict = "open"
  BY <1>1, OutcomeIs DEF Running
<1>4. FailOn(worst) => Graded
  BY DEF FailOn, Graded
<1>5. /\ Outcome' = "delivered"
      /\ Verdict' = "delivered" \/ (Graded /\ Verdict' = "either")
  BY <1>1, <1>4, VerdictIs
<1> QED
  BY <1>2, <1>3, <1>5 DEF Promise!Next, Promise!Conclude, Promise!Close, Delivered

(* A write that fails leaves a file that is not complete, and it was not   *)
(* there before.                                                           *)
LEMMA TornIsUndelivered ==
  ASSUME IInv, NEW f \in Files, WriteFails(f)
  PROVE  Running /\ Delivered' = Delivered
<1>1. /\ UNCHANGED <<run, opt>> /\ f \in Target
      /\ disk' = [disk EXCEPT ![f] = [Text(NoAliases) EXCEPT !.whole = FALSE]]
  BY DEF WriteFails
<1>2. Running
  BY <1>1 DEF Target, Reports, Running
<1>3. f \notin Delivered
  <2>1. CASE step = "summary"
    <3>1. f = <<"summary", Suffix(pass)>> /\ ~Behind("summary")
      BY <1>1, <2>1 DEF Target, Behind, AfterSummary
    <3>2. "summary" \in Kinds
      BY <2>1 DEF IInv, PassesInOrder, Kinds
    <3> QED
      BY <1>2, <3>1, <3>2, TurnIsFree
  <2>2. CASE step = "map"
    <3>1. f = MapFile
      BY <1>1, <2>2 DEF Target, Reports
    <3> QED
      BY <3>1 DEF Delivered, MapFile
  <2>3. CASE step \in Reports
    <3>1. step \in opt.reports /\ f = <<step, Suffix(pass)>>
      BY <1>1, <2>3 DEF Target, Reports
    <3>2. step \in Kinds /\ ~Behind(step)
      BY <2>3, <3>1 DEF Kinds, Behind, Reports
    <3> QED
      BY <1>2, <3>1, <3>2, TurnIsFree
  <2> QED
    BY <1>1, <2>1, <2>2, <2>3 DEF Target
<1>4. \A g \in Files :
         disk'[g] = IF g = f THEN [Text(NoAliases) EXCEPT !.whole = FALSE] ELSE disk[g]
  BY <1>1 DEF IInv, TypeOK
<1>5. [Text(NoAliases) EXCEPT !.whole = FALSE].whole = FALSE
  BY DEF Text
<1>6. \A g \in Files : Mine(g)' /\ disk'[g].whole <=> g # f /\ Mine(g) /\ disk[g].whole
  BY <1>1, <1>4, <1>5 DEF Mine
<1>7. Delivered' = Delivered
  BY <1>3, <1>6 DEF Delivered
<1> QED
  BY <1>2, <1>7

LEMMA StepPromises ==
  ASSUME IInv, IInv', [Next]_vars
  PROVE  [Promise!Next]_(Promise!vars)
<1>1. ASSUME NEW o \in Arguments, Start(o)
      PROVE  Promise!Next
  BY <1>1, StartAsks
<1>2. CASE CheckArguments
  <2>1. UNCHANGED <<run, opt, disk>> /\ Running
    BY <1>2 DEF CheckArguments, Running
  <2>2. step' = "analyze" \/ GivesUp
    <3>1. \/ step' = "analyze"
          \/ step' = "ended" /\ code' = 2 /\ cause' = "input error"
          \/ step' = "ended" /\ code' = 1 /\ cause' = "exception"
      BY <1>2 DEF CheckArguments, End
    <3> QED
      BY <3>1, WhatGivesUp
  <2> QED
    BY <2>1, <2>2, Undelivered, SameDelivered DEF Running
<1>3. CASE Analyze
  <2>1. UNCHANGED <<run, opt, disk>> /\ Running
    BY <1>3 DEF Analyze, Running
  <2>2. step' \in {"summary", "html"} \/ GivesUp
    <3>1. \/ step' \in {"summary", "html"}
          \/ step' = "ended" /\ code' = 2 /\ cause' = "input error"
      BY <1>3 DEF Analyze, End
    <3> QED
      BY <3>1, WhatGivesUp
  <2> QED
    BY <2>1, <2>2, Undelivered, SameDelivered DEF Running
<1>4. CASE SummaryLeaks
  <2>1. /\ UNCHANGED <<run, opt, disk>> /\ Running
        /\ GivesUp
    BY <1>4 DEF SummaryLeaks, End, Running, GivesUp
  <2> QED
    BY <2>1, Undelivered, SameDelivered
<1>5. ASSUME NEW m \in Aliases \cup {NoAliases}, WriteSummary(m)
      PROVE  Promise!Next
  <2>1. /\ UNCHANGED <<run, opt>> /\ step = "summary" /\ step' \in {"map", "html"}
        /\ disk' = [disk EXCEPT ![<<"summary", Suffix(pass)>>] = Text(m)]
    BY <1>5 DEF WriteSummary
  <2>2. Running /\ Running' /\ ~Behind("summary")
    BY <2>1 DEF Running, Behind, AfterSummary
  <2>3. "summary" \in Kinds
    BY <2>1 DEF IInv, PassesInOrder, Kinds
  <2> QED
    BY <2>1, <2>2, <2>3, Delivering
<1>6. CASE WriteMap
  <2>1. /\ UNCHANGED <<run, opt>> /\ step = "map" /\ step' = "html"
        /\ disk' = disk \/ disk' = [disk EXCEPT ![MapFile] = Text(aliases)]
    BY <1>6 DEF WriteMap
  <2>2. disk \in [Files -> Texts \cup {NoFile}]
    BY DEF IInv, TypeOK
  <2>3. \A g \in Files : g[1] # "map" => disk'[g] = disk[g]
    BY <2>1, <2>2 DEF MapFile
  <2>4. Delivered' = Delivered
    BY <2>1, <2>3 DEF Delivered, Mine
  <2> QED
    BY <2>1, <2>4, Undelivered DEF Running
<1>7. ASSUME NEW k \in Reports, WriteReport(k)
      PROVE  Promise!Next \/ UNCHANGED Promise!vars
  <2>1. /\ UNCHANGED <<run, opt>> /\ step = k /\ step' \in {"md", "json", "next"}
        /\ IF k \in opt.reports
           THEN disk' = [disk EXCEPT ![<<k, Suffix(pass)>>] = Text(NoAliases)]
           ELSE disk' = disk
    BY <1>7 DEF WriteReport, After, Reports
  <2>2. Running /\ Running' /\ ~Behind(k)
    BY <2>1 DEF Running, Behind, Reports
  <2>3. CASE k \in opt.reports
    <3>1. k \in Kinds
      BY <2>3 DEF Kinds
    <3> QED
      BY <2>1, <2>2, <2>3, <3>1, Delivering
  <2>4. CASE k \notin opt.reports
    BY <2>1, <2>2, <2>4, Undelivered, SameDelivered
  <2> QED
    BY <2>3, <2>4
<1>8. CASE NextLanguage
  <2>1. UNCHANGED <<run, opt, disk>> /\ step = "next" /\ step' = "analyze"
    BY <1>8 DEF NextLanguage
  <2> QED
    BY <2>1, Undelivered, SameDelivered DEF Running
<1>9. ASSUME NEW worst, Finish(worst)
      PROVE  Promise!Next
  BY <1>9, FinishConcludes
<1>10. ASSUME NEW f \in Files, WriteFails(f)
       PROVE  Promise!Next \/ UNCHANGED Promise!vars
  <2>1. UNCHANGED <<run, opt>> /\ GivesUp
    BY <1>10 DEF WriteFails, End, GivesUp
  <2> QED
    BY <1>10, <2>1, TornIsUndelivered, Undelivered
<1>11. CASE Killed
  <2>1. /\ UNCHANGED <<run, opt, disk>> /\ Running
        /\ GivesUp
    BY <1>11 DEF Killed, End, Running, GivesUp
  <2> QED
    BY <2>1, Undelivered, SameDelivered
<1>12. CASE UNCHANGED vars
  <2>1. UNCHANGED <<run, opt, disk, step, code, cause>>
    BY <1>12 DEF vars
  <2>2. /\ Wanted' = Wanted /\ Graded' = Graded /\ Delivered' = Delivered
        /\ Outcome' = Outcome /\ Verdict' = Verdict
    BY <2>1, SameWanted, SameDelivered DEF Outcome, Verdict, Ran, Graded
  <2> QED
    BY <2>2 DEF Promise!vars, Delivered
<1> QED
  BY <1>1, <1>2, <1>3, <1>4, <1>5, <1>6, <1>7, <1>8, <1>9, <1>10, <1>11, <1>12 DEF Next, Main

(* The program keeps the promise of Delivery: every step of main() is a    *)
(* step of it, for any number of languages, runs and reports, wherever the *)
(* run is killed or a write fails, and its exit status says how it ended   *)
(* as far as Delivery says it does.                                        *)
THEOREM DeliversThm == Spec => DeliversWhatIsAsked
<1>1. Init => Promise!Init
  BY InitPromises
<1>2. IInv /\ IInv' /\ [Next]_vars => [Promise!Next]_(Promise!vars)
  BY StepPromises
<1> QED
  BY <1>1, <1>2, RunInvariant, PTL DEF Spec, DeliversWhatIsAsked, Promise!Spec

-----------------------------------------------------------------------------
(* The masker the summary is written with: the numbers of a kind only      *)
(* grow, and an alias in use has a number that was given out before, so a  *)
(* new one is not in use.                                                  *)
(* What add() does when it does not turn the value down. *)
LEMMA AddKeepsInvariant ==
  ASSUME MInv, NEW k \in Kind, NEW v \in Value, Add(k, v), UNCHANGED <<stage, draft>>
  PROVE  MInv'
<1> DEFINE n == seq[k] + 1
           a == Alias(k, n)
<1>1. /\ v \notin DOMAIN alias
      /\ seq' = [seq EXCEPT ![k] = n]
      /\ alias' = [w \in DOMAIN alias \cup {v} |-> IF w = v THEN a ELSE alias[w]]
      /\ orig' = [b \in DOMAIN orig \cup {a} |-> IF b = a THEN v ELSE orig[b]]
  BY DEF Add
<1>2. /\ seq \in [Kind -> Nat] /\ n \in Nat /\ n > seq[k]
      /\ a \in Kind \X Nat /\ a[1] = k /\ a[2] = n
  BY DEF MInv, MTypeOK, Alias
<1>3. a \notin DOMAIN orig
  <2> SUFFICES ASSUME a \in DOMAIN orig
               PROVE  FALSE
    OBVIOUS
  <2>1. a[2] <= seq[a[1]]
    BY DEF MInv, NumbersGivenOut
  <2> HIDE DEF n, a
  <2> QED
    BY <1>2, <2>1
<1> HIDE DEF n, a
<1>4. MTypeOK'
  <2>1. seq' \in [Kind -> Nat]
    BY <1>1, <1>2
  <2>2. DOMAIN alias' = DOMAIN alias \cup {v}
    BY <1>1
  <2>3. \A w \in DOMAIN alias' : alias'[w] \in Kind \X Nat
    BY <1>1, <1>2 DEF MInv, MTypeOK
  <2>4. alias' \in [DOMAIN alias' -> Kind \X Nat]
    BY <1>1, <2>2, <2>3
  <2>5. IsFiniteSet(DOMAIN alias')
    BY <2>2, FS_AddElement DEF MInv, MTypeOK
  <2> QED
    BY <2>1, <2>2, <2>4, <2>5 DEF MInv, MTypeOK
<1>5. NumbersGivenOut'
  <2> SUFFICES ASSUME NEW b \in DOMAIN orig'
               PROVE  b \in Kind \X Nat /\ b[2] <= seq'[b[1]]
    BY DEF NumbersGivenOut
  <2>1. CASE b = a
    BY <1>1, <1>2, <2>1
  <2>2. CASE b # a
    <3>1. b \in DOMAIN orig
      BY <1>1, <2>2
    <3>2. b \in Kind \X Nat /\ b[2] <= seq[b[1]]
      BY <3>1 DEF MInv, NumbersGivenOut
    <3>3. b[1] \in Kind /\ b[2] \in Nat
      BY <3>2
    <3>4. seq[b[1]] <= seq'[b[1]] /\ seq[b[1]] \in Nat /\ seq'[b[1]] \in Nat
      BY <1>1, <1>2, <3>3
    <3> QED
      BY <3>2, <3>3, <3>4
  <2> QED
    BY <2>1, <2>2
<1>6. AliasesAreInvertible'
  <2>1. ASSUME NEW w \in DOMAIN alias'
        PROVE  alias'[w] \in DOMAIN orig' /\ orig'[alias'[w]] = w
    <3>1. CASE w = v
      BY <1>1, <3>1
    <3>2. CASE w # v
      <4>1. w \in DOMAIN alias /\ alias'[w] = alias[w]
        BY <1>1, <3>2
      <4>2. alias[w] \in DOMAIN orig /\ orig[alias[w]] = w
        BY <4>1 DEF MInv, AliasesAreInvertible
      <4> QED
        BY <1>1, <1>3, <4>1, <4>2
    <3> QED
      BY <3>1, <3>2
  <2>2. ASSUME NEW b \in DOMAIN orig'
        PROVE  orig'[b] \in DOMAIN alias' /\ alias'[orig'[b]] = b
    <3>1. CASE b = a
      BY <1>1, <3>1
    <3>2. CASE b # a
      <4>1. b \in DOMAIN orig /\ orig'[b] = orig[b]
        BY <1>1, <3>2
      <4>2. orig[b] \in DOMAIN alias /\ alias[orig[b]] = b
        BY <4>1 DEF MInv, AliasesAreInvertible
      <4> QED
        BY <1>1, <4>1, <4>2
    <3> QED
      BY <3>1, <3>2
  <2> QED
    BY <2>1, <2>2 DEF AliasesAreInvertible
<1> QED
  BY <1>4, <1>5, <1>6 DEF MInv

LEMMA AddKeepsAliases ==
  ASSUME NEW k, NEW v, Add(k, v)
  PROVE  \A w \in DOMAIN alias : w \in DOMAIN alias' /\ alias'[w] = alias[w]
BY DEF Add

(* A step that registers nothing. *)
LEMMA QuietStep ==
  ASSUME MInv, UNCHANGED <<alias, orig, seq>>, draft' \in Seq(Part),
         stage' \in {"collect", "render", "released", "refused"}
  PROVE  MInv'
<1>1. MTypeOK'
  BY DEF MInv, MTypeOK
<1>2. NumbersGivenOut'
  BY DEF MInv, NumbersGivenOut
<1>3. AliasesAreInvertible'
  BY DEF MInv, AliasesAreInvertible
<1> QED
  BY <1>1, <1>2, <1>3 DEF MInv

(* Every step is a registration or leaves the aliases alone. *)
LEMMA StepsRegister ==
  ASSUME MInv, [MNext]_maskerVars
  PROVE  \/ \E k \in Kind, v \in Value : Add(k, v) /\ UNCHANGED <<stage, draft>>
         \/ /\ UNCHANGED <<alias, orig, seq>> /\ draft' \in Seq(Part)
            /\ stage' \in {"collect", "render", "released", "refused"}
<1>1. ASSUME NEW c \in Collected, Register(c[1], c[2])
      PROVE  \E k \in Kind, v \in Value : Add(k, v) /\ UNCHANGED <<stage, draft>>
  BY <1>1, MaskerAssumption DEF Register
<1>2. ASSUME NEW d \in Drafts, Render(d)
      PROVE  UNCHANGED <<alias, orig, seq>> /\ stage' = "render" /\ draft' \in Seq(Part)
  BY <1>2, MaskerAssumption DEF Render
<1>3. ASSUME AllocateIp
      PROVE  \E k \in Kind, v \in Value : Add(k, v) /\ UNCHANGED <<stage, draft>>
  <2>1. PICK i \in NewIps : Add(ip, <<Written(alias, Here)[i]>>)
    BY <1>3 DEF AllocateIp
  <2>2. Written(alias, Here)[i] \in Ip
    BY DEF NewIps
  <2>3. ip \in Kind /\ <<Written(alias, Here)[i]>> \in Value
    BY <2>2, MaskerAssumption
  <2>4. UNCHANGED <<stage, draft>>
    BY <1>3 DEF AllocateIp
  <2> QED
    BY <2>1, <2>3, <2>4
<1>4. ASSUME Write
      PROVE  UNCHANGED <<alias, orig, seq, stage, draft>>
  BY <1>4 DEF Write
<1>5. ASSUME Check
      PROVE  UNCHANGED <<alias, orig, seq, draft>> /\ stage' \in {"released", "refused"}
  BY <1>5 DEF Check
<1>6. ASSUME UNCHANGED maskerVars
      PROVE  UNCHANGED <<alias, orig, seq, stage, draft>>
  BY <1>6 DEF maskerVars
<1>7. draft \in Seq(Part) /\ stage \in {"collect", "render", "released", "refused"}
  BY DEF MInv, MTypeOK
<1> QED
  BY <1>1, <1>2, <1>3, <1>4, <1>5, <1>6, <1>7 DEF MNext

(* The map is one to one at every moment of every run. *)
THEOREM AliasInvariant == MSpec => []MInv
<1>1. MInit => MInv
  <2> SUFFICES ASSUME MInit
               PROVE  MInv
    OBVIOUS
  <2>1. /\ stage = "collect" /\ seq = [k \in Kind |-> 0]
        /\ alias = [v \in {} |-> <<>>] /\ orig = [a \in {} |-> <<>>]
    BY DEF MInit
  <2>2. DOMAIN alias = {} /\ DOMAIN orig = {}
    BY <2>1
  <2>3. MTypeOK
    BY <2>1, <2>2, FS_EmptySet DEF MTypeOK, MInit
  <2> QED
    BY <2>2, <2>3 DEF MInv, NumbersGivenOut, AliasesAreInvertible
<1>2. MInv /\ [MNext]_maskerVars => MInv'
  BY StepsRegister, AddKeepsInvariant, QuietStep
<1> QED
  BY <1>1, <1>2, PTL DEF MSpec

(* An alias that is in use does not change. *)
THEOREM AliasesAreStableThm == MSpec => AliasesAreStable
<1>1. MInv /\ [MNext]_maskerVars =>
        [\A v \in DOMAIN alias : v \in DOMAIN alias' /\ alias'[v] = alias[v]]_maskerVars
  <2> SUFFICES ASSUME MInv, [MNext]_maskerVars
               PROVE  \A v \in DOMAIN alias : v \in DOMAIN alias' /\ alias'[v] = alias[v]
    OBVIOUS
  <2> QED
    BY StepsRegister, AddKeepsAliases
<1> QED
  BY <1>1, AliasInvariant, PTL DEF MSpec, AliasesAreStable

-----------------------------------------------------------------------------
(* Texts, masked or not, and what is left of one at a place.               *)
Token   == Piece \cup Kind \cup Nat
Strings == Seq(Token)

LEMMA RestIs ==
  ASSUME NEW s \in Strings, NEW i \in 1 .. Len(s) + 1
  PROVE  /\ Rest(s, i) \in Strings /\ Len(s) \in Nat /\ i \in Nat
         /\ Len(Rest(s, i)) = Len(s) - i + 1
         /\ \A j \in 1 .. Len(s) - i + 1 : Rest(s, i)[j] = s[i + j - 1]
<1>1. Len(s) \in Nat /\ i \in Int /\ Len(s) \in Int /\ \A j \in i .. Len(s) : s[j] \in Token
  BY ElementOfSeq DEF Strings
<1>2. /\ SubSeq(s, i, Len(s)) \in Strings
      /\ Len(SubSeq(s, i, Len(s))) = IF i <= Len(s) THEN Len(s) - i + 1 ELSE 0
      /\ \A j \in 1 .. Len(s) - i + 1 : SubSeq(s, i, Len(s))[j] = s[i + j - 1]
  BY <1>1, SubSeqProperties DEF Strings
<1> QED
  BY <1>1, <1>2 DEF Rest

LEMMA RestOfAll == ASSUME NEW s \in Strings PROVE Rest(s, 1) = s
<1>1. 1 \in 1 .. Len(s) + 1 /\ Len(s) \in Nat
  BY DEF Strings
<1>2. /\ Rest(s, 1) \in Seq(Token) /\ Len(Rest(s, 1)) = Len(s)
      /\ \A j \in 1 .. Len(Rest(s, 1)) : Rest(s, 1)[j] = s[j]
  BY <1>1, RestIs DEF Strings
<1> QED
  BY <1>2, SeqEqual DEF Strings

LEMMA RestOfRest ==
  ASSUME NEW s \in Strings, NEW i \in 1 .. Len(s) + 1, NEW j \in 1 .. Len(s) - i + 2
  PROVE  /\ j \in 1 .. Len(Rest(s, i)) + 1 /\ i + j - 1 \in 1 .. Len(s) + 1
         /\ Rest(Rest(s, i), j) = Rest(s, i + j - 1)
<1> DEFINE q == Rest(s, i)
           k == i + j - 1
<1>1. Len(s) \in Nat /\ i \in Nat /\ j \in Nat /\ k \in Nat
  BY RestIs
<1>2. /\ q \in Strings /\ Len(q) = Len(s) - i + 1
      /\ \A x \in 1 .. Len(s) - i + 1 : q[x] = s[i + x - 1]
  BY RestIs
<1>3. j \in 1 .. Len(q) + 1 /\ k \in 1 .. Len(s) + 1
  BY <1>1, <1>2
<1> HIDE DEF q
<1>4. /\ Rest(q, j) \in Strings /\ Len(Rest(q, j)) = Len(q) - j + 1
      /\ \A x \in 1 .. Len(q) - j + 1 : Rest(q, j)[x] = q[j + x - 1]
  BY <1>2, <1>3, RestIs
<1>5. /\ Rest(s, k) \in Strings /\ Len(Rest(s, k)) = Len(s) - k + 1
      /\ \A x \in 1 .. Len(s) - k + 1 : Rest(s, k)[x] = s[k + x - 1]
  BY <1>3, RestIs
<1>6. Len(Rest(q, j)) = Len(Rest(s, k))
  BY <1>1, <1>2, <1>4, <1>5
<1>7. ASSUME NEW x \in 1 .. Len(Rest(q, j))
      PROVE  Rest(q, j)[x] = Rest(s, k)[x]
  <2>1. x \in 1 .. Len(q) - j + 1 /\ x \in 1 .. Len(s) - k + 1
    BY <1>4, <1>5, <1>6
  <2>2. j + x - 1 \in 1 .. Len(s) - i + 1 /\ i + (j + x - 1) - 1 = k + x - 1
    BY <1>1, <1>2, <2>1
  <2>3. Rest(q, j)[x] = q[j + x - 1] /\ Rest(s, k)[x] = s[k + x - 1]
    BY <1>4, <1>5, <2>1
  <2> HIDE DEF k
  <2>4. q[j + x - 1] = s[i + (j + x - 1) - 1]
    BY <1>2, <2>2
  <2> QED
    BY <2>2, <2>3, <2>4
<1> HIDE DEF k
<1>8. Rest(q, j) = Rest(s, k)
  BY <1>4, <1>5, <1>6, <1>7, SeqEqual DEF Strings
<1> QED
  BY <1>3, <1>8 DEF q, k

-----------------------------------------------------------------------------
(* A reading takes C of what is left of a text and gives E for it.         *)
Stepping(E, C) == \A q \in Strings : q # <<>> => C[q] \in 1 .. Len(q) /\ E[q] \in Strings

(* What the recursion of Read comes to from place k on.                    *)
Unrolled(E, C, s, k, m) ==
    m = [i \in k .. Len(s) + 1 |->
            IF i > Len(s) THEN <<>> ELSE E[Rest(s, i)] \o m[i + C[Rest(s, i)]]]

LEMMA StepAt ==
  ASSUME NEW E, NEW C, Stepping(E, C), NEW s \in Strings, NEW i \in 1 .. Len(s)
  PROVE  /\ i + C[Rest(s, i)] \in i + 1 .. Len(s) + 1
         /\ C[Rest(s, i)] \in Nat /\ E[Rest(s, i)] \in Strings
<1>1. Len(s) \in Nat /\ i \in 1 .. Len(s) + 1
  BY DEF Strings
<1>2. Rest(s, i) \in Strings /\ Len(Rest(s, i)) = Len(s) - i + 1
  BY <1>1, RestIs
<1>3. Rest(s, i) # <<>>
  BY <1>1, <1>2
<1>4. C[Rest(s, i)] \in 1 .. Len(Rest(s, i)) /\ E[Rest(s, i)] \in Strings
  BY <1>2, <1>3 DEF Stepping
<1> QED
  BY <1>1, <1>2, <1>4

LEMMA UnrolledExists ==
  ASSUME NEW E, NEW C, Stepping(E, C), NEW s \in Strings
  PROVE  \E m : Unrolled(E, C, s, 1, m)
<1> DEFINE Good == {k \in 1 .. Len(s) + 1 : \E m : Unrolled(E, C, s, k, m)}
<1>1. Len(s) \in Nat
  BY DEF Strings
<1>2. Len(s) + 1 \in Good
  <2> DEFINE m == [i \in Len(s) + 1 .. Len(s) + 1 |-> <<>>]
  <2>1. \A i \in Len(s) + 1 .. Len(s) + 1 : i > Len(s)
    BY <1>1
  <2>2. Unrolled(E, C, s, Len(s) + 1, m)
    BY <2>1 DEF Unrolled
  <2> QED
    BY <1>1, <2>2
<1>3. Good \subseteq Int /\ IsFiniteSet(Good) /\ Good # {}
  <2>1. IsFiniteSet(1 .. Len(s) + 1)
    BY <1>1, FS_Interval
  <2>2. IsFiniteSet(Good)
    BY <2>1, FS_Subset
  <2> QED
    BY <1>2, <2>2
<1>4. PICK k \in Good : \A j \in Good : k <= j
  <2> HIDE DEF Good
  <2> QED
    BY <1>3, ThereIsALeast
<1>5. ASSUME k # 1 PROVE FALSE
  <2> DEFINE h == k - 1
             c == C[Rest(s, h)]
             e == E[Rest(s, h)]
  <2>1. k \in 1 .. Len(s) + 1 /\ h \in 1 .. Len(s) /\ k \in Nat
    BY <1>1, <1>5
  <2>2. h + c \in k .. Len(s) + 1
    BY <2>1, StepAt
  <2>3. PICK m : Unrolled(E, C, s, k, m)
    OBVIOUS
  <2> DEFINE f == [i \in h .. Len(s) + 1 |-> IF i = h THEN e \o m[h + c] ELSE m[i]]
  <2> HIDE DEF c, e, h, Good
  <2>4. h = k - 1
    BY DEF h
  <2>5. ASSUME NEW i \in h .. Len(s) + 1
        PROVE  f[i] = IF i > Len(s) THEN <<>> ELSE E[Rest(s, i)] \o f[i + C[Rest(s, i)]]
    <3>1. CASE i = h
      <4>1. f[i] = e \o m[h + c] /\ ~(i > Len(s))
        BY <1>1, <2>1, <3>1
      <4>2. f[h + c] = m[h + c]
        BY <1>1, <2>1, <2>2, <2>4
      <4> QED
        BY <3>1, <4>1, <4>2 DEF e, c
    <3>2. CASE i # h
      <4>1. i \in k .. Len(s) + 1
        BY <1>1, <2>1, <2>4, <3>2
      <4>2. f[i] = m[i]
        BY <3>2
      <4>3. m[i] = IF i > Len(s) THEN <<>> ELSE E[Rest(s, i)] \o m[i + C[Rest(s, i)]]
        BY <2>3, <4>1 DEF Unrolled
      <4>4. CASE i > Len(s)
        BY <4>2, <4>3, <4>4
      <4>5. CASE ~(i > Len(s))
        <5>1. i \in 1 .. Len(s)
          BY <1>1, <2>1, <4>1, <4>5
        <5>2. i + C[Rest(s, i)] \in i + 1 .. Len(s) + 1
          BY <5>1, StepAt
        <5> DEFINE n == i + C[Rest(s, i)]
        <5>3. n \in h .. Len(s) + 1 /\ n # h
          BY <1>1, <2>1, <2>4, <4>1, <5>2
        <5> HIDE DEF n
        <5>4. f[n] = m[n]
          BY <5>3
        <5> QED
          BY <4>2, <4>3, <4>5, <5>4 DEF n
      <4> QED
        BY <4>4, <4>5
    <3> QED
      BY <3>1, <3>2
  <2>6. DOMAIN f = h .. Len(s) + 1
    OBVIOUS
  <2>7. Unrolled(E, C, s, h, f)
    <3>1. f = [i \in h .. Len(s) + 1 |-> f[i]]
      OBVIOUS
    <3> HIDE DEF f
    <3> QED
      BY <2>5, <3>1 DEF Unrolled
  <2>8. h \in Good
    BY <2>1, <2>4, <2>7, <1>1 DEF Good
  <2> QED
    BY <1>4, <2>1, <2>4, <2>8
<1> QED
  BY <1>4, <1>5

(* All that is needed of it: where it ends and how it goes on.             *)
Course(E, C, s, m) ==
    /\ m[Len(s) + 1] = <<>>
    /\ \A i \in 1 .. Len(s) : m[i] = E[Rest(s, i)] \o m[i + C[Rest(s, i)]]

LEMMA UnrolledIsCourse ==
  ASSUME NEW E, NEW C, NEW s \in Strings, NEW m, Unrolled(E, C, s, 1, m)
  PROVE  Course(E, C, s, m)
<1>1. /\ Len(s) + 1 \in 1 .. Len(s) + 1 /\ Len(s) + 1 > Len(s)
      /\ \A i \in 1 .. Len(s) : i \in 1 .. Len(s) + 1 /\ ~(i > Len(s))
  BY DEF Strings
<1> QED
  BY <1>1 DEF Unrolled, Course

LEMMA CourseGivesTexts ==
  ASSUME NEW E, NEW C, Stepping(E, C), NEW s \in Strings, NEW m, Course(E, C, s, m)
  PROVE  \A i \in 1 .. Len(s) + 1 : m[i] \in Strings
<1> DEFINE Bad == {i \in 1 .. Len(s) + 1 : m[i] \notin Strings}
<1>1. Len(s) \in Nat
  BY DEF Strings
<1>2. Bad \subseteq Int /\ IsFiniteSet(Bad)
  <2>1. IsFiniteSet(1 .. Len(s) + 1)
    BY <1>1, FS_Interval
  <2> QED
    BY <2>1, FS_Subset
<1>3. ASSUME Bad # {} PROVE FALSE
  <2>1. PICK b \in Bad : \A j \in Bad : b >= j
    <3> HIDE DEF Bad
    <3> QED
      BY <1>2, <1>3, ThereIsAGreatest
  <2>2. b \in 1 .. Len(s) + 1 /\ m[b] \notin Strings
    OBVIOUS
  <2>3. m[Len(s) + 1] = <<>>
    BY DEF Course
  <2>4. <<>> \in Strings
    BY DEF Strings
  <2>5. b \in 1 .. Len(s)
    BY <1>1, <2>2, <2>3, <2>4
  <2> DEFINE n == b + C[Rest(s, b)]
  <2>6. n \in b + 1 .. Len(s) + 1 /\ E[Rest(s, b)] \in Strings
    BY <2>5, StepAt
  <2> HIDE DEF n
  <2>7. n \notin Bad /\ n \in 1 .. Len(s) + 1
    <3> HIDE DEF Bad
    <3> QED
      BY <1>1, <2>1, <2>5, <2>6
  <2>8. m[n] \in Strings
    BY <2>7
  <2>9. m[b] = E[Rest(s, b)] \o m[n]
    <3> HIDE DEF Bad
    <3> QED
      BY <2>5 DEF n, Course
  <2> QED
    BY <2>2, <2>6, <2>8, <2>9, ConcatProperties DEF Strings
<1> QED
  BY <1>3

LEMMA CoursesAgree ==
  ASSUME NEW E, NEW C, Stepping(E, C), NEW s \in Strings, NEW d \in 1 .. Len(s) + 1,
         NEW m, Course(E, C, s, m), NEW w, Course(E, C, Rest(s, d), w)
  PROVE  w[1] = m[d]
<1> DEFINE q == Rest(s, d)
           N == Len(q)
           Bad == {i \in 1 .. N + 1 : w[i] # m[i + d - 1]}
<1>1. Len(s) \in Nat /\ d \in Nat /\ q \in Strings /\ N \in Nat /\ N = Len(s) - d + 1
  BY RestIs
<1>2. Bad \subseteq Int /\ IsFiniteSet(Bad)
  <2>1. IsFiniteSet(1 .. N + 1)
    BY <1>1, FS_Interval
  <2> QED
    BY <2>1, FS_Subset
<1> HIDE DEF N, q
<1>3. ASSUME Bad # {} PROVE FALSE
  <2>1. PICK b \in Bad : \A j \in Bad : b >= j
    <3> HIDE DEF Bad
    <3> QED
      BY <1>2, <1>3, ThereIsAGreatest
  <2> DEFINE g == b + d - 1
  <2>2. b \in 1 .. N + 1 /\ w[b] # m[g] /\ b \in Nat
    BY <1>1
  <2>3. g \in 1 .. Len(s) + 1 /\ (g > Len(s) <=> b > N)
    BY <1>1, <2>2
  <2>4. w[N + 1] = <<>> /\ m[Len(s) + 1] = <<>>
    BY DEF Course, N, q
  <2>5. b \in 1 .. N /\ g \in 1 .. Len(s)
    <3>1. b # N + 1
      <4>1. b = N + 1 => g = Len(s) + 1
        BY <1>1
      <4> HIDE DEF g
      <4> QED
        BY <2>2, <2>4, <4>1
    <3> QED
      BY <1>1, <2>2, <3>1
  <2>6. Rest(q, b) = Rest(s, g)
    <3>1. b \in 1 .. Len(s) - d + 2
      BY <1>1, <2>5
    <3> QED
      BY <3>1, RestOfRest DEF q
  <2> DEFINE c == C[Rest(q, b)]
  <2>7. b + c \in b + 1 .. N + 1 /\ c \in Nat
    BY <1>1, <2>5, StepAt DEF N
  <2> HIDE DEF c
  <2>8. b + c \notin Bad
    <3> HIDE DEF Bad
    <3> QED
      BY <1>1, <2>1, <2>2, <2>5, <2>7
  <2>9. w[b + c] = m[g + c]
    <3>1. b + c \in 1 .. N + 1 /\ (b + c) + d - 1 = g + c
      BY <1>1, <2>5, <2>7
    <3> QED
      BY <2>8, <3>1
  <2>10. w[b] = E[Rest(q, b)] \o w[b + c]
    BY <2>5 DEF Course, N, q, c
  <2> HIDE DEF g
  <2>11. m[g] = E[Rest(s, g)] \o m[g + c]
    BY <2>5, <2>6 DEF Course, c
  <2> QED
    BY <2>2, <2>6, <2>9, <2>10, <2>11
<1>4. 1 \in 1 .. N + 1 /\ 1 + d - 1 = d
  BY <1>1
<1> QED
  BY <1>3, <1>4

(* So a reading is read step by step.                                      *)
Reads(F, E, C) ==
    /\ F[<<>>] = <<>>
    /\ \A s \in Strings : F[s] \in Strings
    /\ \A s \in Strings : s # <<>> => F[s] = E[s] \o F[Rest(s, C[s] + 1)]

LEMMA ReadsStepByStep ==
  ASSUME NEW E, NEW C, Stepping(E, C), NEW F,
         \A s \in Strings : \E m : Course(E, C, s, m) /\ F[s] = m[1]
  PROVE  Reads(F, E, C)
<1>1. <<>> \in Strings /\ Len(<<>>) = 0
  BY DEF Strings
<1>2. F[<<>>] = <<>>
  <2>1. PICK m : Course(E, C, <<>>, m) /\ F[<<>>] = m[1]
    BY <1>1
  <2>2. m[Len(<<>>) + 1] = <<>>
    BY <2>1 DEF Course
  <2>3. m[1] = <<>>
    BY <1>1, <2>2
  <2> QED
    BY <2>1, <2>3
<1>3. ASSUME NEW s \in Strings
      PROVE  F[s] \in Strings /\ (s # <<>> => F[s] = E[s] \o F[Rest(s, C[s] + 1)])
  <2>1. PICK m : Course(E, C, s, m) /\ F[s] = m[1]
    OBVIOUS
  <2>2. Len(s) \in Nat /\ 1 \in 1 .. Len(s) + 1
    BY DEF Strings
  <2>3. F[s] \in Strings
    BY <2>1, <2>2, CourseGivesTexts
  <2>4. ASSUME s # <<>> PROVE F[s] = E[s] \o F[Rest(s, C[s] + 1)]
    <3>1. Len(s) > 0 /\ 1 \in 1 .. Len(s)
      BY <2>2, <2>4, EmptySeq DEF Strings
    <3>2. Rest(s, 1) = s
      BY RestOfAll
    <3> DEFINE d == 1 + C[s]
    <3>3. d \in 2 .. Len(s) + 1 /\ C[s] + 1 = d
      BY <2>2, <2>4 DEF Stepping
    <3>4. m[1] = E[s] \o m[d]
      BY <2>1, <3>1, <3>2 DEF Course
    <3> HIDE DEF d
    <3>5. d \in 1 .. Len(s) + 1
      BY <2>2, <3>3
    <3>6. Rest(s, d) \in Strings
      BY <3>5, RestIs
    <3>7. PICK w : Course(E, C, Rest(s, d), w) /\ F[Rest(s, d)] = w[1]
      BY <3>6
    <3>8. w[1] = m[d]
      BY <2>1, <3>5, <3>7, CoursesAgree
    <3> QED
      BY <2>1, <3>3, <3>4, <3>7, <3>8
  <2> QED
    BY <2>3, <2>4
<1> QED
  BY <1>2, <1>3 DEF Reads

-----------------------------------------------------------------------------
(* A map of names to aliases, and back.                                    *)
IsMap(al, or) ==
    /\ IsFiniteSet(DOMAIN al) /\ DOMAIN al \subseteq Value
    /\ \A v \in DOMAIN al : al[v] \in Kind \X Nat /\ al[v] \in DOMAIN or /\ or[al[v]] = v
    /\ \A a \in DOMAIN or : a \in Kind \X Nat /\ or[a] \in DOMAIN al /\ al[or[a]] = a

LEMMA NamesAreTexts ==
  ASSUME NEW al, NEW or, IsMap(al, or), NEW v \in DOMAIN al
  PROVE  v \in Strings /\ v \in Seq(Piece) /\ Len(v) \in Nat \ {0} /\ v # <<>>
<1>1. v \in Seq(Piece) /\ v # <<>>
  BY MaskerAssumption DEF IsMap
<1>2. v \in Strings
  BY <1>1, SeqMonotonic DEF Strings, Token
<1> QED
  BY <1>1, <1>2, EmptySeq

LEMMA PairsAreTexts ==
  ASSUME NEW a \in Kind \X Nat
  PROVE  /\ a \in Strings /\ Len(a) = 2 /\ a[1] \in Kind /\ a[2] \in Nat /\ a = <<a[1], a[2]>>
<1>1. PICK k \in Kind, n \in Nat : a = <<k, n>>
  OBVIOUS
<1>2. k \in Token /\ n \in Token
  BY DEF Token
<1> QED
  BY <1>1, <1>2 DEF Strings

LEMMA OneOf ==
  ASSUME NEW q \in Strings, q # <<>>
  PROVE  q[1] \in Token /\ <<q[1]>> \in Strings /\ Len(<<q[1]>>) = 1 /\ 1 \in 1 .. Len(q)
<1>1. Len(q) \in Nat \ {0}
  BY EmptySeq DEF Strings
<1>2. 1 \in 1 .. Len(q)
  BY <1>1
<1>3. q[1] \in Token
  BY <1>2, ElementOfSeq DEF Strings
<1> QED
  BY <1>2, <1>3 DEF Strings

(* What SpecialsMasked takes and gives, as functions.                      *)
OneEach == [q \in Strings |-> 1]
SpecialFor(al) ==
    [q \in Strings |-> IF q[1] \in Special /\ <<q[1]>> \in DOMAIN al THEN al[<<q[1]>>] ELSE <<q[1]>>]
Specials(al) == [s \in Strings |-> SpecialsMasked(al, s)]

LEMMA SpecialsStep ==
  ASSUME NEW al, NEW or, IsMap(al, or)
  PROVE  Stepping(SpecialFor(al), OneEach)
<1> SUFFICES ASSUME NEW q \in Strings, q # <<>>
             PROVE  OneEach[q] \in 1 .. Len(q) /\ SpecialFor(al)[q] \in Strings
  BY DEF Stepping
<1>1. OneEach[q] \in 1 .. Len(q)
  BY OneOf DEF OneEach
<1>2. CASE q[1] \in Special /\ <<q[1]>> \in DOMAIN al
  <2>1. al[<<q[1]>>] \in Kind \X Nat
    BY <1>2 DEF IsMap
  <2> QED
    BY <1>1, <1>2, <2>1, PairsAreTexts DEF SpecialFor
<1>3. CASE ~(q[1] \in Special /\ <<q[1]>> \in DOMAIN al)
  BY <1>1, <1>3, OneOf DEF SpecialFor
<1> QED
  BY <1>2, <1>3

LEMMA SpecialsAreRead ==
  ASSUME NEW al, NEW or, IsMap(al, or)
  PROVE  Reads(Specials(al), SpecialFor(al), OneEach)
<1> DEFINE E == SpecialFor(al)
           C == OneEach
           F == Specials(al)
<1>1. Stepping(E, C)
  BY SpecialsStep
<1>2. ASSUME NEW s \in Strings
      PROVE  \E m : Course(E, C, s, m) /\ F[s] = m[1]
  <2>1. \A i \in 1 .. Len(s) + 1 : Rest(s, i) \in Strings
    BY RestIs
  <2>2. \E m : Unrolled(E, C, s, 1, m)
    BY <1>1, UnrolledExists
  <2> DEFINE P(m) == m = [i \in 1 .. Len(s) + 1 |->
                            IF i > Len(s) THEN <<>>
                            ELSE (IF Rest(s, i)[1] \in Special /\ <<Rest(s, i)[1]>> \in DOMAIN al
                                  THEN al[<<Rest(s, i)[1]>>] ELSE <<Rest(s, i)[1]>>) \o m[i + 1]]
             c == CHOOSE m : P(m)
  <2>3. F[s] = c[1]
    BY DEF Specials, SpecialsMasked, Read, Single
  <2>4. \A m : Unrolled(E, C, s, 1, m) <=> P(m)
    BY <2>1 DEF Unrolled, SpecialFor, OneEach
  <2>5. P(c)
    <3> HIDE DEF P
    <3> QED
      BY <2>2, <2>4
  <2>6. Unrolled(E, C, s, 1, c)
    <3> HIDE DEF P, c
    <3> QED
      BY <2>4, <2>5
  <2> HIDE DEF c, P, E, C, F
  <2>7. Course(E, C, s, c)
    BY <2>6, UnrolledIsCourse
  <2> QED
    BY <2>3, <2>7
<1> HIDE DEF E, C, F
<1>3. Reads(F, E, C)
  BY <1>1, <1>2, ReadsStepByStep
<1> QED
  BY <1>3 DEF E, C, F

(* What NamesMasked takes and gives.                                       *)
NameTaken(al) == [q \in Strings |-> IF Heads(al, q) = {} THEN 1 ELSE Max(Heads(al, q))]
NameFor(al) ==
    [q \in Strings |-> IF Heads(al, q) = {} THEN <<q[1]>> ELSE al[SubSeq(q, 1, Max(Heads(al, q)))]]
Names(al) == [s \in Strings |-> NamesMasked(al, s)]

LEMMA LongestHead ==
  ASSUME NEW al, NEW q \in Strings, Heads(al, q) # {}
  PROVE  /\ Max(Heads(al, q)) \in Heads(al, q)
         /\ \A j \in Heads(al, q) : Max(Heads(al, q)) >= j
<1>1. Heads(al, q) \subseteq Int /\ IsFiniteSet(Heads(al, q))
  <2>1. IsFiniteSet(1 .. Len(q)) /\ 1 .. Len(q) \subseteq Int
    BY FS_Interval DEF Strings
  <2> QED
    BY <2>1, FS_Subset DEF Heads
<1>2. \E c \in Heads(al, q) : \A j \in Heads(al, q) : c >= j
  BY <1>1, ThereIsAGreatest
<1> QED
  BY <1>2 DEF Max

LEMMA HeadIs ==
  ASSUME NEW al, NEW q \in Strings, NEW j \in Heads(al, q)
  PROVE  /\ j \in 1 .. Len(q) /\ j <= Window(al)
         /\ SubSeq(q, 1, j) \in Simple(al) /\ SubSeq(q, 1, j) \in DOMAIN al
BY DEF Heads, Simple

LEMMA NamesStep ==
  ASSUME NEW al, NEW or, IsMap(al, or)
  PROVE  Stepping(NameFor(al), NameTaken(al))
<1> SUFFICES ASSUME NEW q \in Strings, q # <<>>
             PROVE  NameTaken(al)[q] \in 1 .. Len(q) /\ NameFor(al)[q] \in Strings
  BY DEF Stepping
<1>1. CASE Heads(al, q) = {}
  BY <1>1, OneOf DEF NameFor, NameTaken
<1>2. CASE Heads(al, q) # {}
  <2> DEFINE n == Max(Heads(al, q))
  <2>1. n \in Heads(al, q)
    BY <1>2, LongestHead
  <2> HIDE DEF n
  <2>2. n \in 1 .. Len(q) /\ SubSeq(q, 1, n) \in DOMAIN al
    BY <2>1, HeadIs
  <2>3. al[SubSeq(q, 1, n)] \in Strings
    BY <2>2, PairsAreTexts DEF IsMap
  <2> QED
    BY <1>2, <2>2, <2>3 DEF NameFor, NameTaken, n
<1> QED
  BY <1>1, <1>2

LEMMA NamesAreRead ==
  ASSUME NEW al, NEW or, IsMap(al, or)
  PROVE  Reads(Names(al), NameFor(al), NameTaken(al))
<1> DEFINE E == NameFor(al)
           C == NameTaken(al)
           F == Names(al)
<1>1. Stepping(E, C)
  BY NamesStep
<1>2. ASSUME NEW s \in Strings
      PROVE  \E m : Course(E, C, s, m) /\ F[s] = m[1]
  <2>1. \A i \in 1 .. Len(s) + 1 : Rest(s, i) \in Strings
    BY RestIs
  <2>2. \E m : Unrolled(E, C, s, 1, m)
    BY <1>1, UnrolledExists
  <2> DEFINE T(r) == IF Heads(al, r) = {} THEN 1 ELSE Max(Heads(al, r))
             G(r) == IF Heads(al, r) = {} THEN <<r[1]>> ELSE al[SubSeq(r, 1, T(r))]
             P(m) == m = [i \in 1 .. Len(s) + 1 |->
                            IF i > Len(s) THEN <<>>
                            ELSE G(Rest(s, i)) \o m[i + T(Rest(s, i))]]
             c == CHOOSE m : P(m)
  <2>3. F[s] = c[1]
    BY DEF Names, NamesMasked, Read
  <2>4. \A m : Unrolled(E, C, s, 1, m) <=> P(m)
    <3>1. \A r \in Strings : E[r] = G(r) /\ C[r] = T(r)
      BY DEF NameFor, NameTaken
    <3> HIDE DEF E, C, T, G
    <3> QED
      BY <2>1, <3>1 DEF Unrolled
  <2>5. P(c)
    <3> HIDE DEF P
    <3> QED
      BY <2>2, <2>4
  <2>6. Unrolled(E, C, s, 1, c)
    <3> HIDE DEF P, c
    <3> QED
      BY <2>4, <2>5
  <2> HIDE DEF c, P, E, C, F, T, G
  <2>7. Course(E, C, s, c)
    BY <2>6, UnrolledIsCourse
  <2> QED
    BY <2>3, <2>7
<1> HIDE DEF E, C, F
<1>3. Reads(F, E, C)
  BY <1>1, <1>2, ReadsStepByStep
<1> QED
  BY <1>3 DEF E, C, F

(* What Restored takes and gives.                                          *)
Known(or, q) == Len(q) > 1 /\ <<q[1], q[2]>> \in DOMAIN or
AliasTaken(or) == [q \in Strings |-> IF Known(or, q) THEN 2 ELSE 1]
ValueFor(or) == [q \in Strings |-> IF Known(or, q) THEN or[<<q[1], q[2]>>] ELSE <<q[1]>>]
Restores(or) == [s \in Strings |-> Restored(or, s)]

LEMMA RestoreStep ==
  ASSUME NEW al, NEW or, IsMap(al, or)
  PROVE  Stepping(ValueFor(or), AliasTaken(or))
<1> SUFFICES ASSUME NEW q \in Strings, q # <<>>
             PROVE  AliasTaken(or)[q] \in 1 .. Len(q) /\ ValueFor(or)[q] \in Strings
  BY DEF Stepping
<1>1. CASE ~Known(or, q)
  BY <1>1, OneOf DEF ValueFor, AliasTaken
<1>2. CASE Known(or, q)
  <2>1. Len(q) \in Nat /\ Len(q) > 1
    BY <1>2 DEF Known, Strings
  <2>2. or[<<q[1], q[2]>>] \in DOMAIN al
    BY <1>2 DEF Known, IsMap
  <2>3. or[<<q[1], q[2]>>] \in Strings
    BY <2>2, NamesAreTexts
  <2> QED
    BY <1>2, <2>1, <2>3 DEF ValueFor, AliasTaken
<1> QED
  BY <1>1, <1>2

LEMMA RestoredIsRead ==
  ASSUME NEW al, NEW or, IsMap(al, or)
  PROVE  Reads(Restores(or), ValueFor(or), AliasTaken(or))
<1> DEFINE E == ValueFor(or)
           C == AliasTaken(or)
           F == Restores(or)
<1>1. Stepping(E, C)
  BY RestoreStep
<1>2. ASSUME NEW s \in Strings
      PROVE  \E m : Course(E, C, s, m) /\ F[s] = m[1]
  <2>1. \A i \in 1 .. Len(s) + 1 : Rest(s, i) \in Strings
    BY RestIs
  <2>2. \E m : Unrolled(E, C, s, 1, m)
    BY <1>1, UnrolledExists
  <2> DEFINE K(r) == Len(r) > 1 /\ <<r[1], r[2]>> \in DOMAIN or
             T(r) == IF K(r) THEN 2 ELSE 1
             G(r) == IF K(r) THEN or[<<r[1], r[2]>>] ELSE <<r[1]>>
             P(m) == m = [i \in 1 .. Len(s) + 1 |->
                            IF i > Len(s) THEN <<>>
                            ELSE G(Rest(s, i)) \o m[i + T(Rest(s, i))]]
             c == CHOOSE m : P(m)
  <2>3. F[s] = c[1]
    BY DEF Restores, Restored, Read
  <2>4. \A m : Unrolled(E, C, s, 1, m) <=> P(m)
    <3>1. \A r \in Strings : E[r] = G(r) /\ C[r] = T(r)
      BY DEF ValueFor, AliasTaken, Known
    <3> HIDE DEF E, C, T, G
    <3> QED
      BY <2>1, <3>1 DEF Unrolled
  <2>5. P(c)
    <3> HIDE DEF P
    <3> QED
      BY <2>2, <2>4
  <2>6. Unrolled(E, C, s, 1, c)
    <3> HIDE DEF P, c
    <3> QED
      BY <2>4, <2>5
  <2> HIDE DEF c, P, E, C, F, T, G, K
  <2>7. Course(E, C, s, c)
    BY <2>6, UnrolledIsCourse
  <2> QED
    BY <2>3, <2>7
<1> HIDE DEF E, C, F
<1>3. Reads(F, E, C)
  BY <1>1, <1>2, ReadsStepByStep
<1> QED
  BY <1>3 DEF E, C, F

-----------------------------------------------------------------------------
(* What holds of a text when it holds of all that is left of it further on *)
(* holds of every text.                                                    *)
LEMMA BySuffixes ==
  ASSUME NEW Q, <<>> \in Q,
         \A q \in Strings : q # <<>> /\ (\A d \in 2 .. Len(q) + 1 : Rest(q, d) \in Q) => q \in Q
  PROVE  \A s \in Strings : s \in Q
<1> SUFFICES ASSUME NEW s \in Strings, s \notin Q
             PROVE  FALSE
  OBVIOUS
<1> DEFINE Bad == {d \in 1 .. Len(s) + 1 : Rest(s, d) \notin Q}
<1>1. Len(s) \in Nat
  BY DEF Strings
<1>2. Bad \subseteq Int /\ IsFiniteSet(Bad)
  <2>1. IsFiniteSet(1 .. Len(s) + 1)
    BY <1>1, FS_Interval
  <2> QED
    BY <2>1, FS_Subset
<1>3. 1 \in Bad
  BY <1>1, RestOfAll
<1>4. PICK d \in Bad : \A e \in Bad : d >= e
  <2> HIDE DEF Bad
  <2> QED
    BY <1>2, <1>3, ThereIsAGreatest
<1>5. d \in 1 .. Len(s) + 1 /\ Rest(s, d) \notin Q /\ d \in Nat
  BY <1>1
<1> DEFINE q == Rest(s, d)
<1>6. q \in Strings /\ q # <<>> /\ Len(q) = Len(s) - d + 1
  BY <1>5, RestIs
<1>7. ASSUME NEW e \in 2 .. Len(q) + 1
      PROVE  Rest(q, e) \in Q
  <2> DEFINE g == d + e - 1
  <2>1. e \in 1 .. Len(s) - d + 2 /\ e \in Nat
    BY <1>1, <1>5, <1>6
  <2>2. Rest(q, e) = Rest(s, g) /\ g \in 1 .. Len(s) + 1
    BY <1>5, <2>1, RestOfRest
  <2>3. g > d
    BY <1>5, <2>1
  <2> HIDE DEF g, q
  <2>4. g \notin Bad
    <3> HIDE DEF Bad
    <3> QED
      BY <1>2, <1>4, <1>5, <2>2, <2>3
  <2> QED
    BY <2>2, <2>4
<1> HIDE DEF q
<1>8. q \in Q
  BY <1>6, <1>7
<1> QED
  BY <1>5, <1>8 DEF q

LEMMA RestOfConcat ==
  ASSUME NEW a \in Strings, NEW b \in Strings
  PROVE  /\ a \o b \in Strings /\ Len(a \o b) = Len(a) + Len(b)
         /\ Len(a) + 1 \in 1 .. Len(a \o b) + 1 /\ Rest(a \o b, Len(a) + 1) = b
         /\ \A i \in 1 .. Len(a) : (a \o b)[i] = a[i]
         /\ \A i \in 1 .. Len(b) : (a \o b)[Len(a) + i] = b[i]
<1> DEFINE c == a \o b
           n == Len(a) + 1
<1>1. Len(a) \in Nat /\ Len(b) \in Nat
  BY DEF Strings
<1>2. /\ c \in Strings /\ Len(c) = Len(a) + Len(b)
      /\ \A i \in 1 .. Len(a) + Len(b) : c[i] = IF i <= Len(a) THEN a[i] ELSE b[i - Len(a)]
  BY ConcatProperties DEF Strings
<1> HIDE DEF c
<1>3. \A i \in 1 .. Len(a) : c[i] = a[i]
  <2> TAKE i \in 1 .. Len(a)
  <2>1. i \in 1 .. Len(a) + Len(b) /\ i <= Len(a)
    BY <1>1
  <2> QED
    BY <1>2, <2>1
<1>4. \A i \in 1 .. Len(b) : c[Len(a) + i] = b[i]
  <2> TAKE i \in 1 .. Len(b)
  <2>1. Len(a) + i \in 1 .. Len(a) + Len(b) /\ ~(Len(a) + i <= Len(a))
        /\ (Len(a) + i) - Len(a) = i
    BY <1>1
  <2> QED
    BY <1>2, <2>1
<1>5. n \in 1 .. Len(c) + 1 /\ Len(c) - n + 1 = Len(b)
  BY <1>1, <1>2
<1> HIDE DEF n
<1>6. /\ Rest(c, n) \in Strings /\ Len(Rest(c, n)) = Len(b)
      /\ \A i \in 1 .. Len(b) : Rest(c, n)[i] = c[n + i - 1]
  BY <1>2, <1>5, RestIs
<1>7. \A i \in 1 .. Len(Rest(c, n)) : Rest(c, n)[i] = b[i]
  <2> TAKE i \in 1 .. Len(Rest(c, n))
  <2>1. i \in 1 .. Len(b) /\ n + i - 1 = Len(a) + i
    BY <1>1, <1>6 DEF n
  <2> QED
    BY <1>4, <1>6, <2>1
<1>8. Rest(c, n) = b
  BY <1>6, <1>7, SeqEqual DEF Strings
<1> QED
  BY <1>2, <1>3, <1>4, <1>5, <1>8 DEF c, n

LEMMA SplitAt ==
  ASSUME NEW s \in Strings, NEW j \in 0 .. Len(s)
  PROVE  /\ SubSeq(s, 1, j) \in Strings /\ Len(SubSeq(s, 1, j)) = j
         /\ \A i \in 1 .. j : SubSeq(s, 1, j)[i] = s[i]
         /\ j + 1 \in 1 .. Len(s) + 1 /\ Rest(s, j + 1) \in Strings
         /\ s = SubSeq(s, 1, j) \o Rest(s, j + 1)
<1>1. Len(s) \in Nat /\ j \in Nat /\ 1 \in 1 .. Len(s) + 1 /\ j \in 1 - 1 .. Len(s)
      /\ Len(s) \in j .. Len(s)
  BY DEF Strings
<1>2. SubSeq(s, 1, j) \o SubSeq(s, j + 1, Len(s)) = SubSeq(s, 1, Len(s))
  BY <1>1, ConcatAdjacentSubSeq DEF Strings
<1>3. SubSeq(s, 1, Len(s)) = s
  BY SubSeqFull DEF Strings
<1>4. \A i \in 1 .. j : s[i] \in Token
  BY <1>1, ElementOfSeq DEF Strings
<1>5. 1 \in Int /\ j \in Int
  BY <1>1
<1>6. /\ SubSeq(s, 1, j) \in Strings /\ Len(SubSeq(s, 1, j)) = IF 1 <= j THEN j - 1 + 1 ELSE 0
      /\ \A i \in 1 .. j - 1 + 1 : SubSeq(s, 1, j)[i] = s[1 + i - 1]
  BY <1>4, <1>5, SubSeqProperties DEF Strings
<1>7. /\ Len(SubSeq(s, 1, j)) = j
      /\ \A i \in 1 .. j : SubSeq(s, 1, j)[i] = s[i]
  <2>1. ASSUME NEW i \in 1 .. j PROVE SubSeq(s, 1, j)[i] = s[i]
    <3>1. i \in 1 .. j - 1 + 1 /\ 1 + i - 1 = i
      BY <1>1
    <3> QED
      BY <1>6, <3>1
  <2> QED
    BY <1>1, <1>6, <2>1
<1>8. j + 1 \in 1 .. Len(s) + 1
  BY <1>1
<1>9. Rest(s, j + 1) \in Strings
  BY <1>8, RestIs
<1> QED
  BY <1>2, <1>3, <1>6, <1>7, <1>8, <1>9 DEF Rest

-----------------------------------------------------------------------------
(* A masking reading gives an alias of D, or leaves one piece as it is.    *)
Masks(F, E, C, D) ==
    /\ Stepping(E, C) /\ Reads(F, E, C) /\ D \subseteq Kind \X Nat
    /\ \A q \in Strings : q # <<>> => E[q] \in D \/ (E[q] = <<q[1]>> /\ C[q] = 1)

(* How a step of it goes on.                                               *)
LEMMA MaskStep ==
  ASSUME NEW F, NEW E, NEW C, NEW D, Masks(F, E, C, D), NEW q \in Strings, q # <<>>
  PROVE  /\ C[q] \in 1 .. Len(q) /\ C[q] + 1 \in 2 .. Len(q) + 1
         /\ Rest(q, C[q] + 1) \in Strings /\ F[Rest(q, C[q] + 1)] \in Strings
         /\ E[q] \in Strings /\ F[q] \in Strings
<1>1. C[q] \in 1 .. Len(q) /\ E[q] \in Strings /\ Len(q) \in Nat
  BY DEF Masks, Stepping, Strings
<1>2. C[q] + 1 \in 2 .. Len(q) + 1 /\ C[q] + 1 \in 1 .. Len(q) + 1
  BY <1>1
<1>3. Rest(q, C[q] + 1) \in Strings
  BY <1>2, RestIs
<1> QED
  BY <1>1, <1>2, <1>3 DEF Masks, Reads

LEMMA FirstPiece ==
  ASSUME NEW F, NEW E, NEW C, NEW D, Masks(F, E, C, D), NEW q \in Strings, q # <<>>
  PROVE  Len(F[q]) > 0 /\ (F[q][1] \in Kind \/ F[q][1] = q[1])
<1> DEFINE x == F[Rest(q, C[q] + 1)]
<1>0. E[q] \in Strings /\ x \in Strings
  BY MaskStep
<1>1. E[q] \in Strings /\ x \in Strings /\ F[q] = E[q] \o x
  BY <1>0 DEF Masks, Reads
<1> HIDE DEF x
<1>2. Len(E[q]) > 0 /\ (E[q][1] \in Kind \/ E[q][1] = q[1])
  <2>1. CASE E[q] \in D
    <3>1. E[q] \in Kind \X Nat
      BY <2>1 DEF Masks
    <3> QED
      BY <3>1, PairsAreTexts
  <2>2. CASE E[q] = <<q[1]>>
    BY <2>2
  <2> QED
    BY <2>1, <2>2 DEF Masks
<1>3. Len(E[q]) \in Nat /\ Len(x) \in Nat
  BY <1>1 DEF Strings
<1>4. Len(F[q]) = Len(E[q]) + Len(x) /\ \A i \in 1 .. Len(E[q]) : F[q][i] = E[q][i]
  BY <1>1, RestOfConcat
<1>5. 1 \in 1 .. Len(E[q])
  BY <1>2, <1>3
<1> QED
  BY <1>2, <1>3, <1>4, <1>5

(* Where a name goes on that no alias can be part of, a piece is left as   *)
(* it is.                                                                  *)
LEMMA PlainStep ==
  ASSUME NEW F, NEW E, NEW C, NEW D, Masks(F, E, C, D),
         NEW v \in Strings, ~Lookalike(v), NEW i \in 1 .. Len(v), NEW q \in Strings,
         Len(F[q]) >= Len(v) - i + 1, \A x \in 1 .. Len(v) - i + 1 : F[q][x] = v[i + x - 1]
  PROVE  /\ q # <<>> /\ q[1] = v[i] /\ E[q] \notin D /\ E[q] = <<q[1]>> /\ C[q] = 1
         /\ F[q] = <<q[1]>> \o F[Rest(q, 2)]
<1>1. Len(v) \in Nat /\ i \in Nat /\ 1 \in 1 .. Len(v) - i + 1 /\ i + 1 - 1 = i
  BY DEF Strings
<1>2. F[q] \in Strings
  BY DEF Masks, Reads
<1>3. q # <<>>
  <2>1. F[<<>>] = <<>> /\ Len(<<>>) = 0
    BY DEF Masks, Reads
  <2>2. Len(F[q]) > 0
    BY <1>1, <1>2 DEF Strings
  <2> QED
    BY <2>1, <2>2
<1>4. F[q][1] = v[i]
  BY <1>1
<1> DEFINE x == F[Rest(q, C[q] + 1)]
<1>0. E[q] \in Strings /\ x \in Strings
  BY <1>3, MaskStep
<1>5. E[q] \in Strings /\ x \in Strings /\ F[q] = E[q] \o x
  BY <1>0, <1>3 DEF Masks, Reads
<1> HIDE DEF x
<1>6. \A j \in 1 .. Len(E[q]) : F[q][j] = E[q][j]
  BY <1>5, RestOfConcat
<1>7. E[q] \notin D
  <2> SUFFICES ASSUME E[q] \in D
               PROVE  FALSE
    OBVIOUS
  <2>1. E[q] \in Kind \X Nat
    BY DEF Masks
  <2>2. Len(E[q]) = 2 /\ E[q][1] \in Kind /\ E[q][2] \in Nat
    BY <2>1, PairsAreTexts
  <2>3. v[i] \in Kind
    BY <1>4, <1>6, <2>2
  <2>4. i # Len(v)
    BY <2>3 DEF Lookalike
  <2>5. 2 \in 1 .. Len(v) - i + 1 /\ i + 2 - 1 = i + 1 /\ i \in 1 .. Len(v) - 1
    BY <1>1, <2>4
  <2>6. F[q][2] = v[i + 1]
    BY <2>5
  <2>7. v[i + 1] \in Nat
    BY <1>6, <2>2, <2>6
  <2> QED
    BY <2>3, <2>5, <2>7 DEF Lookalike, HoldsAlias
<1>8. E[q] = <<q[1]>> /\ C[q] = 1
  BY <1>3, <1>7 DEF Masks
<1>9. q[1] = v[i]
  <2>1. 1 \in 1 .. Len(E[q]) /\ E[q][1] = q[1]
    BY <1>8
  <2> QED
    BY <1>4, <1>6, <2>1
<1>10. F[q] = <<q[1]>> \o F[Rest(q, 2)]
  <2>1. C[q] + 1 = 2
    BY <1>8
  <2> QED
    BY <1>5, <1>8, <2>1 DEF x
<1> QED
  BY <1>3, <1>7, <1>8, <1>9, <1>10

(* A name that no alias can be part of stands in a masked text where it    *)
(* stood before.                                                           *)
LEMMA PlainPrefix ==
  ASSUME NEW F, NEW E, NEW C, NEW D, Masks(F, E, C, D),
         NEW v \in Strings, ~Lookalike(v), NEW q \in Strings,
         Len(v) <= Len(F[q]), \A x \in 1 .. Len(v) : F[q][x] = v[x]
  PROVE  /\ Len(v) <= Len(q) /\ SubSeq(q, 1, Len(v)) = v
         /\ F[q] = v \o F[Rest(q, Len(v) + 1)]
<1> DEFINE Holds(j) == /\ j <= Len(q) /\ SubSeq(q, 1, j) = SubSeq(v, 1, j)
                       /\ F[q] = SubSeq(v, 1, j) \o F[Rest(q, j + 1)]
           Bad == {j \in 0 .. Len(v) : ~Holds(j)}
<1>1. Len(v) \in Nat /\ Len(q) \in Nat /\ F[q] \in Strings
  BY DEF Strings, Masks, Reads
<1>2. Bad \subseteq Int /\ IsFiniteSet(Bad)
  <2>1. IsFiniteSet(0 .. Len(v)) /\ 0 .. Len(v) \subseteq Int
    BY <1>1, FS_Interval
  <2> QED
    BY <2>1, FS_Subset
<1>3. Holds(0)
  <2>1. SubSeq(q, 1, 0) = <<>> /\ SubSeq(v, 1, 0) = <<>>
    BY SubSeqEmpty
  <2>2. Rest(q, 0 + 1) = q
    BY RestOfAll
  <2>3. <<>> \o F[q] = F[q]
    BY <1>1, ConcatEmptySeq DEF Strings
  <2>4. 0 <= Len(q) /\ SubSeq(q, 1, 0) = SubSeq(v, 1, 0)
    BY <1>1, <2>1
  <2>5. F[q] = SubSeq(v, 1, 0) \o F[Rest(q, 0 + 1)]
    BY <2>1, <2>2, <2>3
  <2> QED
    BY <2>4, <2>5
<1>4. ASSUME NEW j \in 0 .. Len(v), j # Len(v), Holds(j)
      PROVE  Holds(j + 1)
  <2> DEFINE r == Rest(q, j + 1)
             i == j + 1
             w == SubSeq(v, 1, j)
  <2>1. j \in Nat /\ i \in Nat /\ i \in 1 .. Len(v) /\ j \in 0 .. Len(q)
    BY <1>1, <1>4
  <2>2. /\ r \in Strings /\ Len(r) = Len(q) - j
    <3>1. j + 1 \in 1 .. Len(q) + 1 /\ Len(q) - (j + 1) + 1 = Len(q) - j
      BY <1>1, <2>1
    <3> QED
      BY <3>1, RestIs
  <2>3. w \in Strings /\ Len(w) = j /\ \A x \in 1 .. j : w[x] = v[x]
    BY <1>1, <2>1, SplitAt
  <2>4. F[r] \in Strings
    BY <2>2 DEF Masks, Reads
  <2>5. F[q] = w \o F[r] /\ SubSeq(q, 1, j) = w
    BY <1>4
  <2> HIDE DEF r, w, Holds
  <2>6. /\ Len(F[q]) = j + Len(F[r])
        /\ \A x \in 1 .. Len(F[r]) : F[q][j + x] = F[r][x]
    <3> DEFINE y == F[r]
    <3>1. w \in Strings /\ y \in Strings /\ F[q] = w \o y
      BY <2>3, <2>4, <2>5
    <3> HIDE DEF y
    <3>2. Len(w \o y) = Len(w) + Len(y) /\ \A x \in 1 .. Len(y) : (w \o y)[Len(w) + x] = y[x]
      BY ONLY <3>1, RestOfConcat
    <3>3. Len(F[q]) = j + Len(y) /\ \A x \in 1 .. Len(y) : F[q][j + x] = y[x]
      BY <2>3, <3>1, <3>2
    <3> QED
      BY <3>3 DEF y
  <2>7. Len(F[r]) \in Nat /\ Len(F[r]) >= Len(v) - i + 1
    <3>1. Len(F[r]) \in Nat /\ Len(F[q]) \in Nat
      BY <1>1, <2>4 DEF Strings
    <3> QED
      BY <1>1, <2>1, <2>6, <3>1
  <2>8. ASSUME NEW x \in 1 .. Len(v) - i + 1
        PROVE  F[r][x] = v[i + x - 1]
    <3>1. x \in 1 .. Len(F[r]) /\ j + x = i + x - 1 /\ j + x \in 1 .. Len(v)
      BY <1>1, <2>1, <2>7
    <3> HIDE DEF i
    <3>2. F[q][j + x] = v[j + x]
      BY <3>1
    <3> QED
      BY <2>6, <3>1, <3>2
  <2> HIDE DEF i
  <2>9. r # <<>> /\ r[1] = v[i] /\ F[r] = <<r[1]>> \o F[Rest(r, 2)]
    BY <2>1, <2>2, <2>7, <2>8, PlainStep
  <2>10. Len(r) > 0
    BY <2>2, <2>9, EmptySeq DEF Strings
  <2>11. i \in 1 .. Len(q) /\ Rest(r, 2) = Rest(q, i + 1) /\ r[1] = q[i] /\ Rest(r, 2) \in Strings
    <3>1. i \in 1 .. Len(q) /\ 2 \in 1 .. Len(q) - i + 2 /\ i \in 1 .. Len(q) + 1
          /\ 1 \in 1 .. Len(q) - i + 1 /\ i + 1 - 1 = i /\ i + 2 - 1 = i + 1
      BY <1>1, <2>1, <2>2, <2>10 DEF i
    <3>2. Rest(r, 2) = Rest(q, i + 1) /\ 2 \in 1 .. Len(r) + 1
      BY <3>1, RestOfRest DEF r, i
    <3>3. r[1] = q[i]
      BY <3>1, RestIs DEF r, i
    <3> QED
      BY <2>2, <3>1, <3>2, <3>3, RestIs
  <2>12. SubSeq(q, 1, i) = SubSeq(q, 1, j) \o <<q[i]>> /\ SubSeq(v, 1, i) = SubSeq(v, 1, j) \o <<v[i]>>
    <3>1. i - 1 = j /\ 1 \in 1 .. Len(q) /\ 1 \in 1 .. Len(v)
      BY <1>1, <2>1, <2>11 DEF i
    <3> QED
      BY <2>1, <2>11, <3>1, SubSeqRecursiveSecond DEF Strings
  <2>13. SubSeq(q, 1, i) = SubSeq(v, 1, i) /\ SubSeq(v, 1, i) = w \o <<r[1]>>
    BY <2>5, <2>9, <2>11, <2>12 DEF w
  <2>14. F[q] = (w \o <<r[1]>>) \o F[Rest(r, 2)]
    <3> DEFINE y == F[Rest(r, 2)]
               o == <<r[1]>>
    <3>1. y \in Strings /\ o \in Strings
      BY <2>2, <2>9, <2>11, OneOf DEF Masks, Reads
    <3>2. F[q] = w \o F[r] /\ F[r] = o \o y
      BY <2>5, <2>9
    <3> HIDE DEF y, o
    <3>3. (w \o o) \o y = w \o (o \o y)
      <4>1. w \in Seq(Token) /\ o \in Seq(Token) /\ y \in Seq(Token)
        BY <2>3, <3>1 DEF Strings
      <4> QED
        BY ONLY <4>1, ConcatAssociative
    <3>4. F[q] = (w \o o) \o y
      BY <3>2, <3>3
    <3> QED
      BY <3>4 DEF y, o
  <2>15. i <= Len(q) /\ SubSeq(q, 1, i) = SubSeq(v, 1, i)
         /\ F[q] = SubSeq(v, 1, i) \o F[Rest(q, i + 1)]
    <3>1. F[q] = SubSeq(v, 1, i) \o F[Rest(r, 2)]
      BY <2>13, <2>14
    <3>2. i <= Len(q)
      BY <1>1, <2>11
    <3> QED
      BY <2>11, <2>13, <3>1, <3>2
  <2> QED
    BY <2>15 DEF Holds, i
<1>5. ASSUME Bad # {} PROVE FALSE
  <2>1. PICK b \in Bad : \A j \in Bad : b <= j
    <3> HIDE DEF Bad
    <3> QED
      BY <1>2, <1>5, ThereIsALeast
  <2>2. b \in 0 .. Len(v) /\ ~Holds(b) /\ b # 0
    BY <1>3
  <2> DEFINE a == b - 1
  <2>3. a \in 0 .. Len(v) /\ a # Len(v) /\ a + 1 = b /\ a < b
    BY <1>1, <2>2
  <2> HIDE DEF a
  <2>4. Holds(a)
    <3>1. a \notin Bad
      <4> HIDE DEF Bad
      <4> QED
        BY <1>1, <2>1, <2>2, <2>3
    <3> QED
      BY <2>3, <3>1
  <2> HIDE DEF Holds
  <2> QED
    BY <1>4, <2>2, <2>3, <2>4
<1>6. Holds(Len(v))
  <2>1. Len(v) \in 0 .. Len(v)
    BY <1>1
  <2> HIDE DEF Holds
  <2> QED
    BY <1>5, <2>1
<1>7. SubSeq(v, 1, Len(v)) = v
  BY SubSeqFull DEF Strings
<1> QED
  BY <1>6, <1>7

-----------------------------------------------------------------------------
(* Both readings of text() mask.                                           *)
LEMMA SpecialsMask ==
  ASSUME NEW al, NEW or, IsMap(al, or)
  PROVE  Masks(Specials(al), SpecialFor(al), OneEach, DOMAIN or)
<1>1. ASSUME NEW q \in Strings, q # <<>>
      PROVE  SpecialFor(al)[q] \in DOMAIN or \/ (SpecialFor(al)[q] = <<q[1]>> /\ OneEach[q] = 1)
  <2>1. CASE q[1] \in Special /\ <<q[1]>> \in DOMAIN al
    BY <2>1 DEF SpecialFor, IsMap
  <2>2. CASE ~(q[1] \in Special /\ <<q[1]>> \in DOMAIN al)
    BY <2>2 DEF SpecialFor, OneEach
  <2> QED
    BY <2>1, <2>2
<1>2. DOMAIN or \subseteq Kind \X Nat
  BY DEF IsMap
<1>3. Stepping(SpecialFor(al), OneEach) /\ Reads(Specials(al), SpecialFor(al), OneEach)
  BY SpecialsStep, SpecialsAreRead
<1> QED
  BY <1>1, <1>2, <1>3 DEF Masks

LEMMA NameIsMasked ==
  ASSUME NEW al, NEW or, IsMap(al, or), NEW q \in Strings, Heads(al, q) # {}
  PROVE  NameFor(al)[q] \in DOMAIN or
<1> DEFINE n == Max(Heads(al, q))
<1>1. n \in Heads(al, q)
  BY LongestHead
<1> HIDE DEF n
<1>2. SubSeq(q, 1, n) \in DOMAIN al
  BY <1>1, HeadIs
<1>3. al[SubSeq(q, 1, n)] \in DOMAIN or
  BY <1>2 DEF IsMap
<1> QED
  BY <1>3 DEF NameFor, n

LEMMA NamesMask ==
  ASSUME NEW al, NEW or, IsMap(al, or)
  PROVE  Masks(Names(al), NameFor(al), NameTaken(al), DOMAIN or)
<1>1. ASSUME NEW q \in Strings, q # <<>>
      PROVE  NameFor(al)[q] \in DOMAIN or \/ (NameFor(al)[q] = <<q[1]>> /\ NameTaken(al)[q] = 1)
  <2>1. CASE Heads(al, q) # {}
    BY <2>1, NameIsMasked
  <2>2. CASE Heads(al, q) = {}
    BY <2>2 DEF NameFor, NameTaken
  <2> QED
    BY <2>1, <2>2
<1>2. DOMAIN or \subseteq Kind \X Nat
  BY DEF IsMap
<1>3. Stepping(NameFor(al), NameTaken(al)) /\ Reads(Names(al), NameFor(al), NameTaken(al))
  BY NamesStep, NamesAreRead
<1> QED
  BY <1>1, <1>2, <1>3 DEF Masks

(* The window is as long as the longest name.                              *)
LEMMA NamesFitTheWindow ==
  ASSUME NEW al, NEW or, IsMap(al, or), NEW v \in Simple(al)
  PROVE  Len(v) <= Window(al)
<1> DEFINE L == {Len(w) : w \in Simple(al)}
<1>1. \A w \in Simple(al) : w \in DOMAIN al /\ Len(w) \in Nat \ {0}
  BY NamesAreTexts DEF Simple
<1>2. IsFiniteSet(Simple(al))
  BY FS_Subset DEF Simple, IsMap
<1>3. L \subseteq Int /\ L # {} /\ IsFiniteSet(L)
  <2> DEFINE f == [w \in Simple(al) |-> Len(w)]
  <2>1. {f[w] : w \in Simple(al)} = L
    OBVIOUS
  <2> HIDE DEF f
  <2>2. IsFiniteSet({f[w] : w \in Simple(al)})
    BY <1>2, ImagesAreFinite
  <2>3. L \subseteq Int
    BY <1>1
  <2>4. Len(v) \in L
    OBVIOUS
  <2> HIDE DEF L
  <2> QED
    BY <2>1, <2>2, <2>3, <2>4
<1> HIDE DEF L
<1>4. \E c \in L : \A j \in L : c >= j
  BY <1>3, ThereIsAGreatest
<1>5. Max(L) \in L /\ \A j \in L : Max(L) >= j
  BY <1>4 DEF Max
<1>6. Len(v) \in L /\ Len(v) \in Nat \ {0} /\ Max(L) \in Int
  BY <1>1, <1>3, <1>5 DEF L
<1>7. Window(al) = 2 * Max(L) - 1
  BY DEF Window, L
<1> DEFINE n == Max(L)
           l == Len(v)
<1>8. n >= l /\ l \in Nat \ {0} /\ n \in Int /\ Window(al) = 2 * n - 1
  BY <1>5, <1>6, <1>7
<1> HIDE DEF n, l
<1>9. l <= 2 * n - 1
  BY <1>8
<1> QED
  BY <1>8, <1>9 DEF l

(* No masked text begins with a name that no alias can be part of.         *)
LEMMA NoNameComesFirst ==
  ASSUME NEW al, NEW or, IsMap(al, or), NEW v \in Simple(al), ~Lookalike(v), NEW q \in Strings,
         Len(v) <= Len(Names(al)[q]), \A x \in 1 .. Len(v) : Names(al)[q][x] = v[x]
  PROVE  FALSE
<1> DEFINE F == Names(al)
           E == NameFor(al)
           C == NameTaken(al)
           D == DOMAIN or
<1>1. Masks(F, E, C, D)
  BY NamesMask
<1>2. v \in Strings /\ Len(v) \in Nat \ {0} /\ 1 \in 1 .. Len(v)
  <2>1. v \in DOMAIN al
    BY DEF Simple
  <2>2. v \in Strings /\ Len(v) \in Nat \ {0}
    BY <2>1, NamesAreTexts
  <2> QED
    BY <2>2
<1>3. Len(v) <= Len(F[q]) /\ \A x \in 1 .. Len(v) : F[q][x] = v[x]
  OBVIOUS
<1>4. ASSUME NEW x \in 1 .. Len(v) - 1 + 1 PROVE F[q][x] = v[1 + x - 1]
  <2>1. x \in 1 .. Len(v) /\ 1 + x - 1 = x
    BY <1>2
  <2> QED
    BY <1>3, <2>1
<1>5. Len(F[q]) >= Len(v) - 1 + 1
  <2>1. F[q] \in Strings
    BY <1>1 DEF Masks, Reads
  <2>2. Len(F[q]) \in Nat
    BY <2>1 DEF Strings
  <2> QED
    BY <1>2, <1>3, <2>2
<1> HIDE DEF F, E, C, D
<1>6. E[q] \notin D
  BY <1>1, <1>2, <1>4, <1>5, PlainStep
<1>7. Len(v) <= Len(q) /\ SubSeq(q, 1, Len(v)) = v
  BY <1>1, <1>2, <1>3, PlainPrefix
<1>8. Len(v) \in Heads(al, q)
  <2>1. Len(v) \in 1 .. Len(q)
    BY <1>2, <1>7 DEF Strings
  <2> QED
    BY <1>7, <2>1, NamesFitTheWindow DEF Heads
<1>9. E[q] \in D
  BY <1>8, NameIsMasked DEF E, D
<1> QED
  BY <1>6, <1>9

(* A masked text goes on as one, but for what follows the first half of an *)
(* alias.                                                                  *)
LEMMA PlacesOf ==
  ASSUME NEW F, NEW E, NEW C, NEW D, Masks(F, E, C, D)
  PROVE  \A s \in Strings : \A i \in 1 .. Len(F[s]) :
            F[s][i] \in Nat \/ \E q \in Strings : Rest(F[s], i) = F[q]
<1> DEFINE Fits(s) == \A i \in 1 .. Len(F[s]) :
                         F[s][i] \in Nat \/ \E q \in Strings : Rest(F[s], i) = F[q]
           Q == {s \in Strings : Fits(s)}
<1>1. <<>> \in Q
  <2>1. F[<<>>] = <<>> /\ <<>> \in Strings
    BY DEF Masks, Reads, Strings
  <2>2. Fits(<<>>)
    BY <2>1
  <2> QED
    BY <2>1, <2>2
<1>2. ASSUME NEW s \in Strings, s # <<>>, \A d \in 2 .. Len(s) + 1 : Rest(s, d) \in Q
      PROVE  s \in Q
  <2> DEFINE r == Rest(s, C[s] + 1)
             y == F[r]
             e == E[s]
             x == F[s]
  <2>1. r \in Q /\ r \in Strings /\ y \in Strings /\ e \in Strings /\ x \in Strings
    BY <1>2, MaskStep
  <2>2. x = e \o y
    BY <1>2 DEF Masks, Reads
  <2>3. Fits(r)
    BY <2>1
  <2>4. \A i \in 1 .. Len(y) : y[i] \in Nat \/ \E q \in Strings : Rest(y, i) = F[q]
    BY <2>3
  <2> HIDE DEF Q, Fits
  <2>5. e \in D \/ Len(e) = 1
    <3>1. e \in D \/ e = <<s[1]>>
      BY <1>2 DEF Masks
    <3>2. Len(<<s[1]>>) = 1
      OBVIOUS
    <3> HIDE DEF e
    <3> QED
      BY <3>1, <3>2
  <2> HIDE DEF r, y, e, x
  <2>6. /\ Len(x) = Len(e) + Len(y) /\ Len(e) + 1 \in 1 .. Len(x) + 1 /\ Rest(x, Len(e) + 1) = y
        /\ \A i \in 1 .. Len(e) : x[i] = e[i]
        /\ \A i \in 1 .. Len(y) : x[Len(e) + i] = y[i]
    BY <2>1, <2>2, RestOfConcat
  <2>7. Len(x) \in Nat /\ Len(e) \in Nat /\ Len(y) \in Nat
    BY <2>1 DEF Strings
  <2>8. ASSUME NEW i \in 1 .. Len(x)
        PROVE  x[i] \in Nat \/ \E q \in Strings : Rest(x, i) = F[q]
    <3>1. CASE i = 1
      <4>1. Rest(x, i) = F[s]
        BY <2>1, <3>1, RestOfAll DEF x
      <4> QED
        BY <4>1
    <3>2. CASE i # 1 /\ i <= Len(e)
      <4>0. Len(e) # 1
        <5> DEFINE l == Len(e)
        <5>1. l \in Nat /\ i \in Nat /\ i >= 1 /\ i <= l /\ i # 1
          BY <2>7, <3>2
        <5> HIDE DEF l
        <5>2. l # 1
          BY <5>1
        <5> QED
          BY <5>2 DEF l
      <4>1. e \in Kind \X Nat
        BY <2>5, <4>0 DEF Masks
      <4>2. Len(e) = 2 /\ e[2] \in Nat
        BY <4>1, PairsAreTexts
      <4>3. i = 2 /\ 2 \in 1 .. Len(e)
        BY <3>2, <4>2
      <4> QED
        BY <2>6, <4>2, <4>3
    <3>3. CASE i > Len(e)
      <4> DEFINE j == i - Len(e)
      <4>1. j \in 1 .. Len(y) /\ Len(e) + j = i /\ (Len(e) + 1) + j - 1 = i
        BY <2>6, <2>7, <3>3
      <4>2. j \in 1 .. Len(x) - (Len(e) + 1) + 2
        BY <2>6, <2>7, <4>1
      <4> HIDE DEF j
      <4>3. x[i] = y[j]
        BY <2>6, <4>1
      <4>4. Rest(Rest(x, Len(e) + 1), j) = Rest(x, (Len(e) + 1) + j - 1)
        BY <2>1, <2>6, <4>2, RestOfRest
      <4>5. Rest(y, j) = Rest(x, i)
        BY <2>6, <4>1, <4>4
      <4> QED
        BY <2>4, <4>1, <4>3, <4>5
    <3> QED
      BY <2>7, <3>1, <3>2, <3>3
  <2>9. Fits(s)
    BY <2>8 DEF Fits, x
  <2> QED
    BY <2>9 DEF Q
<1>3. \A s \in Strings : s \in Q
  <2> HIDE DEF Q, Fits
  <2> QED
    BY <1>1, <1>2, BySuffixes
<1> QED
  BY <1>3

(* Every piece of a masked text is one of an alias, or one of the text     *)
(* that was left as it is.                                                 *)
ComesFrom(p, E, D, s) ==
    \/ \E a \in D : p \in {a[1], a[2]}
    \/ \E j \in 1 .. Len(s), q \in Strings :
          p = s[j] /\ q # <<>> /\ q[1] = s[j] /\ E[q] = <<q[1]>>

LEMMA PiecesOf ==
  ASSUME NEW F, NEW E, NEW C, NEW D, Masks(F, E, C, D),
         NEW t \in Strings, NEW z \in 1 .. Len(F[t])
  PROVE  ComesFrom(F[t][z], E, D, t)
<1> DEFINE Left(p, s) == \E j \in 1 .. Len(s), q \in Strings :
                            p = s[j] /\ q # <<>> /\ q[1] = s[j] /\ E[q] = <<q[1]>>
           Made(p) == \E a \in D : p \in {a[1], a[2]}
           Fits(s) == \A i \in 1 .. Len(F[s]) : Made(F[s][i]) \/ Left(F[s][i], s)
           Q == {s \in Strings : Fits(s)}
<1>1. <<>> \in Q
  <2>1. F[<<>>] = <<>> /\ <<>> \in Strings
    BY DEF Masks, Reads, Strings
  <2>2. Fits(<<>>)
    BY <2>1
  <2> QED
    BY <2>1, <2>2
<1>2. ASSUME NEW s \in Strings, s # <<>>, \A d \in 2 .. Len(s) + 1 : Rest(s, d) \in Q
      PROVE  s \in Q
  <2> DEFINE c == C[s] + 1
             r == Rest(s, c)
             y == F[r]
             e == E[s]
             x == F[s]
  <2>1. r \in Q /\ r \in Strings /\ y \in Strings /\ e \in Strings /\ x \in Strings /\ c \in 2 .. Len(s) + 1
    BY <1>2, MaskStep
  <2>2. x = e \o y
    BY <1>2 DEF Masks, Reads
  <2>3. Fits(r)
    BY <2>1
  <2> HIDE DEF Q, Left
  <2>4. \A i \in 1 .. Len(y) : Made(y[i]) \/ Left(y[i], r)
    BY <2>3
  <2>5. e \in D \/ e = <<s[1]>>
    BY <1>2 DEF Masks
  <2>6. ASSUME NEW p, Left(p, r) PROVE Left(p, s)
    <3>1. PICK j \in 1 .. Len(r), q \in Strings :
             p = r[j] /\ q # <<>> /\ q[1] = r[j] /\ E[q] = <<q[1]>>
      BY <2>6 DEF Left
    <3>2. Len(s) \in Nat /\ c \in Nat /\ c \in 1 .. Len(s) + 1
      BY <2>1 DEF Strings
    <3> HIDE DEF c
    <3>3. Len(r) = Len(s) - c + 1 /\ \A x_1 \in 1 .. Len(s) - c + 1 : r[x_1] = s[c + x_1 - 1]
      BY <3>2, RestIs
    <3> DEFINE k == c + j - 1
    <3>5. j \in 1 .. Len(s) - c + 1
      BY <3>3
    <3>6. r[j] = s[c + j - 1]
      BY <3>3, <3>5
    <3>7. k \in 1 .. Len(s)
      BY <3>2, <3>5
    <3>4. k \in 1 .. Len(s) /\ r[j] = s[k]
      BY <3>6, <3>7
    <3> HIDE DEF k
    <3> QED
      BY <3>1, <3>4 DEF Left
  <2>7. e = <<s[1]>> => Left(s[1], s)
    <3>1. 1 \in 1 .. Len(s)
      BY <1>2, OneOf
    <3> QED
      BY <1>2, <3>1 DEF Left, e
  <2> HIDE DEF r, y, e, x, Fits
  <2>8. /\ Len(x) = Len(e) + Len(y)
        /\ \A i \in 1 .. Len(e) : x[i] = e[i]
        /\ \A i \in 1 .. Len(y) : x[Len(e) + i] = y[i]
    BY <2>1, <2>2, RestOfConcat
  <2>9. Len(x) \in Nat /\ Len(e) \in Nat /\ Len(y) \in Nat
    BY <2>1 DEF Strings
  <2>10. ASSUME NEW i \in 1 .. Len(x)
         PROVE  Made(x[i]) \/ Left(x[i], s)
    <3>1. CASE i <= Len(e)
      <4>1. x[i] = e[i] /\ i \in 1 .. Len(e)
        BY <2>8, <2>9, <3>1
      <4>2. CASE e \in D
        <5>1. e \in Kind \X Nat
          BY <4>2 DEF Masks
        <5>2. Len(e) = 2
          BY <5>1, PairsAreTexts
        <5>3. i = 1 \/ i = 2
          BY <4>1, <5>2
        <5> QED
          BY <4>1, <4>2, <5>3
      <4>3. CASE e = <<s[1]>>
        <5>1. i = 1 /\ e[1] = s[1]
          BY <4>1, <4>3
        <5> QED
          BY <2>7, <4>1, <4>3, <5>1
      <4> QED
        BY <2>5, <4>2, <4>3
    <3>2. CASE i > Len(e)
      <4> DEFINE j == i - Len(e)
      <4>1. j \in 1 .. Len(y) /\ Len(e) + j = i
        BY <2>8, <2>9, <3>2
      <4> HIDE DEF j
      <4>2. x[i] = y[j]
        BY <2>8, <4>1
      <4> HIDE DEF Made
      <4> QED
        BY <2>4, <2>6, <4>1, <4>2
    <3> QED
      BY <2>9, <3>1, <3>2
  <2>11. Fits(s)
    <3> HIDE DEF Made
    <3> QED
      BY <2>10 DEF Fits, x
  <2> QED
    BY <2>11 DEF Q
<1>3. \A s \in Strings : s \in Q
  <2> HIDE DEF Q, Fits
  <2> QED
    BY <1>1, <1>2, BySuffixes
<1> QED
  BY <1>3 DEF ComesFrom

(* What a masked text holds, name by name and piece by piece.              *)
LEMMA MaskedReads ==
  ASSUME NEW al, NEW or, IsMap(al, or), NEW t \in Strings
  PROVE  /\ Specials(al)[t] \in Strings /\ Masked(al, t) = Names(al)[Specials(al)[t]]
         /\ Masked(al, t) \in Strings
<1>1. Specials(al)[t] \in Strings /\ Specials(al)[t] = SpecialsMasked(al, t)
  BY SpecialsMask DEF Masks, Reads, Specials
<1>2. Masked(al, t) = Names(al)[Specials(al)[t]]
  BY <1>1 DEF Masked, Names
<1>3. Names(al)[Specials(al)[t]] \in Strings
  BY <1>1, NamesMask DEF Masks, Reads
<1> QED
  BY <1>1, <1>2, <1>3

MadeOrLeft(p, al, or, t) ==
    \/ \E a \in DOMAIN or : p \in {a[1], a[2]}
    \/ (\E j \in 1 .. Len(t) : p = t[j]) /\ ~(p \in Special /\ <<p>> \in DOMAIN al)

LEMMA PiecesOfMasked ==
  ASSUME NEW al, NEW or, IsMap(al, or), NEW t \in Strings, NEW i \in 1 .. Len(Masked(al, t))
  PROVE  MadeOrLeft(Masked(al, t)[i], al, or, t)
<1> DEFINE u == Specials(al)[t]
           p == Masked(al, t)[i]
           Made(x) == \E a \in DOMAIN or : x \in {a[1], a[2]}
<1>1. u \in Strings /\ Masked(al, t) = Names(al)[u]
  BY MaskedReads
<1> HIDE DEF u
<1>2. Made(p) \/ \E j \in 1 .. Len(u) : p = u[j]
  <2>1. Masks(Names(al), NameFor(al), NameTaken(al), DOMAIN or)
    BY NamesMask
  <2>2. i \in 1 .. Len(Names(al)[u])
    BY <1>1
  <2>3. \/ \E a \in DOMAIN or : Names(al)[u][i] \in {a[1], a[2]}
        \/ \E j \in 1 .. Len(u), q \in Strings :
              Names(al)[u][i] = u[j] /\ q # <<>> /\ q[1] = u[j] /\ NameFor(al)[q] = <<q[1]>>
    <3> DEFINE F == Names(al)
               E == NameFor(al)
               C == NameTaken(al)
               D == DOMAIN or
    <3>1. Masks(F, E, C, D) /\ u \in Strings /\ i \in 1 .. Len(F[u])
      BY <1>1, <2>1, <2>2
    <3> HIDE DEF F, E, C, D
    <3>2. ComesFrom(F[u][i], E, D, u)
      BY ONLY <3>1, PiecesOf
    <3> QED
      BY <3>2 DEF F, E, D, ComesFrom
  <2> QED
    BY <1>1, <2>3
<1>3. ASSUME NEW j \in 1 .. Len(u)
      PROVE  \/ Made(u[j])
             \/ (\E k \in 1 .. Len(t) : u[j] = t[k]) /\ ~(u[j] \in Special /\ <<u[j]>> \in DOMAIN al)
  <2>1. Masks(Specials(al), SpecialFor(al), OneEach, DOMAIN or)
    BY SpecialsMask
  <2>2. \/ \E a \in DOMAIN or : u[j] \in {a[1], a[2]}
        \/ \E k \in 1 .. Len(t), q \in Strings :
              u[j] = t[k] /\ q # <<>> /\ q[1] = t[k] /\ SpecialFor(al)[q] = <<q[1]>>
    <3> DEFINE F == Specials(al)
               E == SpecialFor(al)
               D == DOMAIN or
    <3>1. Masks(F, E, OneEach, D) /\ t \in Strings /\ j \in 1 .. Len(F[t]) /\ u = F[t]
      BY <2>1 DEF u
    <3> HIDE DEF F, E, D
    <3>2. ComesFrom(F[t][j], E, D, t)
      BY ONLY <3>1, PiecesOf
    <3> QED
      BY <3>1, <3>2 DEF E, D, ComesFrom
  <2>3. ASSUME NEW k \in 1 .. Len(t), NEW q \in Strings,
               u[j] = t[k] /\ q # <<>> /\ q[1] = t[k] /\ SpecialFor(al)[q] = <<q[1]>>
        PROVE  ~(u[j] \in Special /\ <<u[j]>> \in DOMAIN al)
    <3> SUFFICES ASSUME q[1] \in Special, <<q[1]>> \in DOMAIN al
                 PROVE  FALSE
      BY <2>3
    <3>1. SpecialFor(al)[q] = al[<<q[1]>>] /\ al[<<q[1]>>] \in Kind \X Nat
      BY DEF SpecialFor, IsMap
    <3>2. Len(SpecialFor(al)[q]) = 2
      BY <3>1, PairsAreTexts
    <3>3. Len(<<q[1]>>) = 1
      OBVIOUS
    <3> QED
      BY <2>3, <3>2, <3>3
  <2> QED
    BY <2>2, <2>3
<1> QED
  BY <1>2, <1>3 DEF MadeOrLeft

(* No name that no alias can be part of is left in a masked text.          *)
LEMMA NoPlainNameIsLeft ==
  ASSUME NEW al, NEW or, IsMap(al, or), NEW v \in DOMAIN al, NEW t \in Strings,
         Occurs(v, Masked(al, t))
  PROVE  Lookalike(v)
<1> SUFFICES ASSUME ~Lookalike(v)
             PROVE  FALSE
  OBVIOUS
<1> DEFINE x == Masked(al, t)
           u == Specials(al)[t]
<1>1. v \in Strings /\ Len(v) \in Nat \ {0}
  BY NamesAreTexts
<1>2. x \in Strings /\ u \in Strings /\ x = Names(al)[u]
  BY MaskedReads
<1>3. PICK i \in DOMAIN x : i + Len(v) - 1 <= Len(x) /\ SubSeq(x, i, i + Len(v) - 1) = v
  BY DEF Occurs
<1> HIDE DEF x, u
<1>4. i \in 1 .. Len(x) /\ Len(x) \in Nat /\ i \in Nat
  BY <1>2 DEF Strings
<1> DEFINE l == Len(v)
           n == i + l - 1
<1>5. l \in Nat \ {0} /\ n \in Int /\ i \in Int /\ n <= Len(x) /\ n - i + 1 = l
  BY <1>1, <1>3, <1>4
<1>6. \A k \in 1 .. l : x[i + k - 1] = v[k]
  <2>1. \A k \in i .. n : x[k] \in Token
    <3> TAKE k \in i .. n
    <3>1. k \in 1 .. Len(x)
      BY <1>4, <1>5
    <3> QED
      BY <1>2, <3>1, ElementOfSeq DEF Strings
  <2>2. SubSeq(x, i, n) = v
    BY <1>3
  <2> HIDE DEF n, l
  <2>3. \A k \in 1 .. n - i + 1 : SubSeq(x, i, n)[k] = x[i + k - 1]
    BY <1>5, <2>1, SubSeqProperties
  <2> QED
    BY <1>5, <2>2, <2>3
<1>7. x[i] = v[1] /\ 1 \in 1 .. l
  <2>1. 1 \in 1 .. l /\ i + 1 - 1 = i
    BY <1>4, <1>5
  <2> QED
    BY <1>6, <2>1
<1>8. CASE v \in Simple(al)
  <2>1. x[i] \notin Nat
    BY <1>7 DEF Lookalike
  <2>2. x[i] \in Nat \/ \E q \in Strings : Rest(x, i) = Names(al)[q]
    <3>1. Masks(Names(al), NameFor(al), NameTaken(al), DOMAIN or)
      BY NamesMask
    <3> QED
      BY <1>2, <1>4, <3>1, PlacesOf
  <2>3. PICK q \in Strings : Rest(x, i) = Names(al)[q]
    BY <2>1, <2>2
  <2>4. Len(Rest(x, i)) = Len(x) - i + 1 /\ \A k \in 1 .. Len(x) - i + 1 : Rest(x, i)[k] = x[i + k - 1]
    <3>1. i \in 1 .. Len(x) + 1
      BY <1>4
    <3> QED
      BY <1>2, <3>1, RestIs
  <2>5. Len(v) <= Len(Rest(x, i))
    BY <1>4, <1>5, <2>4
  <2>6. \A k \in 1 .. Len(v) : Rest(x, i)[k] = v[k]
    <3> TAKE k \in 1 .. Len(v)
    <3>1. k \in 1 .. Len(x) - i + 1 /\ k \in 1 .. l
      BY <1>4, <1>5
    <3> QED
      BY <1>6, <2>4, <3>1
  <2> QED
    BY <1>8, <2>3, <2>5, <2>6, NoNameComesFirst
<1>9. CASE v \notin Simple(al)
  <2>1. PICK k \in DOMAIN v : v[k] \in Special
    BY <1>9 DEF Simple
  <2>2. v \in Value
    BY DEF IsMap
  <2>3. ~(Len(v) > 1)
    BY <2>1, <2>2, MaskerAssumption
  <2>4. Len(v) = 1
    <3> HIDE DEF n
    <3>1. l \in Nat \ {0} /\ ~(l > 1)
      BY <1>1, <2>3
    <3> HIDE DEF l
    <3>2. l = 1
      BY <3>1
    <3> QED
      BY <3>2 DEF l
  <2>5. v = <<v[1]>> /\ DOMAIN v = 1 .. 1
    BY <1>1, <2>4 DEF Strings
  <2>6. v[1] \in Special
    BY <2>1, <2>5
  <2>7. v[1] \in Special /\ <<v[1]>> \in DOMAIN al
    BY <2>5, <2>6
  <2>8. \E a \in DOMAIN or : x[i] \in {a[1], a[2]}
    BY <1>4, <1>7, <2>7, PiecesOfMasked DEF x, MadeOrLeft
  <2>9. PICK a \in DOMAIN or : v[1] \in {a[1], a[2]}
    BY <1>7, <2>8
  <2>10. a \in Kind \X Nat
    BY DEF IsMap
  <2>11. v[1] \in Kind \cup Nat
    BY <2>9, <2>10
  <2> QED
    BY <2>6, <2>11, MaskerAssumption
<1> QED
  BY <1>8, <1>9

-----------------------------------------------------------------------------
(* Reading back.  A text is read on behind its first pieces.               *)
Joins(x, a, b) == x = a \o b

LEMMA JoinsInTwo ==
  ASSUME NEW a \in Strings, NEW b \in Strings, NEW y \in Strings, NEW x, NEW z,
         Joins(x, a, z), Joins(z, b, y)
  PROVE  Joins(x, a \o b, y)
<1>1. (a \o b) \o y = a \o (b \o y)
  BY ConcatAssociative DEF Strings
<1> QED
  BY <1>1 DEF Joins

LEMMA NamesGoOn ==
  ASSUME NEW al, NEW or, IsMap(al, or), NEW q \in Strings, q # <<>>, Heads(al, q) = {}
  PROVE  Joins(Names(al)[q], <<q[1]>>, Names(al)[Rest(q, 2)])
<1> DEFINE F == Names(al)
           E == NameFor(al)
           C == NameTaken(al)
<1>1. Reads(F, E, C)
  BY NamesAreRead
<1>2. E[q] = <<q[1]>> /\ C[q] + 1 = 2
  BY DEF NameFor, NameTaken
<1> HIDE DEF F, E, C
<1>3. F[q] = E[q] \o F[Rest(q, C[q] + 1)]
  BY <1>1 DEF Reads
<1>4. F[q] = <<q[1]>> \o F[Rest(q, 2)]
  BY <1>2, <1>3
<1> QED
  BY <1>4 DEF Joins, F

LEMMA NamesTakeOne ==
  ASSUME NEW al, NEW or, IsMap(al, or), NEW q \in Strings, q # <<>>, Heads(al, q) # {},
         NEW n, n = Max(Heads(al, q))
  PROVE  Joins(Names(al)[q], al[SubSeq(q, 1, n)], Names(al)[Rest(q, n + 1)])
<1> DEFINE F == Names(al)
           E == NameFor(al)
           C == NameTaken(al)
<1>1. Reads(F, E, C)
  BY NamesAreRead
<1>2. E[q] = al[SubSeq(q, 1, n)] /\ C[q] = n
  BY DEF NameFor, NameTaken
<1> HIDE DEF F, E, C
<1>3. F[q] = E[q] \o F[Rest(q, C[q] + 1)]
  BY <1>1 DEF Reads
<1>4. F[q] = al[SubSeq(q, 1, n)] \o F[Rest(q, n + 1)]
  BY <1>2, <1>3
<1> QED
  BY <1>4 DEF Joins, F

LEMMA RestoreGoesOn ==
  ASSUME NEW al, NEW or, IsMap(al, or), NEW q \in Strings, q # <<>>, ~Known(or, q)
  PROVE  Joins(Restores(or)[q], <<q[1]>>, Restores(or)[Rest(q, 2)])
<1> DEFINE F == Restores(or)
           E == ValueFor(or)
           C == AliasTaken(or)
<1>1. Reads(F, E, C)
  BY RestoredIsRead
<1>2. E[q] = <<q[1]>> /\ C[q] + 1 = 2
  BY DEF ValueFor, AliasTaken
<1> HIDE DEF F, E, C
<1>3. F[q] = E[q] \o F[Rest(q, C[q] + 1)]
  BY <1>1 DEF Reads
<1>4. F[q] = <<q[1]>> \o F[Rest(q, 2)]
  BY <1>2, <1>3
<1> QED
  BY <1>4 DEF Joins, F

LEMMA RestoreTakesAnAlias ==
  ASSUME NEW al, NEW or, IsMap(al, or), NEW a \in DOMAIN or, NEW r \in Strings,
         NEW q, Joins(q, a, r)
  PROVE  Joins(Restores(or)[q], or[a], Restores(or)[r])
<1> DEFINE F == Restores(or)
           E == ValueFor(or)
           C == AliasTaken(or)
<1>1. Reads(F, E, C)
  BY RestoredIsRead
<1>2. a \in Kind \X Nat
  BY DEF IsMap
<1>3. a \in Strings /\ Len(a) = 2 /\ a = <<a[1], a[2]>>
  BY <1>2, PairsAreTexts
<1>4. /\ q \in Strings /\ Len(q) = Len(a) + Len(r)
      /\ Rest(q, Len(a) + 1) = r /\ \A i \in 1 .. Len(a) : q[i] = a[i]
  BY <1>3, RestOfConcat DEF Joins
<1>5. q[1] = a[1] /\ q[2] = a[2] /\ Rest(q, 3) = r /\ Len(q) > 1 /\ q # <<>>
  <2>1. Len(r) \in Nat /\ Len(a) + 1 = 3 /\ 1 \in 1 .. Len(a) /\ 2 \in 1 .. Len(a)
    BY <1>3 DEF Strings
  <2>2. Len(q) > 1
    BY <1>3, <1>4, <2>1
  <2>3. q # <<>>
    BY <2>2
  <2> QED
    BY <1>4, <2>1, <2>2, <2>3
<1>6. Known(or, q)
  BY <1>3, <1>5 DEF Known
<1>7. E[q] = or[a] /\ C[q] + 1 = 3
  <2>1. E[q] = or[<<q[1], q[2]>>] /\ C[q] = 2
    BY <1>4, <1>6 DEF ValueFor, AliasTaken
  <2> QED
    BY <1>3, <1>5, <2>1
<1> HIDE DEF F, E, C
<1>8. F[q] = E[q] \o F[Rest(q, C[q] + 1)]
  BY <1>1, <1>4, <1>5 DEF Reads
<1>9. F[q] = or[a] \o F[r]
  BY <1>5, <1>7, <1>8
<1> QED
  BY <1>9 DEF Joins, F

(* No name begins in the middle of an alias, unless it looks like one.     *)
LEMMA NamesPassAliases ==
  ASSUME NEW al, NEW or, IsMap(al, or), \A v \in DOMAIN al : ~Lookalike(v),
         NEW a \in DOMAIN or, NEW r \in Strings, NEW q, Joins(q, a, r)
  PROVE  Joins(Names(al)[q], a, Names(al)[r])
<1>1. a \in Kind \X Nat
  BY DEF IsMap
<1>2. /\ a \in Strings /\ Len(a) = 2 /\ a[1] \in Kind /\ a[2] \in Nat /\ a = <<a[1], a[2]>>
  BY <1>1, PairsAreTexts
<1>3. /\ q \in Strings /\ Len(q) = Len(a) + Len(r)
      /\ Rest(q, Len(a) + 1) = r /\ \A i \in 1 .. Len(a) : q[i] = a[i]
  BY <1>2, RestOfConcat DEF Joins
<1>4. Len(r) \in Nat /\ Len(q) = 2 + Len(r)
  BY <1>2, <1>3 DEF Strings
<1>5. q[1] = a[1] /\ q[2] = a[2] /\ Rest(q, 3) = r /\ q # <<>>
  <2>1. Len(a) + 1 = 3 /\ 1 \in 1 .. Len(a) /\ 2 \in 1 .. Len(a)
    BY <1>2
  <2>2. q # <<>>
    BY <1>4
  <2> QED
    BY <1>3, <2>1, <2>2
<1> DEFINE p == Rest(q, 2)
<1>6. /\ p \in Strings /\ p[1] = a[2] /\ p # <<>> /\ Rest(p, 2) = r
  <2>1. 2 \in 1 .. Len(q) + 1 /\ 1 \in 1 .. Len(q) - 2 + 1 /\ 2 \in 1 .. Len(q) - 2 + 2
        /\ 2 + 1 - 1 = 2 /\ 2 + 2 - 1 = 3 /\ Len(q) - 2 + 1 > 0
    BY <1>4
  <2>2. p \in Strings /\ Len(p) = Len(q) - 2 + 1 /\ \A j \in 1 .. Len(q) - 2 + 1 : p[j] = q[2 + j - 1]
    BY <1>3, <2>1, RestIs
  <2>3. p[1] = q[2 + 1 - 1]
    BY <2>1, <2>2
  <2>4. p # <<>>
    BY <2>1, <2>2
  <2>5. Rest(p, 2) = Rest(q, 2 + 2 - 1)
    BY <1>3, <2>1, RestOfRest
  <2> QED
    BY <1>5, <2>1, <2>2, <2>3, <2>4, <2>5
<1> HIDE DEF p
<1>7. ASSUME NEW w \in Strings, NEW j \in Heads(al, w)
      PROVE  LET v == SubSeq(w, 1, j)
             IN  /\ v \in DOMAIN al /\ ~Lookalike(v) /\ Len(v) = j /\ j \in Nat \ {0}
                 /\ \A i \in 1 .. j : v[i] = w[i]
  <2>1. j \in 1 .. Len(w) /\ SubSeq(w, 1, j) \in DOMAIN al
    BY HeadIs
  <2>2. j \in 0 .. Len(w) /\ j \in Nat \ {0}
    BY <2>1 DEF Strings
  <2>3. Len(SubSeq(w, 1, j)) = j /\ \A i \in 1 .. j : SubSeq(w, 1, j)[i] = w[i]
    BY <2>2, SplitAt
  <2> QED
    BY <2>1, <2>2, <2>3
<1>8. Heads(al, q) = {}
  <2> SUFFICES ASSUME NEW j \in Heads(al, q)
               PROVE  FALSE
    OBVIOUS
  <2> DEFINE v == SubSeq(q, 1, j)
  <2>1. /\ v \in DOMAIN al /\ ~Lookalike(v) /\ Len(v) = j /\ j \in Nat \ {0}
        /\ \A i \in 1 .. j : v[i] = q[i]
    BY <1>3, <1>7
  <2> HIDE DEF v
  <2>2. v[1] \in Kind
    BY <1>2, <1>5, <2>1
  <2>3. j # 1
    BY <2>1, <2>2 DEF Lookalike
  <2>4. 2 \in 1 .. j /\ 1 \in 1 .. Len(v) - 1
    BY <2>1, <2>3
  <2>5. v[2] \in Nat
    BY <1>2, <1>5, <2>1, <2>4
  <2>6. v[1 + 1] \in Nat
    BY <2>5
  <2> QED
    BY <2>1, <2>2, <2>4, <2>6 DEF Lookalike, HoldsAlias
<1>9. Heads(al, p) = {}
  <2> SUFFICES ASSUME NEW j \in Heads(al, p)
               PROVE  FALSE
    OBVIOUS
  <2> DEFINE v == SubSeq(p, 1, j)
  <2>1. /\ v \in DOMAIN al /\ ~Lookalike(v) /\ Len(v) = j /\ j \in Nat \ {0}
        /\ \A i \in 1 .. j : v[i] = p[i]
    BY <1>6, <1>7
  <2> HIDE DEF v
  <2>2. v[1] \in Nat
    BY <1>2, <1>6, <2>1
  <2> QED
    BY <2>1, <2>2 DEF Lookalike
<1>10. Joins(Names(al)[q], <<a[1]>>, Names(al)[p])
  BY <1>3, <1>5, <1>8, NamesGoOn DEF p
<1>11. Joins(Names(al)[p], <<a[2]>>, Names(al)[r])
  BY <1>6, <1>9, NamesGoOn
<1>12. Names(al)[r] \in Strings
  BY NamesAreRead DEF Reads
<1>13. <<a[1]>> \in Strings /\ <<a[2]>> \in Strings /\ <<a[1]>> \o <<a[2]>> = a
  BY <1>2 DEF Strings, Token
<1>14. Joins(Names(al)[q], <<a[1]>> \o <<a[2]>>, Names(al)[r])
  BY <1>10, <1>11, <1>12, <1>13, JoinsInTwo
<1> QED
  BY <1>13, <1>14

LEMMA FirstAndRest ==
  ASSUME NEW q \in Strings, q # <<>>
  PROVE  /\ Joins(q, <<q[1]>>, Rest(q, 2)) /\ Rest(q, 2) \in Strings
         /\ 2 \in 2 .. Len(q) + 1 /\ Len(Rest(q, 2)) = Len(q) - 1
<1>1. 1 \in 1 .. Len(q) /\ Len(q) \in Nat
  BY OneOf DEF Strings
<1>2. 1 \in 0 .. Len(q) /\ 1 \in 1 .. 1 /\ 1 + 1 = 2 /\ 2 \in 1 .. Len(q) + 1 /\ 2 \in 2 .. Len(q) + 1
  BY <1>1
<1>3. /\ SubSeq(q, 1, 1) \in Strings /\ Len(SubSeq(q, 1, 1)) = 1 /\ SubSeq(q, 1, 1)[1] = q[1]
      /\ q = SubSeq(q, 1, 1) \o Rest(q, 2)
  BY <1>2, SplitAt
<1>4. SubSeq(q, 1, 1) = <<q[1]>>
  <2>1. <<q[1]>> \in Strings /\ Len(<<q[1]>>) = 1
    BY OneOf
  <2>2. \A i \in 1 .. Len(SubSeq(q, 1, 1)) : SubSeq(q, 1, 1)[i] = <<q[1]>>[i]
    BY <1>3
  <2> QED
    BY <1>3, <2>1, <2>2, SeqEqual DEF Strings
<1>5. Rest(q, 2) \in Strings /\ Len(Rest(q, 2)) = Len(q) - 2 + 1
  BY <1>2, RestIs
<1> QED
  BY <1>1, <1>2, <1>3, <1>4, <1>5 DEF Joins

LEMMA JoinedRest ==
  ASSUME NEW a \in Strings, NEW b \in Strings, NEW x, Joins(x, a, b)
  PROVE  /\ x \in Strings /\ Len(x) = Len(a) + Len(b) /\ Rest(x, Len(a) + 1) = b
         /\ \A i \in 1 .. Len(a) : x[i] = a[i]
         /\ \A i \in 1 .. Len(b) : x[Len(a) + i] = b[i]
BY RestOfConcat DEF Joins

LEMMA NoAliasFurtherOn ==
  ASSUME NEW q \in Strings, ~HoldsAlias(q), NEW d \in 1 .. Len(q) + 1
  PROVE  ~HoldsAlias(Rest(q, d))
<1> SUFFICES ASSUME HoldsAlias(Rest(q, d))
             PROVE  FALSE
  OBVIOUS
<1> DEFINE r == Rest(q, d)
<1>1. r \in Strings /\ Len(q) \in Nat /\ d \in Nat /\ Len(r) = Len(q) - d + 1
      /\ \A j \in 1 .. Len(q) - d + 1 : r[j] = q[d + j - 1]
  BY RestIs
<1>2. PICK i \in 1 .. Len(r) - 1 : r[i] \in Kind /\ r[i + 1] \in Nat
  BY DEF HoldsAlias
<1> HIDE DEF r
<1> DEFINE k == d + i - 1
<1>3. /\ i \in 1 .. Len(q) - d + 1 /\ i + 1 \in 1 .. Len(q) - d + 1
      /\ d + (i + 1) - 1 = k + 1 /\ k \in 1 .. Len(q) - 1
  BY <1>1, <1>2
<1>4. r[i] = q[k] /\ r[i + 1] = q[d + (i + 1) - 1]
  BY <1>1, <1>3
<1> HIDE DEF k
<1>5. q[k] \in Kind /\ q[k + 1] \in Nat
  BY <1>2, <1>3, <1>4
<1> QED
  BY <1>3, <1>5 DEF HoldsAlias

(* A text without aliases comes back from its masked form.                 *)
LEMMA ReadBack ==
  ASSUME NEW al, NEW or, IsMap(al, or), \A v \in DOMAIN al : ~Lookalike(v)
  PROVE  \A t \in Strings : ~HoldsAlias(t) => Restores(or)[Names(al)[Specials(al)[t]]] = t
<1> DEFINE S == Specials(al)
           N == Names(al)
           R == Restores(or)
           D == DOMAIN or
           Q == {t \in Strings : ~HoldsAlias(t) => R[N[S[t]]] = t}
<1>1. /\ Masks(S, SpecialFor(al), OneEach, D)
      /\ Masks(N, NameFor(al), NameTaken(al), D)
      /\ Reads(R, ValueFor(or), AliasTaken(or))
  BY SpecialsMask, NamesMask, RestoredIsRead
<1>2. /\ S[<<>>] = <<>> /\ N[<<>>] = <<>> /\ R[<<>>] = <<>>
      /\ \A t \in Strings : S[t] \in Strings /\ N[t] \in Strings /\ R[t] \in Strings
  <2> HIDE DEF S, N, R, D
  <2> QED
    BY <1>1 DEF Masks, Reads
<1>3. <<>> \in Q
  <2>1. <<>> \in Strings
    BY DEF Strings
  <2> HIDE DEF S, N, R, D
  <2> QED
    BY <1>2, <2>1
<1>4. ASSUME NEW q \in Strings, q # <<>>, \A d \in 2 .. Len(q) + 1 : Rest(q, d) \in Q,
             ~HoldsAlias(q)
      PROVE  R[N[S[q]]] = q
  <2> DEFINE w == Rest(q, 2)
             u == S[q]
             y == N[S[w]]
  <2>1. /\ w \in Strings /\ Joins(q, <<q[1]>>, w) /\ 2 \in 2 .. Len(q) + 1 /\ Len(w) = Len(q) - 1
        /\ Len(q) \in Nat /\ 1 \in 1 .. Len(q) /\ <<q[1]>> \in Strings
    <3>1. w \in Strings /\ Joins(q, <<q[1]>>, w) /\ 2 \in 2 .. Len(q) + 1 /\ Len(w) = Len(q) - 1
      BY <1>4, FirstAndRest
    <3>2. 1 \in 1 .. Len(q) /\ <<q[1]>> \in Strings
      BY <1>4, OneOf
    <3>3. Len(q) \in Nat
      BY <1>4 DEF Strings
    <3> QED
      BY <3>1, <3>2, <3>3
  <2>2. ASSUME NEW d \in 2 .. Len(q) + 1
        PROVE  R[N[S[Rest(q, d)]]] = Rest(q, d)
    <3>1. Rest(q, d) \in Q /\ d \in 1 .. Len(q) + 1
      BY <1>4, <2>1
    <3>2. ~HoldsAlias(Rest(q, d))
      BY <1>4, <3>1, NoAliasFurtherOn
    <3> HIDE DEF S, N, R
    <3> QED
      BY <3>1, <3>2
  <2>3. R[y] = w
    BY <2>1, <2>2
  <2>4. Joins(u, SpecialFor(al)[q], S[w])
    <3>1. OneEach[q] + 1 = 2
      BY DEF OneEach
    <3> DEFINE e == SpecialFor(al)
    <3> HIDE DEF S, e
    <3>2. S[q] = e[q] \o S[Rest(q, OneEach[q] + 1)]
      BY <1>1, <1>4 DEF Masks, Reads, e
    <3> QED
      BY <3>1, <3>2 DEF Joins, e
  <2>5. u \in Strings /\ S[w] \in Strings /\ y \in Strings /\ N[u] \in Strings
    <3> HIDE DEF S, N
    <3> QED
      BY <1>2, <1>4, <2>1
  <2> HIDE DEF Q, w, u, y
  <2>6. CASE q[1] \in Special /\ <<q[1]>> \in DOMAIN al
    <3> DEFINE a == al[<<q[1]>>]
    <3>1. SpecialFor(al)[q] = a /\ a \in DOMAIN or /\ or[a] = <<q[1]>>
      BY <2>6 DEF SpecialFor, IsMap
    <3> HIDE DEF a
    <3>2. Joins(u, a, S[w])
      BY <2>4, <3>1
    <3>3. Joins(N[u], a, y)
      BY <2>5, <3>1, <3>2, NamesPassAliases DEF y
    <3>4. Joins(R[N[u]], or[a], R[y])
      BY <2>5, <3>1, <3>3, RestoreTakesAnAlias
    <3>5. Joins(R[N[u]], <<q[1]>>, w)
      BY <2>3, <3>1, <3>4
    <3> QED
      BY <2>1, <3>5 DEF Joins, u
  <2>7. CASE ~(q[1] \in Special /\ <<q[1]>> \in DOMAIN al)
    <3>1. Joins(u, <<q[1]>>, S[w])
      BY <2>4, <2>7 DEF SpecialFor
    <3>2. Len(<<q[1]>>) = 1 /\ Len(<<q[1]>>) + 1 = 2 /\ 1 \in 1 .. Len(<<q[1]>>) /\ <<q[1]>>[1] = q[1]
      OBVIOUS
    <3>3. u[1] = q[1] /\ Rest(u, 2) = S[w] /\ Len(u) = 1 + Len(S[w]) /\ u # <<>>
      <4>1. /\ Len(u) = Len(<<q[1]>>) + Len(S[w]) /\ Rest(u, Len(<<q[1]>>) + 1) = S[w]
            /\ \A i \in 1 .. Len(<<q[1]>>) : u[i] = <<q[1]>>[i]
        BY <2>1, <2>5, <3>1, JoinedRest
      <4>2. Len(S[w]) \in Nat
        BY <2>5 DEF Strings
      <4>3. u # <<>>
        BY <3>2, <4>1, <4>2
      <4> QED
        BY <3>2, <4>1, <4>3
    <3>4. CASE Heads(al, u) = {}
      <4> DEFINE x == N[u]
      <4>1. Joins(x, <<q[1]>>, y)
        <5>1. Joins(N[u], <<u[1]>>, N[Rest(u, 2)])
          BY <2>5, <3>3, <3>4, NamesGoOn
        <5> QED
          BY <3>3, <5>1 DEF y
      <4>2. /\ x \in Strings /\ Len(x) = 1 + Len(y) /\ Rest(x, 2) = y /\ x[1] = q[1]
            /\ \A i \in 1 .. Len(y) : x[1 + i] = y[i]
        <5> HIDE DEF x
        <5>1. /\ x \in Strings /\ Len(x) = Len(<<q[1]>>) + Len(y) /\ Rest(x, Len(<<q[1]>>) + 1) = y
              /\ \A i \in 1 .. Len(<<q[1]>>) : x[i] = <<q[1]>>[i]
              /\ \A i \in 1 .. Len(y) : x[Len(<<q[1]>>) + i] = y[i]
          BY <2>1, <2>5, <4>1, JoinedRest
        <5> QED
          BY <3>2, <5>1
      <4> HIDE DEF x
      <4>3. Len(y) \in Nat /\ x # <<>>
        <5>1. Len(y) \in Nat
          BY <2>5 DEF Strings
        <5> QED
          BY <4>2, <5>1
      <4>4. ~Known(or, x)
        <5> SUFFICES ASSUME Len(x) > 1, <<x[1], x[2]>> \in DOMAIN or
                     PROVE  FALSE
          BY DEF Known
        <5>1. x[1] \in Kind /\ x[2] \in Nat
          <6>1. <<x[1], x[2]>> \in Kind \X Nat
            BY DEF IsMap
          <6> QED
            BY <6>1
        <5>2. 1 \in 1 .. Len(y) /\ 1 + 1 = 2
          BY <4>2, <4>3
        <5>3. y[1] \in Nat
          BY <4>2, <5>1, <5>2
        <5>4. w # <<>>
          <6>1. y # <<>>
            BY <5>2
          <6> QED
            BY <1>2, <6>1 DEF y
        <5>5. Len(S[w]) > 0 /\ (S[w][1] \in Kind \/ S[w][1] = w[1])
          BY <1>1, <2>1, <5>4, FirstPiece
        <5>6. S[w] # <<>>
          BY <5>5
        <5>7. y[1] \in Kind \/ y[1] = S[w][1]
          BY <1>1, <2>5, <5>6, FirstPiece DEF y
        <5>8. w[1] \in Nat
          BY <5>3, <5>5, <5>7, MaskerAssumption
        <5>9. Len(w) > 0 /\ Len(w) \in Nat
          BY <2>1, <5>4, EmptySeq DEF Strings
        <5>10. 2 \in 1 .. Len(q) + 1 /\ 1 \in 1 .. Len(q) - 2 + 1 /\ 2 + 1 - 1 = 2
               /\ 1 \in 1 .. Len(q) - 1
          BY <2>1, <5>9
        <5>11. w[1] = q[2]
          BY <5>10, RestIs DEF w
        <5>12. q[1] \in Kind /\ q[1 + 1] \in Nat
          BY <4>2, <5>1, <5>2, <5>8, <5>11
        <5> QED
          BY <1>4, <5>10, <5>12 DEF HoldsAlias
      <4>5. Joins(R[x], <<x[1]>>, R[Rest(x, 2)])
        BY <4>2, <4>3, <4>4, RestoreGoesOn
      <4>6. Joins(R[x], <<q[1]>>, w)
        BY <2>3, <4>2, <4>5
      <4> QED
        BY <2>1, <4>6 DEF Joins, u, x
    <3>5. CASE Heads(al, u) # {}
      <4> DEFINE n == Max(Heads(al, u))
                 v == SubSeq(u, 1, n)
                 r == Rest(q, n + 1)
      <4>1. n \in Heads(al, u)
        BY <2>5, <3>5, LongestHead
      <4>2. Joins(N[u], al[SubSeq(u, 1, n)], N[Rest(u, n + 1)])
        BY <2>5, <3>3, <3>5, NamesTakeOne
      <4> HIDE DEF n
      <4>3. n \in 1 .. Len(u) /\ v \in DOMAIN al
        BY <2>5, <4>1, HeadIs
      <4>4. n \in 0 .. Len(u) /\ n \in Nat /\ n >= 1 /\ n <= Len(u)
        BY <2>5, <4>3 DEF Strings
      <4>5. v \in Strings /\ Len(v) = n /\ \A i \in 1 .. n : v[i] = u[i]
        BY <2>5, <4>4, SplitAt
      <4>6. ~Lookalike(v) /\ al[v] \in DOMAIN or /\ or[al[v]] = v
        BY <4>3 DEF IsMap
      <4> HIDE DEF v
      <4>7. Len(v) <= Len(q) /\ SubSeq(q, 1, Len(v)) = v /\ Joins(S[q], v, S[Rest(q, Len(v) + 1)])
        <5> DEFINE E == SpecialFor(al)
                   C == OneEach
        <5>1. Masks(S, E, C, D) /\ v \in Strings /\ ~Lookalike(v) /\ q \in Strings
              /\ Len(v) <= Len(S[q]) /\ \A i \in 1 .. Len(v) : S[q][i] = v[i]
          BY <1>1, <4>4, <4>5, <4>6 DEF u
        <5> HIDE DEF S, E, C, D
        <5>2. Len(v) <= Len(q) /\ SubSeq(q, 1, Len(v)) = v /\ S[q] = v \o S[Rest(q, Len(v) + 1)]
          BY ONLY <5>1, PlainPrefix
        <5> QED
          BY <5>2 DEF Joins
      <4>8. n <= Len(q) /\ SubSeq(q, 1, n) = v /\ Joins(u, v, S[r])
        BY <4>5, <4>7 DEF u
      <4>9. n \in 0 .. Len(q) /\ n + 1 \in 2 .. Len(q) + 1
        BY <2>1, <4>4, <4>8
      <4>10. r \in Strings /\ q = v \o r
        BY <4>8, <4>9, SplitAt
      <4>11. R[N[S[r]]] = r
        BY <2>2, <4>9
      <4> HIDE DEF r
      <4>12. S[r] \in Strings /\ N[S[r]] \in Strings
        <5> HIDE DEF S, N
        <5> QED
          BY <1>2, <4>10
      <4>13. Rest(u, n + 1) = S[r]
        BY <4>5, <4>8, <4>12, JoinedRest
      <4>14. Joins(N[u], al[v], N[S[r]])
        BY <4>2, <4>13 DEF v
      <4>15. Joins(R[N[u]], or[al[v]], R[N[S[r]]])
        BY <4>6, <4>12, <4>14, RestoreTakesAnAlias
      <4>16. R[N[u]] = v \o r
        BY <4>6, <4>11, <4>15 DEF Joins
      <4> QED
        BY <4>10, <4>16 DEF u
    <3> QED
      BY <3>4, <3>5
  <2> QED
    BY <2>6, <2>7
<1>5. \A t \in Strings : t \in Q
  <2>1. \A q \in Strings : q # <<>> /\ (\A d \in 2 .. Len(q) + 1 : Rest(q, d) \in Q) => q \in Q
    <3> HIDE DEF S, N, R, D
    <3> QED
      BY <1>4
  <2> HIDE DEF Q
  <2> QED
    BY <1>3, <2>1, BySuffixes
<1> QED
  BY <1>5

-----------------------------------------------------------------------------
(* A text that holds no alias is read as it stands.                        *)
LEMMA PlainTextReadsBack ==
  ASSUME NEW al, NEW or, IsMap(al, or)
  PROVE  \A t \in Strings : ~HoldsAlias(t) => Restores(or)[t] = t
<1> DEFINE R == Restores(or)
           Q == {t \in Strings : ~HoldsAlias(t) => R[t] = t}
<1>1. <<>> \in Q
  <2>1. <<>> \in Strings /\ Reads(R, ValueFor(or), AliasTaken(or))
    BY RestoredIsRead DEF Strings
  <2> HIDE DEF R
  <2>2. R[<<>>] = <<>>
    BY <2>1 DEF Reads
  <2> QED
    BY <2>1, <2>2
<1>2. ASSUME NEW q \in Strings, q # <<>>, \A d \in 2 .. Len(q) + 1 : Rest(q, d) \in Q,
             ~HoldsAlias(q)
      PROVE  R[q] = q
  <2>1. /\ Joins(q, <<q[1]>>, Rest(q, 2)) /\ Rest(q, 2) \in Strings
        /\ 2 \in 2 .. Len(q) + 1
    BY <1>2, FirstAndRest
  <2>2. ~Known(or, q)
    <3> SUFFICES ASSUME Len(q) > 1, <<q[1], q[2]>> \in DOMAIN or
                 PROVE  FALSE
      BY DEF Known
    <3>1. <<q[1], q[2]>> \in Kind \X Nat
      BY DEF IsMap
    <3>2. Len(q) \in Nat
      BY DEF Strings
    <3>3. 1 \in 1 .. Len(q) - 1 /\ q[1] \in Kind /\ q[1 + 1] \in Nat
      BY <3>1, <3>2
    <3> QED
      BY <1>2, <3>3 DEF HoldsAlias
  <2>3. Joins(R[q], <<q[1]>>, R[Rest(q, 2)])
    BY <1>2, <2>2, RestoreGoesOn
  <2>4. 2 \in 1 .. Len(q) + 1
    BY <2>1 DEF Strings
  <2>5. ~HoldsAlias(Rest(q, 2))
    BY <1>2, <2>4, NoAliasFurtherOn
  <2>6. Rest(q, 2) \in Q
    BY <1>2, <2>1
  <2> HIDE DEF R
  <2>7. R[Rest(q, 2)] = Rest(q, 2)
    BY <2>5, <2>6
  <2> QED
    BY <2>1, <2>3, <2>7 DEF Joins
<1>3. \A q \in Strings : q # <<>> /\ (\A d \in 2 .. Len(q) + 1 : Rest(q, d) \in Q) => q \in Q
  <2> HIDE DEF R
  <2> QED
    BY <1>2
<1>4. \A t \in Strings : t \in Q
  <2> HIDE DEF Q
  <2> QED
    BY <1>1, <1>3, BySuffixes
<1> HIDE DEF R
<1> QED
  BY <1>4 DEF R

-----------------------------------------------------------------------------
(* An address that is registered later changes nothing in a masked text    *)
(* that does not hold it.  Two readings agree on a text from which the one *)
(* makes nothing of I, if they do so at each step.                         *)
SameSteps(E, C, E2, C2, I) ==
    \A q \in Strings : q # <<>> /\ (\A j \in 1 .. Len(E[q]) : E[q][j] \notin I)
                         => E2[q] = E[q] /\ C2[q] = C[q]

LEMMA ReadsAgree ==
  ASSUME NEW F, NEW E, NEW C, NEW D, Masks(F, E, C, D),
         NEW F2, NEW E2, NEW C2, NEW D2, Masks(F2, E2, C2, D2), NEW I,
         SameSteps(E, C, E2, C2, I)
  PROVE  \A t \in Strings : (\A j \in 1 .. Len(F[t]) : F[t][j] \notin I) => F2[t] = F[t]
<1> DEFINE Free(s) == \A j \in 1 .. Len(s) : s[j] \notin I
           Q == {t \in Strings : Free(F[t]) => F2[t] = F[t]}
<1>1. <<>> \in Q
  <2>1. <<>> \in Strings /\ F[<<>>] = <<>> /\ F2[<<>>] = <<>>
    BY DEF Masks, Reads, Strings
  <2> QED
    BY <2>1
<1>2. ASSUME NEW q \in Strings, q # <<>>, \A d \in 2 .. Len(q) + 1 : Rest(q, d) \in Q, Free(F[q])
      PROVE  F2[q] = F[q]
  <2> DEFINE c == C[q] + 1
             r == Rest(q, c)
             e == E[q]
             y == F[r]
             x == F[q]
  <2>1. /\ c \in 2 .. Len(q) + 1 /\ r \in Strings /\ y \in Strings /\ e \in Strings
        /\ x \in Strings
    BY <1>2, MaskStep
  <2>2. x = e \o y /\ F2[q] = E2[q] \o F2[Rest(q, C2[q] + 1)]
    BY <1>2 DEF Masks, Reads
  <2>3. r \in Q /\ Free(x)
    BY <1>2, <2>1
  <2> HIDE DEF Q, c, r, e, y, x
  <2>4. /\ Len(x) = Len(e) + Len(y) /\ Len(x) \in Nat /\ Len(e) \in Nat /\ Len(y) \in Nat
        /\ \A i \in 1 .. Len(e) : x[i] = e[i]
        /\ \A i \in 1 .. Len(y) : x[Len(e) + i] = y[i]
    <3>1. /\ Len(x) = Len(e) + Len(y)
          /\ \A i \in 1 .. Len(e) : x[i] = e[i]
          /\ \A i \in 1 .. Len(y) : x[Len(e) + i] = y[i]
      BY <2>1, <2>2, RestOfConcat
    <3> QED
      BY <2>1, <3>1 DEF Strings
  <2>5. Free(e)
    <3> TAKE i \in 1 .. Len(e)
    <3>1. i \in 1 .. Len(x)
      BY <2>4
    <3> QED
      BY <2>3, <2>4, <3>1
  <2>6. Free(y)
    <3> TAKE i \in 1 .. Len(y)
    <3>1. Len(e) + i \in 1 .. Len(x)
      BY <2>4
    <3> QED
      BY <2>3, <2>4, <3>1
  <2>7. E2[q] = e /\ C2[q] + 1 = c
    <3>1. E2[q] = E[q] /\ C2[q] = C[q]
      BY <1>2, <2>5 DEF e, SameSteps
    <3> QED
      BY <3>1 DEF e, c
  <2> HIDE DEF Free
  <2>8. F2[r] = y
    BY <2>3, <2>6 DEF Q, y
  <2>9. F2[q] = e \o F2[r]
    BY <2>2, <2>7 DEF r
  <2> QED
    BY <2>2, <2>8, <2>9 DEF x
<1>3. \A q \in Strings : q # <<>> /\ (\A d \in 2 .. Len(q) + 1 : Rest(q, d) \in Q) => q \in Q
  <2> HIDE DEF Free
  <2> QED
    BY <1>2
<1>4. \A t \in Strings : t \in Q
  <2> HIDE DEF Q, Free
  <2> QED
    BY <1>1, <1>3, BySuffixes
<1> QED
  BY <1>4

(* The map with one address more.                                          *)
WithIp(al, i, a) == [w \in DOMAIN al \cup {<<i>>} |-> IF w = <<i>> THEN a ELSE al[w]]

LEMMA HeadsWithIp ==
  ASSUME NEW al, NEW or, IsMap(al, or), NEW i \in Ip, <<i>> \notin DOMAIN al, NEW a,
         NEW or2, IsMap(WithIp(al, i, a), or2), NEW q \in Strings
  PROVE  /\ Heads(al, q) \subseteq Heads(WithIp(al, i, a), q)
         /\ \A j \in Heads(WithIp(al, i, a), q) : j \in Heads(al, q) \/ (j = 1 /\ q[1] = i)
<1> DEFINE bl == WithIp(al, i, a)
<1>1. DOMAIN bl = DOMAIN al \cup {<<i>>}
  BY DEF WithIp
<1>2. i \notin Special
  BY MaskerAssumption
<1>3. Simple(bl) = Simple(al) \cup {<<i>>}
  BY <1>1, <1>2 DEF Simple
<1> HIDE DEF bl
<1>4. ASSUME NEW j \in 1 .. Len(q)
      PROVE  /\ Len(SubSeq(q, 1, j)) = j /\ j \in Nat
             /\ SubSeq(q, 1, j) = <<i>> => j = 1 /\ q[1] = i
  <2>1. j \in 0 .. Len(q) /\ j \in Nat \ {0} /\ 1 \in 1 .. j
    BY DEF Strings
  <2>2. Len(SubSeq(q, 1, j)) = j /\ \A k \in 1 .. j : SubSeq(q, 1, j)[k] = q[k]
    BY <2>1, SplitAt
  <2>3. SubSeq(q, 1, j)[1] = q[1]
    BY <2>1, <2>2
  <2>4. Len(<<i>>) = 1 /\ <<i>>[1] = i
    OBVIOUS
  <2> QED
    BY <2>1, <2>2, <2>3, <2>4
<1>5. ASSUME NEW j \in Heads(al, q)
      PROVE  j \in Heads(bl, q)
  <2>1. j \in 1 .. Len(q) /\ SubSeq(q, 1, j) \in Simple(bl)
    BY <1>3 DEF Heads
  <2>2. Len(SubSeq(q, 1, j)) <= Window(bl)
    BY <2>1, NamesFitTheWindow DEF bl
  <2> QED
    BY <1>4, <2>1, <2>2 DEF Heads
<1>6. ASSUME NEW j \in Heads(bl, q)
      PROVE  j \in Heads(al, q) \/ (j = 1 /\ q[1] = i)
  <2>1. j \in 1 .. Len(q) /\ SubSeq(q, 1, j) \in Simple(al) \cup {<<i>>}
    BY <1>3 DEF Heads
  <2>2. CASE SubSeq(q, 1, j) = <<i>>
    BY <1>4, <2>1, <2>2
  <2>3. CASE SubSeq(q, 1, j) \in Simple(al)
    <3>1. Len(SubSeq(q, 1, j)) <= Window(al)
      BY <2>3, NamesFitTheWindow
    <3> QED
      BY <1>4, <2>1, <2>3, <3>1 DEF Heads
  <2> QED
    BY <2>1, <2>2, <2>3
<1> QED
  BY <1>5, <1>6 DEF bl

LEMMA LaterAddress ==
  ASSUME NEW al, NEW or, IsMap(al, or), NEW i \in Ip, <<i>> \notin DOMAIN al, NEW a,
         NEW or2, IsMap(WithIp(al, i, a), or2), NEW t \in Strings,
         \A j \in 1 .. Len(Masked(al, t)) : Masked(al, t)[j] # i
  PROVE  Masked(WithIp(al, i, a), t) = Masked(al, t)
<1> DEFINE bl == WithIp(al, i, a)
<1>1. /\ DOMAIN bl = DOMAIN al \cup {<<i>>} /\ i \notin Special
      /\ \A w \in DOMAIN al : bl[w] = al[w]
  BY MaskerAssumption DEF WithIp
<1>2. IsMap(bl, or2)
  OBVIOUS
<1> HIDE DEF bl
<1>3. Specials(bl)[t] = Specials(al)[t]
  <2>1. ASSUME NEW q \in Strings
        PROVE  SpecialFor(bl)[q] = SpecialFor(al)[q]
    <3>1. q[1] \in Special => <<q[1]>> # <<i>>
      BY <1>1
    <3> QED
      BY <1>1, <3>1 DEF SpecialFor
  <2> DEFINE F == Specials(al)
             E == SpecialFor(al)
             G == Specials(bl)
             H == SpecialFor(bl)
  <2>2. Masks(F, E, OneEach, DOMAIN or) /\ Masks(G, H, OneEach, DOMAIN or2)
    BY <1>2, SpecialsMask
  <2>3. \A q \in Strings : H[q] = E[q]
    BY <2>1
  <2> HIDE DEF F, E, G, H
  <2>4. SameSteps(E, OneEach, H, OneEach, {})
    BY <2>3 DEF SameSteps
  <2>5. \A s \in Strings : (\A j \in 1 .. Len(F[s]) : F[s][j] \notin {}) => G[s] = F[s]
    BY ONLY <2>2, <2>4, ReadsAgree
  <2> QED
    BY <2>5 DEF F, G
<1> DEFINE u == Specials(al)[t]
<1>4. /\ u \in Strings /\ Masked(al, t) = Names(al)[u] /\ Masked(bl, t) = Names(bl)[u]
  BY <1>2, <1>3, MaskedReads
<1> HIDE DEF u
<1>5. ASSUME NEW q \in Strings, q # <<>>,
             \A j \in 1 .. Len(NameFor(al)[q]) : NameFor(al)[q][j] \notin {i}
      PROVE  NameFor(bl)[q] = NameFor(al)[q] /\ NameTaken(bl)[q] = NameTaken(al)[q]
  <2>1. /\ Heads(al, q) \subseteq Heads(bl, q)
        /\ \A j \in Heads(bl, q) : j \in Heads(al, q) \/ (j = 1 /\ q[1] = i)
    BY <1>2, HeadsWithIp DEF bl
  <2>2. CASE Heads(al, q) = {}
    <3>1. NameFor(al)[q] = <<q[1]>>
      BY <2>2 DEF NameFor
    <3>2. 1 \in 1 .. Len(<<q[1]>>) /\ <<q[1]>>[1] = q[1]
      OBVIOUS
    <3>3. q[1] # i
      BY <1>5, <3>1, <3>2
    <3>4. Heads(bl, q) = {}
      BY <2>1, <2>2, <3>3
    <3> QED
      BY <2>2, <3>4 DEF NameFor, NameTaken
  <2>3. CASE Heads(al, q) # {}
    <3> DEFINE m == Max(Heads(al, q))
               n == Max(Heads(bl, q))
    <3>1. m \in Heads(al, q) /\ \A j \in Heads(al, q) : m >= j
      BY <2>3, LongestHead
    <3>2. n \in Heads(bl, q) /\ (\A j \in Heads(bl, q) : n >= j) /\ Heads(bl, q) # {}
      <4>1. Heads(bl, q) # {}
        BY <2>1, <2>3
      <4> QED
        BY <4>1, LongestHead
    <3> HIDE DEF m, n
    <3>3. m \in 1 .. Len(q) /\ SubSeq(q, 1, m) \in DOMAIN al /\ n \in 1 .. Len(q)
      BY <3>1, <3>2, HeadIs
    <3>4. m = n
      <4>1. n >= m
        BY <2>1, <3>1, <3>2
      <4>2. m >= n
        <5>1. n \in Heads(al, q) \/ n = 1
          BY <2>1, <3>2
        <5> QED
          BY <3>1, <3>3, <5>1
      <4> QED
        BY <3>3, <4>1, <4>2
    <3>5. bl[SubSeq(q, 1, m)] = al[SubSeq(q, 1, m)]
      BY <1>1, <3>3
    <3> QED
      BY <2>3, <3>2, <3>4, <3>5 DEF NameFor, NameTaken, m, n
  <2> QED
    BY <2>2, <2>3
<1>6. Names(bl)[u] = Names(al)[u]
  <2> DEFINE F == Names(al)
             E == NameFor(al)
             C == NameTaken(al)
             G == Names(bl)
             H == NameFor(bl)
             K == NameTaken(bl)
  <2>1. Masks(F, E, C, DOMAIN or) /\ Masks(G, H, K, DOMAIN or2)
    BY <1>2, NamesMask
  <2>2. SameSteps(E, C, H, K, {i})
    BY <1>5 DEF SameSteps
  <2>3. \A j \in 1 .. Len(F[u]) : F[u][j] \notin {i}
    BY <1>4
  <2> HIDE DEF F, E, C, G, H, K
  <2>4. \A s \in Strings : (\A j \in 1 .. Len(F[s]) : F[s][j] \notin {i}) => G[s] = F[s]
    BY ONLY <2>1, <2>2, ReadsAgree
  <2> QED
    BY <1>4, <2>3, <2>4 DEF F, G
<1> QED
  BY <1>4, <1>6 DEF bl

-----------------------------------------------------------------------------
(* The state: the registered names are such a map, and every part that is  *)
(* written is what the map makes of it now, though more aliases came after *)
(* it.                                                                     *)
NoneIsNew(al, s) == \A i \in DOMAIN s : s[i] \in Ip => <<s[i]>> \in DOMAIN al \cup Kept[ip]

PartIsWritten(al, part, s) ==
    s = Written(al, part) /\ (part.cell => NoneIsNew(al, s))

Rendered(st, al, d, o) ==
    /\ st = "collect" => o = <<>>
    /\ o \in Seq(Strings) /\ Len(o) <= Len(d)
    /\ \A p \in 1 .. Len(o) : PartIsWritten(al, d[p], o[p])
    /\ st \in {"released", "refused"} => Len(o) = Len(d) /\ (st = "refused" <=> Leaks(al, o))

LEMMA AliasesAreAMap == MInv => IsMap(alias, orig)
<1> SUFFICES ASSUME MInv
             PROVE  IsMap(alias, orig)
  OBVIOUS
<1>1. \A v \in DOMAIN alias : alias[v] \in Kind \X Nat
  BY DEF MInv, MTypeOK
<1>2. IsFiniteSet(DOMAIN alias) /\ DOMAIN alias \subseteq Value
  BY DEF MInv, MTypeOK
<1>3. \A a \in DOMAIN orig : a \in Kind \X Nat
  BY DEF MInv, NumbersGivenOut
<1> QED
  BY <1>1, <1>2, <1>3 DEF MInv, AliasesAreInvertible, IsMap

LEMMA PartsHaveTexts ==
  ASSUME NEW d \in Seq(Part), NEW p \in 1 .. Len(d)
  PROVE  d[p].text \in Strings /\ d[p].text \in Seq(Piece) /\ d[p].cell \in BOOLEAN
<1>1. d[p] \in Part
  BY ElementOfSeq
<1>2. d[p].text \in Seq(Piece) /\ d[p].cell \in BOOLEAN
  BY <1>1 DEF Part
<1> QED
  BY <1>2, SeqMonotonic DEF Strings, Token

LEMMA WrittenIsText ==
  ASSUME NEW al, NEW or, IsMap(al, or), NEW part, part.text \in Strings
  PROVE  Written(al, part) \in Strings
BY MaskedReads DEF Written

(* What a step that registers an address leaves of what is written: it is  *)
(* new, so no cell that is written holds it.                               *)
LEMMA AllocateKeepsParts ==
  ASSUME MInv, MInv', Rendered(stage, alias, draft, out), AllocateIp
  PROVE  Rendered(stage, alias, draft, out)'
<1>1. PICK i \in NewIps : Add(ip, <<Written(alias, Here)[i]>>)
  BY DEF AllocateIp
<1> DEFINE x == Written(alias, Here)[i]
           a == Alias(ip, seq[ip] + 1)
<1>2. x \in Ip /\ <<x>> \notin DOMAIN alias \cup Kept[ip]
  BY DEF NewIps
<1>3. alias' = WithIp(alias, x, a)
  BY <1>1 DEF Add, WithIp
<1>4. /\ UNCHANGED <<stage, draft, out>> /\ stage = "render"
      /\ draft \in Seq(Part) /\ Len(out) <= Len(draft) /\ out \in Seq(Strings)
  BY DEF AllocateIp, MInv, MTypeOK, Rendered
<1>5. IsMap(alias, orig) /\ IsMap(alias', orig')
  <2>1. IsMap(alias, orig) /\ (MInv => IsMap(alias, orig))'
    BY AliasesAreAMap, PTL
  <2> QED
    BY <2>1
<1> HIDE DEF x, a
<1>6. ASSUME NEW p \in 1 .. Len(out)
      PROVE  PartIsWritten(alias', draft[p], out[p])
  <2>1. p \in 1 .. Len(draft)
    BY <1>4
  <2>2. draft[p].text \in Strings
    BY <1>4, <2>1, PartsHaveTexts
  <2>3. PartIsWritten(alias, draft[p], out[p])
    BY DEF Rendered
  <2>4. CASE ~draft[p].cell
    BY <2>3, <2>4 DEF PartIsWritten, Written
  <2>5. CASE draft[p].cell
    <3> DEFINE t == draft[p].text
               m == Masked(alias, t)
    <3>1. out[p] = m /\ NoneIsNew(alias, out[p])
      BY <2>3, <2>5 DEF PartIsWritten, Written
    <3>2. m \in Strings /\ DOMAIN m = 1 .. Len(m)
      <4>1. m \in Strings
        BY <1>5, <2>2, MaskedReads
      <4> HIDE DEF m
      <4> QED
        BY <4>1 DEF Strings
    <3>3. \A j \in 1 .. Len(m) : m[j] # x
      BY <1>2, <3>1, <3>2 DEF NoneIsNew
    <3>4. Masked(alias', t) = m
      <4> HIDE DEF t
      <4>1. IsMap(WithIp(alias, x, a), orig') /\ t \in Strings /\ x \in Ip /\ <<x>> \notin DOMAIN alias
        BY <1>2, <1>3, <1>5, <2>2 DEF t
      <4>2. Masked(WithIp(alias, x, a), t) = Masked(alias, t)
        BY <1>5, <3>3, <4>1, LaterAddress
      <4> QED
        BY <1>3, <4>2
    <3>5. NoneIsNew(alias', out[p])
      <4>1. DOMAIN alias \subseteq DOMAIN alias'
        BY <1>3 DEF WithIp
      <4> QED
        BY <3>1, <4>1 DEF NoneIsNew
    <3> QED
      BY <2>5, <3>1, <3>4, <3>5 DEF PartIsWritten, Written
  <2> QED
    BY <2>4, <2>5
<1>7. Rendered(stage, alias', draft, out)
  BY <1>4, <1>6 DEF Rendered
<1> QED
  BY <1>4, <1>7

LEMMA WriteKeepsParts ==
  ASSUME MInv, Rendered(stage, alias, draft, out), Write
  PROVE  Rendered(stage, alias, draft, out')
<1> DEFINE n == Len(out) + 1
           w == Written(alias, Here)
<1>1. /\ stage = "render" /\ Len(out) < Len(draft) /\ NewIps = {} /\ out' = Append(out, w)
      /\ draft \in Seq(Part) /\ out \in Seq(Strings)
  BY DEF Write, MInv, MTypeOK, Rendered
<1>2. n \in 1 .. Len(draft) /\ Len(out) \in Nat /\ Len(draft) \in Nat
  BY <1>1
<1>3. Here = draft[n] /\ Here.text \in Strings /\ Here.cell \in BOOLEAN
  BY <1>1, <1>2, PartsHaveTexts DEF Here
<1>4. w \in Strings
  BY <1>3, AliasesAreAMap, WrittenIsText
<1>5. PartIsWritten(alias, draft[n], w)
  <2>1. Here.cell => NoneIsNew(alias, w)
    BY <1>1 DEF NewIps, NoneIsNew
  <2> QED
    BY <1>3, <2>1 DEF PartIsWritten
<1> HIDE DEF w
<1>6. /\ out' \in Seq(Strings) /\ Len(out') = n /\ out'[n] = w
      /\ \A p \in 1 .. Len(out) : out'[p] = out[p]
  BY <1>1, <1>4, AppendProperties
<1>7. ASSUME NEW p \in 1 .. Len(out')
      PROVE  PartIsWritten(alias, draft[p], out'[p])
  <2>1. CASE p = n
    BY <1>5, <1>6, <2>1
  <2>2. CASE p # n
    <3>1. p \in 1 .. Len(out)
      BY <1>2, <1>6, <2>2
    <3> QED
      BY <1>6, <3>1 DEF Rendered
  <2> QED
    BY <2>1, <2>2
<1>8. Len(out') <= Len(draft)
  BY <1>2, <1>6
<1> QED
  BY <1>1, <1>6, <1>7, <1>8 DEF Rendered

LEMMA StepRenders ==
  ASSUME MInv, MInv', Rendered(stage, alias, draft, out), [MNext]_maskerVars
  PROVE  Rendered(stage, alias, draft, out)'
<1>1. ASSUME NEW c \in Collected, Register(c[1], c[2])
      PROVE  Rendered(stage, alias, draft, out)'
  <2>1. stage = "collect" /\ UNCHANGED <<stage, draft, out>>
    BY <1>1 DEF Register
  <2>2. out = <<>> /\ Len(out) <= Len(draft) /\ out \in Seq(Strings)
    BY <2>1 DEF Rendered
  <2> QED
    BY <2>1, <2>2 DEF Rendered
<1>2. ASSUME NEW d \in Drafts, Render(d)
      PROVE  Rendered(stage, alias, draft, out)'
  <2>1. out = <<>> /\ stage' = "render" /\ draft' = d /\ out' = out
    BY <1>2 DEF Render, Rendered
  <2>2. d \in Seq(Part) /\ Len(d) \in Nat
    BY MaskerAssumption
  <2> QED
    BY <2>1, <2>2 DEF Rendered
<1>3. ASSUME AllocateIp
      PROVE  Rendered(stage, alias, draft, out)'
  BY <1>3, AllocateKeepsParts
<1>4. ASSUME Write
      PROVE  Rendered(stage, alias, draft, out)'
  <2>1. Rendered(stage, alias, draft, out')
    BY <1>4, WriteKeepsParts
  <2>2. UNCHANGED <<stage, alias, draft>>
    BY <1>4 DEF Write
  <2> QED
    BY <2>1, <2>2
<1>5. ASSUME Check
      PROVE  Rendered(stage, alias, draft, out)'
  <2>1. /\ UNCHANGED <<alias, draft, out>> /\ Len(out) = Len(draft)
        /\ stage' = IF Leaks(alias, out) THEN "refused" ELSE "released"
    BY <1>5 DEF Check
  <2>2. stage' \in {"released", "refused"} /\ (stage' = "refused" <=> Leaks(alias, out))
    BY <2>1
  <2>3. Rendered(stage', alias, draft, out)
    BY <2>1, <2>2 DEF Rendered
  <2> QED
    BY <2>1, <2>3
<1>6. ASSUME UNCHANGED maskerVars
      PROVE  Rendered(stage, alias, draft, out)'
  BY <1>6 DEF maskerVars
<1> QED
  BY <1>1, <1>2, <1>3, <1>4, <1>5, <1>6 DEF MNext

(* At every moment of every run the map is one to one, and each part that  *)
(* is written is its text, masked cell by cell, under the map as it is by  *)
(* then: an address that a later cell registers was in no earlier one.     *)
THEOREM RenderInvariant == MSpec => [](MInv /\ Rendered(stage, alias, draft, out))
<1>1. MInit => Rendered(stage, alias, draft, out)
  <2> SUFFICES ASSUME MInit
               PROVE  Rendered(stage, alias, draft, out)
    OBVIOUS
  <2>1. stage = "collect" /\ out = <<>> /\ draft = <<>>
    BY DEF MInit
  <2>2. <<>> \in Seq(Strings) /\ Len(<<>>) = 0
    OBVIOUS
  <2> QED
    BY <2>1, <2>2 DEF Rendered
<1>2. MInv /\ MInv' /\ Rendered(stage, alias, draft, out) /\ [MNext]_maskerVars
        => Rendered(stage, alias, draft, out)'
  BY StepRenders
<1> QED
  BY <1>1, <1>2, AliasInvariant, PTL DEF MSpec

(* What is known of a part once all are written. *)
LEMMA PartsAre ==
  ASSUME MInv, Rendered(stage, alias, draft, out), stage \in {"released", "refused"}
  PROVE  /\ DOMAIN draft = 1 .. Len(draft) /\ DOMAIN out = DOMAIN draft
         /\ \A p \in DOMAIN draft :
              /\ draft[p].text \in Strings /\ draft[p].cell \in BOOLEAN
              /\ DOMAIN draft[p].text = 1 .. Len(draft[p].text)
              /\ out[p] \in Strings /\ DOMAIN out[p] = 1 .. Len(out[p])
              /\ PartIsWritten(alias, draft[p], out[p])
<1>1. /\ Len(out) = Len(draft) /\ out \in Seq(Strings) /\ draft \in Seq(Part)
      /\ \A p \in 1 .. Len(out) : PartIsWritten(alias, draft[p], out[p])
  BY DEF Rendered, MInv, MTypeOK
<1>2. DOMAIN draft = 1 .. Len(draft) /\ DOMAIN out = DOMAIN draft
  BY <1>1
<1>3. ASSUME NEW p \in DOMAIN draft
      PROVE  /\ draft[p].text \in Strings /\ draft[p].cell \in BOOLEAN
             /\ DOMAIN draft[p].text = 1 .. Len(draft[p].text)
             /\ out[p] \in Strings /\ DOMAIN out[p] = 1 .. Len(out[p])
  <2>1. draft[p].text \in Strings /\ draft[p].cell \in BOOLEAN
    BY <1>1, <1>2, PartsHaveTexts
  <2>2. out[p] \in Strings
    BY <1>1, <1>2, ElementOfSeq
  <2> QED
    BY <2>1, <2>2 DEF Strings
<1> QED
  BY <1>1, <1>2, <1>3

LEMMA RenderedReadsBack ==
  ASSUME MInv, Rendered(stage, alias, draft, out)
  PROVE  ReadsBack
<1> SUFFICES ASSUME stage = "released", \A p \in DOMAIN draft : ~HoldsAlias(draft[p].text),
                    \A v \in DOMAIN alias : ~Lookalike(v), NEW p \in DOMAIN draft
             PROVE  Restored(orig, out[p]) = draft[p].text
  BY DEF ReadsBack
<1> DEFINE t == draft[p].text
<1>1. t \in Strings /\ out[p] \in Strings /\ PartIsWritten(alias, draft[p], out[p])
  BY PartsAre
<1>2. IsMap(alias, orig) /\ ~HoldsAlias(t)
  BY AliasesAreAMap
<1> HIDE DEF t
<1>3. Restores(orig)[out[p]] = Restored(orig, out[p])
  BY <1>1 DEF Restores
<1>4. CASE draft[p].cell
  <2>1. out[p] = Masked(alias, t)
    BY <1>1, <1>4 DEF PartIsWritten, Written, t
  <2>2. out[p] = Names(alias)[Specials(alias)[t]]
    BY <1>1, <1>2, <2>1, MaskedReads
  <2>3. Restores(orig)[Names(alias)[Specials(alias)[t]]] = t
    BY <1>1, <1>2, ReadBack
  <2> QED
    BY <1>3, <2>2, <2>3 DEF t
<1>5. CASE ~draft[p].cell
  <2>1. out[p] = t
    BY <1>1, <1>5 DEF PartIsWritten, Written, t
  <2>2. Restores(orig)[t] = t
    BY <1>1, <1>2, PlainTextReadsBack
  <2> QED
    BY <1>3, <2>1, <2>2 DEF t
<1> QED
  BY <1>4, <1>5

(* What a piece of a part that is written comes from. *)
LEMMA PiecesOfParts ==
  ASSUME MInv, Rendered(stage, alias, draft, out), stage \in {"released", "refused"},
         NEW p \in DOMAIN draft, NEW i \in DOMAIN out[p]
  PROVE  \/ \E a \in DOMAIN orig : out[p][i] \in {a[1], a[2]} /\ a \in Kind \X Nat
         \/ \E j \in DOMAIN draft[p].text : out[p][i] = draft[p].text[j]
<1> DEFINE t == draft[p].text
           m == Masked(alias, t)
<1>1. /\ t \in Strings /\ DOMAIN t = 1 .. Len(t) /\ DOMAIN out[p] = 1 .. Len(out[p])
      /\ out[p] = Written(alias, draft[p])
  BY PartsAre DEF PartIsWritten
<1>2. IsMap(alias, orig)
  BY AliasesAreAMap
<1>3. CASE draft[p].cell
  <2>1. out[p] = m /\ i \in 1 .. Len(m)
    BY <1>1, <1>3 DEF Written
  <2> HIDE DEF t
  <2>2. MadeOrLeft(m[i], alias, orig, t)
    BY <1>1, <1>2, <2>1, PiecesOfMasked
  <2> HIDE DEF m
  <2> QED
    BY <1>1, <1>2, <2>1, <2>2 DEF MadeOrLeft, IsMap, t
<1>4. CASE ~draft[p].cell
  BY <1>1, <1>4 DEF Written
<1> QED
  BY <1>3, <1>4

LEMMA ReleasedIsClean ==
  ASSUME MInv, Rendered(stage, alias, draft, out)
  PROVE  NoNameIsLeft
<1> SUFFICES ASSUME stage = "released", NEW v \in DOMAIN alias, NEW p \in DOMAIN out, Occurs(v, out[p])
             PROVE  v \in Short /\ (draft[p].cell => Lookalike(v))
  BY DEF NoNameIsLeft
<1>1. ~Leaks(alias, out)
  BY DEF Rendered
<1>2. v \in Short
  BY <1>1 DEF Leaks
<1>3. draft[p].text \in Strings /\ out[p] = Written(alias, draft[p])
  BY PartsAre DEF PartIsWritten
<1>4. ASSUME draft[p].cell PROVE Lookalike(v)
  <2>1. Occurs(v, Masked(alias, draft[p].text))
    BY <1>3, <1>4 DEF Written
  <2> QED
    BY <1>3, <2>1, AliasesAreAMap, NoPlainNameIsLeft
<1> QED
  BY <1>2, <1>4

LEMMA RefusedHasAReason ==
  ASSUME MInv, Rendered(stage, alias, draft, out)
  PROVE  RefusedForAReason
<1> SUFFICES ASSUME stage = "refused"
             PROVE  \/ \E v \in DOMAIN alias :
                          \/ Lookalike(v)
                          \/ \E p \in DOMAIN draft :
                                WithinAWord(v, draft[p].text)
                                  \/ (~draft[p].cell /\ Occurs(v, draft[p].text))
                          \/ \E a \in DOMAIN orig : WithinAWord(v, a)
                    \/ \E p \in DOMAIN draft : ~draft[p].cell /\ HasAddress(draft[p].text)
  BY DEF RefusedForAReason
<1>1. Leaks(alias, out) /\ IsMap(alias, orig)
  BY AliasesAreAMap DEF Rendered
<1>2. PICK p \in DOMAIN out :
         \/ HasAddress(out[p])
         \/ \E v \in DOMAIN alias \ Short : Occurs(v, out[p]) \/ WithinAWord(v, out[p])
  BY <1>1 DEF Leaks
<1>3. /\ p \in DOMAIN draft /\ draft[p].text \in Strings /\ out[p] \in Strings
      /\ out[p] = Written(alias, draft[p]) /\ (draft[p].cell => NoneIsNew(alias, out[p]))
      /\ draft[p].cell \in BOOLEAN
  BY PartsAre DEF PartIsWritten
<1>4. CASE ~draft[p].cell
  <2>1. out[p] = draft[p].text
    BY <1>3, <1>4 DEF Written
  <2> QED
    BY <1>2, <1>3, <1>4, <2>1
<1>5. CASE draft[p].cell /\ HasAddress(out[p])
  <2>1. PICK i \in DOMAIN out[p] : out[p][i] \in Ip /\ <<out[p][i]>> \notin Kept[ip]
    BY <1>5 DEF HasAddress
  <2>2. <<out[p][i]>> \in DOMAIN alias
    BY <1>3, <1>5, <2>1 DEF NoneIsNew
  <2> DEFINE v == <<out[p][i]>>
  <2>3. Occurs(v, out[p])
    <3>1. DOMAIN out[p] = 1 .. Len(out[p]) /\ Len(out[p]) \in Nat
      BY <1>3 DEF Strings
    <3>2. i \in 1 .. Len(out[p]) /\ i \in Nat /\ out[p][i] \in Token
      BY <1>3, <2>1, <3>1, ElementOfSeq DEF Strings
    <3>3. Len(v) = 1 /\ i + Len(v) - 1 = i
      BY <3>2
    <3> DEFINE w == SubSeq(out[p], i, i)
    <3>4. Len(w) = 1 /\ w \in Strings /\ w[1] = out[p][i]
      <4>1. i \in Int /\ \A k \in i .. i : out[p][k] \in Token
        BY <3>2
      <4>2. /\ w \in Strings /\ Len(w) = IF i <= i THEN i - i + 1 ELSE 0
            /\ \A k \in 1 .. i - i + 1 : w[k] = out[p][i + k - 1]
        BY <4>1, SubSeqProperties DEF Strings
      <4>3. 1 \in 1 .. i - i + 1 /\ i + 1 - 1 = i /\ i <= i /\ i - i + 1 = 1
        BY <3>2
      <4> HIDE DEF w
      <4> QED
        BY <4>2, <4>3
    <3>5. v \in Strings /\ v[1] = out[p][i]
      BY <3>2 DEF Strings
    <3> HIDE DEF w, v
    <3>6. \A k \in 1 .. Len(w) : w[k] = v[k]
      BY <3>4, <3>5
    <3>7. w = v
      BY <3>3, <3>4, <3>5, <3>6, SeqEqual DEF Strings
    <3>8. i + Len(v) - 1 <= Len(out[p]) /\ i \in DOMAIN out[p]
      BY <3>1, <3>2, <3>3
    <3>9. SubSeq(out[p], i, i + Len(v) - 1) = v
      BY <3>3, <3>7 DEF w
    <3> QED
      BY <3>8, <3>9 DEF Occurs
  <2>4. Lookalike(v)
    <3>1. out[p] = Masked(alias, draft[p].text)
      BY <1>3, <1>5 DEF Written
    <3> HIDE DEF v
    <3>2. v \in DOMAIN alias
      BY <2>2 DEF v
    <3> QED
      BY <1>1, <1>3, <2>3, <3>1, <3>2, NoPlainNameIsLeft
  <2> QED
    BY <2>2, <2>4
<1>6. ASSUME NEW v \in DOMAIN alias, draft[p].cell, Occurs(v, out[p])
      PROVE  Lookalike(v)
  <2>1. out[p] = Masked(alias, draft[p].text)
    BY <1>3, <1>6 DEF Written
  <2> QED
    BY <1>1, <1>3, <1>6, <2>1, NoPlainNameIsLeft
<1>7. ASSUME NEW v \in DOMAIN alias, WithinAWord(v, out[p])
      PROVE  WithinAWord(v, draft[p].text) \/ \E a \in DOMAIN orig : WithinAWord(v, a)
  <2>1. PICK i \in DOMAIN out[p] : v \in Inside[out[p][i]]
    BY <1>7 DEF WithinAWord
  <2>2. \/ \E a \in DOMAIN orig : out[p][i] \in {a[1], a[2]} /\ a \in Kind \X Nat
        \/ \E j \in DOMAIN draft[p].text : out[p][i] = draft[p].text[j]
    BY <1>3, PiecesOfParts
  <2>3. ASSUME NEW a \in DOMAIN orig, out[p][i] \in {a[1], a[2]}, a \in Kind \X Nat
        PROVE  WithinAWord(v, a)
    <3>1. Len(a) = 2 /\ a \in Strings
      BY <2>3, PairsAreTexts
    <3>2. DOMAIN a = 1 .. 2
      BY <3>1 DEF Strings
    <3>3. 1 \in DOMAIN a /\ 2 \in DOMAIN a
      BY <3>2
    <3> QED
      BY <2>1, <2>3, <3>3 DEF WithinAWord
  <2> QED
    BY <2>1, <2>2, <2>3 DEF WithinAWord
<1> QED
  BY <1>2, <1>3, <1>4, <1>5, <1>6, <1>7

(* Whatever the bundle, the summary and the order of registration, a       *)
(* released summary that held no alias reads back word for word with the   *)
(* map.                                                                    *)
THEOREM ReadsBackThm == MSpec => []ReadsBack
<1>1. MInv /\ Rendered(stage, alias, draft, out) => ReadsBack
  BY RenderedReadsBack
<1> QED
  BY <1>1, RenderInvariant, PTL

(* A released summary holds no name that leaks() can see, and its cells    *)
(* hold none at all but for lookalikes: the search of _span from the left  *)
(* misses no name that stands between delimiters.  What is refused holds a *)
(* name where it is not masked or cannot be.                               *)
THEOREM ReleasedWhenCleanThm == MSpec => []ReleasedWhenClean
<1>1. MInv /\ Rendered(stage, alias, draft, out) => ReleasedWhenClean
  BY ReleasedIsClean, RefusedHasAReason DEF ReleasedWhenClean
<1> QED
  BY <1>1, RenderInvariant, PTL
=============================================================================
