--------------------------------- MODULE Cli ---------------------------------
(***************************************************************************)
(* A run of the command line program: main() and _support_summary() of     *)
(* analyze.py.  One run makes one pass per language, the screen language   *)
(* first, over bundles that are opened once; a pass analyzes, writes the   *)
(* masked summary and its alias map, then the reports.  The process may be *)
(* killed between any two steps and any write may fail, and the next run   *)
(* writes over the files the earlier one left.                             *)
(*                                                                         *)
(* A file is a kind and the language in its name, "none" when one language *)
(* is written to the exact name given.  A text is known by the run and the *)
(* language that produced it and, for the summary and the map, by the      *)
(* assignment of aliases it uses.                                          *)
(***************************************************************************)
EXTENDS Naturals, Sequences, FiniteSets

CONSTANTS
    Langs,      \* the report languages
    Aliases,    \* assignments of aliases to identifiers a masker may build
    NoAliases,  \* no alias map yet, or a text without aliases
    NoFile,     \* the content of a file that does not exist
    ReportSets, \* the sets of reports a run may be asked for
    MaxRuns     \* bound on the runs over the same files

ASSUME LangsAssumption ==
    IsFiniteSet(Langs) /\ Langs # {} /\ "none" \notin Langs

Reports == {"html", "md", "json"}

Files == (Reports \cup {"summary", "map"}) \X (Langs \cup {"none"})

Texts == [run : 1 .. MaxRuns, lang : Langs, aliases : Aliases \cup {NoAliases},
          whole : BOOLEAN]

ASSUME ValuesAssumption ==
    /\ NoAliases \notin Aliases
    /\ NoFile \notin Texts
    /\ ReportSets \subseteq SUBSET Reports
    /\ MaxRuns \in Nat

(* What main() may find wrong before the first pass. *)
InputFaults == {"no bundle", "mask without summary", "no baseline"}
Faults == InputFaults \cup {"no thresholds file", "no output directory"}

(* What main() does next: the steps of a pass are "analyze" to "json". *)
Steps == {"idle", "check", "analyze", "summary", "map", "html", "md", "json",
          "next", "ended"}

After == [html |-> "md", md |-> "json", json |-> "next"]

VARIABLES
    run,        \* number of the run
    step,       \* what main() does next
    opt,        \* the arguments of the run
    todo,       \* languages that still need a pass, the current one first
    lang,       \* the process-wide language of i18n
    opened,     \* the bundles dict: not opened yet, good, or refused
    aliases,    \* the masker's aliases of this pass
    firstMap,   \* the alias map of the first language
    disk,       \* the files
    code,       \* exit status of the last run
    cause,      \* why it ended
    said        \* the languages in which the run printed each message

vars == <<run, step, opt, todo, lang, opened, aliases, firstMap, disk, code,
          cause, said>>

(* The languages of a run: one, or all with the screen language first.  Of  *)
(* several faults main() sees only the first.                              *)
LangLists == {<<l>> : l \in Langs} \cup
             {s \in [1 .. Cardinality(Langs) -> Langs] :
                \A i, j \in DOMAIN s : s[i] = s[j] => i = j}

Arguments ==
    {o \in [langs : LangLists, reports : ReportSets,
            summary : {"off", "none", "masked"},
            failOn : {"never", "critical", "warning"},
            fault : Faults \cup {"none"}] :
        o.fault = "mask without summary" => o.summary = "off"}

screen == opt.langs[1]
multi  == Len(opt.langs) > 1

(* The language of the pass; the paths are made from it, the texts from    *)
(* the process-wide one.                                                   *)
pass == Head(todo)

(* _lang_path *)
Suffix(l) == IF multi THEN l ELSE "none"

(* Mutant: a text is known by the suffix of its file. *)
TextOfSuffix(m) == [run |-> run, lang |-> Suffix(pass), aliases |-> m, whole |-> TRUE]

Text(m) == [run |-> run, lang |-> lang, aliases |-> m, whole |-> TRUE]

Init ==
    /\ run = 0 /\ step = "idle"
    /\ opt = [langs |-> <<>>, reports |-> {}, summary |-> "off",
              failOn |-> "never", fault |-> "none"]
    /\ todo = <<>> /\ lang \in Langs
    /\ opened = "unopened"
    /\ aliases = NoAliases /\ firstMap = NoAliases
    /\ disk = [f \in Files |-> NoFile]
    /\ code = 0 /\ cause = "none" /\ said = {}

(* A run ends; the process and all that it held are gone, the files stay. *)
End(status, why) ==
    /\ step' = "ended"
    /\ code' = status
    /\ cause' = why

(* The arguments are parsed under the language that will be the screen's. *)
Start(o) ==
    /\ step \in {"idle", "ended"}
    /\ run < MaxRuns
    /\ run' = run + 1
    /\ step' = "check"
    /\ opt' = o
    /\ todo' = o.langs
    /\ lang' = o.langs[1]
    /\ opened' = "unopened"
    /\ aliases' = NoAliases /\ firstMap' = NoAliases
    /\ cause' = "none" /\ said' = {}
    /\ UNCHANGED <<disk, code>>

(* The thresholds file is opened, and the output directory made, without a *)
(* handler, so their exit status is Python's own 1.                        *)
CheckArguments ==
    /\ step = "check"
    /\ \/ /\ opt.fault = "none"
          /\ step' = "analyze"
          /\ UNCHANGED <<code, cause, said>>
       \/ /\ opt.fault \in InputFaults
          /\ End(2, "input error")
          /\ said' = said \cup {<<"error", lang>>}
       \/ /\ opt.fault \in Faults \ InputFaults
          /\ End(1, "exception")
          /\ UNCHANGED said
    /\ UNCHANGED <<run, opt, todo, lang, opened, aliases, firstMap, disk>>

(* analyze() under the language of the pass: the bundles are opened by the *)
(* first pass and the later ones find them in the dict.                    *)
Analyze ==
    /\ step = "analyze"
    /\ lang' = pass
    /\ opened' \in IF opened = "unopened" THEN {"good", "refused"} ELSE {opened}
    /\ IF opened' = "refused"
       THEN /\ End(2, "input error")
            /\ said' = said \cup {<<"error", lang'>>}
       ELSE /\ step' = IF opt.summary # "off" THEN "summary" ELSE "html"
            /\ UNCHANGED <<code, cause, said>>
    /\ UNCHANGED <<run, opt, todo, aliases, firstMap, disk>>

(* Mutant: the check for leaks comes after the write. *)
SummaryLeaksAfterWriting ==
    /\ step = "summary"
    /\ opt.summary = "masked"
    /\ End(2, "leak")
    /\ said' = said \cup {<<"error", lang>>}
    /\ disk' = [disk EXCEPT ![<<"summary", Suffix(pass)>>] = Text(NoAliases)]
    /\ UNCHANGED <<run, opt, todo, lang, opened, aliases, firstMap>>

(* _support_summary: the rendered text still holds an identifier, so the   *)
(* run ends before it writes this language.                                *)
SummaryLeaks ==
    /\ step = "summary"
    /\ opt.summary = "masked"
    /\ End(2, "leak")
    /\ said' = said \cup {<<"error", lang>>}
    /\ UNCHANGED <<run, opt, todo, lang, opened, aliases, firstMap, disk>>

(* Or it is written, with the aliases that rendering it has assigned.      *)
WriteSummary(m) ==
    /\ step = "summary"
    /\ m \in IF opt.summary = "masked" THEN Aliases ELSE {NoAliases}
    /\ aliases' = m
    /\ disk' = [disk EXCEPT ![<<"summary", Suffix(pass)>>] = Text(m)]
    /\ step' = IF opt.summary = "masked" THEN "map" ELSE "html"
    /\ UNCHANGED <<run, opt, todo, lang, opened, firstMap, code, cause, said>>

(* The map of the first language is the map file; a later language gets a  *)
(* file of its own only if its aliases differ.                             *)
MapFile == IF firstMap = NoAliases THEN <<"map", "none">> ELSE <<"map", pass>>

(* Mutant: one map for all languages. *)
WriteMapOnce ==
    /\ step = "map"
    /\ IF firstMap = NoAliases
       THEN disk' = [disk EXCEPT ![MapFile] = Text(aliases)] /\ firstMap' = aliases
       ELSE UNCHANGED <<disk, firstMap>>
    /\ step' = "html"
    /\ UNCHANGED <<run, opt, todo, lang, opened, aliases, code, cause, said>>

WriteMap ==
    /\ step = "map"
    /\ IF firstMap = aliases
       THEN UNCHANGED disk
       ELSE disk' = [disk EXCEPT ![MapFile] = Text(aliases)]
    /\ firstMap' = IF firstMap = NoAliases THEN aliases ELSE firstMap
    /\ step' = "html"
    /\ UNCHANGED <<run, opt, todo, lang, opened, aliases, code, cause, said>>

WriteReport(k) ==
    /\ step = k
    /\ IF k \in opt.reports
       THEN disk' = [disk EXCEPT ![<<k, Suffix(pass)>>] = Text(NoAliases)]
       ELSE UNCHANGED disk
    /\ step' = After[k]
    /\ UNCHANGED <<run, opt, todo, lang, opened, aliases, firstMap, code, cause, said>>

(* Mutant: the pass does not move on. *)
SameLanguage ==
    /\ step = "next"
    /\ Len(todo) > 1
    /\ step' = "analyze"
    /\ UNCHANGED <<run, opt, todo, lang, opened, aliases, firstMap, disk, code, cause, said>>

(* The next language, or the list of the written files in the screen       *)
(* language and the exit status, which the worst finding of the screen     *)
(* language's result and --fail-on decide.                                 *)
NextLanguage ==
    /\ step = "next"
    /\ Len(todo) > 1
    /\ todo' = Tail(todo)
    /\ step' = "analyze"
    /\ UNCHANGED <<run, opt, lang, opened, aliases, firstMap, disk, code, cause, said>>

(* Mutant: a critical finding counts, whether it was asked for or not. *)
FailOnCritical(worst) ==
    worst = "critical" \/ (opt.failOn = "warning" /\ worst = "warning")

FailOn(worst) ==
    \/ opt.failOn = "critical" /\ worst = "critical"
    \/ opt.failOn = "warning" /\ worst \in {"critical", "warning"}

(* Mutant: the run ends after the first language. *)
FinishEarly(worst) ==
    /\ step = "next"
    /\ lang' = screen
    /\ said' = said \cup {<<"written", lang'>>}
    /\ IF FailOn(worst) THEN End(1, "fail on") ELSE End(0, "success")
    /\ UNCHANGED <<run, opt, todo, opened, aliases, firstMap, disk>>

Finish(worst) ==
    /\ step = "next"
    /\ Len(todo) = 1
    /\ lang' = screen
    /\ said' = said \cup {<<"written", lang'>>}
    /\ IF FailOn(worst) THEN End(1, "fail on") ELSE End(0, "success")
    /\ UNCHANGED <<run, opt, todo, opened, aliases, firstMap, disk>>

-----------------------------------------------------------------------------
(* A write that fails (no space, no permission) leaves a torn file and an  *)
(* exception nobody catches.                                               *)
Target ==
    CASE step = "summary" -> {<<"summary", Suffix(pass)>>}
      [] step = "map"     -> IF firstMap = aliases THEN {} ELSE {MapFile}
      [] step \in Reports -> IF step \in opt.reports THEN {<<step, Suffix(pass)>>} ELSE {}
      [] OTHER            -> {}

WriteFails(f) ==
    /\ f \in Target
    /\ disk' = [disk EXCEPT ![f] = [Text(NoAliases) EXCEPT !.whole = FALSE]]
    /\ End(1, "exception")
    /\ UNCHANGED <<run, opt, todo, lang, opened, aliases, firstMap, said>>

(* The process is killed between two steps. *)
Killed ==
    /\ step \notin {"idle", "ended"}
    /\ End(137, "killed")
    /\ UNCHANGED <<run, opt, todo, lang, opened, aliases, firstMap, disk, said>>

Main ==
    \/ CheckArguments
    \/ Analyze
    \/ SummaryLeaks
    \/ \E m \in Aliases \cup {NoAliases} : WriteSummary(m)
    \/ WriteMap
    \/ \E k \in Reports : WriteReport(k)
    \/ NextLanguage
    \/ \E worst \in {"none", "warning", "critical"} : Finish(worst)

Next ==
    \/ \E o \in Arguments : Start(o)
    \/ Main
    \/ \E f \in Files : WriteFails(f)
    \/ Killed

(* main() is one thread that never waits: once started it takes its steps. *)
Spec == Init /\ [][Next]_vars /\ WF_vars(Main)

-----------------------------------------------------------------------------
(* The types.  A file holds one of the texts of a run and a language that  *)
(* the program knows.                                                      *)
TypeOK ==
    /\ run \in 0 .. MaxRuns /\ step \in Steps
    /\ run > 0 => opt \in Arguments
    /\ todo \in Seq(Langs) /\ lang \in Langs
    /\ opened \in {"unopened", "good", "refused"}
    /\ aliases \in Aliases \cup {NoAliases}
    /\ firstMap \in Aliases \cup {NoAliases}
    /\ disk \in [Files -> Texts \cup {NoFile}]
    /\ code \in {0, 1, 2, 137}
    /\ cause \in {"none", "input error", "leak", "exception", "fail on", "success", "killed"}
    /\ said \subseteq {"error", "written"} \X Langs

Ran(c) == step = "ended" /\ cause \in c

Mine(f) == disk[f] # NoFile /\ disk[f].run = run

LangsOfRun == {opt.langs[i] : i \in DOMAIN opt.langs}

(* Every file says in its name the language its text was rendered in,      *)
(* although the language is process-wide and changes under the renderers;  *)
(* with one language it is that language.  A map has no text of its own.   *)
FilesSpeakTheirLanguage ==
    \A f \in Files : f[1] # "map" /\ Mine(f) =>
        disk[f].lang = IF f[2] = "none" THEN screen ELSE f[2]

(* The list of written files is in the screen language, whichever language *)
(* the last pass used.                                                     *)
ListInScreenLanguage == \A m \in said : m[1] = "written" => m[2] = screen

(* An input error is found before anything is written: the second pass     *)
(* cannot refuse bundles that the first one accepted.                      *)
InputErrorsWriteNothing == Ran({"input error"}) => \A f \in Files : ~Mine(f)

(* A leak stops the run before any file of the language that leaks, and    *)
(* before any file at all when it is the first language.                   *)
LeaksKeepTheirText ==
    Ran({"leak"}) =>
        /\ \A f \in Files : Mine(f) => disk[f].lang # lang
        /\ lang = screen => \A f \in Files : ~Mine(f)

(* A run that refuses its input or a text leaves nothing of what it        *)
(* refused.                                                                *)
RefusalsLeaveNothing == InputErrorsWriteNothing /\ LeaksKeepTheirText

(* The map a reader takes for a summary: the one with the language of the  *)
(* summary in its name if there is one, otherwise the map file.            *)
MapFor(l) == IF multi /\ disk[<<"map", l>>] # NoFile THEN disk[<<"map", l>>]
                                                     ELSE disk[<<"map", "none">>]

(* After a run that succeeded, every masked summary it wrote can be read   *)
(* back with its map, unless an earlier run over the same path left a map  *)
(* of a second language that this run had no reason to write.              *)
StaleMap(l) == disk[<<"map", l>>] # NoFile /\ disk[<<"map", l>>].run # run

SummariesCanBeRead ==
    Ran({"success", "fail on"}) =>
        \A l \in LangsOfRun :
            LET s == disk[<<"summary", Suffix(l)>>]
            IN  opt.summary = "masked" /\ ~(multi /\ StaleMap(l)) =>
                    s # NoFile /\ MapFor(l) # NoFile /\ s.aliases = MapFor(l).aliases

(* The files of a run belong together: in name, language and aliases, and  *)
(* so does the list of them.                                               *)
FilesBelongTogether ==
    FilesSpeakTheirLanguage /\ ListInScreenLanguage /\ SummariesCanBeRead

(* The files a run is asked for: every report and the summary once for     *)
(* every language.  (The maps follow the summaries, see above.)            *)
Kinds == opt.reports \cup (IF opt.summary = "off" THEN {} ELSE {"summary"})

Wanted == {<<k, Suffix(l)>> : k \in Kinds, l \in LangsOfRun}

(* How the run ended, whatever it says.                                    *)
Outcome ==
    CASE step = "idle"                   -> "none"
      [] step \notin {"idle", "ended"}   -> "open"
      [] Ran({"success", "fail on"})     -> "delivered"
      [] OTHER                           -> "failed"

(* What the exit status says of it.  With --fail-on the status 1 is the    *)
(* bad grade of a run that wrote everything or the end of one that was     *)
(* stopped by an exception: Python's own status for these is 1, too.       *)
Graded == opt.failOn # "never"

Verdict ==
    CASE step = "idle"                            -> "none"
      [] step \notin {"idle", "ended"}            -> "open"
      [] step = "ended" /\ code = 0               -> "delivered"
      [] step = "ended" /\ code = 1 /\ Graded     -> "either"
      [] OTHER                                    -> "failed"

Promise == INSTANCE Delivery WITH
    File      <- Files,
    asked     <- Wanted,
    graded    <- Graded,
    delivered <- {f \in Files : f[1] # "map" /\ Mine(f) /\ disk[f].whole},
    outcome   <- Outcome,
    verdict   <- Verdict

(* A run writes each file it was asked for once, overwrites none it has    *)
(* written, and comes to its own end only when all of them are there and   *)
(* complete, however the two passes and the failures fall.  Its exit       *)
(* status says so: 0 of a run that delivered, and of no other; any other   *)
(* of a run that failed.  Only with --fail-on the status 1 says neither.   *)
DeliversWhatIsAsked == Promise!Spec

(* A run that was started comes to an end. *)
EveryRunEnds == (step = "check") ~> (step = "ended")
=============================================================================
