-------------------------------- MODULE MCCli --------------------------------
(* Instances of Cli: two languages, two assignments of aliases. *)
EXTENDS Cli

CONSTANTS ko, en, a1, a2

MCLangs == {ko, en}
MCAliases == {a1, a2}

(* One report, so that two runs one after the other stay within reach. *)
OneReport == {{"md"}}
=============================================================================
