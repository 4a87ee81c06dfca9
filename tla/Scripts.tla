------------------------------ MODULE Scripts -------------------------------
(***************************************************************************)
(* The two driver scripts of the tool over several runs, each on its own:  *)
(* cocci/startcocci_linux.sh with copy_files.py (CocciRun) and             *)
(* text-filter/start.sh (FilterScript).  They share no file, so their      *)
(* interleavings are left out: script says which one a behaviour is about. *)
(***************************************************************************)
EXTENDS CocciRun

CONSTANTS
  Trees,     \* the trees start.sh may find: sequences of files
  Sources,   \* the files with the extension c or h
  MaxWalks   \* bound: runs of start.sh

ASSUME TreesAssumption == Trees \subseteq Seq(Files)

VARIABLES
  script,
  fpc, present, kind, num, temp2, output, source, output2, todo, fruns, dirty

filterVars == <<fpc, present, kind, num, temp2, output, source, output2, todo, fruns, dirty>>
allVars == <<script, vars, filterVars>>

FS == INSTANCE FilterScript WITH MaxRuns <- MaxWalks, pc <- fpc, runs <- fruns

ScriptsInit == script \in {"cocci", "filter"} /\ Init /\ FS!Init

ScriptsNext ==
  \/ script = "cocci" /\ Next /\ UNCHANGED <<script, filterVars>>
  \/ script = "filter" /\ FS!Next /\ UNCHANGED <<script, vars>>

ScriptsSpec == ScriptsInit /\ [][ScriptsNext]_allVars

\* FilterScript: a first run leaves exactly its results; whatever runs have left,
\* what a finished run has found is there; and lines of another file are found
\* under the first file only.
ResultsAreOwn == FS!FreshIsExact /\ FS!CurrentIsThere /\ FS!OnlyFirstSpoiled
=============================================================================
