------------------------------ MODULE CocciRun ------------------------------
(***************************************************************************)
(* A run of the Coccinelle tool chain: cocci/startcocci_linux.sh clears    *)
(* what is left of the last run, starts spatch on testdir, and then        *)
(* copy_files.py, which reads result.txt and copies the files named there  *)
(* to outcome/.  A run may be interrupted anywhere and testdir may hold    *)
(* other files the next time.                                              *)
(*                                                                         *)
(* spatch takes one file after the other, in any order, and print_and_log  *)
(* appends a record of five lines for each report.                         *)
(***************************************************************************)
EXTENDS Integers, Sequences, FiniteSets

CONSTANTS
  Files,       \* files that may be in testdir
  Name,        \* the last component of their paths
  MaxReports,  \* bound: reports per file
  MaxRuns      \* bound: runs

NoFile == "empty"   \* '', what buffer in copy_files.py starts with

\* The path of a file is not empty and none of the other lines of a record.
ASSUME CocciRunAssumption ==
  MaxReports \in Nat /\ MaxRuns \in Nat /\ Files \cap {"No.", "--", NoFile} = {}

VARIABLES
  pc,        \* "idle", "clean", "log", "spatch", "copy", "finished"
  found,     \* how many reports the files of testdir give in this run
  left,      \* how many of them are still to come
  result,    \* result.txt
  outcome,   \* the files of outcome/: [number, name, file]
  pos, buffer, counter,   \* of copy_files.py
  runs

vars == <<pc, found, left, result, outcome, pos, buffer, counter, runs>>

Init ==
  /\ pc = "idle"
  /\ found = [f \in Files |-> 0]
  /\ left = found
  /\ result = <<>>
  /\ outcome = {}
  /\ pos = 0 /\ buffer = NoFile /\ counter = 0
  /\ runs = 0

-----------------------------------------------------------------------------
(***************************************************************************)
(* startcocci_linux.sh.                                                    *)
(***************************************************************************)
Start ==
  /\ pc \in {"idle", "finished"}
  /\ runs < MaxRuns
  /\ runs' = runs + 1
  /\ found' \in [Files -> 0..MaxReports]
  /\ left' = found'
  /\ pc' = "clean"
  /\ UNCHANGED <<result, outcome, pos, buffer, counter>>

RemoveOutcome ==
  /\ pc = "clean"
  /\ outcome' = {}
  /\ pc' = "log"
  /\ UNCHANGED <<found, left, result, pos, buffer, counter, runs>>

\* Mutant: result.txt is kept.
RemoveResultNot ==
  /\ pc = "log"
  /\ pc' = "spatch"
  /\ UNCHANGED <<found, left, result, outcome, pos, buffer, counter, runs>>

RemoveResult ==
  /\ pc = "log"
  /\ result' = <<>>
  /\ pc' = "spatch"
  /\ UNCHANGED <<found, left, outcome, pos, buffer, counter, runs>>

\* spatch stays with a file until it has reported all of it.
print_and_log(f) ==
  /\ pc = "spatch"
  /\ left[f] > 0
  /\ \A g \in Files \ {f} : left[g] \in {0, found[g]}
  /\ left' = [left EXCEPT ![f] = @ - 1]
  /\ result' = result \o <<"No.", f, "--", "--", "--">>
  /\ UNCHANGED <<pc, found, outcome, pos, buffer, counter, runs>>

\* spatch has ended, with or without all its files done: the script does not
\* look at its status.
StartCopy ==
  /\ pc = "spatch"
  /\ pos' = 0 /\ buffer' = NoFile /\ counter' = 0
  /\ pc' = "copy"
  /\ UNCHANGED <<found, left, result, outcome, runs>>

-----------------------------------------------------------------------------
(***************************************************************************)
(* copy_files.py.                                                          *)
(***************************************************************************)
ReadLine == pc = "copy" /\ pos < Len(result) /\ pos' = pos + 1

src == result[pos + 1]

SkipLine ==
  /\ ReadLine
  /\ src \in {"No.", "--"} \/ src = buffer
  /\ UNCHANGED <<pc, found, left, result, outcome, buffer, counter, runs>>

get_dst(n, f) == [number |-> n, name |-> Name[f], file |-> f]

\* shutil.copy replaces a file of the same name.
Put(d) == {x \in outcome : <<x.number, x.name>> # <<d.number, d.name>>} \cup {d}

CopyFile ==
  /\ ReadLine
  /\ src \notin {"No.", "--"} /\ src # buffer
  /\ counter' = counter + 1
  /\ outcome' = Put(get_dst(counter', src))
  /\ buffer' = src
  /\ UNCHANGED <<pc, found, left, result, runs>>

Finish ==
  /\ pc = "copy"
  /\ pos = Len(result)
  /\ pc' = "finished"
  /\ UNCHANGED <<found, left, result, outcome, pos, buffer, counter, runs>>

Interrupt ==
  /\ pc \notin {"idle", "finished"}
  /\ pc' = "idle"
  /\ UNCHANGED <<found, left, result, outcome, pos, buffer, counter, runs>>

Next ==
  \/ Start \/ RemoveOutcome \/ RemoveResult
  \/ (\E f \in Files : print_and_log(f)) \/ StartCopy
  \/ SkipLine \/ CopyFile \/ Finish
  \/ Interrupt

Spec == Init /\ [][Next]_vars

-----------------------------------------------------------------------------
Reported == {f \in Files : left[f] < found[f]}

(***************************************************************************)
(* A run that finishes leaves exactly one copy of every file reported in   *)
(* it in outcome/ and nothing else, whatever interrupted runs left behind, *)
(* wherever spatch ended, however often a file is reported, and though     *)
(* copy_files.py compares a name with the one before it only and files may *)
(* have the same name.                                                     *)
(***************************************************************************)
OutcomeIsExact ==
  pc = "finished" => /\ {d.file : d \in outcome} = Reported
                     /\ Cardinality(outcome) = Cardinality(Reported)
                     /\ counter = Cardinality(Reported)
=============================================================================
