---------------------------- MODULE FilterScript ----------------------------
(***************************************************************************)
(* text-filter/start.sh over several runs: the walk through the tree       *)
(* (scandir), which gives every file to phase 1 by way of temp2, and       *)
(* check_indentical, which gives every file of output/ to phase 2.  A run  *)
(* may be interrupted anywhere, and the tree may change before the next.   *)
(* Nothing the script finds in temp2, output/, source/ and output2/ is     *)
(* removed at its start.                                                   *)
(*                                                                         *)
(* What the two programs find in a file is its kind: nothing, candidates   *)
(* for phase 1, or candidates that phase 2 keeps (Filter1, Filter2).       *)
(***************************************************************************)
EXTENDS Integers, Sequences, FiniteSets

CONSTANTS
  Trees,     \* what the tree may be: its files in the order of the walk
  Name,      \* the last component of their paths
  Sources,   \* those with the extension c or h
  MaxRuns    \* bound: runs

Kinds == {"none", "candidate", "double"}

VARIABLES
  pc,        \* "idle", "walk", "sed", "filter", "copy", "rm", "check", "finished"
  present,   \* the files of the tree in this run, in order
  kind,      \* their kinds in this run
  num,       \* files met
  temp2,     \* the pieces of temp2: [file, kind, cut]; <<>> if it is not there
  output, source, output2,   \* the files of the directories, by number and name
  todo,      \* files of output/ phase 2 has not met
  runs,
  dirty      \* temp2 was there when this run started

files == <<temp2, output, source, output2>>
vars == <<pc, present, kind, num, files, todo, runs, dirty>>

Init ==
  /\ pc = "idle" /\ present = <<>> /\ kind = [f \in {} |-> "none"] /\ num = 0
  /\ temp2 = <<>> /\ output = {} /\ source = {} /\ output2 = {}
  /\ todo = {} /\ runs = 0 /\ dirty = FALSE

Range(s) == {s[k] : k \in DOMAIN s}

-----------------------------------------------------------------------------
file == present[num]
key == <<num, Name[file]>>

At(dir, k) == {x \in dir : x.key = k}

\* open(outfile, "w"), cp: a file of the same name is replaced.
Put(dir, x) == (dir \ At(dir, x.key)) \cup {x}

Start ==
  /\ pc \in {"idle", "finished"}
  /\ runs < MaxRuns
  /\ present' \in Trees
  /\ kind' \in [Range(present') \cap Sources -> Kinds]
  /\ runs' = runs + 1
  /\ num' = 0
  /\ dirty' = (temp2 # <<>>)
  /\ pc' = "walk"
  /\ UNCHANGED <<files, todo>>

\* scandir meets a file and numbers it, whatever its extension.
NextFile ==
  /\ pc = "walk"
  /\ num < Len(present)
  /\ num' = num + 1
  /\ pc' = IF present[num + 1] \in Sources THEN "sed" ELSE "walk"
  /\ UNCHANGED <<present, kind, files, todo, runs, dirty>>

\* touch temp2, then sed >> temp2.
Sed ==
  /\ pc = "sed"
  /\ temp2' = Append(temp2, [file |-> file, kind |-> kind[file], cut |-> FALSE])
  /\ pc' = "filter"
  /\ UNCHANGED <<present, kind, num, output, source, output2, todo, runs, dirty>>

\* A piece that was cut short may end inside a body, which then runs on into
\* the piece behind it: anything may come out.
FoundIn(pieces) ==
  LET found == {pieces[k].kind : k \in DOMAIN pieces} IN
  IF \E k \in DOMAIN pieces : pieces[k].cut THEN Kinds
  ELSE IF "double" \in found THEN {"double"}
  ELSE IF "candidate" \in found THEN {"candidate"}
  ELSE {"none"}

\* A file of output/: whose lines it may hold, and what phase 2 will find in it.
Entry(k, whole) ==
  [key |-> key, origin |-> file, from |-> {p.file : p \in Range(temp2)}, kind |-> k,
   whole |-> whole, run |-> runs]

\* filter.py creates its file only if it has something to write.
Filter ==
  /\ pc = "filter"
  /\ \E k \in FoundIn(temp2) : output' = IF k = "none" THEN output ELSE Put(output, Entry(k, TRUE))
  /\ pc' = "copy"
  /\ UNCHANGED <<present, kind, num, temp2, source, output2, todo, runs, dirty>>

\* test -e output/num-name, which a file of an earlier run passes as well; cp.
Copy ==
  /\ pc = "copy"
  /\ source' = IF At(output, key) = {} THEN source
               ELSE Put(source, [key |-> key, file |-> file, run |-> runs])
  /\ pc' = "rm"
  /\ UNCHANGED <<present, kind, num, temp2, output, output2, todo, runs, dirty>>

\* Mutant: temp2 stays from file to file.
RemoveNot ==
  /\ pc = "rm"
  /\ pc' = "walk"
  /\ UNCHANGED <<present, kind, num, files, todo, runs, dirty>>

Remove ==
  /\ pc = "rm"
  /\ temp2' = <<>>
  /\ pc' = "walk"
  /\ UNCHANGED <<present, kind, num, output, source, output2, todo, runs, dirty>>

\* The walk is over: ls output/.
StartCheck ==
  /\ pc = "walk"
  /\ num = Len(present)
  /\ todo' = output
  /\ pc' = "check"
  /\ UNCHANGED <<present, kind, num, files, runs, dirty>>

\* filter2.py on one file; on one that is cut short it may fail.
Kept(e) == IF e.whole THEN {e.kind = "double"} ELSE {TRUE, FALSE}

Result(e, whole) ==
  [key |-> e.key, from |-> e.from, whole |-> whole, run |-> runs]

Check(e) ==
  /\ pc = "check" /\ e \in todo
  /\ todo' = todo \ {e}
  /\ \E k \in Kept(e) : output2' = IF k THEN Put(output2, Result(e, TRUE)) ELSE output2
  /\ UNCHANGED <<pc, present, kind, num, temp2, output, source, runs, dirty>>

Finish ==
  /\ pc = "check" /\ todo = {}
  /\ pc' = "finished"
  /\ UNCHANGED <<present, kind, num, files, todo, runs, dirty>>

-----------------------------------------------------------------------------
(***************************************************************************)
(* The run is interrupted: between two steps, or in the middle of sed, of  *)
(* filter.py or of filter2.py, which have then written a part.             *)
(***************************************************************************)
Interrupt ==
  /\ pc \notin {"idle", "finished"}
  /\ pc' = "idle"
  /\ todo' = {}
  /\ \/ UNCHANGED files
     \/ /\ pc = "sed"
        /\ \E k \in Kinds : temp2' = Append(temp2, [file |-> file, kind |-> k, cut |-> TRUE])
        /\ UNCHANGED <<output, source, output2>>
     \/ /\ pc = "filter" /\ FoundIn(temp2) # {"none"}
        /\ output' = Put(output, Entry("candidate", FALSE))
        /\ UNCHANGED <<temp2, source, output2>>
     \/ /\ pc = "check"
        /\ \E e \in todo : TRUE \in Kept(e) /\ output2' = Put(output2, Result(e, FALSE))
        /\ UNCHANGED <<temp2, output, source>>
  /\ UNCHANGED <<present, kind, num, runs, dirty>>

Next ==
  \/ Start \/ NextFile \/ Sed \/ Filter \/ Copy \/ Remove
  \/ StartCheck \/ (\E e \in todo : Check(e)) \/ Finish
  \/ Interrupt

-----------------------------------------------------------------------------
(***************************************************************************)
(* Properties                                                              *)
(***************************************************************************)
SourcesAt == {n \in DOMAIN present : present[n] \in Sources}
First(n) == \A m \in SourcesAt : n <= m
Key(n) == <<n, Name[present[n]]>>
Found(n, kinds) == n \in SourcesAt /\ kind[present[n]] \in kinds

\* A run that finishes in empty directories leaves in output/ and source/
\* exactly the files with candidates, and in output2/ those phase 2 keeps.
FreshIsExact ==
  (pc = "finished" /\ runs = 1) =>
    LET cand == {n \in DOMAIN present : Found(n, {"candidate", "double"})} IN
    /\ {x.key : x \in output} = {Key(n) : n \in cand}
    /\ {<<x.key, x.file>> : x \in source} = {<<Key(n), present[n]>> : n \in cand}
    /\ {x.key : x \in output2} = {Key(n) : n \in {m \in cand : Found(m, {"double"})}}

\* Whatever earlier runs left behind, and wherever they were interrupted, what a
\* finished run has found is there, complete and written by this run; only what
\* it says of the first source file may be spoiled by the lines left in temp2.
CurrentIsThere ==
  pc = "finished" =>
    \A n \in DOMAIN present :
      (Found(n, {"candidate", "double"}) /\ ~(dirty /\ First(n))) =>
        /\ \E x \in At(output, Key(n)) :
             x.origin = present[n] /\ x.from = {present[n]} /\ x.whole /\ x.run = runs
        /\ \E x \in At(source, Key(n)) : x.file = present[n] /\ x.run = runs
        /\ Found(n, {"double"}) =>
             \E x \in At(output2, Key(n)) : x.from = {present[n]} /\ x.whole /\ x.run = runs

\* Lines of one file under the name of another: only in what was written for the
\* first source file of a run that found temp2 there.
OnlyFirstSpoiled ==
  \A x \in output :
    (x.from # {x.origin} /\ x.run = runs) => dirty /\ \E n \in SourcesAt : First(n) /\ x.key = Key(n)
=============================================================================
