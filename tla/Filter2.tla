------------------------------ MODULE Filter2 -------------------------------
(***************************************************************************)
(* Phase 2 of the text-level filter: text-filter/filter2.py.  It parses a  *)
(* skeleton file written by phase 1 and keeps, of every body, the transfer *)
(* calls that fetch from the same pointer expression and can be executed   *)
(* together (process_skeleton), with their case labels.                    *)
(*                                                                         *)
(* process_skeleton is a double loop over the items: s1 (pc "outer") and   *)
(* s2 (pc "inner"), each with a case level (0: before the first label) and *)
(* the index of the last label it passed.  Indexes are 1-based here.       *)
(***************************************************************************)
EXTENDS Skeleton

VARIABLES
  infile,        \* the lines of the input, fixed
  pos,           \* lines read
  pc,            \* "start", "main", "collect", "outer", "inner", "write", "done", "crashed"
  curState, temp_funcDecl, in_list,
  flags,         \* indexes of in_list whose 'flag' is True
  s1, s1_case_level, s1_case_index,
  s2, s2_case_level, s2_case_index,
  i,             \* index of the loop that writes the flagged items
  outfile

readVars == <<infile, pos, curState, temp_funcDecl>>
s1Vars == <<s1, s1_case_level, s1_case_index>>
s2Vars == <<s2, s2_case_level, s2_case_index>>
vars == <<readVars, pc, in_list, flags, s1Vars, s2Vars, i, outfile>>

Start ==
  /\ pos = 0
  /\ pc = "start"
  /\ curState = 0
  /\ temp_funcDecl = NoDecl
  /\ in_list = <<>>
  /\ flags = {}
  /\ s1 = 0 /\ s1_case_level = 0 /\ s1_case_index = 0
  /\ s2 = 0 /\ s2_case_level = 0 /\ s2_case_index = 0
  /\ i = 0
  /\ outfile = <<>>

-----------------------------------------------------------------------------
(***************************************************************************)
(* is_same compares a slice of the two calls.  That of get_user starts at  *)
(* the first comma, that of copy_from_user behind it.                      *)
(***************************************************************************)
Slice(line) ==
  [comma |-> line.head = "get_user", arg |-> line.text.arg, inc |-> line.text.inc]

is_same(x, y) ==
  /\ IsTrans(x) /\ IsTrans(y)
  /\ x.text.complete /\ y.text.complete
  /\ Slice(x) = Slice(y)
  /\ ~x.text.inc

-----------------------------------------------------------------------------
(***************************************************************************)
(* main: reading.                                                          *)
(***************************************************************************)
line == infile[pos + 1]

ReadLine == pos < Len(infile) /\ pos' = pos + 1 /\ UNCHANGED infile

\* The first line is the path of the source file.
ReadOrigin ==
  /\ pc = "start" /\ ReadLine
  /\ pc' = "main"
  /\ UNCHANGED <<curState, temp_funcDecl, in_list, flags, s1Vars, s2Vars, i, outfile>>

ReadDecl ==
  /\ pc = "main" /\ ReadLine
  /\ curState \in {0, 1}
  /\ identify(line) = "funcDecl"
  /\ temp_funcDecl' = line
  /\ curState' = 1
  /\ UNCHANGED <<pc, in_list, flags, s1Vars, s2Vars, i, outfile>>

ReadLeft ==
  /\ pc = "main" /\ ReadLine
  /\ curState = 1
  /\ identify(line) = "{"
  /\ curState' = 2
  /\ UNCHANGED <<pc, temp_funcDecl, in_list, flags, s1Vars, s2Vars, i, outfile>>

\* An empty body.
ReadRight ==
  /\ pc = "main" /\ ReadLine
  /\ curState = 2
  /\ identify(line) = "}"
  /\ curState' = 0
  /\ UNCHANGED <<pc, temp_funcDecl, in_list, flags, s1Vars, s2Vars, i, outfile>>

ReadFirstItem ==
  /\ pc = "main" /\ ReadLine
  /\ curState = 2
  /\ IsItem(line)
  /\ curState' = 3
  /\ in_list' = <<line>>
  /\ pc' = "collect"
  /\ UNCHANGED <<temp_funcDecl, flags, s1Vars, s2Vars, i, outfile>>

\* Every line the automaton has no transition for; unlike phase 1, this is
\* also what becomes of a closing brace in state 1.
ReadIgnored ==
  /\ pc = "main" /\ ReadLine
  /\ ~(curState \in {0, 1} /\ identify(line) = "funcDecl")
  /\ ~(curState = 1 /\ identify(line) = "{")
  /\ ~(curState = 2 /\ identify(line) = "}")
  /\ ~(curState = 2 /\ IsItem(line))
  /\ UNCHANGED <<pc, curState, temp_funcDecl, in_list, flags, s1Vars, s2Vars, i, outfile>>

\* readline returns "".
ReadEof ==
  /\ pc = "main" /\ pos = Len(infile)
  /\ pc' = "done"
  /\ UNCHANGED <<readVars, in_list, flags, s1Vars, s2Vars, i, outfile>>

CollectItem ==
  /\ pc = "collect" /\ ReadLine
  /\ IsItem(line)
  /\ in_list' = Append(in_list, line)
  /\ UNCHANGED <<pc, curState, temp_funcDecl, flags, s1Vars, s2Vars, i, outfile>>

CollectIgnored ==
  /\ pc = "collect" /\ ReadLine
  /\ ~IsItem(line)
  /\ identify(line) # "}"
  /\ UNCHANGED <<pc, curState, temp_funcDecl, in_list, flags, s1Vars, s2Vars, i, outfile>>

\* Mutant: the case level reached in one body is carried into the next.
StartProcessKeepsLevel ==
  /\ pc' = "outer"
  /\ s1' = 1
  /\ s1_case_index' = 0
  /\ s2_case_index' = 0
  /\ UNCHANGED <<temp_funcDecl, in_list, flags, s1_case_level, s2, s2_case_level, i, outfile>>

\* The body is complete: process_skeleton starts with fresh variables.
StartProcess ==
  /\ pc' = "outer"
  /\ s1' = 1
  /\ s1_case_level' = 0
  /\ s1_case_index' = 0
  /\ s2_case_index' = 0
  /\ UNCHANGED <<temp_funcDecl, in_list, flags, s2, s2_case_level, i, outfile>>

CollectRight ==
  /\ pc = "collect" /\ ReadLine
  /\ identify(line) = "}"
  /\ curState' = 0
  /\ StartProcess

\* The file ends inside a body.
CollectEof ==
  /\ pc = "collect" /\ pos = Len(infile)
  /\ StartProcess
  /\ UNCHANGED <<infile, pos, curState>>

-----------------------------------------------------------------------------
(***************************************************************************)
(* process_skeleton: the outer loop over s1.                               *)
(***************************************************************************)
EnterInner(n, level) ==
  /\ s2' = n + 1
  /\ s2_case_level' = level
  /\ pc' = "inner"

OuterTrans ==
  /\ pc = "outer"
  /\ s1 < Len(in_list)
  /\ ~IsCase(in_list[s1])
  /\ EnterInner(s1, s1_case_level)
  /\ UNCHANGED <<readVars, in_list, flags, s1Vars, s2_case_index, i, outfile>>

\* A label: s1 steps over it (over one only) before the inner loop starts.
OuterCase ==
  /\ pc = "outer"
  /\ s1 < Len(in_list)
  /\ IsCase(in_list[s1])
  /\ s1_case_index' = s1
  /\ s1_case_level' = s1_case_level + 1
  /\ s1' = s1 + 1
  /\ EnterInner(s1', s1_case_level')
  /\ UNCHANGED <<readVars, in_list, flags, s2_case_index, i, outfile>>

(***************************************************************************)
(* The body of the inner loop: s1 is compared with item t, given the case  *)
(* level and label that belong to t.                                       *)
(***************************************************************************)
Compare(t, level, index) ==
  flags' = IF ~is_same(in_list[s1], in_list[t]) THEN flags
           ELSE IF s1_case_level = 0
             THEN flags \cup {s1, t} \cup (IF level = 0 THEN {} ELSE {index})
             ELSE IF s1_case_level = level
               THEN flags \cup {s1, t, s1_case_index}
               ELSE flags

InnerTrans ==
  /\ pc = "inner"
  /\ s2 <= Len(in_list)
  /\ ~IsCase(in_list[s2])
  /\ Compare(s2, s2_case_level, s2_case_index)
  /\ s2' = s2 + 1
  /\ UNCHANGED <<readVars, pc, in_list, s1Vars, s2_case_level, s2_case_index, i, outfile>>

\* A label with an item behind it: s2 steps over the label and compares.
InnerCase ==
  /\ pc = "inner"
  /\ s2 < Len(in_list)
  /\ IsCase(in_list[s2])
  /\ s2_case_index' = s2
  /\ s2_case_level' = s2_case_level + 1
  /\ Compare(s2 + 1, s2_case_level', s2_case_index')
  /\ s2' = s2 + 2
  /\ UNCHANGED <<readVars, pc, in_list, s1Vars, i, outfile>>

(***************************************************************************)
(* The last item is a label.  Stepping over it leaves the list; it is read *)
(* there (IndexError) when s1 stands before the first label, otherwise the *)
(* levels differ and nothing is read.                                      *)
(***************************************************************************)
InnerLastCase ==
  /\ pc = "inner"
  /\ s2 = Len(in_list)
  /\ IsCase(in_list[s2])
  /\ s2_case_index' = s2
  /\ s2_case_level' = s2_case_level + 1
  /\ s2' = s2 + 2
  /\ pc' = IF s1_case_level = 0 THEN "crashed" ELSE "inner"
  /\ UNCHANGED <<readVars, in_list, flags, s1Vars, i, outfile>>

\* Mutant: s1 is not advanced when s2 reaches the end.
InnerExitSameS1 ==
  /\ pc = "inner"
  /\ s2 > Len(in_list)
  /\ pc' = "outer"
  /\ UNCHANGED <<readVars, in_list, flags, s1Vars, s2Vars, i, outfile>>

InnerExit ==
  /\ pc = "inner"
  /\ s2 > Len(in_list)
  /\ s1' = s1 + 1
  /\ pc' = "outer"
  /\ UNCHANGED <<readVars, in_list, flags, s1_case_level, s1_case_index, s2Vars, i, outfile>>

-----------------------------------------------------------------------------
(***************************************************************************)
(* Back in main: write the flagged items, or drop the body.                *)
(***************************************************************************)
Processed == pc = "outer" /\ s1 >= Len(in_list)

Opened(f) == IF f = <<>> THEN <<infile[1]>> ELSE f

OpenBody ==
  /\ Processed
  /\ flags # {}
  /\ outfile' = Append(Append(Opened(outfile), temp_funcDecl), LeftLine)
  /\ pc' = "write"
  /\ i' = 1
  /\ UNCHANGED <<readVars, in_list, flags, s1Vars, s2Vars>>

ResetBuffers ==
  /\ in_list' = <<>>
  /\ flags' = {}
  /\ i' = 0

DropBody ==
  /\ Processed
  /\ flags = {}
  /\ pc' = "main"
  /\ ResetBuffers
  /\ UNCHANGED <<readVars, s1Vars, s2Vars, outfile>>

WriteItem ==
  /\ pc = "write"
  /\ i <= Len(in_list)
  /\ outfile' = IF i \in flags THEN Append(outfile, in_list[i]) ELSE outfile
  /\ i' = i + 1
  /\ UNCHANGED <<readVars, pc, in_list, flags, s1Vars, s2Vars>>

CloseBody ==
  /\ pc = "write"
  /\ i > Len(in_list)
  /\ outfile' = Append(outfile, RightLine)
  /\ pc' = "main"
  /\ ResetBuffers
  /\ UNCHANGED <<readVars, s1Vars, s2Vars>>

-----------------------------------------------------------------------------
Next ==
  \/ ReadOrigin \/ ReadDecl \/ ReadLeft \/ ReadRight \/ ReadFirstItem
  \/ ReadIgnored \/ ReadEof
  \/ CollectItem \/ CollectIgnored \/ CollectRight \/ CollectEof
  \/ OuterTrans \/ OuterCase
  \/ InnerTrans \/ InnerCase \/ InnerLastCase \/ InnerExit
  \/ OpenBody \/ DropBody \/ WriteItem \/ CloseBody

-----------------------------------------------------------------------------
(***************************************************************************)
(* The reference: the pairs of a body that are on one path and fetch from  *)
(* the same pointer, the items of those pairs and their labels.            *)
(***************************************************************************)
DoubleFetch(L, a, b) == Pair(L, a, b) /\ is_same(L[a], L[b])

\* The pairs the double loop has met when it stands at (m, n).
FoundUpTo(L, m, n) ==
  {ab \in (1..Len(L)) \X (1..Len(L)) :
     /\ ab[1] < ab[2]
     /\ ab[1] < m \/ (ab[1] = m /\ ab[2] < n)
     /\ DoubleFetch(L, ab[1], ab[2])}

WithLabels(L, P) ==
  {j \in 1..Len(L) :
     \E ab \in P : \/ j = ab[1] \/ j = ab[2]
                  \/ LabelOf(L, j, ab[1]) \/ LabelOf(L, j, ab[2])}

Fetches(L) == WithLabels(L, FoundUpTo(L, Len(L), 0))

TypeOK ==
  /\ infile \in Seq(Line \cup {OriginLine})
  /\ pos \in 0..Len(infile)
  /\ pc \in {"start", "main", "collect", "outer", "inner", "write", "done", "crashed"}
  /\ curState \in 0..3
  /\ temp_funcDecl \in Line \cup {NoDecl, OriginLine}
  /\ in_list \in Seq(Line)
  /\ flags \in SUBSET (1..Len(in_list))
  /\ s1 \in Nat /\ s1_case_level \in Nat /\ s1_case_index \in Nat
  /\ s2 \in Nat /\ s2_case_level \in Nat /\ s2_case_index \in Nat
  /\ i \in Nat
  /\ outfile \in Seq(Line \cup {OriginLine})

(***************************************************************************)
(* On a file in the format of phase 1, finished or cut short, the double   *)
(* loop with its levels and indexes flags exactly the double fetches of    *)
(* the body and their labels.                                              *)
(***************************************************************************)
FlagsAreFetches == (WellFormed(infile) /\ Processed) => flags = Fetches(in_list)

(***************************************************************************)
(* process_skeleton steps over a label without testing that an item is     *)
(* left.  The IndexError this can raise needs a file phase 1 has not       *)
(* finished: what it does finish never ends a body in a label.             *)
(***************************************************************************)
CrashNeedsUnfinishedFile == pc = "crashed" => ~Complete(infile)

(***************************************************************************)
(* From a well-formed file phase 2 writes a well-formed file, and once it  *)
(* is done a complete one, even if its input was cut short.                *)
(***************************************************************************)
OutputWellFormed ==
  WellFormed(infile) => /\ WellFormed(outfile)
                        /\ pc # "write" => Complete(outfile)

(***************************************************************************)
(* "pick out all the identical transfer funcs" (filter2.py:193): whenever  *)
(* two complete transfer calls on one path are given the same pointer,     *)
(* both are flagged, whichever of the two functions each of them calls.    *)
(***************************************************************************)
SamePointer(x, y) ==
  /\ x.text.complete /\ y.text.complete
  /\ x.text.arg = y.text.arg
  /\ ~x.text.inc /\ ~y.text.inc

IdenticalArePicked ==
  (WellFormed(infile) /\ Processed) =>
    \A a, b \in 1..Len(in_list) :
      (a < b /\ Pair(in_list, a, b) /\ SamePointer(in_list[a], in_list[b]))
        => {a, b} \subseteq flags
=============================================================================
