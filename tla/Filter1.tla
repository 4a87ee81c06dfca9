------------------------------ MODULE Filter1 -------------------------------
(***************************************************************************)
(* Phase 1 of the text-level filter: text-filter/filter.py.  It reads the  *)
(* lines sed left of one source file, cuts them into function bodies with  *)
(* a small automaton (curState), and writes a skeleton file that holds, of *)
(* every body with two transfer calls that one execution can both reach,   *)
(* those calls and their case labels.                                      *)
(*                                                                         *)
(* Lines are read one at a time and chosen by the environment, so that the *)
(* behaviours cover every input file of at most MaxLines lines.  The three *)
(* loops of the program (main, the inner reading loop, process_list) are   *)
(* the values of pc; Python's 0-based indexes are 1-based here.            *)
(***************************************************************************)
EXTENDS Skeleton

CONSTANT
  MaxLines   \* bound: lines of the input file

ASSUME MaxLinesAssumption == MaxLines \in Nat

VARIABLES
  pc,            \* "main", "collect" (inner loop), "process", "write", "done"
  nread,         \* lines read so far
  eof,           \* readline has returned the empty string
  curState,      \* the automaton: 0 start, 1 declaration, 2 brace, 3 items
  temp_funcDecl, \* the declaration the next body is attributed to
  in_list,       \* items of the current body
  flags,         \* indexes of in_list whose 'flag' is True
  i,             \* loop index of process_list, then of the writing loop
  last_case,     \* process_list's variables
  incase,
  case_counter,
  outfile        \* lines written; empty while the file is not yet opened

readVars == <<nread, eof, curState, temp_funcDecl>>
loopVars == <<flags, i, last_case, incase, case_counter>>
vars == <<pc, readVars, in_list, loopVars, outfile>>

Init ==
  /\ pc = "main"
  /\ nread = 0
  /\ eof = FALSE
  /\ curState = 0
  /\ temp_funcDecl = NoDecl
  /\ in_list = <<>>
  /\ flags = {}
  /\ i = 0
  /\ last_case = 0
  /\ incase = FALSE
  /\ case_counter = 0
  /\ outfile = <<>>

-----------------------------------------------------------------------------
(***************************************************************************)
(* main: the outer loop.                                                   *)
(***************************************************************************)
ReadLine == ~eof /\ nread < MaxLines /\ nread' = nread + 1

\* States 0 and 1: a declaration replaces the one remembered.
ReadDecl(line) ==
  /\ pc = "main" /\ ReadLine
  /\ curState \in {0, 1}
  /\ identify(line) = "funcDecl"
  /\ temp_funcDecl' = line
  /\ curState' = 1
  /\ UNCHANGED <<pc, eof, in_list, loopVars, outfile>>

\* A closing brace without an opening one, or an empty body.
ReadRight(line) ==
  /\ pc = "main" /\ ReadLine
  /\ curState \in {1, 2}
  /\ identify(line) = "}"
  /\ curState' = 0
  /\ UNCHANGED <<pc, eof, temp_funcDecl, in_list, loopVars, outfile>>

ReadLeft(line) ==
  /\ pc = "main" /\ ReadLine
  /\ curState = 1
  /\ identify(line) = "{"
  /\ curState' = 2
  /\ UNCHANGED <<pc, eof, temp_funcDecl, in_list, loopVars, outfile>>

ReadFirstItem(line) ==
  /\ pc = "main" /\ ReadLine
  /\ curState = 2
  /\ IsItem(line)
  /\ curState' = 3
  /\ in_list' = <<line>>
  /\ pc' = "collect"
  /\ UNCHANGED <<eof, temp_funcDecl, loopVars, outfile>>

\* blank lines, and every line the automaton has no transition for
ReadIgnored(line) ==
  /\ pc = "main" /\ ReadLine
  /\ ~(curState \in {0, 1} /\ identify(line) = "funcDecl")
  /\ ~(curState \in {1, 2} /\ identify(line) = "}")
  /\ ~(curState = 1 /\ identify(line) = "{")
  /\ ~(curState = 2 /\ IsItem(line))
  /\ UNCHANGED <<pc, eof, curState, temp_funcDecl, in_list, loopVars, outfile>>

\* readline returned "": main leaves its loop and the files are closed.
ReadEof ==
  /\ pc = "main"
  /\ eof' = TRUE
  /\ pc' = "done"
  /\ UNCHANGED <<nread, curState, temp_funcDecl, in_list, loopVars, outfile>>

-----------------------------------------------------------------------------
(***************************************************************************)
(* The inner loop: collect the items of a body up to its closing brace.    *)
(***************************************************************************)
CollectItem(line) ==
  /\ pc = "collect" /\ ReadLine
  /\ IsItem(line)
  /\ in_list' = Append(in_list, line)
  /\ UNCHANGED <<pc, eof, curState, temp_funcDecl, loopVars, outfile>>

CollectIgnored(line) ==
  /\ pc = "collect" /\ ReadLine
  /\ ~IsItem(line)
  /\ identify(line) # "}"
  /\ UNCHANGED <<pc, eof, curState, temp_funcDecl, in_list, loopVars, outfile>>

\* Mutant: the flags survive the items they belong to.
ResetBuffersKeepsFlags ==
  /\ in_list' = <<>>
  /\ i' = 0
  /\ last_case' = 0
  /\ incase' = FALSE
  /\ case_counter' = 0
  /\ UNCHANGED flags

\* The items and their flags go; so do the locals of process_list.
ResetBuffers ==
  /\ in_list' = <<>>
  /\ flags' = {}
  /\ i' = 0
  /\ last_case' = 0
  /\ incase' = FALSE
  /\ case_counter' = 0

\* Mutant: the test for a second item is off by one.
EndOfBodyOffByOne ==
  IF Len(in_list) > 2
    THEN /\ pc' = "process"
         /\ flags' = {}
         /\ i' = 2
         /\ last_case' = 1
         /\ incase' = FALSE
         /\ case_counter' = 0
         /\ UNCHANGED in_list
    ELSE pc' = "main" /\ ResetBuffers

\* A body of one item is forgotten; any other goes to process_list.
EndOfBody ==
  IF Len(in_list) > 1
    THEN /\ pc' = "process"
         /\ flags' = {}
         /\ i' = 2
         /\ last_case' = 1
         /\ incase' = FALSE
         /\ case_counter' = 0
         /\ UNCHANGED in_list
    ELSE pc' = "main" /\ ResetBuffers

CollectRight(line) ==
  /\ pc = "collect" /\ ReadLine
  /\ identify(line) = "}"
  /\ curState' = 0
  /\ EndOfBody
  /\ UNCHANGED <<eof, temp_funcDecl, outfile>>

\* The file ends inside a body: curState stays 3, the items are processed.
CollectEof ==
  /\ pc = "collect"
  /\ eof' = TRUE
  /\ EndOfBody
  /\ UNCHANGED <<nread, curState, temp_funcDecl, outfile>>

-----------------------------------------------------------------------------
(***************************************************************************)
(* process_list: one step per iteration, in its two variants.              *)
(***************************************************************************)
Processing == pc = "process" /\ i <= Len(in_list)

\* Mutant: the label of the paired transfer is not flagged.
PairTransNoLabel ==
  /\ Processing
  /\ IsTrans(in_list[1]) /\ IsTrans(in_list[i])
  /\ flags' = flags \cup {1, i}
  /\ i' = i + 1
  /\ UNCHANGED <<pc, readVars, in_list, last_case, incase, case_counter, outfile>>

\* The body starts with a transfer, which pairs with every later one.
PairTrans ==
  /\ Processing
  /\ IsTrans(in_list[1]) /\ IsTrans(in_list[i])
  /\ flags' = flags \cup {1, i} \cup (IF incase THEN {last_case} ELSE {})
  /\ i' = i + 1
  /\ UNCHANGED <<pc, readVars, in_list, last_case, incase, case_counter, outfile>>

\* Mutant: a label is flagged when it is met, not when a transfer follows.
PairCaseEager ==
  /\ Processing
  /\ IsTrans(in_list[1]) /\ IsCase(in_list[i])
  /\ flags' = flags \cup {i}
  /\ last_case' = i
  /\ incase' = TRUE
  /\ i' = i + 1
  /\ UNCHANGED <<pc, readVars, in_list, case_counter, outfile>>

PairCase ==
  /\ Processing
  /\ IsTrans(in_list[1]) /\ IsCase(in_list[i])
  /\ last_case' = i
  /\ incase' = TRUE
  /\ i' = i + 1
  /\ UNCHANGED <<pc, readVars, in_list, flags, case_counter, outfile>>

\* The body starts with a label: transfers are counted per label.
CountTrans ==
  /\ Processing
  /\ IsCase(in_list[1]) /\ IsTrans(in_list[i])
  /\ case_counter' = case_counter + 1
  /\ flags' = IF case_counter' > 1 THEN flags \cup last_case..i ELSE flags
  /\ i' = i + 1
  /\ UNCHANGED <<pc, readVars, in_list, last_case, incase, outfile>>

\* Mutant: the counter is not reset at a label.
CountCaseNoReset ==
  /\ Processing
  /\ IsCase(in_list[1]) /\ IsCase(in_list[i])
  /\ last_case' = i
  /\ i' = i + 1
  /\ UNCHANGED <<pc, readVars, in_list, flags, incase, case_counter, outfile>>

CountCase ==
  /\ Processing
  /\ IsCase(in_list[1]) /\ IsCase(in_list[i])
  /\ last_case' = i
  /\ case_counter' = 0
  /\ i' = i + 1
  /\ UNCHANGED <<pc, readVars, in_list, flags, incase, outfile>>

-----------------------------------------------------------------------------
(***************************************************************************)
(* Back in main: write the flagged items, or drop the body.                *)
(***************************************************************************)
Processed == pc = "process" /\ i > Len(in_list)

\* The file as it is once it has been opened: its first line is the origin.
Opened(f) == IF f = <<>> THEN <<OriginLine>> ELSE f

OpenBody ==
  /\ Processed
  /\ flags # {}
  /\ outfile' = Append(Append(Opened(outfile), temp_funcDecl), LeftLine)
  /\ pc' = "write"
  /\ i' = 1
  /\ UNCHANGED <<readVars, in_list, flags, last_case, incase, case_counter>>

DropBody ==
  /\ Processed
  /\ flags = {}
  /\ pc' = "main"
  /\ ResetBuffers
  /\ UNCHANGED <<readVars, outfile>>

WriteItem ==
  /\ pc = "write"
  /\ i <= Len(in_list)
  /\ outfile' = IF i \in flags THEN Append(outfile, in_list[i]) ELSE outfile
  /\ i' = i + 1
  /\ UNCHANGED <<pc, readVars, in_list, flags, last_case, incase, case_counter>>

CloseBody ==
  /\ pc = "write"
  /\ i > Len(in_list)
  /\ outfile' = Append(outfile, RightLine)
  /\ pc' = "main"
  /\ ResetBuffers
  /\ UNCHANGED readVars

-----------------------------------------------------------------------------
Read(line) ==
  \/ ReadDecl(line) \/ ReadRight(line) \/ ReadLeft(line)
  \/ ReadFirstItem(line) \/ ReadIgnored(line)
  \/ CollectItem(line) \/ CollectIgnored(line) \/ CollectRight(line)

Step ==
  \/ ReadEof \/ CollectEof
  \/ PairTrans \/ PairCase \/ CountTrans \/ CountCase
  \/ OpenBody \/ DropBody \/ WriteItem \/ CloseBody

Next == (\E line \in Line : Read(line)) \/ Step

\* The program is sequential and runs until it has read its whole file.
Spec == Init /\ [][Next]_vars /\ WF_vars(Next)

-----------------------------------------------------------------------------
TypeOK ==
  /\ pc \in {"main", "collect", "process", "write", "done"}
  /\ nread \in 0..MaxLines
  /\ eof \in BOOLEAN
  /\ curState \in 0..3
  /\ temp_funcDecl \in Line \cup {NoDecl}
  /\ in_list \in Seq(Line)
  /\ flags \in SUBSET (1..Len(in_list))
  /\ i \in Nat
  /\ last_case \in Nat
  /\ incase \in BOOLEAN
  /\ case_counter \in Nat
  /\ outfile \in Seq(Line \cup {OriginLine})

(***************************************************************************)
(* process_list, which makes one pass with a label index and a counter,    *)
(* flags exactly the items the declarative reference asks for: every       *)
(* transfer that shares an execution with another one, and their labels.   *)
(***************************************************************************)
FlagsAreKept == (Processed \/ pc = "write") => flags = Kept(in_list)

(***************************************************************************)
(* The file written so far has the format filter2.py parses; in particular *)
(* no label is written without the transfer that follows it, although      *)
(* labels and transfers are flagged by different branches of process_list. *)
(***************************************************************************)
OutputWellFormed ==
  /\ WellFormed(outfile)
  /\ pc # "write" => Complete(outfile)

(***************************************************************************)
(* No candidate is lost: main goes back to reading from a body without     *)
(* writing it only if no two transfers of it can be executed together.     *)
(***************************************************************************)
DroppedHasNoPair ==
  [][(pc \in {"collect", "process"} /\ pc' = "main") => (Kept(in_list) = {})]_vars
=============================================================================
