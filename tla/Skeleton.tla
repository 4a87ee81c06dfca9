------------------------------ MODULE Skeleton ------------------------------
(***************************************************************************)
(* The vocabulary shared by the two phases of the text-level filter        *)
(* (text-filter/filter.py and text-filter/filter2.py): the lines of a      *)
(* skeleton file, how `identify' classifies them, and what it means for a  *)
(* transfer call of a function body to be worth keeping.                   *)
(*                                                                         *)
(* A line is a record [head, text].  The head is the prefix `identify'     *)
(* looks at; the text is what is left of the line as far as anybody reads  *)
(* it: the declaration it is, the call it makes, or nothing.               *)
(***************************************************************************)
EXTENDS Integers, Sequences

CONSTANTS
  Decls,   \* declarations that may open a function
  Args,    \* user-space pointer expressions passed to a transfer function
  Calls,   \* the transfer calls that occur, as is_same reads them
  Origin,  \* the path of the source file, first line of a skeleton file
  NoText   \* the text of a line nobody reads beyond its head

Trans == {"get_user", "copy_from_user"}
Cases == {"case", "default"}

(***************************************************************************)
(* A transfer call as filter2.py's is_same reads it: the pointer argument, *)
(* whether the call is complete on its line (the comma and the closing     *)
(* parenthesis it searches for are there), and whether the argument holds  *)
(* a ++.                                                                   *)
(***************************************************************************)
ASSUME CallsAssumption == Calls \subseteq [arg : Args, complete : BOOLEAN, inc : BOOLEAN]

Line ==
       [head : {"other"}, text : Decls]
  \cup [head : Trans, text : Calls]
  \cup [head : Cases \cup {"{", "}", "blank"}, text : {NoText}]

\* The lines the two phases write themselves.
OriginLine == [head |-> "other", text |-> Origin]
LeftLine   == [head |-> "{", text |-> NoText]
RightLine  == [head |-> "}", text |-> NoText]

\* temp_funcDecl before a declaration has been read
NoDecl == [head |-> "other", text |-> NoText]

identify(line) ==
  IF line.head \in Trans THEN "trans"
  ELSE IF line.head \in Cases THEN "case"
  ELSE IF line.head = "other" THEN "funcDecl"
  ELSE line.head

IsTrans(line) == identify(line) = "trans"
IsCase(line)  == identify(line) = "case"
IsItem(line)  == IsTrans(line) \/ IsCase(line)

-----------------------------------------------------------------------------
(***************************************************************************)
(* The reference both phases are measured against.  L is the sequence of   *)
(* transfer calls and case labels of one function body.                    *)
(*                                                                         *)
(* Two transfers a < b can be executed by one call of the function when no *)
(* label separates them, or when a stands before the first label.          *)
(***************************************************************************)
NoCase(L, m, n) == \A k \in m..n : ~IsCase(L[k])

SamePath(L, a, b) == NoCase(L, 1, a) \/ NoCase(L, a + 1, b)

Pair(L, a, b) ==
  /\ IsTrans(L[a])
  /\ IsTrans(L[b])
  /\ SamePath(L, a, b)

\* The label whose section item j belongs to, if there is one.
LabelOf(L, c, j) == c < j /\ IsCase(L[c]) /\ NoCase(L, c + 1, j)

\* The items of L[1..n] that are in a pair, with the labels of the pairs.
PairedUpTo(L, n) ==
  {j \in 1..n : \/ \E b \in (j + 1)..n : Pair(L, j, b)
                \/ \E a \in 1..(j - 1) : Pair(L, a, j)}

KeptUpTo(L, n) ==
  PairedUpTo(L, n) \cup
  {c \in 1..n : \E j \in PairedUpTo(L, n) : LabelOf(L, c, j)}

Kept(L) == KeptUpTo(L, Len(L))

-----------------------------------------------------------------------------
(***************************************************************************)
(* The format of a skeleton file, which phase 1 writes and phase 2 parses: *)
(* the origin, then bodies of a declaration, a brace, items and a brace.   *)
(* A case label is always followed by a transfer call.                     *)
(***************************************************************************)
MayFollow(line, next) ==
  /\ IsCase(line) => IsTrans(next)
  /\ IsTrans(line) => IsItem(next) \/ identify(next) = "}"
  /\ identify(line) = "{" => IsItem(next)
  /\ identify(line) = "}" => identify(next) = "funcDecl"
  /\ identify(line) = "funcDecl" => identify(next) = "{"

WellFormed(f) ==
  /\ Len(f) > 0 => f[1] = OriginLine
  /\ Len(f) > 1 => identify(f[2]) = "funcDecl"
  /\ \A k \in 2..(Len(f) - 1) : MayFollow(f[k], f[k + 1])

\* A file whose writer has finished.
Complete(f) == WellFormed(f) /\ (Len(f) > 0 => identify(f[Len(f)]) = "}")
=============================================================================
