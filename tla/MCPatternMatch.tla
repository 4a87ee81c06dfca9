--------------------------- MODULE MCPatternMatch ---------------------------
(***************************************************************************)
(* The rules on every function of a bounded length, with every jump.       *)
(***************************************************************************)
EXTENDS PatternMatch

CONSTANTS
  p, q,
  PointerLines,  \* bound: length of the functions over two pointers
  FormLines      \* bound: length of those with one pointer in all its forms

MCVars == {p, q}

E(v, f) == [var |-> v, form |-> f]
Fetch(v, f) == [op |-> "fetch", exp |-> E(v, f)]
Change(v, f) == [op |-> "change", exp |-> E(v, f)]
Copy(v, w) == [op |-> "copy", exp |-> E(v, "plain"), src |-> E(w, "plain")]

\* Fetches, copies and changes of two pointers.
PointerStmts ==
  {Fetch(p, "plain"), Fetch(q, "plain"), Change(p, "plain"), Change(q, "plain"),
   Copy(p, q), Copy(q, p)}

\* Fetches of one pointer in every form.
FormStmts ==
  {Fetch(p, f) : f \in DOMAIN Marks} \cup {Change(p, "plain"), Change(p, "arrow"), [op |-> "other"]}

MCFunctions == [1..PointerLines -> PointerStmts] \cup [1..FormLines -> FormStmts]
=============================================================================
