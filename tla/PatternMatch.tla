---------------------------- MODULE PatternMatch ----------------------------
(***************************************************************************)
(* The Coccinelle pattern matcher: cocci/pattern_match_linux.cocci (the    *)
(* FreeBSD rules differ in the names of the transfer functions only), on   *)
(* one function.                                                           *)
(*                                                                         *)
(* A function is a sequence of statements, one per line, with at most one  *)
(* jump: forward, over a branch, or backward, round a loop.  A rule is     *)
(* `exists': it matches if one path does.  Dots stand for statements that  *)
(* are not excluded by their `when !=' clauses and, but for `when any',    *)
(* are none of what the pattern has on either side of the dots.            *)
(*                                                                         *)
(* A pointer expression is a variable and the form the text has around it: *)
(* plain, v + n, v - n, v[n], (T)v, v->f, v->f - n, v.f, &v.               *)
(***************************************************************************)
EXTENDS Integers, Sequences, FiniteSets

CONSTANTS
  Vars,      \* the pointers of a function
  Functions  \* the functions that are given to the rules

\* What post_match_process finds in the text of an expression.
Marks ==
  [plain |-> {}, plus |-> {"+"}, minus |-> {"-"}, index |-> {"["}, cast |-> {"("},
   arrow |-> {"-", "->"}, arrowMinus |-> {"-", "->"}, dot |-> {}, address |-> {}]

Exp == [var : Vars, form : DOMAIN Marks]

\* A transfer from exp, any of the changes of exp a rule excludes, the copy
\* of one pointer to another, with or without a cast, or something else.
Stmt ==
       [op : {"fetch", "change"}, exp : Exp]
  \cup [op : {"copy"}, exp : Exp, src : Exp]
  \cup [op : {"other"}]

ASSUME PatternMatchAssumption == Functions \subseteq Seq(Stmt) \ {<<>>}

VARIABLES
  code,      \* the statement on each line
  jump,      \* <<from, to>>
  rule,      \* the rule being run; 7 when all have been
  todo,      \* matches of this rule still to be handed to its script
  reported,  \* what print_and_log has written to result.txt
  count

vars == <<code, jump, rule, todo, reported, count>>

Lines == DOMAIN code

Init ==
  /\ code \in Functions
  /\ jump \in Lines \X Lines
  /\ rule = 0
  /\ todo = {}
  /\ reported = {}
  /\ count = 0

-----------------------------------------------------------------------------
(***************************************************************************)
(* Paths and the parts of a pattern.                                       *)
(***************************************************************************)
Straight == [k \in Lines |-> k]

Jumping ==
  LET from == jump[1] to == jump[2]
  IN  [k \in 1..(from + Len(code) - to + 1) |-> IF k <= from THEN k ELSE to + k - from - 1]

Paths == {Straight, Jumping}

At(P, k) == code[P[k]]

Plain(v) == [var |-> v, form |-> "plain"]

\* The expressions `src' is bound to by a transfer: (T)src and src both
\* match a cast.
Bound(P, k) ==
  LET s == At(P, k)
  IN  IF s.op # "fetch" THEN {}
      ELSE IF s.exp.form = "cast" THEN {s.exp, Plain(s.exp.var)} ELSE {s.exp}

Copies(P, k, ptr, src) ==
  LET s == At(P, k) IN s.op = "copy" /\ s.exp = ptr /\ s.src = src

\* e += offset, e++, ..., e = addr; the last one includes a copy.
Changes(s, e) == s.op \in {"change", "copy"} /\ s.exp = e

\* The `when !=' clauses for e between positions i and j.
Keeps(P, i, j, e) == \A k \in (i + 1)..(j - 1) : ~Changes(At(P, k), e)

\* Dots without `when any' are the shortest way from what stands before them
\* to what stands behind: neither occurs within.  This for transfers.
Shortest(P, i, j, exps) == \A k \in (i + 1)..(j - 1) : Bound(P, k) \cap exps = {}

\* The same for the copy of the pointer.
NoCopy(P, i, j, ptr, src) == \A k \in (i + 1)..(j - 1) : ~Copies(P, k, ptr, src)

\* The dots in front of the first fetch and behind the last one.
Ends(P, i, j, one, two) == Shortest(P, 0, i, {one}) /\ Shortest(P, j, Len(P) + 1, {two})

-----------------------------------------------------------------------------
(***************************************************************************)
(* The rules, on the fetches at positions i and j of a path.               *)
(***************************************************************************)
\* rule1: the same expression twice; its middle dots are `when any'.
SameExpression(P, i, j, src, ptr) ==
  /\ ptr = src /\ src \in Bound(P, i) \cap Bound(P, j)
  /\ Ends(P, i, j, src, src)
  /\ Keeps(P, i, j, src)

\* The copy of rule2 and rule3, at position a, one being fetched first.
CopyFirst(P, i, ptr, src, one) ==
  \E a \in 1..(i - 1) :
    /\ Copies(P, a, ptr, src)
    /\ NoCopy(P, 0, a, ptr, src)
    /\ NoCopy(P, a, i, ptr, src) /\ Shortest(P, a, i, {one})

\* rule2: ptr = src at the beginning, ptr is fetched first.
CopyThenPtr(P, i, j, src, ptr) ==
  /\ ptr \in Bound(P, i) /\ src \in Bound(P, j)
  /\ CopyFirst(P, i, ptr, src, ptr)
  /\ Keeps(P, i, j, src) /\ Shortest(P, i, j, {src, ptr})
  /\ Shortest(P, j, Len(P) + 1, {src})

\* rule3: ptr = src at the beginning, src is fetched first.
CopyThenSrc(P, i, j, src, ptr) ==
  /\ src \in Bound(P, i) /\ ptr \in Bound(P, j)
  /\ CopyFirst(P, i, ptr, src, src)
  /\ Keeps(P, i, j, ptr) /\ Shortest(P, i, j, {src, ptr})
  /\ Shortest(P, j, Len(P) + 1, {ptr})

\* Mutant: rule4 without the clauses behind the copy.
CopyBetweenUnkept(P, i, j, src, ptr) ==
  /\ src \in Bound(P, i) /\ ptr \in Bound(P, j)
  /\ Ends(P, i, j, src, ptr)
  /\ \E a \in (i + 1)..(j - 1) :
       /\ Copies(P, a, ptr, src) /\ NoCopy(P, i, a, ptr, src) /\ NoCopy(P, a, j, ptr, src)
       /\ Keeps(P, i, a, src) /\ Shortest(P, i, a, {src})
       /\ Shortest(P, a, j, {ptr})

\* rule4: ptr = src in the middle.
CopyBetween(P, i, j, src, ptr) ==
  /\ src \in Bound(P, i) /\ ptr \in Bound(P, j)
  /\ Ends(P, i, j, src, ptr)
  /\ \E a \in (i + 1)..(j - 1) :
       /\ Copies(P, a, ptr, src) /\ NoCopy(P, i, a, ptr, src) /\ NoCopy(P, a, j, ptr, src)
       /\ Keeps(P, i, a, src) /\ Shortest(P, i, a, {src})
       /\ Keeps(P, a, j, ptr) /\ Shortest(P, a, j, {ptr})

\* rule5: an element of a structure, then the structure.
ElementThenPointer(P, i, j, src, ptr) ==
  LET element == [src EXCEPT !.form = "arrow"]
  IN  /\ src.form = "plain" /\ ptr = src
      /\ element \in Bound(P, i) /\ src \in Bound(P, j)
      /\ Ends(P, i, j, element, src)
      /\ Keeps(P, i, j, src) /\ Shortest(P, i, j, {element, src})

\* rule6: the same with the dot; nothing changes the address of src.
ElementThenAddress(P, i, j, src, ptr) ==
  LET element == [src EXCEPT !.form = "dot"]
      address == [src EXCEPT !.form = "address"]
  IN  /\ src.form = "plain" /\ ptr = src
      /\ element \in Bound(P, i) /\ address \in Bound(P, j)
      /\ Ends(P, i, j, element, address)
      /\ Shortest(P, i, j, {element, address})

Matched(r, P, i, j, src, ptr) ==
  \/ r = 1 /\ SameExpression(P, i, j, src, ptr)
  \/ r = 2 /\ CopyThenPtr(P, i, j, src, ptr)
  \/ r = 3 /\ CopyThenSrc(P, i, j, src, ptr)
  \/ r = 4 /\ CopyBetween(P, i, j, src, ptr)
  \/ r = 5 /\ ElementThenPointer(P, i, j, src, ptr)
  \/ r = 6 /\ ElementThenAddress(P, i, j, src, ptr)

\* Positions of two fetches on a path.
FetchPairs(P) ==
  {ij \in (DOMAIN P) \X (DOMAIN P) :
     ij[1] < ij[2] /\ At(P, ij[1]).op = "fetch" /\ At(P, ij[2]).op = "fetch"}

\* What src and ptr can be bound to on a fetch pair.
Candidates(P, i, j) ==
  LET B == Bound(P, i) \cup Bound(P, j) IN B \cup {Plain(e.var) : e \in B}

\* What the script of rule r is called with.  For the last two rules ptr is
\* the name of the element, a plain identifier.
Matches(r) ==
  UNION {UNION {
    LET i == ij[1] j == ij[2] E == Candidates(P, i, j)
    IN  {[rule |-> r, first |-> P[i], second |-> P[j], src |-> st[1], ptr |-> st[2]] :
           st \in {x \in E \X E : Matched(r, P, i, j, x[1], x[2])}}
    : ij \in FetchPairs(P)} : P \in Paths}

-----------------------------------------------------------------------------
Has(m, mark) == mark \in Marks[m.src.form] \cup Marks[m.ptr.form]

HasMinus(e) == "-" \in Marks[e.form] /\ "->" \notin Marks[e.form]

\* Mutant: the two fetches have to be more than a line apart.
RemovedOffByOne(m) ==
  \/ m.first + 1 >= m.second
  \/ Has(m, "+") \/ Has(m, "[") \/ Has(m, "(")
  \/ HasMinus(m.src) \/ HasMinus(m.ptr)

\* The early returns of post_match_process.
Removed(m) ==
  \/ m.first = m.second
  \/ m.first > m.second
  \/ Has(m, "+") \/ Has(m, "[") \/ Has(m, "(")
  \/ HasMinus(m.src) \/ HasMinus(m.ptr)

NextRule ==
  /\ todo = {}
  /\ rule < 7
  /\ rule' = rule + 1
  /\ todo' = IF rule' < 7 THEN Matches(rule') ELSE {}
  /\ UNCHANGED <<code, jump, reported, count>>

RemoveMatch(m) ==
  /\ Removed(m)
  /\ todo' = todo \ {m}
  /\ UNCHANGED <<code, jump, rule, reported, count>>

print_and_log(m) ==
  /\ ~Removed(m)
  /\ todo' = todo \ {m}
  /\ reported' = reported \cup {m}
  /\ count' = count + 1
  /\ UNCHANGED <<code, jump, rule>>

\* post_match_process, called by the script of the rule.
post_match_process(m) == RemoveMatch(m) \/ print_and_log(m)

Next == NextRule \/ \E m \in todo : post_match_process(m)

Spec == Init /\ [][Next]_vars

-----------------------------------------------------------------------------
(***************************************************************************)
(* The reference: what the pointers hold along a path.                     *)
(***************************************************************************)

\* The value of each variable behind position k: where it was made.
Values(P) ==
  LET val[k \in 0..Len(P)] ==
        IF k = 0 THEN [v \in Vars |-> <<v, 0>>]
        ELSE LET s == At(P, k) IN
             IF s.op = "change" /\ s.exp.form = "plain"
               THEN [val[k - 1] EXCEPT ![s.exp.var] = <<s.exp.var, k>>]
             ELSE IF s.op = "copy"
               THEN [val[k - 1] EXCEPT ![s.exp.var] = val[k - 1][s.src.var]]
             ELSE val[k - 1]
  IN  val

IsPointer(e) == e.form \in {"plain", "cast"}

\* The object a fetch goes to: the variable itself, or what it points to.
Base(P, k) ==
  LET e == At(P, k).exp
  IN  IF e.form \in {"dot", "address"} THEN <<e.var, -1>> ELSE Values(P)[k - 1][e.var]

SameBase(P, i, j) == Base(P, i) = Base(P, j)

\* A loop can bring a line up twice, so a report stands for several pairs.
PairsOf(m) ==
  {<<P, ij>> \in UNION {{P} \X FetchPairs(P) : P \in Paths} :
     P[ij[1]] = m.first /\ P[ij[2]] = m.second}

\* The reports are numbered one by one; matches are those of the rules run.
TypeOK ==
  /\ rule \in 0..7
  /\ count = Cardinality(reported)
  /\ \A m \in todo \cup reported : m.first \in Lines /\ m.second \in Lines /\ m.rule \in 1..rule

(***************************************************************************)
(* What is reported is a double fetch: on some path both transfers go      *)
(* through one pointer value.  The clauses of the rules leave two gaps and *)
(* no third: rule2 and rule3 do not look at what happens between the copy  *)
(* and the first fetch, and the change of v is not a change of v->f.       *)
(***************************************************************************)
CopySpoilt(P, i, m) ==
  /\ m.rule \in {2, 3}
  /\ \E a \in 1..(i - 1) :
       Copies(P, a, m.ptr, m.src) /\ ~(Keeps(P, a, i, m.ptr) /\ Keeps(P, a, i, m.src))

ReportsAreDoubleFetches ==
  \A m \in reported :
    \E x \in PairsOf(m) :
      LET P == x[1] i == x[2][1] j == x[2][2] IN
      \/ SameBase(P, i, j)
      \/ CopySpoilt(P, i, m)
      \/ m.rule = 1 /\ m.src.form \in {"arrow", "arrowMinus"}

(***************************************************************************)
(* On a path with at most one copy of a pointer, two transfers on          *)
(* different lines, in this order, whose pointers hold the same value are  *)
(* reported by one of the rules, whichever variables they go through and   *)
(* wherever the copy stands, if no third transfer of the path goes through *)
(* either variable.  (With a third one the dots can hide a pair.)          *)
(***************************************************************************)
DoubleFetchesAreReported ==
  rule = 7 =>
    \A P \in Paths :
      Cardinality({k \in DOMAIN P : At(P, k).op = "copy"}) <= 1 =>
        \A ij \in FetchPairs(P) :
          LET one == At(P, ij[1]).exp two == At(P, ij[2]).exp
              third(k) == /\ k \notin {ij[1], ij[2]} /\ At(P, k).op = "fetch"
                          /\ At(P, k).exp.var \in {one.var, two.var}
          IN  (/\ P[ij[1]] < P[ij[2]]
               /\ IsPointer(one) /\ IsPointer(two)
               /\ SameBase(P, ij[1], ij[2])
               /\ \A k \in DOMAIN P : ~third(k))
              => \E m \in reported : m.first = P[ij[1]] /\ m.second = P[ij[2]]

=============================================================================
