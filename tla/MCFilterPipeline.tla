-------------------------- MODULE MCFilterPipeline --------------------------
(***************************************************************************)
(* Both phases on every source of up to MaxLines lines; phase 2 on every   *)
(* file of up to MaxAny lines behind the origin, and on every well-formed  *)
(* file with one body of up to MaxItems items, complete or cut short.      *)
(***************************************************************************)
EXTENDS FilterPipeline

CONSTANTS d1, p, q, src, none,
  MaxAny,    \* bound: lines of an arbitrary file
  MaxItems   \* bound: items of a body

MCDecls == {d1}
MCArgs == {p, q}

Call(a, c, inc) == [arg |-> a, complete |-> c, inc |-> inc]
MCCalls == {Call(p, TRUE, FALSE), Call(p, TRUE, TRUE), Call(q, TRUE, FALSE),
            Call(q, FALSE, FALSE)}

Decl == [head |-> "other", text |-> d1]
Label == [head |-> "case", text |-> none]
Get(c) == [head |-> "get_user", text |-> c]
Copy(c) == [head |-> "copy_from_user", text |-> c]

Blank == [head |-> "blank", text |-> none]

MCSourceLines ==
  {Decl, LeftLine, RightLine, Label, Blank, [head |-> "default", text |-> none],
   Get(Call(p, TRUE, FALSE)), Get(Call(q, TRUE, FALSE)), Copy(Call(p, TRUE, FALSE))}

UpTo(n, S) == UNION {[1..m -> S] : m \in 0..n}

AnyLines == {Decl, LeftLine, RightLine, Label, Get(Call(p, TRUE, FALSE)), Blank}
AnyFiles == {<<OriginLine>> \o f : f \in UpTo(MaxAny, AnyLines)}

Items == {Label, Copy(Call(p, TRUE, FALSE)), Get(Call(p, TRUE, FALSE)),
          Get(Call(p, TRUE, TRUE)), Get(Call(q, FALSE, FALSE))}
Bodies == {<<OriginLine, Decl, LeftLine>> \o b : b \in UpTo(MaxItems, Items)}

\* A second body behind the first, for what is carried from one to the next.
SecondBody == <<Decl, LeftLine, Get(Call(p, TRUE, FALSE)), Label, Get(Call(p, TRUE, FALSE)), RightLine>>

MCOldFiles ==
  AnyFiles
    \cup {f \in Bodies : WellFormed(f)}
    \cup {f \o <<RightLine>> \o SecondBody : f \in {b \in Bodies : Complete(b \o <<RightLine>>)}}
=============================================================================
