----------------------------- MODULE AuditTrees -----------------------------
(***************************************************************************)
(* The references to audit chunks (watched directories) a system call      *)
(* collects (auto_fix/patched_files/1-patched-auditsc.c): a chain of       *)
(* blocks of BlockSize entries, filled from the end of each block, kept    *)
(* from one call to the next, and unrolled when a walk has to start again. *)
(*                                                                         *)
(* A chain is a record: c, the blocks (first_trees and what follows); at,  *)
(* the number of the block ->trees points to, 0 for NULL; left,            *)
(* tree_count, the free entries of that block.                             *)
(***************************************************************************)
EXTENDS Integers, Sequences, FiniteSets

CONSTANTS
  BlockSize,   \* 31
  Chunks, NoChunk

ASSUME AuditTreesAssumption == BlockSize \in Nat \ {0} /\ NoChunk \notin Chunks

Block == [1 .. BlockSize -> Chunks \cup {NoChunk}]
EmptyBlock == [i \in 1 .. BlockSize |-> NoChunk]

\* The original condition, (NULL, NULL, 0).
NoChain == [c |-> <<>>, at |-> 0, left |-> 0]

IsChain(t) ==
  /\ t.c \in Seq(Block) /\ t.at \in 0 .. Len(t.c) /\ t.left \in 0 .. BlockSize

\* The places of a chain, and the references in it.
Places(t) == (1 .. Len(t.c)) \X (1 .. BlockSize)
Count(t, k) == Cardinality({x \in Places(t) : t.c[x[1]][x[2]] = k})

-----------------------------------------------------------------------------
\* put_tree_ref: is there room, and the chain with one reference more.
HasRoom(t) == t.left > 0 \/ (t.at > 0 /\ t.at < Len(t.c))

PutTreeRef(t, k) ==
  IF t.left > 0
  THEN [t EXCEPT !.c[t.at][t.left] = k, !.left = @ - 1]
  ELSE [t EXCEPT !.c[t.at + 1][BlockSize] = k, !.at = @ + 1, !.left = BlockSize - 1]

\* grow_tree_refs: only called when put_tree_ref has failed, so ->trees is the
\* last block.
GrowTreeRefs(t) ==
  [c |-> Append(t.c, EmptyBlock), at |-> Len(t.c) + 1, left |-> BlockSize]

\* Mutant: while (--n > tree_count) keeps the last reference.
UnrolledButOne(t, p, n) ==
  LET from == IF p = 0 THEN 1 ELSE p
      top == IF p = 0 THEN BlockSize ELSE n
  IN  {x \in Places(t) : /\ x[1] >= from /\ x[1] <= t.at
                         /\ x[2] <= (IF x[1] = from THEN top ELSE BlockSize)
                         /\ x[2] > (IF x[1] = t.at THEN t.left + 1 ELSE 0)}

\* unroll_tree_refs back to block p with n free entries; p = 0 stands for a
\* chain that was empty.
Unrolled(t, p, n) ==
  LET from == IF p = 0 THEN 1 ELSE p
      top == IF p = 0 THEN BlockSize ELSE n
  IN  {x \in Places(t) : /\ x[1] >= from /\ x[1] <= t.at
                         /\ x[2] <= (IF x[1] = from THEN top ELSE BlockSize)
                         /\ x[2] > (IF x[1] = t.at THEN t.left ELSE 0)}

UnrollTreeRefs(t, p, n) ==
  IF p = 0 /\ t.c = <<>> THEN t
  ELSE [c |-> [b \in DOMAIN t.c |-> [i \in 1 .. BlockSize |->
               IF <<b, i>> \in Unrolled(t, p, n) THEN NoChunk ELSE t.c[b][i]]],
        at |-> IF p = 0 THEN 1 ELSE p, left |-> IF p = 0 THEN BlockSize ELSE n]

\* How many references to k unroll_tree_refs drops.
Dropped(t, p, n, k) == Cardinality({x \in Unrolled(t, p, n) : t.c[x[1]][x[2]] = k})

\* match_tree_refs: the full blocks, then the used part of the last one.
MatchTreeRefs(t, k) ==
  \/ \E b \in 1 .. t.at - 1, i \in 1 .. BlockSize : t.c[b][i] = k
  \/ t.at > 0 /\ \E i \in t.left + 1 .. BlockSize : t.c[t.at][i] = k
=============================================================================
