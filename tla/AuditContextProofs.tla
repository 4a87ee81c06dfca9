------------------------- MODULE AuditContextProofs -------------------------
(***************************************************************************)
(* Proofs about the audit context of a task, for any file names, rules and *)
(* trees, any number of operations per call and any size of the blocks.    *)
(***************************************************************************)
EXTENDS AuditContext, FiniteSetTheorems, WellFoundedInduction, TLAPS

-----------------------------------------------------------------------------
(***************************************************************************)
(* The chain of tree references.                                           *)
(***************************************************************************)
\* The places of a chain that hold k, and those that are free.
At(t, k) == {x \in Places(t) : t.c[x[1]][x[2]] = k}
Free(t, x) == x[1] > t.at \/ (x[1] = t.at /\ x[2] <= t.left)

\* A chain with its free part empty; block 0 is there only before the first.
ChainOK(t) ==
  /\ IsChain(t) /\ t = [c |-> t.c, at |-> t.at, left |-> t.left]
  /\ t.at = 0 => t.c = <<>> /\ t.left = 0
  /\ \A x \in Places(t) : Free(t, x) => t.c[x[1]][x[2]] = NoChunk

LEMMA ChainTypes ==
  ASSUME NEW t, ChainOK(t)
  PROVE  /\ Len(t.c) \in Nat /\ t.at \in 0 .. Len(t.c) /\ t.at \in Nat
         /\ t.left \in 0 .. BlockSize /\ t.left \in Nat /\ BlockSize \in Nat /\ BlockSize >= 1
         /\ t.c \in Seq(Block) /\ DOMAIN t.c = 1 .. Len(t.c)
         /\ \A b \in 1 .. Len(t.c) : t.c[b] \in Block
         /\ t.at = 0 => t.c = <<>> /\ Len(t.c) = 0 /\ t.left = 0
<1>1. BlockSize \in Nat /\ BlockSize >= 1
  BY AuditTreesAssumption
<1>2. t.c \in Seq(Block) /\ t.at \in 0 .. Len(t.c) /\ t.left \in 0 .. BlockSize
  BY DEF ChainOK, IsChain
<1>3. Len(t.c) \in Nat /\ DOMAIN t.c = 1 .. Len(t.c) /\ \A b \in 1 .. Len(t.c) : t.c[b] \in Block
  BY <1>2
<1>4. t.at = 0 => t.c = <<>> /\ Len(t.c) = 0 /\ t.left = 0
  <2>1. t.at = 0 => t.c = <<>> /\ t.left = 0
    BY DEF ChainOK
  <2> QED BY <2>1
<1>5. t.at \in Nat /\ t.left \in Nat
  BY <1>1, <1>2, <1>3
<1> QED BY <1>1, <1>2, <1>3, <1>4, <1>5

LEMMA PlacesFinite ==
  ASSUME NEW t, ChainOK(t), NEW S, S \subseteq Places(t)
  PROVE  IsFiniteSet(S) /\ Cardinality(S) \in Nat
<1>1. IsFiniteSet(1 .. Len(t.c)) /\ IsFiniteSet(1 .. BlockSize)
  <2>1. 1 \in Int /\ Len(t.c) \in Int /\ BlockSize \in Int
    BY ChainTypes
  <2> QED BY ONLY <2>1, FS_Interval
<1>2. IsFiniteSet(Places(t))
  BY <1>1, FS_Product DEF Places
<1>3. IsFiniteSet(S)
  BY <1>2, FS_Subset
<1> QED BY <1>3, FS_CardinalityType

LEMMA CountIs == \A t, k : Count(t, k) = Cardinality(At(t, k))
BY DEF Count, At

\* Putting a reference into a chain.
LEMMA PutChain ==
  ASSUME NEW t, ChainOK(t), HasRoom(t), NEW k \in Chunks
  PROVE  /\ ChainOK(PutTreeRef(t, k)) /\ Len(PutTreeRef(t, k).c) = Len(t.c)
         /\ Count(PutTreeRef(t, k), k) = Count(t, k) + 1
         /\ \A j \in Chunks \ {k} : Count(PutTreeRef(t, k), j) = Count(t, j)
         /\ MatchTreeRefs(PutTreeRef(t, k), k)
         /\ \A j : MatchTreeRefs(t, j) => MatchTreeRefs(PutTreeRef(t, k), j)
<1> DEFINE b == IF t.left > 0 THEN t.at ELSE t.at + 1
           i == IF t.left > 0 THEN t.left ELSE BlockSize
           u == PutTreeRef(t, k)
<1>1. /\ b \in 1 .. Len(t.c) /\ i \in 1 .. BlockSize /\ <<b, i>> \in Places(t)
      /\ Free(t, <<b, i>>) /\ t.c[b][i] = NoChunk /\ t.c[b] \in Block
  <2>1. b \in 1 .. Len(t.c) /\ i \in 1 .. BlockSize
    BY ChainTypes DEF HasRoom
  <2>2. Free(t, <<b, i>>)
    BY ChainTypes DEF Free
  <2>3. <<b, i>> \in Places(t)
    BY <2>1 DEF Places
  <2>4. t.c[b][i] = NoChunk
    BY <2>2, <2>3 DEF ChainOK
  <2> QED BY <2>1, <2>2, <2>3, <2>4, ChainTypes
<1>2. /\ u.c = [t.c EXCEPT ![b] = [t.c[b] EXCEPT ![i] = k]]
      /\ u.at = b /\ u.left = i - 1
      /\ u = [c |-> u.c, at |-> u.at, left |-> u.left]
  <2>1. t = [c |-> t.c, at |-> t.at, left |-> t.left]
    BY DEF ChainOK
  <2>2. CASE t.left > 0
    BY <2>1, <2>2, ChainTypes DEF PutTreeRef
  <2>3. CASE ~(t.left > 0)
    BY <2>1, <2>3, ChainTypes DEF PutTreeRef
  <2> QED BY <2>2, <2>3
<1> HIDE DEF b, i, u
<1>3. /\ u.c \in Seq(Block) /\ Len(u.c) = Len(t.c)
      /\ u.c[b][i] = k
      /\ \A x \in Places(t) : x # <<b, i>> => u.c[x[1]][x[2]] = t.c[x[1]][x[2]]
  <2>1. [t.c[b] EXCEPT ![i] = k] \in Block
    BY <1>1, k \in Chunks DEF Block
  <2>2. u.c \in Seq(Block) /\ Len(u.c) = Len(t.c)
    BY <1>1, <1>2, <2>1, ChainTypes
  <2>3. u.c[b] = [t.c[b] EXCEPT ![i] = k] /\ \A y \in 1 .. Len(t.c) : y # b => u.c[y] = t.c[y]
    BY <1>1, <1>2, ChainTypes
  <2>4. u.c[b][i] = k
    BY <1>1, <2>3 DEF Block
  <2>5. ASSUME NEW x \in Places(t), x # <<b, i>>
        PROVE  u.c[x[1]][x[2]] = t.c[x[1]][x[2]]
    <3>1. x[1] \in 1 .. Len(t.c) /\ x[2] \in 1 .. BlockSize /\ x = <<x[1], x[2]>>
      BY DEF Places
    <3>2. CASE x[1] = b
      <4>1. x[2] # i
        BY <2>5, <3>1, <3>2
      <4> QED BY <1>1, <2>3, <3>1, <3>2, <4>1 DEF Block
    <3> QED BY <2>3, <3>1, <3>2
  <2> QED BY <2>2, <2>4, <2>5
<1>4. Places(u) = Places(t)
  BY <1>3 DEF Places
<1>5. ChainOK(u)
  <2>1. IsChain(u)
    BY <1>1, <1>2, <1>3, ChainTypes DEF IsChain
  <2>2. ASSUME NEW x \in Places(u), Free(u, x)
        PROVE  u.c[x[1]][x[2]] = NoChunk
    <3>1. x[1] \in 1 .. Len(t.c) /\ x[2] \in 1 .. BlockSize /\ x = <<x[1], x[2]>>
      BY <1>4 DEF Places
    <3>2. x # <<b, i>>
      <4>1. x[1] = b => x[2] # i
        BY <1>1, <1>2, <2>2, <3>1 DEF Free
      <4> QED BY <4>1
    <3>3. Free(t, x)
      BY <1>1, <1>2, <2>2, <3>1, ChainTypes DEF Free, b, i
    <3> QED BY <1>3, <1>4, <3>2, <3>3 DEF ChainOK
  <2> QED BY <1>1, <1>2, <2>1, <2>2 DEF ChainOK
<1>6. At(u, k) = At(t, k) \cup {<<b, i>>} /\ <<b, i>> \notin At(t, k)
  <2>1. <<b, i>> \notin At(t, k)
    BY <1>1, AuditTreesAssumption DEF At
  <2>2. <<b, i>> \in At(u, k)
    BY <1>1, <1>3, <1>4 DEF At
  <2> QED BY <1>3, <1>4, <2>1, <2>2 DEF At
<1>7. ASSUME NEW j \in Chunks \ {k}
      PROVE  At(u, j) = At(t, j)
  <2>1. <<b, i>> \notin At(t, j)
    BY <1>1, AuditTreesAssumption DEF At
  <2>2. <<b, i>> \notin At(u, j)
    BY <1>3 DEF At
  <2> QED BY <1>3, <1>4, <2>1, <2>2 DEF At
<1>8. Count(u, k) = Count(t, k) + 1
  <2>1. IsFiniteSet(At(t, k))
    BY PlacesFinite DEF At
  <2> QED BY <1>6, <2>1, FS_AddElement, CountIs
<1>9. MatchTreeRefs(u, k)
  BY <1>1, <1>2, <1>3, ChainTypes DEF MatchTreeRefs
<1>10. ASSUME NEW j, MatchTreeRefs(t, j)
       PROVE  MatchTreeRefs(u, j)
  <2>1. PICK y \in 1 .. Len(t.c), z \in 1 .. BlockSize :
          t.c[y][z] = j /\ (y < t.at \/ (y = t.at /\ z > t.left))
    <3>1. CASE \E y \in 1 .. t.at - 1, z \in 1 .. BlockSize : t.c[y][z] = j
      <4>1. PICK y \in 1 .. t.at - 1, z \in 1 .. BlockSize : t.c[y][z] = j
        BY <3>1
      <4>2. y \in 1 .. Len(t.c) /\ y < t.at
        BY ChainTypes
      <4> QED BY <4>1, <4>2
    <3>2. CASE t.at > 0 /\ \E z \in t.left + 1 .. BlockSize : t.c[t.at][z] = j
      <4>1. PICK z \in t.left + 1 .. BlockSize : t.c[t.at][z] = j
        BY <3>2
      <4>2. z \in 1 .. BlockSize /\ z > t.left /\ t.at \in 1 .. Len(t.c)
        BY <3>2, ChainTypes
      <4> QED BY <4>1, <4>2
    <3> QED BY <1>10, <3>1, <3>2 DEF MatchTreeRefs
  <2>2. <<y, z>> \in Places(t) /\ <<y, z>> # <<b, i>>
    BY <2>1, ChainTypes DEF Places, b, i
  <2>3. u.c[y][z] = j
    BY <1>3, <2>1, <2>2
  <2>4. y < u.at \/ (y = u.at /\ z > u.left)
    BY <1>1, <1>2, <2>1, ChainTypes DEF b, i
  <2>5. CASE y < u.at
    <3>1. y \in 1 .. u.at - 1
      BY <1>1, <1>2, <2>5
    <3> QED BY <2>3, <3>1 DEF MatchTreeRefs
  <2>6. CASE y = u.at /\ z > u.left
    <3>1. u.at > 0 /\ z \in u.left + 1 .. BlockSize
      BY <1>1, <1>2, <2>6, ChainTypes
    <3> QED BY <2>3, <2>6, <3>1 DEF MatchTreeRefs
  <2> QED BY <2>4, <2>5, <2>6
<1> QED BY <1>3, <1>5, <1>7, <1>8, <1>9, <1>10, CountIs DEF u

\* Unrolling a chain, to a block and a number of free entries it has had.
LEMMA UnrollChain ==
  ASSUME NEW t, ChainOK(t), NEW p \in 0 .. Len(t.c), NEW n \in 0 .. BlockSize,
         p = 0 => n = 0
  PROVE  /\ ChainOK(UnrollTreeRefs(t, p, n)) /\ Len(UnrollTreeRefs(t, p, n).c) = Len(t.c)
         /\ \A k \in Chunks : Count(UnrollTreeRefs(t, p, n), k) = Count(t, k) - Dropped(t, p, n, k)
<1> DEFINE u == UnrollTreeRefs(t, p, n)  S == Unrolled(t, p, n)
<1>1. CASE p = 0 /\ t.c = <<>>
  <2>1. u = t /\ S = {}
    BY <1>1, ChainTypes DEF UnrollTreeRefs, Unrolled, Places
  <2>2. \A k \in Chunks : Dropped(t, p, n, k) = 0
    BY <2>1, FS_EmptySet DEF Dropped
  <2>3. \A k \in Chunks : Count(t, k) \in Nat
    <3> TAKE k \in Chunks
    <3>1. At(t, k) \subseteq Places(t)
      BY DEF At
    <3> QED BY <3>1, PlacesFinite, CountIs
  <2> QED BY <2>1, <2>2, <2>3
<1>2. CASE ~(p = 0 /\ t.c = <<>>)
  <2>1. /\ u.c = [b \in 1 .. Len(t.c) |-> [i \in 1 .. BlockSize |->
                     IF <<b, i>> \in S THEN NoChunk ELSE t.c[b][i]]]
        /\ u.at = (IF p = 0 THEN 1 ELSE p) /\ u.left = (IF p = 0 THEN BlockSize ELSE n)
        /\ u = [c |-> u.c, at |-> u.at, left |-> u.left]
    BY <1>2, ChainTypes DEF UnrollTreeRefs
  <2>2. S \subseteq Places(t)
    BY DEF Unrolled
  <2>3. \A x \in Places(t) : x[1] \in 1 .. Len(t.c) /\ x[2] \in 1 .. BlockSize /\ x = <<x[1], x[2]>>
    BY DEF Places
  <2>4. \A x \in Places(t) : Free(u, x) => x \in S \/ Free(t, x)
    <3> SUFFICES ASSUME NEW x \in Places(t), Free(u, x), ~Free(t, x) PROVE x \in S
      OBVIOUS
    <3>1. x[1] \in Nat /\ x[2] \in Nat /\ x[1] >= 1 /\ x[2] >= 1 /\ x[2] <= BlockSize
      BY <2>3, ChainTypes
    <3>2. x[1] <= t.at /\ (x[1] = t.at => x[2] > t.left)
      BY <3>1, ChainTypes DEF Free
    <3>3. x[1] >= (IF p = 0 THEN 1 ELSE p)
      BY <2>1, <3>1, ChainTypes DEF Free
    <3>4. x[1] = (IF p = 0 THEN 1 ELSE p) => x[2] <= (IF p = 0 THEN BlockSize ELSE n)
      BY <2>1, <3>1, ChainTypes DEF Free
    <3> QED BY <3>1, <3>2, <3>3, <3>4 DEF Unrolled
  <2> HIDE DEF u, S
  <2>5. /\ u.c \in Seq(Block) /\ Len(u.c) = Len(t.c)
        /\ \A x \in Places(t) : u.c[x[1]][x[2]] = IF x \in S THEN NoChunk ELSE t.c[x[1]][x[2]]
    <3>1. ASSUME NEW b \in 1 .. Len(t.c)
          PROVE  /\ u.c[b] \in Block
                 /\ \A i \in 1 .. BlockSize : u.c[b][i] = IF <<b, i>> \in S THEN NoChunk ELSE t.c[b][i]
      <4>1. u.c[b] = [i \in 1 .. BlockSize |-> IF <<b, i>> \in S THEN NoChunk ELSE t.c[b][i]]
        BY <2>1
      <4>2. t.c[b] \in [1 .. BlockSize -> Chunks \cup {NoChunk}]
        BY ChainTypes DEF Block
      <4> QED BY <4>1, <4>2 DEF Block
    <3>2. u.c \in [1 .. Len(t.c) -> Block]
      <4> DEFINE G(b) == [i \in 1 .. BlockSize |-> IF <<b, i>> \in S THEN NoChunk ELSE t.c[b][i]]
      <4>1. u.c = [b \in 1 .. Len(t.c) |-> G(b)]
        BY <2>1
      <4>2. \A b \in 1 .. Len(t.c) : G(b) = u.c[b]
        <5> HIDE DEF G
        <5> QED BY <4>1
      <4> HIDE DEF G
      <4>3. \A b \in 1 .. Len(t.c) : G(b) \in Block
        BY <3>1, <4>2
      <4> QED BY <4>1, <4>3
    <3>3. u.c \in Seq(Block) /\ Len(u.c) = Len(t.c)
      <4>1. Len(t.c) \in Nat
        BY ChainTypes
      <4> QED BY ONLY <3>2, <4>1
    <3> QED BY <2>3, <3>1, <3>3
  <2>6. Places(u) = Places(t)
    BY <2>5 DEF Places
  <2>7. ChainOK(u)
    <3>1. u.at \in 1 .. Len(u.c) /\ u.left \in 0 .. BlockSize
      <4>1. p = 0 => Len(t.c) >= 1
        BY <1>2, ChainTypes
      <4> QED BY <2>1, <2>5, <4>1, ChainTypes
    <3>2. \A x \in Places(u) : Free(u, x) => u.c[x[1]][x[2]] = NoChunk
      BY <2>4, <2>5, <2>6 DEF ChainOK
    <3>3. IsChain(u)
      BY <2>5, <3>1 DEF IsChain
    <3> QED BY <2>1, <3>1, <3>2, <3>3 DEF ChainOK
  <2>8. ASSUME NEW k \in Chunks
        PROVE  Count(u, k) = Count(t, k) - Dropped(t, p, n, k)
    <3> DEFINE D == {x \in S : t.c[x[1]][x[2]] = k}
    <3>1. At(u, k) = At(t, k) \ D
      BY <2>2, <2>5, <2>6, AuditTreesAssumption DEF At
    <3>2. At(t, k) \cap D = D
      BY <2>2 DEF At
    <3>3. IsFiniteSet(At(t, k))
      BY PlacesFinite DEF At
    <3>4. Dropped(t, p, n, k) = Cardinality(D)
      BY DEF Dropped, S
    <3> HIDE DEF D
    <3>5. Cardinality(At(t, k) \ D) = Cardinality(At(t, k)) - Cardinality(At(t, k) \cap D)
      BY <3>3, FS_Difference
    <3> QED BY <3>1, <3>2, <3>4, <3>5, CountIs
  <2> QED BY <2>5, <2>7, <2>8 DEF u
<1> QED BY <1>1, <1>2

\* Unrolling all of a chain leaves nothing of it.
LEMMA UnrollAll ==
  ASSUME NEW t, ChainOK(t), NEW k \in Chunks
  PROVE  Count(t, k) - Dropped(t, 0, 0, k) = 0
<1>1. At(t, k) = {x \in Unrolled(t, 0, 0) : t.c[x[1]][x[2]] = k}
  <2>1. ASSUME NEW x \in Places(t), t.c[x[1]][x[2]] = k
        PROVE  x \in Unrolled(t, 0, 0)
    <3>1. x[1] \in 1 .. Len(t.c) /\ x[2] \in 1 .. BlockSize
      BY DEF Places
    <3>2. ~Free(t, x)
      BY <2>1, AuditTreesAssumption DEF ChainOK
    <3> QED BY <3>1, <3>2, ChainTypes DEF Free, Unrolled
  <2>2. Unrolled(t, 0, 0) \subseteq Places(t)
    BY DEF Unrolled
  <2> QED BY <2>1, <2>2 DEF At
<1>2. Cardinality(At(t, k)) \in Nat
  BY PlacesFinite DEF At
<1>3. Dropped(t, 0, 0, k) = Cardinality(At(t, k))
  BY <1>1 DEF Dropped
<1> QED BY <1>2, <1>3, CountIs

\* Growing a chain, and giving up.
LEMMA GrowChain ==
  ASSUME NEW t, ChainOK(t)
  PROVE  /\ ChainOK(GrowTreeRefs(t)) /\ Len(GrowTreeRefs(t).c) = Len(t.c) + 1
         /\ HasRoom(GrowTreeRefs(t)) /\ \A k \in Chunks : Count(GrowTreeRefs(t), k) = Count(t, k)
<1> DEFINE u == GrowTreeRefs(t)
<1>1. /\ u.c = Append(t.c, EmptyBlock) /\ u.at = Len(t.c) + 1 /\ u.left = BlockSize
      /\ u = [c |-> u.c, at |-> u.at, left |-> u.left]
  BY DEF GrowTreeRefs
<1> HIDE DEF u
<1>2. /\ u.c \in Seq(Block) /\ Len(u.c) = Len(t.c) + 1
      /\ \A b \in 1 .. Len(t.c) : u.c[b] = t.c[b]
      /\ \A i \in 1 .. BlockSize : u.c[Len(t.c) + 1][i] = NoChunk
  <2>1. EmptyBlock \in Block
    BY DEF EmptyBlock, Block
  <2>2. u.c[Len(t.c) + 1] = EmptyBlock
    BY <1>1, ChainTypes
  <2> QED BY <1>1, <2>1, <2>2, ChainTypes DEF EmptyBlock
<1>3. \A x \in Places(u) : \/ x \in Places(t) /\ u.c[x[1]][x[2]] = t.c[x[1]][x[2]] /\ x[1] <= Len(t.c)
                           \/ x[1] = Len(t.c) + 1 /\ u.c[x[1]][x[2]] = NoChunk
  <2> TAKE x \in Places(u)
  <2>1. x[1] \in 1 .. Len(t.c) + 1 /\ x[2] \in 1 .. BlockSize /\ x = <<x[1], x[2]>>
    BY <1>2 DEF Places
  <2>2. CASE x[1] \in 1 .. Len(t.c)
    BY <1>2, <2>1, <2>2, ChainTypes DEF Places
  <2>3. CASE x[1] = Len(t.c) + 1
    BY <1>2, <2>1, <2>3
  <2> QED BY <2>1, <2>2, <2>3, ChainTypes
<1>4. Places(t) \subseteq Places(u)
  BY <1>2, ChainTypes DEF Places
<1>5. ChainOK(u)
  <2>1. IsChain(u)
    BY <1>1, <1>2, ChainTypes DEF IsChain
  <2>2. ASSUME NEW x \in Places(u), Free(u, x)
        PROVE  u.c[x[1]][x[2]] = NoChunk
    <3>1. x[1] \in Nat /\ x[1] >= Len(t.c) + 1
      BY <1>1, <1>2, <2>2, ChainTypes DEF Free, Places
    <3>2. ~(x[1] <= Len(t.c))
      BY <3>1, ChainTypes
    <3> QED BY <1>3, <3>2
  <2>3. u.at # 0
    BY <1>1, ChainTypes
  <2> QED BY <1>1, <2>1, <2>2, <2>3 DEF ChainOK
<1>6. \A k \in Chunks : At(u, k) = At(t, k)
  <2> TAKE k \in Chunks
  <2>1. At(u, k) \subseteq At(t, k)
    BY <1>3, AuditTreesAssumption DEF At
  <2>2. ASSUME NEW x \in At(t, k) PROVE x \in At(u, k)
    <3>1. x \in Places(t) /\ t.c[x[1]][x[2]] = k /\ x[1] \in 1 .. Len(t.c)
      BY DEF At, Places
    <3>2. u.c[x[1]][x[2]] = k
      BY <1>2, <3>1
    <3> QED BY <1>4, <3>1, <3>2 DEF At
  <2> QED BY <2>1, <2>2
<1>7. HasRoom(u)
  BY <1>1, ChainTypes DEF HasRoom
<1> QED BY <1>2, <1>5, <1>6, <1>7, CountIs DEF u

\* Nothing is lost if a single reference finds no room.
LEMMA UnrollNothing ==
  ASSUME NEW t, ChainOK(t), NEW k \in Chunks
  PROVE  Dropped(t, t.at, t.left, k) = 0
<1>1. Unrolled(t, t.at, t.left) = {}
  <2> SUFFICES ASSUME NEW x \in Unrolled(t, t.at, t.left) PROVE FALSE
    OBVIOUS
  <2>1. x[1] \in 1 .. Len(t.c) /\ x[2] \in 1 .. BlockSize
    BY DEF Unrolled, Places
  <2> QED BY <2>1, ChainTypes DEF Unrolled
<1> QED BY <1>1, FS_EmptySet DEF Dropped

-----------------------------------------------------------------------------
(***************************************************************************)
(* Types.                                                                  *)
(***************************************************************************)
\* A context as the records of Context have it.
LEMMA ContextFields ==
  ASSUME NEW c \in Context
  PROVE  /\ c.in_syscall \in BOOLEAN /\ c.dummy \in BOOLEAN /\ c.prio \in Nat
         /\ c.names \in Seq(Name) /\ Len(c.names) \in Nat /\ DOMAIN c.names = 1 .. Len(c.names)
         /\ \A i \in 1 .. Len(c.names) : c.names[i] \in Name
         /\ c.aux \in Nat /\ c.aux_pids \in Seq(Seq(Pids)) /\ c.target \in Pids \cup {"none"}
         /\ c.type \in Specials \cup {"none"} /\ c.state \in {"BUILD", "RECORD"}
         /\ c.pwd \in BOOLEAN /\ c.sockaddr \in BOOLEAN /\ c # NoCtx
<1>1. c # NoCtx
  BY AuditContextAssumption
<1>2. c.names \in Seq(Name)
  BY DEF Context
<1>3. /\ c.in_syscall \in BOOLEAN /\ c.dummy \in BOOLEAN /\ c.prio \in Nat
      /\ c.aux \in Nat /\ c.aux_pids \in Seq(Seq(Pids)) /\ c.target \in Pids \cup {"none"}
      /\ c.type \in Specials \cup {"none"} /\ c.state \in {"BUILD", "RECORD"}
      /\ c.pwd \in BOOLEAN /\ c.sockaddr \in BOOLEAN
  BY DEF Context
<1> QED BY <1>1, <1>2, <1>3

\* What is decided at an end or a beginning changes the decision only.
SameFacts(c, d) ==
  /\ d.in_syscall = c.in_syscall /\ d.dummy = c.dummy /\ d.names = c.names /\ d.aux = c.aux
  /\ d.aux_pids = c.aux_pids /\ d.target = c.target /\ d.type = c.type
  /\ d.pwd = c.pwd /\ d.sockaddr = c.sockaddr /\ d.state = c.state

\* Where the search for a match ends.
LEMMA FirstMatchIs ==
  ASSUME NEW H, H \subseteq Nat
  PROVE  IF H = {} THEN FirstMatch(H) = 0
         ELSE FirstMatch(H) \in H /\ \A j \in H : FirstMatch(H) <= j
<1>1. CASE H = {}
  BY <1>1 DEF FirstMatch
<1>2. CASE H # {}
  <2> DEFINE R == {ss \in Nat \X Nat : ss[1] < ss[2]}
  <2>1. IsWellFoundedOn(R, Nat)
    BY NatLessThanWellFounded DEF OpToRel
  <2>2. PICK x \in H : \A y \in H : <<y, x>> \notin R
    <3> HIDE DEF R
    <3> QED BY <1>2, <2>1, WFMin
  <2>3. \A y \in H : x <= y
    <3> TAKE y \in H
    <3>1. x \in Nat /\ y \in Nat /\ <<y, x>> \notin R
      BY <2>2
    <3> QED BY <3>1
  <2> QED BY <1>2, <2>3 DEF FirstMatch
<1> QED BY <1>1, <1>2

LEMMA RuleTypes ==
  ASSUME NEW r \in AllRules
  PROVE  /\ r.prio \in Nat /\ 1 < r.prio /\ r.prio < TopPrio
         /\ r.key \in Keys /\ StateOf(r) \in {"DISABLED", "RECORD"}
BY AuditContextAssumption DEF StateOf, Keys

LEMMA RuleLists ==
  ASSUME NEW s \in RuleSets
  PROVE  /\ s.task \in Seq(AllRules) /\ s.entry \in Seq(AllRules)
         /\ s.exit \in Seq(AllRules) /\ Sorted(s.exit)
         /\ \A i \in Inos : s.inode[i] \in Seq(AllRules) /\ Sorted(s.inode[i])
BY AuditContextAssumption

LEMMA DecidedType ==
  ASSUME NEW c \in Context, NEW r \in AllRules
  PROVE  /\ Decided(c, r) \in Context /\ SameFacts(c, Decided(c, r))
         /\ Decided(c, r).prio = r.prio /\ Decided(c, r).current_state = StateOf(r)
<1>1. Decided(c, r) \in Context
  BY RuleTypes DEF Decided, Context
<1> QED BY <1>1 DEF Decided, SameFacts, Context

\* What the filters may leave in a context.
LEMMA SyscallFilter ==
  ASSUME NEW c \in Context, NEW list \in Seq(AllRules), NEW x, NEW t
  PROVE  \/ /\ AuditFilterSyscall(list, x, c, t).ctx = c
            /\ AuditFilterSyscall(list, x, c, t).state \in {"BUILD", "DISABLED"}
         \/ \E r \in AllRules : /\ AuditFilterSyscall(list, x, c, t).ctx = Decided(c, r)
                                /\ AuditFilterSyscall(list, x, c, t).state = StateOf(r)
<1> DEFINE H == {k \in DOMAIN list : /\ c.major \in list[k].mask
                                     /\ AuditFilterRules(list[k], x, c, NoName, t)}
<1>1. H \subseteq Nat /\ \A k \in H : list[k] \in AllRules
  BY DEF H
<1>2. AuditFilterSyscall(list, x, c, t) =
        IF x.auditd THEN [state |-> "DISABLED", ctx |-> c]
        ELSE IF FirstMatch(H) = 0 THEN [state |-> "BUILD", ctx |-> c]
        ELSE [state |-> StateOf(list[FirstMatch(H)]), ctx |-> Decided(c, list[FirstMatch(H)])]
  BY DEF AuditFilterSyscall
<1> HIDE DEF H
<1>3. FirstMatch(H) = 0 \/ FirstMatch(H) \in H
  BY <1>1, FirstMatchIs
<1> DEFINE d == AuditFilterSyscall(list, x, c, t)
<1> HIDE DEF d
<1>4. CASE x.auditd
  <2>1. d = [state |-> "DISABLED", ctx |-> c]
    BY <1>2, <1>4 DEF d
  <2> QED BY <2>1 DEF d
<1>5. CASE ~x.auditd /\ FirstMatch(H) = 0
  <2>1. d = [state |-> "BUILD", ctx |-> c]
    BY <1>2, <1>5 DEF d
  <2> QED BY <2>1 DEF d
<1>6. CASE ~x.auditd /\ FirstMatch(H) # 0
  <2> DEFINE r == list[FirstMatch(H)]
  <2>1. r \in AllRules
    BY <1>1, <1>3, <1>6
  <2>2. d = [state |-> StateOf(r), ctx |-> Decided(c, r)]
    BY <1>2, <1>6 DEF d
  <2> HIDE DEF r
  <2>3. d.state = StateOf(r) /\ d.ctx = Decided(c, r)
    BY <2>2
  <2> QED BY <2>1, <2>3 DEF d
<1> QED BY <1>4, <1>5, <1>6

LEMMA InodeNameFilter ==
  ASSUME NEW c \in Context, NEW s \in RuleSets, NEW n \in Name, NEW x, NEW t
  PROVE  \/ AuditFilterInodeName(s.inode, x, c, n, t) = c
         \/ \E r \in AllRules : AuditFilterInodeName(s.inode, x, c, n, t) = Decided(c, r)
<1> DEFINE list == s.inode[n.ino]
           H == {k \in DOMAIN list : /\ c.major \in list[k].mask
                                     /\ AuditFilterRules(list[k], x, c, n, t)}
<1>1. list \in Seq(AllRules)
  BY RuleLists DEF Name
<1>2. AuditFilterInodeName(s.inode, x, c, n, t) =
        IF FirstMatch(H) = 0 THEN c ELSE Decided(c, list[FirstMatch(H)])
  BY DEF AuditFilterInodeName
<1> HIDE DEF list
<1>3. H \subseteq Nat /\ \A k \in H : list[k] \in AllRules
  BY <1>1
<1> HIDE DEF H
<1>4. FirstMatch(H) = 0 \/ FirstMatch(H) \in H
  BY <1>3, FirstMatchIs
<1> QED BY <1>2, <1>3, <1>4

LEMMA InodesFilter ==
  ASSUME NEW c \in Context, NEW s \in RuleSets, NEW x, NEW t
  PROVE  \/ AuditFilterInodes(s.inode, x, c, t) = c
         \/ \E r \in AllRules : AuditFilterInodes(s.inode, x, c, t) = Decided(c, r)
<1> DEFINE H == {i \in DOMAIN c.names : AuditFilterInodeName(s.inode, x, c, c.names[i], t) # c}
<1>1. H \subseteq Nat /\ \A k \in H : c.names[k] \in Name
  BY ContextFields
<1>2. AuditFilterInodes(s.inode, x, c, t) =
        IF x.auditd \/ H = {} THEN c
        ELSE AuditFilterInodeName(s.inode, x, c, c.names[FirstMatch(H)], t)
  BY DEF AuditFilterInodes
<1> HIDE DEF H
<1>3. H # {} => FirstMatch(H) \in H
  BY <1>1, FirstMatchIs
<1>4. CASE x.auditd \/ H = {}
  BY <1>2, <1>4
<1>5. CASE ~(x.auditd \/ H = {})
  <2> DEFINE n == c.names[FirstMatch(H)]
  <2>1. n \in Name
    BY <1>1, <1>3, <1>5
  <2>2. AuditFilterInodes(s.inode, x, c, t) = AuditFilterInodeName(s.inode, x, c, n, t)
    BY <1>2, <1>5
  <2> HIDE DEF n
  <2> QED BY <2>1, <2>2, InodeNameFilter
<1> QED BY <1>4, <1>5

\* The last filters change the decision only.
LEMMA TakenType ==
  ASSUME ctx \in Context, rules \in RuleSets, NEW valid \in {"success", "failure", "invalid"}
  PROVE  Taken(valid) \in Context /\ SameFacts(ctx, Taken(valid))
<1> DEFINE c == [ctx EXCEPT !.return_valid = valid,
                            !.return_code = IF valid = "success" THEN 0 ELSE 1]
           d == AuditFilterSyscall(rules.exit, tsk, c, chain).ctx
           e == AuditFilterInodes(rules.inode, tsk, d, chain)
<1>1. c \in Context /\ SameFacts(ctx, c)
  BY DEF Context, SameFacts
<1>2. Taken(valid) = IF c.in_syscall /\ ~c.dummy THEN e ELSE c
  BY DEF Taken, ExitFilters
<1> HIDE DEF c
<1>3. d \in Context /\ SameFacts(c, d)
  <2>1. rules.exit \in Seq(AllRules)
    BY RuleLists
  <2>2. d = c \/ \E r \in AllRules : d = Decided(c, r)
    BY <1>1, <2>1, SyscallFilter
  <2> QED BY <1>1, <2>2, DecidedType DEF SameFacts
<1> HIDE DEF d
<1>4. e \in Context /\ SameFacts(d, e)
  <2>1. e = d \/ \E r \in AllRules : e = Decided(d, r)
    BY <1>3, InodesFilter
  <2> QED BY <1>3, <2>1, DecidedType DEF SameFacts
<1> HIDE DEF e
<1> QED BY <1>1, <1>2, <1>3, <1>4 DEF SameFacts

\* Everything but the names and the working directory.
Frame(c, d) ==
  /\ d.in_syscall = c.in_syscall /\ d.dummy = c.dummy /\ d.prio = c.prio
  /\ d.current_state = c.current_state /\ d.state = c.state /\ d.aux = c.aux
  /\ d.aux_pids = c.aux_pids /\ d.target = c.target /\ d.type = c.type /\ d.sockaddr = c.sockaddr

LEMMA SetEntry ==
  ASSUME NEW c \in Context, NEW i \in 1 .. Len(c.names), NEW n \in Name
  PROVE  LET d == [c EXCEPT !.names[i] = n]
         IN  /\ d \in Context /\ Frame(c, d) /\ d.pwd = c.pwd
             /\ d.names = [c.names EXCEPT ![i] = n] /\ Len(d.names) = Len(c.names)
<1> DEFINE ns == [c.names EXCEPT ![i] = n]  d == [c EXCEPT !.names = ns]
<1>1. ns \in Seq(Name) /\ Len(ns) = Len(c.names)
  BY ContextFields
<1> HIDE DEF ns
<1>2. d \in Context
  BY <1>1 DEF Context
<1>3. Frame(c, d) /\ d.pwd = c.pwd /\ d.names = ns
  BY DEF Frame, Context
<1>4. [c EXCEPT !.names[i] = n] = d
  BY DEF ns
<1> HIDE DEF d
<1> QED BY <1>1, <1>2, <1>3, <1>4 DEF ns

LEMMA AddEntry ==
  ASSUME NEW c \in Context, NEW n \in Name
  PROVE  LET d == [c EXCEPT !.names = Append(@, n)]
         IN  /\ d \in Context /\ Frame(c, d) /\ d.pwd = c.pwd
             /\ d.names = Append(c.names, n) /\ Len(d.names) = Len(c.names) + 1
<1> DEFINE ns == Append(c.names, n)  d == [c EXCEPT !.names = ns]
<1>1. ns \in Seq(Name) /\ Len(ns) = Len(c.names) + 1
  BY ContextFields
<1> HIDE DEF ns
<1>2. d \in Context
  BY <1>1 DEF Context
<1>3. Frame(c, d) /\ d.pwd = c.pwd /\ d.names = ns
  BY DEF Frame, Context
<1>4. [c EXCEPT !.names = Append(@, n)] = d
  BY DEF ns
<1> HIDE DEF d
<1> QED BY <1>1, <1>2, <1>3, <1>4 DEF ns

LEMMA AuditableType ==
  ASSUME NEW c \in Context
  PROVE  /\ Auditable(c) \in Context /\ SameFacts(c, Auditable(c)) /\ Auditable(c).prio > 0
         /\ c.prio = 0 => Auditable(c).prio = 1 /\ Auditable(c).current_state = "RECORD"
         /\ c.prio # 0 => Auditable(c) = c
<1>1. Auditable(c) \in Context
  <2>1. [c EXCEPT !.prio = 1, !.current_state = "RECORD"] \in Context
    BY DEF Context
  <2>2. Auditable(c) = c \/ Auditable(c) = [c EXCEPT !.prio = 1, !.current_state = "RECORD"]
    BY DEF Auditable
  <2> QED BY <2>1, <2>2
<1> QED BY <1>1, ContextFields DEF Auditable, Context, SameFacts

\* Names that are there stay as they are, as far as they are counted and shown;
\* new ones are shown.
Grown(c, d) ==
  /\ Len(d.names) >= Len(c.names)
  /\ \A i \in 1 .. Len(c.names) : /\ d.names[i].name = c.names[i].name
                                  /\ d.names[i].hidden = c.names[i].hidden
  /\ \A i \in Len(c.names) + 1 .. Len(d.names) : d.names[i].hidden = FALSE

LEMMA FirstNameIs ==
  ASSUME NEW c \in Context, NEW types, NEW n, NEW inos
  PROVE  LET i == FirstName(c, types, n, inos)
         IN  i = 0 \/ (i \in 1 .. Len(c.names) /\ c.names[i].name # NoName)
<1> DEFINE H == {i \in DOMAIN c.names : /\ c.names[i].name # NoName /\ c.names[i].name = n
                                        /\ c.names[i].type \in types /\ c.names[i].ino \in inos}
<1>1. FirstName(c, types, n, inos) = FirstMatch(H)
  BY DEF FirstName
<1>2. H \subseteq 1 .. Len(c.names) /\ H \subseteq Nat /\ \A i \in H : c.names[i].name # NoName
  BY ContextFields
<1> HIDE DEF H
<1>3. FirstMatch(H) = 0 \/ FirstMatch(H) \in H
  BY <1>2, FirstMatchIs
<1> QED BY <1>1, <1>2, <1>3

LEMMA NameParts ==
  ASSUME NEW n \in Name
  PROVE  /\ \A y \in {"UNKNOWN", "NORMAL", "PARENT", "CREATE", "DELETE"} :
              LET m == [n EXCEPT !.type = y]
              IN  m \in Name /\ m.name = n.name /\ m.hidden = n.hidden
         /\ \A x \in Inos :
              LET m == [n EXCEPT !.ino = x]
              IN  m \in Name /\ m.name = n.name /\ m.hidden = n.hidden
BY DEF Name

LEMMA EntryType ==
  ASSUME NEW g \in Filenames \cup {NoName}, NEW x \in Inos,
         NEW y \in {"UNKNOWN", "NORMAL", "PARENT", "CREATE", "DELETE"}
  PROVE  Entry(g, x, y) \in Name /\ Entry(g, x, y).hidden = FALSE /\ Entry(g, x, y).name = g
BY DEF Entry, Name

-----------------------------------------------------------------------------
(***************************************************************************)
(* The inductive invariant.                                                *)
(***************************************************************************)
\* A context between two calls.
Clean(c) ==
  /\ ~c.in_syscall /\ c.names = <<>> /\ c.prio \in {0, TopPrio} /\ c.aux = 0
  /\ c.aux_pids = <<>> /\ c.target = "none" /\ c.type = "none" /\ ~c.sockaddr /\ ~c.pwd

BlocksOK(c) == \A b \in 1 .. Len(c.aux_pids) : Len(c.aux_pids[b]) <= AuxPids

TypeInv ==
  /\ ctx \in Context \cup {NoCtx} /\ rules \in RuleSets
  /\ {"auditd", "call"} \subseteq DOMAIN tsk /\ tsk.call \in {t.call : t \in Tasks}
  /\ mine \subseteq Filenames /\ phase \in {"none", "user", "kernel"}
  /\ walk = [todo |-> walk.todo, path |-> walk.path, at |-> walk.at, left |-> walk.left,
             busy |-> walk.busy] /\ walk.busy \in BOOLEAN
  /\ walk.busy => phase = "kernel" /\ ctx # NoCtx
  /\ phase = "none" => ctx = NoCtx
  /\ ctx # NoCtx => BlocksOK(ctx)
  /\ phase = "user" /\ ctx # NoCtx => Clean(ctx)

\* A walk has the part of its path behind it in the chain.
WalkInv ==
  walk.busy =>
    /\ walk.path \in Seq(Chunks \cup {NoChunk}) /\ walk.todo \in Seq(Chunks \cup {NoChunk})
    /\ walk.at \in 0 .. Len(chain.c) /\ walk.left \in 0 .. BlockSize
    /\ walk.at = 0 => walk.left = 0
    /\ Len(walk.todo) <= Len(walk.path)
    /\ \A i \in 1 .. Len(walk.todo) : walk.todo[i] = walk.path[Len(walk.path) - Len(walk.todo) + i]
    /\ \A i \in 1 .. Len(walk.path) - Len(walk.todo) :
         walk.path[i] # NoChunk => MatchTreeRefs(chain, walk.path[i])

ChainInv ==
  /\ ChainOK(chain) /\ refs \in [Chunks -> Nat]
  /\ \A k \in Chunks : refs[k] = Count(chain, k)
  /\ phase # "kernel" \/ ctx = NoCtx => \A k \in Chunks : refs[k] = 0

NameInv == refcnt \in [Filenames -> Nat] /\ aname \in [Filenames -> Nat] /\ NamesCounted

-----------------------------------------------------------------------------
\* The entry __audit_inode fills in is one of the list.
LEMMA LargestOf ==
  ASSUME NEW n \in Nat, NEW H, H \subseteq 1 .. n, H # {}
  PROVE  (CHOOSE i \in H : \A j \in H : i >= j) \in H
<1> DEFINE R == {ss \in Nat \X Nat : ss[1] < ss[2]}
           T == {m \in Nat : n - m \in H}
<1>1. IsWellFoundedOn(R, Nat)
  BY NatLessThanWellFounded DEF OpToRel
<1>2. T \subseteq Nat /\ T # {}
  <2>1. PICK i \in H : TRUE
    OBVIOUS
  <2>2. n - i \in Nat /\ n - (n - i) = i
    BY <2>1
  <2> QED BY <2>1, <2>2
<1>3. PICK m \in T : \A y \in T : <<y, m>> \notin R
  <2> HIDE DEF R, T
  <2> QED BY <1>1, <1>2, WFMin
<1>4. \A j \in H : n - m >= j
  <2> TAKE j \in H
  <2>1. n - j \in T /\ n - j \in Nat /\ m \in Nat
    BY <1>3
  <2>2. ~(n - j < m)
    BY <1>3, <2>1
  <2> QED BY <2>1, <2>2
<1> QED BY <1>3, <1>4

LEMMA InodeEntryIs ==
  ASSUME ctx \in Context, NameInv, NEW f \in Filenames \cup {NoName}, NEW d, NEW parent
  PROVE  InodeEntry(f, d, parent) \in 0 .. Len(ctx.names)
<1> DEFINE same == {i \in DOMAIN ctx.names : ctx.names[i].ino = d.ino /\ RightType(ctx.names[i], parent)}
           top == CHOOSE i \in same : \A j \in same : i >= j
<1>1. same \subseteq 1 .. Len(ctx.names) /\ Len(ctx.names) \in Nat
  BY ContextFields
<1>2. InodeEntry(f, d, parent) =
        IF f = NoName THEN 0
        ELSE IF aname[f] # 0 /\ RightType(ctx.names[aname[f]], parent) THEN aname[f]
        ELSE IF same # {} THEN top ELSE 0
  BY DEF InodeEntry
<1> HIDE DEF same
<1>3. same # {} => top \in same
  BY <1>1, LargestOf
<1> HIDE DEF top
<1>4. f # NoName /\ aname[f] # 0 => aname[f] \in 1 .. Len(ctx.names)
  BY ContextFields DEF NameInv, NamesCounted
<1>5. top \in same => top \in 0 .. Len(ctx.names)
  BY <1>1
<1> QED BY <1>1, <1>2, <1>3, <1>4, <1>5

\* What each hook leaves of the types.
Hooked == phase' = "kernel" /\ ctx' \in Context /\ BlocksOK(ctx')

LEMMA HookStart ==
  ASSUME TypeInv, Hook
  PROVE  /\ phase = "kernel" /\ phase' = "kernel" /\ ctx \in Context /\ ~ctx.dummy /\ ~walk.busy
         /\ BlocksOK(ctx) /\ tsk' = tsk /\ rules' = rules /\ event' = event
BY DEF TypeInv, Hook, settings

LEMMA SameBlocks ==
  ASSUME NEW c, NEW d, BlocksOK(c), d.aux_pids = c.aux_pids
  PROVE  BlocksOK(d)
BY DEF BlocksOK

LEMMA GetnameType ==
  ASSUME TypeInv, NameInv, NEW f \in Filenames, AuditGetname(f)
  PROVE  Hooked /\ walk' = walk /\ mine' \subseteq Filenames
<1>1. phase' = "kernel" /\ ctx \in Context /\ BlocksOK(ctx)
  BY HookStart DEF AuditGetname
<1> DEFINE c == [ctx EXCEPT !.names = Append(@, Entry(f, Unset, "UNKNOWN"))]
           d == [ctx EXCEPT !.names = Append(@, Entry(f, Unset, "UNKNOWN")), !.pwd = TRUE]
<1>2. c \in Context /\ c.aux_pids = ctx.aux_pids
  <2>1. Entry(f, Unset, "UNKNOWN") \in Name
    BY EntryType DEF Inos
  <2> QED BY <1>1, <2>1, AddEntry DEF Frame
<1>3. d \in Context /\ d.aux_pids = ctx.aux_pids
  <2>1. d = [c EXCEPT !.pwd = TRUE]
    BY <1>1 DEF Context
  <2> HIDE DEF c, d
  <2> QED BY <1>2, <2>1 DEF Context
<1>4. ctx' = ctx \/ ctx' = d
  BY DEF AuditGetname
<1> HIDE DEF d
<1>5. walk' = walk /\ mine' \subseteq Filenames
  BY DEF AuditGetname, TypeInv
<1> QED BY <1>1, <1>3, <1>4, <1>5, SameBlocks DEF Hooked

LEMMA FillType ==
  ASSUME NEW n \in Name, NEW d \in Dentries, NEW parent \in BOOLEAN, NEW hidden \in BOOLEAN
  PROVE  /\ Fill(n, d, parent, hidden) \in Name
         /\ Fill(n, d, parent, hidden).name = n.name
         /\ Fill(n, d, parent, hidden).hidden = (n.hidden \/ hidden)
<1>1. d.ino \in Inos
  BY DEF Inos
<1>2. n.hidden \in BOOLEAN
  BY DEF Name
<1>3. (n.hidden \/ hidden) \in BOOLEAN
  OBVIOUS
<1> DEFINE x == d.ino  y == IF parent THEN "PARENT" ELSE "NORMAL"  h == n.hidden \/ hidden
<1>4. Fill(n, d, parent, hidden) = [n EXCEPT !.ino = x, !.type = y, !.hidden = h]
  BY DEF Fill
<1>5. x \in Inos /\ y \in {"NORMAL", "PARENT"} /\ h \in BOOLEAN
  BY <1>1, <1>3
<1> HIDE DEF x, y, h
<1>6. [n EXCEPT !.ino = x, !.type = y, !.hidden = h] \in Name
  BY <1>5 DEF Name
<1>7. /\ [n EXCEPT !.ino = x, !.type = y, !.hidden = h].name = n.name
      /\ [n EXCEPT !.ino = x, !.type = y, !.hidden = h].hidden = h
  BY DEF Name
<1>8. Fill(n, d, parent, hidden).hidden = h
  BY <1>4, <1>7
<1> QED BY <1>4, <1>6, <1>7, <1>8 DEF h

LEMMA InodeType ==
  ASSUME TypeInv, NameInv, NEW f \in Filenames \cup {NoName}, NEW d \in Dentries,
         NEW parent \in BOOLEAN, NEW hidden \in BOOLEAN, AuditInode(f, d, parent, hidden)
  PROVE  Hooked /\ (walk' = walk \/ StartWalk(d)) /\ mine' \subseteq Filenames
<1> DEFINE i == InodeEntry(f, d, parent)
           n == Fill(ctx.names[i], d, parent, hidden)
           c == [ctx EXCEPT !.names[i] = n]
           m == Fill(Entry(f, d.ino, "UNKNOWN"), d, parent, hidden)
           e == [ctx EXCEPT !.names = Append(@, m)]
<1>1. phase' = "kernel" /\ ctx \in Context /\ BlocksOK(ctx)
  BY HookStart DEF AuditInode
<1>2. i \in 0 .. Len(ctx.names)
  BY <1>1, InodeEntryIs
<1>3. ctx' = ctx \/ (i # 0 /\ ctx' = c) \/ ctx' = e
  BY DEF AuditInode
<1> HIDE DEF i
<1>4. i # 0 => c \in Context /\ c.aux_pids = ctx.aux_pids
  <2> HAVE i # 0
  <2>1. i \in 1 .. Len(ctx.names) /\ ctx.names[i] \in Name
    BY <1>1, <1>2, ContextFields
  <2>2. n \in Name
    BY <2>1, FillType
  <2> HIDE DEF n
  <2> QED BY <1>1, <2>1, <2>2, SetEntry DEF Frame
<1>5. e \in Context /\ e.aux_pids = ctx.aux_pids
  <2>1. Entry(f, d.ino, "UNKNOWN") \in Name
    BY EntryType DEF Inos
  <2>2. m \in Name
    BY <2>1, FillType
  <2> HIDE DEF m
  <2> QED BY <1>1, <2>2, AddEntry DEF Frame
<1> HIDE DEF c, e
<1>6. Hooked
  BY <1>1, <1>3, <1>4, <1>5, SameBlocks DEF Hooked
<1>7. (walk' = walk \/ StartWalk(d)) /\ mine' \subseteq Filenames
  BY DEF AuditInode, TypeInv
<1> QED BY <1>6, <1>7

\* The ends of __audit_inode_child, in one form: names are added, the last of
\* them perhaps with the file name f.
Child(d, c, f) ==
  /\ Frame(ctx, c) /\ c.pwd = ctx.pwd /\ Grown(ctx, c) /\ HandleOne(d, c)
  /\ Records({<<"PATH", i>> : i \in Len(ctx.names) + 1 .. Len(c.names)})
  /\ \A i \in Len(ctx.names) + 1 .. Len(c.names) :
       c.names[i].name = IF i = Len(c.names) THEN f ELSE NoName
  /\ f # NoName => Len(c.names) > Len(ctx.names)
  /\ refcnt' = IF f # NoName THEN [refcnt EXCEPT ![f] = @ + 1] ELSE refcnt

LEMMA ChildEnds ==
  ASSUME ctx \in Context, NEW parent \in Dentries, NEW d \in Dentries,
         NEW type \in {"CREATE", "DELETE"}, AuditInodeChild(parent, d, type)
  PROVE  \/ ~ctx.in_syscall /\ UNCHANGED <<ctx, chain, refs, refcnt, did>>
         \/ /\ ctx.in_syscall
            /\ \E c \in Context, f \in Filenames \cup {NoName} : Child(d, c, f)
<1> DEFINE p == FirstName(ctx, {"PARENT", "UNKNOWN"}, d.name, {parent.ino})
           c1 == IF p = 0 THEN ctx ELSE [ctx EXCEPT !.names[p].type = "PARENT"]
           ch == FirstName(c1, {type, "UNKNOWN"}, d.name, {n.ino : n \in Range(c1.names)})
           c2 == IF ch = 0 THEN c1 ELSE [c1 EXCEPT !.names[ch].type = type]
           c3 == IF p # 0 THEN c2 ELSE [c2 EXCEPT !.names = Append(@, Entry(NoName, parent.ino, "PARENT"))]
           f == IF p # 0 THEN ctx.names[p].name ELSE NoName
           c4 == IF ch # 0 THEN [c3 EXCEPT !.names[ch].ino = d.ino]
                 ELSE [c3 EXCEPT !.names = Append(@, Entry(f, d.ino, type))]
<1> DEFINE Paths(c) == {<<"PATH", i>> : i \in Len(ctx.names) + 1 .. Len(c.names)}
           last == IF ch = 0 THEN f ELSE NoName
<1> DEFINE Like(e) == /\ e \in Context /\ Frame(ctx, e) /\ e.pwd = ctx.pwd /\ Len(e.names) \in Nat
                      /\ Grown(ctx, e)
<1>0. /\ d.ino \in Inos /\ parent.ino \in Inos
      /\ \A i \in 1 .. Len(ctx.names) : ctx.names[i].name \in Filenames \cup {NoName}
  <2>1. d.ino \in Inos /\ parent.ino \in Inos
    BY DEF Inos
  <2>2. \A n \in Name : n.name \in Filenames \cup {NoName}
    BY DEF Name
  <2> QED BY <2>1, <2>2, ContextFields
<1>1. p = 0 \/ p \in 1 .. Len(ctx.names)
  BY FirstNameIs
<1>2. f \in Filenames \cup {NoName}
  BY <1>0, <1>1
<1>3. ASSUME NEW e, Like(e), NEW i \in 1 .. Len(e.names), NEW n \in Name,
             n.name = e.names[i].name, n.hidden = e.names[i].hidden
      PROVE  LET g == [e EXCEPT !.names[i] = n]
             IN  Like(g) /\ Len(g.names) = Len(e.names) /\ \A j \in 1 .. Len(e.names) : g.names[j].name = e.names[j].name
  <2> DEFINE g == [e EXCEPT !.names[i] = n]
  <2>1. /\ g \in Context /\ Frame(e, g) /\ g.pwd = e.pwd
        /\ g.names = [e.names EXCEPT ![i] = n] /\ Len(g.names) = Len(e.names)
    BY <1>3, SetEntry
  <2> HIDE DEF g
  <2>2. \A j \in 1 .. Len(e.names) : g.names[j].name = e.names[j].name /\ g.names[j].hidden = e.names[j].hidden
    <3>1. DOMAIN e.names = 1 .. Len(e.names)
      BY <1>3, ContextFields
    <3> QED BY <1>3, <2>1, <3>1
  <2>3. Frame(ctx, g) /\ g.pwd = ctx.pwd
    BY <1>3, <2>1 DEF Frame
  <2>4. Grown(ctx, g)
    BY <1>3, <2>1, <2>2, ContextFields DEF Grown
  <2> QED BY <1>3, <2>1, <2>2, <2>3, <2>4 DEF g
<1>4. ASSUME NEW e, Like(e), NEW n \in Name, n.hidden = FALSE
      PROVE  LET g == [e EXCEPT !.names = Append(@, n)]
             IN  /\ Like(g) /\ Len(g.names) = Len(e.names) + 1 /\ g.names[Len(e.names) + 1] = n
                 /\ \A j \in 1 .. Len(e.names) : g.names[j] = e.names[j]
  <2> DEFINE g == [e EXCEPT !.names = Append(@, n)]
  <2>1. /\ g \in Context /\ Frame(e, g) /\ g.pwd = e.pwd
        /\ g.names = Append(e.names, n) /\ Len(g.names) = Len(e.names) + 1
    BY <1>4, AddEntry
  <2> HIDE DEF g
  <2>2. g.names[Len(e.names) + 1] = n /\ \A j \in 1 .. Len(e.names) : g.names[j] = e.names[j]
    BY <1>4, <2>1, ContextFields
  <2>3. Frame(ctx, g) /\ g.pwd = ctx.pwd
    BY <1>4, <2>1 DEF Frame
  <2>4. Grown(ctx, g)
    BY <1>4, <2>1, <2>2, ContextFields DEF Grown
  <2> QED BY <1>4, <2>1, <2>2, <2>3, <2>4 DEF g
<1>5. ASSUME NEW e, Like(e), NEW i \in 1 .. Len(e.names)
      PROVE  e.names[i] \in Name
  BY <1>5, ContextFields
<1>7. Like(ctx)
  BY ContextFields DEF Frame, Grown
<1>14. \/ ~ctx.in_syscall /\ UNCHANGED <<ctx, chain, refs, refcnt, did>>
       \/ /\ ctx.in_syscall /\ HandleOne(d, c4) /\ Records(Paths(c4))
          /\ refcnt' = IF ch = 0 /\ f # NoName THEN [refcnt EXCEPT ![f] = @ + 1] ELSE refcnt
       \/ ctx.in_syscall /\ HandleOne(d, c2) /\ Records(Paths(c2)) /\ UNCHANGED refcnt
       \/ ctx.in_syscall /\ HandleOne(d, c3) /\ Records(Paths(c3)) /\ UNCHANGED refcnt
  BY Zenon DEF AuditInodeChild
<1> HIDE DEF Like, p
<1>8. Like(c1) /\ Len(c1.names) = Len(ctx.names)
  <2>1. CASE p = 0
    BY <1>7, <2>1
  <2>2. CASE p # 0
    <3> DEFINE n == [ctx.names[p] EXCEPT !.type = "PARENT"]
    <3>1. n \in Name /\ n.name = ctx.names[p].name /\ n.hidden = ctx.names[p].hidden
      BY <1>1, <1>5, <1>7, <2>2, NameParts
    <3>2. c1 = [ctx EXCEPT !.names[p] = n]
      BY <2>2
    <3> HIDE DEF n
    <3> QED BY <1>1, <1>3, <1>7, <2>2, <3>1, <3>2
  <2> QED BY <2>1, <2>2
<1>9. ch = 0 \/ ch \in 1 .. Len(c1.names)
  BY <1>8, FirstNameIs DEF Like
<1> HIDE DEF ch, c1
<1>10. Like(c2) /\ Len(c2.names) = Len(ctx.names)
  <2>1. CASE ch = 0
    BY <1>8, <2>1
  <2>2. CASE ch # 0
    <3> DEFINE n == [c1.names[ch] EXCEPT !.type = type]
    <3>1. n \in Name /\ n.name = c1.names[ch].name /\ n.hidden = c1.names[ch].hidden
      <4>1. c1.names[ch] \in Name
        BY <1>5, <1>8, <1>9, <2>2
      <4> QED BY <4>1, NameParts
    <3>2. c2 = [c1 EXCEPT !.names[ch] = n]
      BY <2>2
    <3> HIDE DEF n
    <3> QED BY <1>3, <1>8, <1>9, <2>2, <3>1, <3>2
  <2> QED BY <2>1, <2>2
<1> HIDE DEF c2
<1>11. Like(c3) /\ Len(c3.names) \in Nat /\ Len(ctx.names) <= Len(c3.names)
       /\ \A i \in Len(ctx.names) + 1 .. Len(c3.names) : c3.names[i].name = NoName
  <2>1. CASE p # 0
    BY <1>10, <2>1, ContextFields DEF Like
  <2>2. CASE p = 0
    <3> DEFINE n == Entry(NoName, parent.ino, "PARENT")
    <3>1. n \in Name /\ n.hidden = FALSE /\ n.name = NoName
      BY <1>0, EntryType
    <3>2. c3 = [c2 EXCEPT !.names = Append(@, n)]
      BY <2>2
    <3> HIDE DEF n
    <3> HIDE DEF c3
    <3>3. Like(c3) /\ Len(c3.names) = Len(c2.names) + 1 /\ c3.names[Len(c2.names) + 1] = n
      BY <1>4, <1>10, <3>1, <3>2
    <3>4. Len(ctx.names) \in Nat /\ Len(c3.names) = Len(ctx.names) + 1
      BY <1>10, <3>3, ContextFields
    <3>5. \A i \in Len(ctx.names) + 1 .. Len(c3.names) : i = Len(c2.names) + 1
      BY <1>10, <3>4
    <3> QED BY <3>1, <3>3, <3>4, <3>5
  <2> QED BY <2>1, <2>2
<1> HIDE DEF c3, f
<1>12. /\ Like(c4)
       /\ ch = 0 => Len(c4.names) > Len(ctx.names)
       /\ \A i \in Len(ctx.names) + 1 .. Len(c4.names) :
             c4.names[i].name = IF ch = 0 /\ i = Len(c4.names) THEN f ELSE NoName
  <2>1. CASE ch # 0
    <3>1. ch \in 1 .. Len(c3.names)
      BY <1>8, <1>9, <1>11, <2>1, ContextFields
    <3> DEFINE n == [c3.names[ch] EXCEPT !.ino = d.ino]
    <3>3. n \in Name /\ n.name = c3.names[ch].name /\ n.hidden = c3.names[ch].hidden
      <4>1. c3.names[ch] \in Name
        BY <1>5, <1>11, <3>1
      <4> QED BY <1>0, <4>1, NameParts
    <3>4. c4 = [c3 EXCEPT !.names[ch] = n]
      BY <2>1
    <3> HIDE DEF n, c4
    <3>2. Like(c4) /\ Len(c4.names) = Len(c3.names) /\ \A j \in 1 .. Len(c3.names) : c4.names[j].name = c3.names[j].name
      BY <1>3, <1>11, <3>1, <3>3, <3>4
    <3>5. \A i \in Len(ctx.names) + 1 .. Len(c4.names) : i \in 1 .. Len(c3.names)
      BY <1>11, <3>2, ContextFields
    <3> QED BY <1>11, <2>1, <3>2, <3>5
  <2>2. CASE ch = 0
    <3>1. /\ Like(c4) /\ Len(c4.names) = Len(c3.names) + 1 /\ c4.names[Len(c3.names) + 1].name = f
          /\ \A j \in 1 .. Len(c3.names) : c4.names[j] = c3.names[j]
      <4> DEFINE n == Entry(f, d.ino, type)
      <4>1. n \in Name /\ n.hidden = FALSE /\ n.name = f
        <5>1. type \in {"UNKNOWN", "NORMAL", "PARENT", "CREATE", "DELETE"}
          OBVIOUS
        <5>2. f \in Filenames \cup {NoName} /\ d.ino \in Inos
          BY <1>0, <1>2
        <5> HIDE DEF f
        <5> QED BY <5>1, <5>2, EntryType
      <4>2. c4 = [c3 EXCEPT !.names = Append(@, n)]
        BY <2>2
      <4> HIDE DEF n, c4
      <4> QED BY <1>4, <1>11, <4>1, <4>2
    <3> HIDE DEF c4
    <3>2. Len(ctx.names) \in Nat
      BY ContextFields
    <3> QED BY <1>11, <2>2, <3>1, <3>2
  <2> QED BY <2>1, <2>2
<1> HIDE DEF c4
<1>13. \A i \in Len(ctx.names) + 1 .. Len(c2.names) : c2.names[i].name = NoName
  BY <1>10, ContextFields
<1>15. /\ f \in Filenames \cup {NoName}
       /\ \A e \in {c2, c3, c4} : e \in Context /\ Frame(ctx, e) /\ e.pwd = ctx.pwd /\ Grown(ctx, e)
       /\ \A e \in {c2, c3} : \A i \in Len(ctx.names) + 1 .. Len(e.names) : e.names[i].name = NoName
       /\ \A i \in Len(ctx.names) + 1 .. Len(c4.names) :
            c4.names[i].name = IF ch = 0 /\ i = Len(c4.names) THEN f ELSE NoName
       /\ ch = 0 => Len(c4.names) > Len(ctx.names)
  BY <1>2, <1>10, <1>11, <1>12, <1>13 DEF Like
<1>16. CASE /\ ctx.in_syscall /\ HandleOne(d, c4) /\ Records(Paths(c4))
            /\ refcnt' = IF ch = 0 /\ f # NoName THEN [refcnt EXCEPT ![f] = @ + 1] ELSE refcnt
  <2>1. refcnt' = IF last # NoName THEN [refcnt EXCEPT ![last] = @ + 1] ELSE refcnt
    BY <1>16
  <2>2. \A i \in Len(ctx.names) + 1 .. Len(c4.names) :
          c4.names[i].name = IF i = Len(c4.names) THEN last ELSE NoName
    BY <1>15
  <2>3. last # NoName => Len(c4.names) > Len(ctx.names)
    BY <1>15
  <2>4. last \in Filenames \cup {NoName}
    BY <1>15
  <2>5. Child(d, c4, last)
    BY <1>15, <1>16, <2>1, <2>2, <2>3 DEF Child
  <2> QED BY <1>15, <1>16, <2>4, <2>5
<1>17. ASSUME NEW e \in {c2, c3}, ctx.in_syscall, HandleOne(d, e), Records(Paths(e)), UNCHANGED refcnt
      PROVE  e \in Context /\ Child(d, e, NoName)
  BY <1>15, <1>17 DEF Child
<1> QED BY <1>14, <1>16, <1>17

LEMMA InodeChildType ==
  ASSUME TypeInv, NEW p \in Dentries, NEW d \in Dentries, NEW type \in {"CREATE", "DELETE"},
         AuditInodeChild(p, d, type)
  PROVE  Hooked /\ walk' = walk /\ mine' = mine
<1>1. phase' = "kernel" /\ ctx \in Context /\ BlocksOK(ctx)
  BY HookStart DEF AuditInodeChild
<1>2. ctx' = ctx \/ \E c \in Context, f \in Filenames \cup {NoName} : Child(d, c, f)
  BY <1>1, ChildEnds
<1>3. ASSUME NEW c \in Context, Frame(ctx, c), HandleOne(d, c)
      PROVE  Hooked
  <2>1. ctx' = c \/ ctx' = Auditable(c)
    BY <1>3 DEF HandleOne
  <2>2. ctx' \in Context /\ ctx'.aux_pids = ctx.aux_pids
    BY <1>3, <2>1, AuditableType DEF Frame, SameFacts
  <2> QED BY <1>1, <2>2, SameBlocks DEF Hooked
<1>4. walk' = walk /\ mine' = mine
  BY DEF AuditInodeChild
<1> QED BY <1>1, <1>2, <1>3, <1>4 DEF Hooked, Child

LEMMA SpecialType ==
  ASSUME TypeInv, NEW t \in Specials, Special(t)
  PROVE  Hooked /\ walk' = walk /\ mine' = mine
<1>1. phase' = "kernel" /\ ctx \in Context /\ BlocksOK(ctx)
  BY HookStart DEF Special
<1>2. walk' = walk /\ mine' = mine /\ ctx' = [ctx EXCEPT !.type = t]
  BY DEF Special
<1> QED BY ONLY <1>1, <1>2, SameBlocks DEF Hooked, Context

LEMMA FactHooks ==
  ASSUME TypeInv, FdPair \/ AuditSockaddr \/ BprmFcaps
  PROVE  Hooked /\ walk' = walk /\ mine' = mine
<1>1. phase' = "kernel" /\ ctx \in Context /\ BlocksOK(ctx)
  <2>1. Hook
    BY DEF FdPair, AuditSockaddr, BprmFcaps
  <2> QED BY <2>1, HookStart
<1>2. walk' = walk /\ mine' = mine
  BY DEF FdPair, AuditSockaddr, BprmFcaps
<1>3. CASE FdPair
  BY <1>1, <1>2, <1>3, SameBlocks DEF FdPair, Hooked, Context
<1>4. CASE AuditSockaddr
  BY <1>1, <1>2, <1>4, SameBlocks DEF AuditSockaddr, Hooked, Context
<1>5. CASE BprmFcaps
  <2>1. ctx' = [ctx EXCEPT !.aux = ctx.aux + 1]
    BY <1>5 DEF BprmFcaps
  <2>2. ctx.aux + 1 \in Nat
    BY <1>1, ContextFields
  <2>3. ctx' \in Context /\ ctx'.aux_pids = ctx.aux_pids
    BY <1>1, <2>1, <2>2 DEF Context
  <2> QED BY <1>1, <1>2, <2>3, SameBlocks DEF Hooked
<1> QED BY <1>3, <1>4, <1>5

LEMMA LogType ==
  ASSUME TypeInv, LogInCall
  PROVE  Hooked /\ walk' = walk /\ mine' = mine
<1>1. phase = "kernel" /\ phase' = "kernel" /\ ctx \in Context /\ BlocksOK(ctx)
  BY DEF LogInCall, TypeInv
<1>2. walk' = walk /\ mine' = mine
  BY DEF LogInCall
<1> DEFINE c == Auditable(ctx)
<1>3. c \in Context /\ c.aux_pids = ctx.aux_pids
  BY <1>1, AuditableType DEF SameFacts
<1>4. ctx' = ctx \/ ctx' = [c EXCEPT !.stamped = TRUE]
  BY DEF LogInCall
<1> HIDE DEF c
<1>5. [c EXCEPT !.stamped = TRUE] \in Context /\ [c EXCEPT !.stamped = TRUE].aux_pids = c.aux_pids
  BY <1>3 DEF Context
<1> QED BY <1>1, <1>2, <1>3, <1>4, <1>5, SameBlocks DEF Hooked

LEMMA PidHooks ==
  ASSUME TypeInv, NEW p \in Pids, AuditPtrace(p) \/ AuditSignalInfo(p)
  PROVE  Hooked /\ walk' = walk /\ mine' = mine
<1>1. phase' = "kernel" /\ ctx \in Context /\ BlocksOK(ctx)
  BY HookStart DEF AuditPtrace, AuditSignalInfo
<1>2. walk' = walk /\ mine' = mine
  BY DEF AuditPtrace, AuditSignalInfo
<1> DEFINE bs == ctx.aux_pids
           more == [bs EXCEPT ![1] = Append(bs[1], p)]
           new == <<<<p>>>> \o bs
<1>3. \/ ctx' = ctx \/ ctx' = [ctx EXCEPT !.target = p]
      \/ bs # <<>> /\ Len(bs[1]) < AuxPids /\ ctx' = [ctx EXCEPT !.aux_pids = more]
      \/ ctx' = [ctx EXCEPT !.aux_pids = new]
  BY DEF AuditPtrace, AuditSignalInfo
<1>4. bs \in Seq(Seq(Pids)) /\ Len(bs) \in Nat /\ \A b \in 1 .. Len(bs) : bs[b] \in Seq(Pids) /\ Len(bs[b]) <= AuxPids
  BY <1>1, ContextFields DEF BlocksOK
<1> HIDE DEF bs
<1>5. CASE ctx' = ctx \/ ctx' = [ctx EXCEPT !.target = p]
  BY <1>1, <1>2, <1>5, SameBlocks DEF Hooked, Context
<1>6. CASE bs # <<>> /\ Len(bs[1]) < AuxPids /\ ctx' = [ctx EXCEPT !.aux_pids = more]
  <2>1. Len(bs) >= 1 /\ bs[1] \in Seq(Pids)
    BY <1>4, <1>6
  <2>2. Append(bs[1], p) \in Seq(Pids) /\ Len(Append(bs[1], p)) = Len(bs[1]) + 1 /\ Len(bs[1]) \in Nat
    BY <2>1
  <2>3. more \in Seq(Seq(Pids)) /\ Len(more) = Len(bs)
    BY <1>4, <2>1, <2>2
  <2>4. \A b \in 1 .. Len(more) : Len(more[b]) <= AuxPids
    BY <1>4, <1>6, <2>1, <2>2, <2>3, AuditContextAssumption
  <2> HIDE DEF more
  <2>5. ctx' \in Context /\ ctx'.aux_pids = more
    BY <1>1, <1>6, <2>3 DEF Context
  <2> QED BY <1>1, <1>2, <2>4, <2>5 DEF Hooked, BlocksOK
<1>7. CASE ctx' = [ctx EXCEPT !.aux_pids = new]
  <2>1. <<p>> \in Seq(Pids) /\ Len(<<p>>) = 1
    OBVIOUS
  <2>2. new \in Seq(Seq(Pids)) /\ Len(new) = Len(bs) + 1
    BY <1>4, <2>1
  <2>3. new[1] = <<p>> /\ \A b \in 2 .. Len(new) : new[b] = bs[b - 1] /\ b - 1 \in 1 .. Len(bs)
    BY <1>4, <2>2
  <2> HIDE DEF new
  <2>4. ASSUME NEW b \in 1 .. Len(new)
        PROVE  Len(new[b]) <= AuxPids
    <3>1. AuxPids \in Nat /\ AuxPids >= 1
      BY AuditContextAssumption
    <3>2. CASE b = 1
      BY <2>1, <2>3, <3>1, <3>2
    <3>3. CASE b # 1
      <4>1. b \in 2 .. Len(new)
        BY <1>4, <2>2, <3>3
      <4> QED BY <1>4, <2>3, <4>1
    <3> QED BY <3>2, <3>3
  <2>5. ctx' \in Context /\ ctx'.aux_pids = new
    BY <1>1, <1>7, <2>2 DEF Context
  <2> QED BY <1>1, <1>2, <2>4, <2>5 DEF Hooked, BlocksOK
<1> QED BY <1>3, <1>5, <1>6, <1>7

\* What the beginning and the end of a call, and of a task, leave.
LEMMA AllocContext ==
  ASSUME TypeInv, AuditAlloc
  PROVE  /\ phase' = "user" /\ ctx = NoCtx
         /\ (ctx' = NoCtx \/ (ctx' \in Context /\ Clean(ctx') /\ ctx'.fds))
<1> DEFINE r == AuditFilterTask(rules.task, tsk)
           H == {k \in DOMAIN rules.task : AuditFilterRules(rules.task[k], tsk, NoCtx, NoName, NoChain)}
<1>1. rules.task \in Seq(AllRules)
  BY RuleLists DEF TypeInv
<1>2. H \subseteq Nat /\ \A k \in H : rules.task[k] \in AllRules
  BY <1>1
<1>3. r = IF FirstMatch(H) = 0 THEN [state |-> "BUILD", key |-> "none"]
          ELSE [state |-> StateOf(rules.task[FirstMatch(H)]),
                key |-> IF StateOf(rules.task[FirstMatch(H)]) = "RECORD"
                        THEN rules.task[FirstMatch(H)].key ELSE "none"]
  BY DEF AuditFilterTask
<1>4. ctx' = NoCtx \/ (r.state # "DISABLED" /\ ctx' = NewContext(r.state, r.key)) \/ ctx' = ctx
  BY DEF AuditAlloc
<1>5. phase' = "user" /\ ctx = NoCtx
  BY DEF AuditAlloc, TypeInv
<1> HIDE DEF H, r
<1>6. r.state \in {"BUILD", "DISABLED", "RECORD"} /\ r.key \in Keys
  <2>1. FirstMatch(H) # 0 => rules.task[FirstMatch(H)] \in AllRules
    BY <1>2, FirstMatchIs
  <2> DEFINE q == rules.task[FirstMatch(H)]
  <2>2. "none" \in Keys
    BY DEF Keys
  <2>3. r = [state |-> "BUILD", key |-> "none"]
        \/ (q \in AllRules /\ r = [state |-> StateOf(q), key |-> IF StateOf(q) = "RECORD" THEN q.key ELSE "none"])
    BY <1>3, <2>1
  <2> HIDE DEF q
  <2>4. CASE r = [state |-> "BUILD", key |-> "none"]
    BY <2>2, <2>4
  <2>5. CASE /\ q \in AllRules
             /\ r = [state |-> StateOf(q), key |-> IF StateOf(q) = "RECORD" THEN q.key ELSE "none"]
    <3>1. StateOf(q) \in {"DISABLED", "RECORD"} /\ q.key \in Keys
      BY <2>5, RuleTypes
    <3> QED BY <2>2, <2>5, <3>1
  <2> QED BY <2>3, <2>4, <2>5
<1>7. r.state # "DISABLED" => /\ NewContext(r.state, r.key) \in Context
                              /\ Clean(NewContext(r.state, r.key)) /\ NewContext(r.state, r.key).fds
  <2> HAVE r.state # "DISABLED"
  <2>1. TopPrio \in Nat /\ NoVal \in Vals /\ <<>> \in Seq(Name) /\ <<>> \in Seq(Seq(Pids))
    BY AuditContextAssumption DEF Vals
  <2>2. NewContext(r.state, r.key) \in Context
    BY <1>6, <2>1 DEF NewContext, Context
  <2>3. Clean(NewContext(r.state, r.key)) /\ NewContext(r.state, r.key).fds
    BY DEF NewContext, Clean
  <2> QED BY <2>2, <2>3
<1> QED BY <1>4, <1>5, <1>7

\* The decision at the beginning of a call.
Chosen(c) ==
  \/ c.prio \in {0, 1, TopPrio}
  \/ \E r \in AllRules : c.prio = r.prio /\ c.current_state = StateOf(r)

LEMMA EntryContext ==
  ASSUME TypeInv, NEW major \in Majors, AuditSyscallEntry(major)
  PROVE  /\ phase = "user" /\ phase' = "kernel" /\ did' = {}
         /\ \/ ctx' = ctx
            \/ /\ ctx \in Context /\ ctx' \in Context /\ ctx'.names = <<>> /\ ctx'.aux = 0
               /\ ctx'.aux_pids = <<>> /\ ctx'.target = "none" /\ ctx'.type = "none"
               /\ ~ctx'.sockaddr /\ ~ctx'.pwd /\ Chosen(ctx')
<1>1. phase = "user" /\ phase' = "kernel" /\ did' = {}
  BY DEF AuditSyscallEntry
<1>2. CASE ctx = NoCtx \/ ~audit_enabled
  BY <1>1, <1>2 DEF AuditSyscallEntry
<1>3. CASE ~(ctx = NoCtx \/ ~audit_enabled)
  <2>1. ctx \in Context /\ Clean(ctx)
    BY <1>1, <1>3 DEF TypeInv
  <2> DEFINE dummy == NRules = 0
             c == [ctx EXCEPT !.major = major, !.val = tsk.call, !.dummy = dummy]
             build == ~dummy /\ ctx.state = "BUILD"
             q == [c EXCEPT !.prio = 0]
             s == AuditFilterSyscall(rules.entry, tsk, q, chain)
             r == IF build THEN s ELSE [state |-> ctx.state, ctx |-> c]
  <2>2. ctx' = IF r.state = "DISABLED" THEN r.ctx
               ELSE [r.ctx EXCEPT !.stamped = FALSE, !.in_syscall = TRUE, !.current_state = r.state]
    BY <1>3 DEF AuditSyscallEntry
  <2>3. tsk.call \in Vals /\ dummy \in BOOLEAN
    BY DEF TypeInv, Vals
  <2> HIDE DEF dummy
  <2>4. c \in Context /\ Clean(c)
    BY <2>1, <2>3 DEF Context, Clean
  <2> HIDE DEF c
  <2>5. q \in Context /\ Clean(q) /\ q.prio = 0
    BY <2>4 DEF Context, Clean
  <2> HIDE DEF q
  <2>6. /\ s.ctx \in Context /\ SameFacts(q, s.ctx) /\ s.state \in {"BUILD", "DISABLED", "RECORD"}
        /\ \/ s.ctx.prio = 0
           \/ \E x \in AllRules : s.ctx.prio = x.prio /\ s.ctx.current_state = StateOf(x) /\ s.state = StateOf(x)
    <3>1. rules.entry \in Seq(AllRules)
      BY RuleLists DEF TypeInv
    <3>2. \/ s.ctx = q /\ s.state \in {"BUILD", "DISABLED"}
          \/ \E x \in AllRules : s.ctx = Decided(q, x) /\ s.state = StateOf(x)
      BY <2>5, <3>1, SyscallFilter
    <3> HIDE DEF s
    <3>3. CASE s.ctx = q /\ s.state \in {"BUILD", "DISABLED"}
      BY <2>5, <3>3 DEF SameFacts
    <3>4. CASE \E x \in AllRules : s.ctx = Decided(q, x) /\ s.state = StateOf(x)
      <4>1. PICK x \in AllRules : s.ctx = Decided(q, x) /\ s.state = StateOf(x)
        BY <3>4
      <4> QED BY <2>5, <4>1, DecidedType, RuleTypes
    <3> QED BY <3>2, <3>3, <3>4
  <2> HIDE DEF s
  <2>7. /\ r.ctx \in Context /\ r.state \in {"BUILD", "DISABLED", "RECORD"} /\ r.ctx.names = <<>>
        /\ r.ctx.aux = 0 /\ r.ctx.aux_pids = <<>> /\ r.ctx.target = "none" /\ r.ctx.type = "none"
        /\ ~r.ctx.sockaddr /\ ~r.ctx.pwd
        /\ \/ r.ctx.prio \in {0, TopPrio}
           \/ \E x \in AllRules : r.ctx.prio = x.prio /\ r.ctx.current_state = StateOf(x) /\ r.state = StateOf(x)
    <3>1. CASE build
      <4>1. r = s
        BY <3>1
      <4> HIDE DEF r
      <4> QED BY <2>5, <2>6, <4>1 DEF Clean, SameFacts
    <3>2. CASE ~build
      <4>1. r.state = ctx.state /\ r.ctx = c
        BY <3>2
      <4> HIDE DEF r
      <4> QED BY <2>1, <2>4, <4>1, ContextFields DEF Clean
    <3> QED BY <3>1, <3>2
  <2> HIDE DEF r
  <2>8. CASE r.state = "DISABLED"
    BY <1>1, <2>1, <2>2, <2>7, <2>8 DEF Chosen
  <2>9. CASE r.state # "DISABLED"
    <3> DEFINE d == r.ctx
    <3>1. ctx' = [d EXCEPT !.stamped = FALSE, !.in_syscall = TRUE, !.current_state = r.state]
      BY <2>2, <2>9
    <3>2. d \in Context
      BY <2>7
    <3>3. d.names = <<>> /\ d.aux = 0 /\ d.aux_pids = <<>> /\ d.target = "none" /\ d.type = "none"
          /\ ~d.sockaddr /\ ~d.pwd
      BY <2>7
    <3>4. d.prio \in {0, TopPrio} \/ \E x \in AllRules : d.prio = x.prio /\ r.state = StateOf(x)
      BY <2>7
    <3> HIDE DEF d
    <3> DEFINE y == r.state
    <3>6. y \in {"DISABLED", "BUILD", "RECORD"} /\ ctx' = [d EXCEPT !.stamped = FALSE, !.in_syscall = TRUE, !.current_state = y]
      BY <2>7, <3>1
    <3> HIDE DEF y
    <3>7. ctx' \in Context
      BY ONLY <3>2, <3>6 DEF Context
    <3>5. /\ ctx' \in Context /\ ctx'.names = d.names /\ ctx'.aux = d.aux /\ ctx'.aux_pids = d.aux_pids
          /\ ctx'.target = d.target /\ ctx'.type = d.type /\ ctx'.sockaddr = d.sockaddr
          /\ ctx'.pwd = d.pwd /\ ctx'.prio = d.prio /\ ctx'.current_state = r.state
      BY ONLY <3>2, <3>6, <3>7 DEF Context, y
    <3> QED BY <1>1, <2>1, <3>3, <3>4, <3>5 DEF Chosen
  <2> QED BY <2>8, <2>9
<1> QED BY <1>2, <1>3

LEMMA NextContext ==
  ASSUME NEW c \in Context
  PROVE  ForNextCall(c) \in Context /\ Clean(ForNextCall(c))
<1> DEFINE p == IF c.state = "RECORD" THEN TopPrio ELSE 0
           k == IF c.state # "RECORD" THEN "none" ELSE c.filterkey
           s == <<>>
           q == <<>>
           n == [c EXCEPT !.in_syscall = FALSE, !.prio = p, !.names = s, !.pwd = FALSE, !.aux = 0,
                          !.aux_pids = q, !.target = "none", !.sockaddr = FALSE, !.type = "none",
                          !.fds = FALSE, !.filterkey = k]
<1>1. ForNextCall(c) = n
  BY DEF ForNextCall
<1>2. p \in Nat /\ p \in {0, TopPrio} /\ s = <<>> /\ q = <<>>
  BY AuditContextAssumption
<1>3. k \in Keys
  BY DEF Context, Keys
<1>4. s \in Seq(Name) /\ q \in Seq(Seq(Pids))
  OBVIOUS
<1> HIDE DEF p, k, s, q
<1>5. n \in Context
  BY ONLY <1>2, <1>3, <1>4, c \in Context DEF Context
<1>6. Clean(n)
  BY ONLY <1>2, c \in Context DEF Context, Clean
<1> QED BY <1>1, <1>5, <1>6

LEMMA ExitContext ==
  ASSUME TypeInv, NEW valid \in {"success", "failure"}, AuditSyscallExit(valid)
  PROVE  /\ phase = "kernel" /\ phase' = "user"
         /\ (ctx' = NoCtx /\ ctx = NoCtx) \/ (ctx \in Context /\ ctx' \in Context /\ Clean(ctx'))
<1>1. phase = "kernel" /\ phase' = "user"
  BY DEF AuditSyscallExit
<1>2. CASE ctx = NoCtx
  BY <1>1, <1>2 DEF AuditSyscallExit
<1>3. CASE ctx # NoCtx
  <2>1. ctx \in Context
    BY <1>3 DEF TypeInv
  <2> DEFINE c == Taken(valid)
  <2>2. c \in Context
    BY <2>1, TakenType DEF TypeInv
  <2>3. ctx' = ForNextCall(c)
    BY <1>3 DEF AuditSyscallExit
  <2> HIDE DEF c
  <2>5. ForNextCall(c) \in Context /\ Clean(ForNextCall(c))
    BY <2>2, NextContext
  <2> QED BY <1>1, <2>1, <2>3, <2>5
<1> QED BY <1>2, <1>3

\* All hooks at once.
LEMMA HookTypes ==
  ASSUME TypeInv, NameInv, NextHook
  PROVE  /\ phase = "kernel" /\ ctx \in Context /\ ~walk.busy /\ Hooked
         /\ walk' = walk \/ \E d \in Dentries : StartWalk(d)
         /\ mine' \subseteq Filenames /\ tsk' = tsk /\ rules' = rules
<1> DEFINE Goal == /\ Hook \/ LogInCall
                   /\ Hooked /\ (walk' = walk \/ \E d \in Dentries : StartWalk(d))
                   /\ mine' \subseteq Filenames
<1>3. mine \subseteq Filenames
  BY DEF TypeInv
<1>4. ASSUME NEW f \in Filenames, AuditGetname(f) PROVE Goal
  BY <1>4, GetnameType DEF AuditGetname
<1>5. ASSUME NEW f \in Filenames, AuditReusename(f) PROVE Goal
  <2>1. Hook
    BY <1>5 DEF AuditReusename
  <2>2. ctx' = ctx /\ walk' = walk /\ mine' \subseteq Filenames
    BY <1>3, <1>5 DEF AuditReusename
  <2> QED BY <2>1, <2>2, HookStart, SameBlocks DEF Hooked
<1>6. ASSUME NEW f \in Filenames \cup {NoName}, NEW d \in Dentries, NEW parent \in BOOLEAN,
             NEW hidden \in BOOLEAN, AuditInode(f, d, parent, hidden)
      PROVE  Goal
  <2>1. Hook
    BY <1>6 DEF AuditInode
  <2> QED BY <1>6, <2>1, InodeType
<1>7. ASSUME NEW p \in Dentries, NEW d \in Dentries, NEW type \in {"CREATE", "DELETE"},
             AuditInodeChild(p, d, type)
      PROVE  Goal
  <2>1. Hook
    BY <1>7 DEF AuditInodeChild
  <2> QED BY <1>3, <1>7, <2>1, InodeChildType
<1>8. ASSUME NEW t \in Specials, Special(t) PROVE Goal
  BY <1>3, <1>8, SpecialType DEF Special
<1>9. ASSUME FdPair \/ AuditSockaddr \/ BprmFcaps PROVE Goal
  BY <1>3, <1>9, FactHooks DEF FdPair, AuditSockaddr, BprmFcaps
<1>10. ASSUME LogInCall PROVE Goal
  BY <1>3, <1>10, LogType
<1>11. ASSUME NEW p \in Pids, AuditPtrace(p) \/ AuditSignalInfo(p) PROVE Goal
  <2>1. Hook
    BY <1>11 DEF AuditPtrace, AuditSignalInfo
  <2> QED BY <1>3, <1>11, <2>1, PidHooks
<1> HIDE DEF Goal
<1>12. Goal
  <2>1. CASE \E f \in Filenames : AuditGetname(f) \/ AuditReusename(f)
    BY <1>4, <1>5, <2>1
  <2>2. CASE \E f \in Filenames \cup {NoName}, d \in Dentries, parent, hidden \in BOOLEAN :
               AuditInode(f, d, parent, hidden)
    BY <1>6, <2>2
  <2>3. CASE \E p, d \in Dentries, type \in {"CREATE", "DELETE"} : AuditInodeChild(p, d, type)
    BY <1>7, <2>3
  <2>4. CASE \E t \in Specials : Special(t)
    BY <1>8, <2>4
  <2>5. CASE \E p \in Pids : AuditPtrace(p) \/ AuditSignalInfo(p)
    BY <1>11, <2>5
  <2> QED BY <1>9, <1>10, <2>1, <2>2, <2>3, <2>4, <2>5 DEF NextHook
<1>13. Hook \/ LogInCall
  BY <1>12 DEF Goal
<1>14. /\ phase = "kernel" /\ ctx \in Context /\ ~walk.busy
       /\ tsk' = tsk /\ rules' = rules
  <2>1. CASE Hook
    BY <2>1, HookStart
  <2>2. CASE LogInCall
    BY <2>2 DEF LogInCall, TypeInv, settings
  <2> QED BY <1>13, <2>1, <2>2
<1> QED BY <1>12, <1>14 DEF Goal

LEMMA TypeInit == Init => TypeInv
<1> SUFFICES ASSUME Init PROVE TypeInv
  OBVIOUS
<1>1. {"auditd", "call"} \subseteq DOMAIN tsk /\ tsk.call \in {t.call : t \in Tasks}
  BY AuditContextAssumption DEF Init
<1> QED BY <1>1 DEF Init, TypeInv, NoWalk

LEMMA WalkTypes ==
  ASSUME TypeInv, WalkUp \/ WalkEnds \/ WalkFull
  PROVE  /\ walk.busy /\ phase = "kernel" /\ ctx \in Context
         /\ phase' = phase /\ tsk' = tsk /\ rules' = rules /\ mine' = mine /\ did' = did
         /\ refcnt' = refcnt /\ aname' = aname /\ event' = event
         /\ (ctx' = ctx \/ (walk' = NoWalk /\ ctx' = Auditable(ctx)))
         /\ walk' = [todo |-> walk'.todo, path |-> walk'.path, at |-> walk'.at,
                     left |-> walk'.left, busy |-> walk'.busy] /\ walk'.busy \in BOOLEAN
<1>1. walk.busy /\ phase = "kernel" /\ ctx \in Context
  BY DEF WalkUp, WalkEnds, WalkFull, TypeInv
<1>2. /\ phase' = phase /\ tsk' = tsk /\ rules' = rules /\ mine' = mine /\ did' = did
      /\ refcnt' = refcnt /\ aname' = aname /\ event' = event
      /\ (ctx' = ctx \/ (walk' = NoWalk /\ ctx' = Auditable(ctx)))
  BY DEF WalkUp, WalkEnds, WalkFull, settings
<1>3. walk' = NoWalk \/ \E s : walk' = [walk EXCEPT !.todo = s]
  BY DEF WalkUp, WalkEnds, WalkFull
<1>4. /\ walk = [todo |-> walk.todo, path |-> walk.path, at |-> walk.at, left |-> walk.left,
                 busy |-> walk.busy] /\ walk.busy \in BOOLEAN
  BY DEF TypeInv
<1>5. ASSUME NEW s, walk' = [walk EXCEPT !.todo = s]
      PROVE  /\ walk' = [todo |-> walk'.todo, path |-> walk'.path, at |-> walk'.at,
                         left |-> walk'.left, busy |-> walk'.busy] /\ walk'.busy \in BOOLEAN
  BY <1>4, <1>5
<1>6. CASE walk' = NoWalk
  BY <1>1, <1>2, <1>6 DEF NoWalk
<1>7. CASE \E s : walk' = [walk EXCEPT !.todo = s]
  <2> HIDE DEF NoWalk
  <2> QED BY ONLY <1>1, <1>2, <1>5, <1>7
<1> QED BY <1>3, <1>6, <1>7

LEMMA TypeStep ==
  ASSUME TypeInv, NameInv, [Next]_vars
  PROVE  TypeInv'
<1> DEFINE Other == {"auditd", "call"} \subseteq DOMAIN tsk /\ tsk.call \in {t.call : t \in Tasks}
           IsWalk(w) == /\ w = [todo |-> w.todo, path |-> w.path, at |-> w.at, left |-> w.left,
                                busy |-> w.busy] /\ w.busy \in BOOLEAN
<1>0. Other /\ IsWalk(walk) /\ rules \in RuleSets /\ mine \subseteq Filenames
  BY DEF TypeInv
<1>1. CASE AuditAlloc
  <2>1. phase' = "user" /\ (ctx' = NoCtx \/ (ctx' \in Context /\ Clean(ctx')))
    BY <1>1, AllocContext
  <2>2. ~walk.busy /\ walk' = walk /\ tsk' = tsk /\ rules' = rules /\ mine' = mine
    BY <1>1 DEF AuditAlloc, TypeInv, settings
  <2>3. ctx' # NoCtx => BlocksOK(ctx')
    BY <2>1 DEF BlocksOK, Clean
  <2> QED BY <1>0, <2>1, <2>2, <2>3 DEF TypeInv
<1>2. CASE AuditFree
  <2>1. /\ phase' = "none" /\ ctx' = NoCtx /\ ~walk.busy /\ walk' = walk /\ tsk' = tsk
        /\ rules' = rules /\ mine' = mine
    BY <1>2 DEF AuditFree, settings
  <2> QED BY <1>0, <2>1 DEF TypeInv
<1>3. ASSUME NEW major \in Majors, AuditSyscallEntry(major)
      PROVE  TypeInv'
  <2>1. /\ phase = "user" /\ phase' = "kernel" /\ walk' = walk /\ tsk' = tsk /\ rules' = rules
        /\ mine' = mine
    BY <1>3 DEF AuditSyscallEntry, settings
  <2>2. ~walk.busy
    BY <2>1 DEF TypeInv
  <2>3. ctx' = ctx \/ (ctx' \in Context /\ ctx'.aux_pids = <<>>)
    BY <1>3, EntryContext
  <2>4. ctx' \in Context \cup {NoCtx} /\ (ctx' # NoCtx => BlocksOK(ctx'))
    BY <2>3 DEF TypeInv, BlocksOK
  <2> QED BY <1>0, <2>1, <2>2, <2>4 DEF TypeInv
<1>4. ASSUME NEW valid \in {"success", "failure"}, AuditSyscallExit(valid)
      PROVE  TypeInv'
  <2>1. /\ phase' = "user" /\ ~walk.busy /\ walk' = walk /\ tsk' = tsk /\ rules' = rules
        /\ mine' = mine
    BY <1>4 DEF AuditSyscallExit, settings
  <2>2. ctx' = NoCtx \/ (ctx' \in Context /\ Clean(ctx'))
    BY <1>4, ExitContext
  <2>3. ctx' # NoCtx => BlocksOK(ctx')
    BY <2>2 DEF BlocksOK, Clean
  <2> QED BY <1>0, <2>1, <2>2, <2>3 DEF TypeInv
<1>5. ASSUME NEW f \in Filenames, PutName(f) PROVE TypeInv'
  <2>1. ctx' = ctx /\ walk' = walk /\ phase' = phase /\ tsk' = tsk /\ rules' = rules /\ mine' \subseteq mine
    BY <1>5 DEF PutName, settings
  <2> QED BY <1>0, <2>1 DEF TypeInv, BlocksOK
<1>6. CASE WalkUp \/ WalkEnds \/ WalkFull
  <2>1. /\ phase = "kernel" /\ ctx \in Context /\ phase' = "kernel" /\ tsk' = tsk /\ rules' = rules
        /\ mine' = mine /\ (ctx' = ctx \/ ctx' = Auditable(ctx)) /\ IsWalk(walk')
    BY <1>6, WalkTypes
  <2>2. ctx' \in Context /\ ctx'.aux_pids = ctx.aux_pids
    BY <2>1, AuditableType DEF SameFacts
  <2>3. BlocksOK(ctx')
    BY <2>1, <2>2, SameBlocks, ContextFields DEF TypeInv
  <2>4. ctx' # NoCtx
    BY <2>2, ContextFields
  <2> QED BY <1>0, <2>1, <2>2, <2>3, <2>4 DEF TypeInv
<1>7. CASE NextHook
  <2>1. /\ Hooked /\ (walk' = walk \/ \E d \in Dentries : StartWalk(d))
        /\ mine' \subseteq Filenames /\ tsk' = tsk /\ rules' = rules
    BY <1>7, HookTypes
  <2>2. ctx' # NoCtx
    BY <2>1, ContextFields DEF Hooked
  <2>3. IsWalk(walk')
    <3>1. CASE walk' = walk
      BY <1>0, <3>1
    <3>2. ASSUME NEW d \in Dentries, StartWalk(d)
          PROVE  IsWalk(walk')
      <4> DEFINE h == d.path # <<>>
      <4>1. walk' = [todo |-> d.path, path |-> d.path, at |-> chain.at, left |-> chain.left, busy |-> h]
        BY <3>2 DEF StartWalk
      <4>2. h \in BOOLEAN
        OBVIOUS
      <4> HIDE DEF h
      <4> QED BY <4>1, <4>2
    <3> QED BY <2>1, <3>1, <3>2
  <2> QED BY <1>0, <2>1, <2>2, <2>3 DEF TypeInv, Hooked
<1>8. CASE SetEnabled \/ BecomesAuditd \/ ChangeRules
  <2>1. ctx' = ctx /\ walk' = walk /\ phase' = phase /\ mine' = mine
    BY <1>8 DEF SetEnabled, BecomesAuditd, ChangeRules
  <2>2. rules' \in RuleSets
    BY <1>0, <1>8 DEF SetEnabled, BecomesAuditd, ChangeRules
  <2>3. Other'
    <3>1. CASE BecomesAuditd
      <4>1. tsk' = [tsk EXCEPT !.auditd = ~@]
        BY <3>1 DEF BecomesAuditd
      <4>2. DOMAIN tsk' = DOMAIN tsk /\ tsk'.call = tsk.call
        BY <1>0, <4>1
      <4> QED BY <1>0, <4>2
    <3>2. CASE SetEnabled \/ ChangeRules
      BY <1>0, <3>2 DEF SetEnabled, ChangeRules
    <3> QED BY <1>8, <3>1, <3>2
  <2> QED BY <1>0, <2>1, <2>2, <2>3 DEF TypeInv, BlocksOK
<1>9. CASE UNCHANGED vars
  BY <1>9 DEF TypeInv, BlocksOK, vars, settings
<1> QED BY <1>1, <1>2, <1>3, <1>4, <1>5, <1>6, <1>7, <1>8, <1>9 DEF Next

-----------------------------------------------------------------------------
(***************************************************************************)
(* The references of the chain, and the walks.                             *)
(***************************************************************************)
\* References are exact before and after each of the operations on the chain.
Counted(t, r) == ChainOK(t) /\ r \in [Chunks -> Nat] /\ \A k \in Chunks : r[k] = Count(t, k)

LEMMA CountType ==
  ASSUME NEW t, ChainOK(t), NEW k
  PROVE  Count(t, k) \in Nat
<1>1. At(t, k) \subseteq Places(t)
  BY DEF At
<1> QED BY <1>1, PlacesFinite, CountIs

LEMMA CountedPut ==
  ASSUME NEW t, NEW r, Counted(t, r), HasRoom(t), NEW k \in Chunks
  PROVE  Counted(PutTreeRef(t, k), [r EXCEPT ![k] = @ + 1])
<1> DEFINE u == PutTreeRef(t, k)
<1>1. /\ ChainOK(u) /\ Count(u, k) = Count(t, k) + 1
      /\ \A j \in Chunks \ {k} : Count(u, j) = Count(t, j)
  BY PutChain DEF Counted
<1> HIDE DEF u
<1>2. r \in [Chunks -> Nat] /\ \A j \in Chunks : r[j] = Count(t, j)
  BY DEF Counted
<1>3. [r EXCEPT ![k] = @ + 1] \in [Chunks -> Nat]
  BY <1>2
<1>4. \A j \in Chunks : [r EXCEPT ![k] = @ + 1][j] = Count(u, j)
  BY <1>1, <1>2
<1> QED BY <1>1, <1>3, <1>4 DEF Counted, u

LEMMA CountedUnroll ==
  ASSUME NEW t, NEW r, Counted(t, r), NEW p \in 0 .. Len(t.c), NEW n \in 0 .. BlockSize, p = 0 => n = 0
  PROVE  /\ Counted(UnrollTreeRefs(t, p, n), [k \in Chunks |-> r[k] - Dropped(t, p, n, k)])
         /\ Len(UnrollTreeRefs(t, p, n).c) = Len(t.c)
<1> DEFINE u == UnrollTreeRefs(t, p, n)
           q == [k \in Chunks |-> r[k] - Dropped(t, p, n, k)]
<1>1. /\ ChainOK(u) /\ Len(u.c) = Len(t.c)
      /\ \A k \in Chunks : Count(u, k) = Count(t, k) - Dropped(t, p, n, k)
  BY UnrollChain DEF Counted
<1> HIDE DEF u
<1>2. \A k \in Chunks : q[k] = Count(u, k) /\ q[k] \in Nat
  BY <1>1, CountType DEF Counted
<1>3. q \in [Chunks -> Nat]
  <2>1. q = [k \in Chunks |-> q[k]]
    OBVIOUS
  <2> HIDE DEF q
  <2> QED BY <1>2, <2>1
<1> QED BY <1>1, <1>2, <1>3 DEF Counted, u

LEMMA CountedGrow ==
  ASSUME NEW t, NEW r, Counted(t, r)
  PROVE  Counted(GrowTreeRefs(t), r) /\ HasRoom(GrowTreeRefs(t)) /\ Len(GrowTreeRefs(t).c) = Len(t.c) + 1
BY GrowChain DEF Counted

LEMMA CountedEmpty == Counted(NoChain, [k \in Chunks |-> 0])
<1>1. Places(NoChain) = {}
  BY DEF Places, NoChain
<1>2. ChainOK(NoChain)
  <2>1. <<>> \in Seq(Block) /\ Len(<<>>) = 0 /\ 0 \in 0 .. BlockSize
    BY AuditTreesAssumption
  <2> QED BY <1>1, <2>1 DEF ChainOK, IsChain, NoChain
<1>3. \A k \in Chunks : Count(NoChain, k) = 0
  BY <1>1, FS_EmptySet, CountIs DEF At
<1> QED BY <1>2, <1>3 DEF Counted

LEMMA CountedOne ==
  ASSUME Counted(chain, refs), NEW d \in Dentries, NEW c, HandleOne(d, c)
  PROVE  Counted(chain', refs')
<1> DEFINE k == Head(d.path)
<1>1. CASE d.path = <<>> \/ k = NoChunk
  BY <1>1 DEF HandleOne
<1>2. CASE ~(d.path = <<>> \/ k = NoChunk)
  <2>1. k \in Chunks
    <3>1. d.path \in Seq(Chunks \cup {NoChunk})
      BY AuditContextAssumption
    <3> QED BY <1>2, <3>1
  <2>2. \/ /\ HasRoom(chain) /\ chain' = PutTreeRef(chain, k) /\ refs' = [refs EXCEPT ![k] = @ + 1]
        \/ chain' = PutTreeRef(GrowTreeRefs(chain), k) /\ refs' = [refs EXCEPT ![k] = @ + 1]
        \/ chain' = UnrollTreeRefs(chain, chain.at, chain.left) /\ refs' = refs
    BY <1>2 DEF HandleOne
  <2> HIDE DEF k
  <2>3. CASE HasRoom(chain) /\ chain' = PutTreeRef(chain, k) /\ refs' = [refs EXCEPT ![k] = @ + 1]
    BY <2>1, <2>3, CountedPut
  <2>4. CASE chain' = PutTreeRef(GrowTreeRefs(chain), k) /\ refs' = [refs EXCEPT ![k] = @ + 1]
    <3>1. Counted(GrowTreeRefs(chain), refs) /\ HasRoom(GrowTreeRefs(chain))
      BY CountedGrow
    <3> QED BY <2>1, <2>4, <3>1, CountedPut
  <2>5. CASE chain' = UnrollTreeRefs(chain, chain.at, chain.left) /\ refs' = refs
    <3>1. ChainOK(chain)
      BY DEF Counted
    <3>2. chain.at \in 0 .. Len(chain.c) /\ chain.left \in 0 .. BlockSize /\ (chain.at = 0 => chain.left = 0)
      BY <3>1, ChainTypes
    <3>3. Counted(chain', [j \in Chunks |-> refs[j] - Dropped(chain, chain.at, chain.left, j)])
      BY <2>5, <3>2, CountedUnroll
    <3>4. \A j \in Chunks : refs[j] - Dropped(chain, chain.at, chain.left, j) = refs[j]
      BY <3>1, UnrollNothing DEF Counted
    <3>5. [j \in Chunks |-> refs[j] - Dropped(chain, chain.at, chain.left, j)] = refs
      BY <3>4 DEF Counted
    <3> QED BY <2>5, <3>3, <3>5
  <2> QED BY <2>2, <2>3, <2>4, <2>5
<1> QED BY <1>1, <1>2

\* The end of a path, without its first element.
LEMMA TailSuffix ==
  ASSUME NEW T, NEW p \in Seq(T), NEW s \in Seq(T), s # <<>>, Len(s) <= Len(p),
         \A i \in 1 .. Len(s) : s[i] = p[Len(p) - Len(s) + i]
  PROVE  /\ Tail(s) \in Seq(T) /\ Len(Tail(s)) \in Nat /\ Len(Tail(s)) <= Len(p)
         /\ \A i \in 1 .. Len(Tail(s)) : Tail(s)[i] = p[Len(p) - Len(Tail(s)) + i]
         /\ \A i \in 1 .. Len(p) - Len(Tail(s)) : i \in 1 .. Len(p) - Len(s) \/ p[i] = Head(s)
<1> DEFINE n == Len(s)  m == Len(p)  t == Tail(s)
<1>1. /\ n \in Nat /\ m \in Nat /\ n >= 1 /\ n <= m /\ t \in Seq(T) /\ Len(t) = n - 1 /\ Head(s) = s[1]
      /\ \A i \in 1 .. n - 1 : t[i] = s[i + 1]
  OBVIOUS
<1>2. \A i \in 1 .. n : s[i] = p[m - n + i]
  OBVIOUS
<1> HIDE DEF n, m, t
<1>3. ASSUME NEW i \in 1 .. n - 1
      PROVE  t[i] = p[m - (n - 1) + i]
  <2>1. i + 1 \in 1 .. n /\ m - n + (i + 1) = m - (n - 1) + i
    BY <1>1
  <2>2. t[i] = s[i + 1] /\ s[i + 1] = p[m - n + (i + 1)]
    BY <1>1, <1>2, <2>1
  <2> QED BY <2>1, <2>2
<1>4. ASSUME NEW i \in 1 .. m - (n - 1)
      PROVE  i \in 1 .. m - n \/ p[i] = Head(s)
  <2>1. CASE i = m - n + 1
    BY <1>1, <1>2, <2>1
  <2>2. CASE i # m - n + 1
    BY <1>1, <2>2
  <2> QED BY <2>1, <2>2
<1>5. Len(t) \in Nat /\ Len(t) <= m
  BY <1>1
<1> QED BY <1>1, <1>3, <1>4, <1>5 DEF n, m, t

\* What the steps of a walk do, and what an ended walk leaves.
LEMMA WalkStep ==
  ASSUME TypeInv, WalkInv, Counted(chain, refs), WalkUp \/ WalkEnds \/ WalkFull
  PROVE  /\ Counted(chain', refs') /\ WalkInv'
         /\ ~walk'.busy =>
              \/ \A i \in DOMAIN walk.path : walk.path[i] # NoChunk => MatchTreeRefs(chain', walk.path[i])
              \/ ctx'.prio > 0 /\ (ctx.prio = 0 => ctx'.current_state = "RECORD")
<1> DEFINE s == walk.todo  p == walk.path
<1>0. /\ walk.busy /\ ctx \in Context /\ ChainOK(chain)
      /\ walk = [todo |-> walk.todo, path |-> walk.path, at |-> walk.at, left |-> walk.left,
                 busy |-> walk.busy]
  BY WalkTypes DEF TypeInv, Counted
<1>1. /\ p \in Seq(Chunks \cup {NoChunk}) /\ s \in Seq(Chunks \cup {NoChunk})
      /\ walk.at \in 0 .. Len(chain.c) /\ walk.left \in 0 .. BlockSize /\ (walk.at = 0 => walk.left = 0)
      /\ Len(s) \in Nat /\ Len(p) \in Nat /\ Len(s) <= Len(p) /\ DOMAIN p = 1 .. Len(p)
      /\ \A i \in 1 .. Len(s) : s[i] = p[Len(p) - Len(s) + i]
      /\ \A i \in 1 .. Len(p) - Len(s) : p[i] # NoChunk => MatchTreeRefs(chain, p[i])
  BY <1>0 DEF WalkInv
<1>2. ASSUME NEW u, NEW r, Counted(u, r), walk' = [walk EXCEPT !.todo = p],
             chain' = UnrollTreeRefs(u, walk.at, walk.left), Len(chain.c) <= Len(u.c), Len(u.c) \in Nat,
             refs' = [k \in Chunks |-> r[k] - Dropped(u, walk.at, walk.left, k)]
      PROVE  Counted(chain', refs') /\ WalkInv' /\ walk'.busy
  <2>1. walk.at \in 0 .. Len(u.c)
    BY <1>0, <1>1, <1>2, ChainTypes
  <2>2. Counted(chain', refs') /\ Len(chain'.c) = Len(u.c)
    BY <1>1, <1>2, <2>1, CountedUnroll
  <2>3. /\ walk'.todo = p /\ walk'.path = p /\ walk'.at = walk.at /\ walk'.left = walk.left
        /\ walk'.busy = walk.busy
    BY <1>0, <1>2
  <2>4. WalkInv'
    BY <1>1, <2>1, <2>2, <2>3 DEF WalkInv
  <2> QED BY <1>0, <2>2, <2>3, <2>4
<1>3. CASE WalkUp
  <2>1. s # <<>> /\ walk' = [walk EXCEPT !.todo = Tail(s)]
    BY <1>3 DEF WalkUp
  <2> DEFINE k == Head(s)
  <2>2. /\ k = s[1] /\ k \in Chunks \cup {NoChunk} /\ Tail(s) \in Seq(Chunks \cup {NoChunk})
        /\ Len(Tail(s)) = Len(s) - 1 /\ Len(s) >= 1
        /\ \A i \in 1 .. Len(s) - 1 : Tail(s)[i] = s[i + 1]
    BY <1>1, <2>1
  <2>3. /\ Counted(chain', refs') /\ Len(chain'.c) = Len(chain.c)
        /\ \A j : MatchTreeRefs(chain, j) => MatchTreeRefs(chain', j)
        /\ k # NoChunk => MatchTreeRefs(chain', k)
    <3>1. CASE k = NoChunk
      <4>1. chain' = chain /\ refs' = refs
        BY <1>3, <3>1 DEF WalkUp
      <4> QED BY <3>1, <4>1
    <3>2. CASE k # NoChunk
      <4>1. k \in Chunks /\ HasRoom(chain) /\ chain' = PutTreeRef(chain, k)
            /\ refs' = [refs EXCEPT ![k] = @ + 1]
        BY <1>3, <2>2, <3>2 DEF WalkUp
      <4> HIDE DEF k
      <4> QED BY <1>0, <4>1, PutChain, CountedPut
    <3> QED BY <3>1, <3>2
  <2> HIDE DEF k
  <2>4. /\ walk'.todo = Tail(s) /\ walk'.path = p /\ walk'.at = walk.at /\ walk'.left = walk.left
        /\ walk'.busy
    BY <1>0, <2>1
  <2> DEFINE t == Tail(s)
  <2>5. /\ t \in Seq(Chunks \cup {NoChunk}) /\ Len(t) \in Nat /\ Len(t) <= Len(p)
        /\ \A i \in 1 .. Len(t) : t[i] = p[Len(p) - Len(t) + i]
        /\ \A i \in 1 .. Len(p) - Len(t) : i \in 1 .. Len(p) - Len(s) \/ p[i] = k
    <3> DEFINE S == Chunks \cup {NoChunk}
    <3>1. /\ p \in Seq(S) /\ s \in Seq(S) /\ s # <<>> /\ Len(s) <= Len(p)
          /\ \A i \in 1 .. Len(s) : s[i] = p[Len(p) - Len(s) + i]
      BY <1>1, <2>1
    <3> HIDE DEF S, s, p
    <3>2. /\ Tail(s) \in Seq(S) /\ Len(Tail(s)) \in Nat /\ Len(Tail(s)) <= Len(p)
          /\ \A i \in 1 .. Len(Tail(s)) : Tail(s)[i] = p[Len(p) - Len(Tail(s)) + i]
          /\ \A i \in 1 .. Len(p) - Len(Tail(s)) : i \in 1 .. Len(p) - Len(s) \/ p[i] = Head(s)
      BY ONLY <3>1, TailSuffix, Zenon
    <3> QED BY <3>2 DEF k, S
  <2> HIDE DEF t
  <2>6. \A i \in 1 .. Len(p) - Len(t) : p[i] # NoChunk => MatchTreeRefs(chain', p[i])
    BY <1>1, <2>3, <2>5
  <2>8. walk'.todo = t
    BY <2>4 DEF t
  <2>7. WalkInv'
    BY <1>1, <2>3, <2>4, <2>5, <2>6, <2>8 DEF WalkInv
  <2> QED BY <2>3, <2>4, <2>7
<1>4. CASE WalkEnds
  <2>1. s = <<>> /\ ctx' = ctx
    BY <1>4 DEF WalkEnds
  <2>2. CASE walk' = NoWalk /\ UNCHANGED <<chain, refs>>
    <3>1. \A i \in DOMAIN p : p[i] # NoChunk => MatchTreeRefs(chain', p[i])
      BY <1>1, <2>1, <2>2
    <3> QED BY <2>2, <3>1 DEF WalkInv, NoWalk
  <2>3. CASE walk' = [walk EXCEPT !.todo = walk.path] /\ Unwind(chain)
    BY <1>0, <1>2, <2>3, ChainTypes DEF Unwind
  <2> QED BY <1>4, <2>2, <2>3 DEF WalkEnds
<1>5. CASE WalkFull
  <2>1. CASE walk' = [walk EXCEPT !.todo = walk.path] /\ Unwind(GrowTreeRefs(chain))
    <3>1. Counted(GrowTreeRefs(chain), refs) /\ Len(GrowTreeRefs(chain).c) = Len(chain.c) + 1
      BY CountedGrow
    <3>2. Len(chain.c) \in Nat
      BY <1>0, ChainTypes
    <3> QED BY <1>2, <2>1, <3>1, <3>2 DEF Unwind
  <2>2. CASE walk' = NoWalk /\ Unwind(chain) /\ ctx' = Auditable(ctx)
    <3>1. Counted(chain', refs')
      BY <1>1, <2>2, CountedUnroll DEF Unwind
    <3>2. ctx'.prio > 0 /\ (ctx.prio = 0 => ctx'.current_state = "RECORD")
      BY <1>0, <2>2, AuditableType
    <3> QED BY <2>2, <3>1, <3>2 DEF WalkInv, NoWalk
  <2> QED BY <1>5, <2>1, <2>2 DEF WalkFull
<1> QED BY <1>3, <1>4, <1>5

\* What the hooks do with the chain.
LEMMA HookChain ==
  ASSUME TypeInv, NextHook
  PROVE  \/ chain' = chain /\ refs' = refs
         \/ walk' = walk /\ \E d \in Dentries, c \in Context : HandleOne(d, c)
<1>1. CASE \E f \in Filenames : AuditGetname(f) \/ AuditReusename(f)
  BY <1>1 DEF AuditGetname, AuditReusename
<1>2. CASE \E f \in Filenames \cup {NoName}, d \in Dentries, parent, hidden \in BOOLEAN :
             AuditInode(f, d, parent, hidden)
  BY <1>2 DEF AuditInode
<1>3. CASE \E p, d \in Dentries, type \in {"CREATE", "DELETE"} : AuditInodeChild(p, d, type)
  <2>1. PICK p \in Dentries, d \in Dentries, type \in {"CREATE", "DELETE"} : AuditInodeChild(p, d, type)
    BY <1>3
  <2>2. Hook /\ walk' = walk
    BY <2>1 DEF AuditInodeChild
  <2>3. ctx \in Context
    BY <2>2, HookStart
  <2>4. \/ chain' = chain /\ refs' = refs
        \/ \E c \in Context, f \in Filenames \cup {NoName} : Child(d, c, f)
    BY <2>1, <2>3, ChildEnds
  <2> QED BY <2>2, <2>4 DEF Child
<1>4. CASE \E t \in Specials : Special(t)
  BY <1>4 DEF Special
<1>5. CASE FdPair \/ AuditSockaddr \/ BprmFcaps \/ LogInCall
  BY <1>5 DEF FdPair, AuditSockaddr, BprmFcaps, LogInCall
<1>6. CASE \E p \in Pids : AuditPtrace(p) \/ AuditSignalInfo(p)
  BY <1>6 DEF AuditPtrace, AuditSignalInfo
<1> QED BY <1>1, <1>2, <1>3, <1>4, <1>5, <1>6 DEF NextHook

\* A walk begins with nothing of its path behind it.
LEMMA WalkStarts ==
  ASSUME NEW d \in Dentries, StartWalk(d), ChainOK(chain), chain' = chain
  PROVE  WalkInv'
<1> DEFINE p == d.path
<1>1. p \in Seq(Chunks \cup {NoChunk}) /\ Len(p) \in Nat
  BY AuditContextAssumption
<1>2. /\ walk'.todo = p /\ walk'.path = p /\ walk'.at = chain.at /\ walk'.left = chain.left
  BY DEF StartWalk
<1> HIDE DEF p
<1>3. /\ \A i \in 1 .. Len(p) : p[i] = p[Len(p) - Len(p) + i]
      /\ \A i \in 1 .. Len(p) - Len(p) : FALSE
  BY <1>1
<1>4. /\ chain'.at \in 0 .. Len(chain'.c) /\ chain'.left \in 0 .. BlockSize
      /\ chain'.at = 0 => chain'.left = 0
  BY ChainTypes
<1> QED BY <1>1, <1>2, <1>3, <1>4 DEF WalkInv

\* The end of a context gives all references back.
LEMMA TreesFreed ==
  ASSUME ChainInv, NEW c, FreeNamesAndTrees(c)
  PROVE  Counted(chain', refs') /\ \A k \in Chunks : refs'[k] = 0
<1>1. /\ chain' = UnrollTreeRefs(chain, 0, 0)
      /\ refs' = [k \in Chunks |-> refs[k] - Dropped(chain, 0, 0, k)]
  BY DEF FreeNamesAndTrees
<1>2. Counted(chain, refs) /\ ChainOK(chain)
  BY DEF ChainInv, Counted
<1>3. 0 \in 0 .. Len(chain.c) /\ 0 \in 0 .. BlockSize
  BY <1>2, ChainTypes
<1>4. Counted(chain', refs')
  BY <1>1, <1>2, <1>3, CountedUnroll
<1>5. \A k \in Chunks : refs'[k] = 0
  BY <1>1, <1>2, UnrollAll DEF Counted
<1> QED BY <1>4, <1>5

LEMMA ChainInit == Init => ChainInv /\ WalkInv
<1> SUFFICES ASSUME Init PROVE ChainInv /\ WalkInv
  OBVIOUS
<1>1. chain = NoChain /\ refs = [k \in Chunks |-> 0] /\ walk = NoWalk
  BY DEF Init
<1> QED BY <1>1, CountedEmpty DEF ChainInv, Counted, WalkInv, NoWalk

LEMMA ChainStep ==
  ASSUME TypeInv, NameInv, ChainInv, WalkInv, [Next]_vars
  PROVE  ChainInv' /\ WalkInv'
<1>0. Counted(chain, refs) /\ (phase # "kernel" \/ ctx = NoCtx => \A k \in Chunks : refs[k] = 0)
  BY DEF ChainInv, Counted
<1>1. ASSUME chain' = chain, refs' = refs, walk' = walk,
             phase' # "kernel" \/ ctx' = NoCtx => phase # "kernel" \/ ctx = NoCtx
      PROVE  ChainInv' /\ WalkInv'
  BY <1>0, <1>1 DEF ChainInv, Counted, WalkInv
<1>2. ASSUME Counted(chain', refs'), WalkInv', phase' = "kernel", ctx' # NoCtx
      PROVE  ChainInv' /\ WalkInv'
  BY <1>2 DEF ChainInv, Counted
<1>3. CASE AuditAlloc
  <2>1. /\ phase = "none" /\ chain' = NoChain /\ refs' = refs /\ walk' = walk
    BY <1>3 DEF AuditAlloc
  <2>2. \A k \in Chunks : refs[k] = 0
    BY <1>0, <2>1
  <2>3. refs = [k \in Chunks |-> 0]
    BY <1>0, <2>2 DEF Counted
  <2>4. ~walk'.busy
    BY <2>1 DEF TypeInv
  <2> QED BY <2>1, <2>2, <2>3, <2>4, CountedEmpty DEF ChainInv, Counted, WalkInv
<1>4. CASE AuditFree \/ \E valid \in {"success", "failure"} : AuditSyscallExit(valid)
  <2>1. ~walk.busy /\ walk' = walk
    BY <1>4 DEF AuditFree, AuditSyscallExit
  <2>2. CASE ctx = NoCtx
    <3>1. chain' = chain /\ refs' = refs
      BY <1>4, <2>2 DEF AuditFree, AuditSyscallExit
    <3> QED BY <1>1, <2>1, <2>2, <3>1
  <2>3. CASE ctx # NoCtx
    <3>1. \E c : FreeNamesAndTrees(c)
      BY <1>4, <2>3 DEF AuditFree, AuditSyscallExit
    <3>2. Counted(chain', refs') /\ \A k \in Chunks : refs'[k] = 0
      BY <3>1, TreesFreed
    <3> QED BY <2>1, <3>2 DEF ChainInv, Counted, WalkInv
  <2> QED BY <2>2, <2>3
<1>5. ASSUME NEW major \in Majors, AuditSyscallEntry(major)
      PROVE  ChainInv' /\ WalkInv'
  <2>1. chain' = chain /\ refs' = refs /\ walk' = walk /\ phase = "user"
    BY <1>5 DEF AuditSyscallEntry
  <2> QED BY <1>1, <2>1
<1>6. ASSUME NEW f \in Filenames, PutName(f) PROVE ChainInv' /\ WalkInv'
  <2>1. chain' = chain /\ refs' = refs /\ walk' = walk /\ phase' = phase /\ ctx' = ctx
    BY <1>6 DEF PutName
  <2> QED BY <1>1, <2>1
<1>7. CASE WalkUp \/ WalkEnds \/ WalkFull
  <2>1. Counted(chain', refs') /\ WalkInv'
    BY <1>0, <1>7, WalkStep
  <2>2. phase' = "kernel" /\ ctx' # NoCtx
    BY <1>7, WalkTypes, AuditableType, ContextFields
  <2> QED BY <1>2, <2>1, <2>2
<1>8. CASE NextHook
  <2>1. /\ phase = "kernel" /\ ctx \in Context /\ ~walk.busy /\ phase' = "kernel" /\ ctx' \in Context
        /\ walk' = walk \/ \E d \in Dentries : StartWalk(d)
    BY <1>8, HookTypes DEF Hooked
  <2>2. ctx' # NoCtx
    BY <2>1, ContextFields
  <2>3. Counted(chain', refs') /\ WalkInv'
    <3>1. CASE chain' = chain /\ refs' = refs
      <4>1. CASE walk' = walk
        BY <1>0, <2>1, <3>1, <4>1 DEF WalkInv
      <4>2. CASE \E d \in Dentries : StartWalk(d)
        BY <1>0, <3>1, <4>2, WalkStarts DEF Counted
      <4> QED BY <1>0, <2>1, <3>1, <4>1, <4>2
    <3>2. CASE walk' = walk /\ \E d \in Dentries, c \in Context : HandleOne(d, c)
      BY <1>0, <2>1, <3>2, CountedOne DEF WalkInv
    <3> QED BY <1>8, <3>1, <3>2, HookChain
  <2> QED BY <1>2, <2>1, <2>2, <2>3
<1>9. CASE SetEnabled \/ BecomesAuditd \/ ChangeRules
  <2>1. chain' = chain /\ refs' = refs /\ walk' = walk /\ phase' = phase /\ ctx' = ctx
    BY <1>9 DEF SetEnabled, BecomesAuditd, ChangeRules
  <2> QED BY <1>1, <2>1
<1>10. CASE UNCHANGED vars
  BY <1>1, <1>10 DEF vars
<1> QED BY <1>3, <1>4, <1>5, <1>6, <1>7, <1>8, <1>9, <1>10 DEF Next

-----------------------------------------------------------------------------
(***************************************************************************)
(* The references to file names.                                           *)
(***************************************************************************)
\* The ends of __audit_inode.
LEMMA InodeEnds ==
  ASSUME ctx \in Context, NameInv, NEW f \in Filenames \cup {NoName}, NEW d \in Dentries,
         NEW parent \in BOOLEAN, NEW hidden \in BOOLEAN, AuditInode(f, d, parent, hidden)
  PROVE  \/ ctx' = ctx /\ refcnt' = refcnt /\ did' = did
         \/ /\ ctx.in_syscall /\ refcnt' = refcnt
            /\ \E i \in 1 .. Len(ctx.names), n \in Name :
                 /\ n.name = ctx.names[i].name /\ n.hidden = (ctx.names[i].hidden \/ hidden)
                 /\ ctx' = [ctx EXCEPT !.names[i] = n]
                 /\ did' = IF hidden THEN did \ {<<"PATH", i>>} ELSE did
         \/ /\ ctx.in_syscall
            /\ \E n \in Name : /\ n.name = f /\ n.hidden = hidden
                               /\ ctx' = [ctx EXCEPT !.names = Append(@, n)]
            /\ did' = IF hidden THEN did ELSE did \cup {<<"PATH", Len(ctx.names) + 1>>}
            /\ refcnt' = IF f = NoName THEN refcnt ELSE [refcnt EXCEPT ![f] = @ + 1]
<1> DEFINE i == InodeEntry(f, d, parent)
           n == Fill(ctx.names[i], d, parent, hidden)
           m == Fill(Entry(f, d.ino, "UNKNOWN"), d, parent, hidden)
<1>1. i \in 0 .. Len(ctx.names) /\ Len(ctx.names) \in Nat
  BY InodeEntryIs, ContextFields
<1>2. \/ ctx' = ctx /\ refcnt' = refcnt /\ did' = did
      \/ /\ ctx.in_syscall /\ i # 0 /\ refcnt' = refcnt /\ ctx' = [ctx EXCEPT !.names[i] = n]
         /\ did' = IF hidden THEN did \ {<<"PATH", i>>} ELSE did
      \/ /\ ctx.in_syscall /\ ctx' = [ctx EXCEPT !.names = Append(@, m)]
         /\ did' = IF hidden THEN did ELSE did \cup {<<"PATH", Len(ctx.names) + 1>>}
         /\ refcnt' = IF f = NoName THEN refcnt ELSE [refcnt EXCEPT ![f] = @ + 1]
  BY DEF AuditInode, Records
<1> HIDE DEF i
<1>3. i # 0 => /\ i \in 1 .. Len(ctx.names) /\ n \in Name
               /\ n.name = ctx.names[i].name /\ n.hidden = (ctx.names[i].hidden \/ hidden)
  <2> HAVE i # 0
  <2>1. i \in 1 .. Len(ctx.names) /\ ctx.names[i] \in Name
    BY <1>1, ContextFields
  <2> QED BY <2>1, FillType
<1>4. m \in Name /\ m.name = f /\ m.hidden = hidden
  <2>1. /\ Entry(f, d.ino, "UNKNOWN") \in Name /\ Entry(f, d.ino, "UNKNOWN").hidden = FALSE
        /\ Entry(f, d.ino, "UNKNOWN").name = f
    BY EntryType DEF Inos
  <2>2. m \in Name /\ m.name = Entry(f, d.ino, "UNKNOWN").name
        /\ m.hidden = (Entry(f, d.ino, "UNKNOWN").hidden \/ hidden)
    BY <2>1, FillType
  <2> QED BY <2>1, <2>2
<1> HIDE DEF n, m
<1> QED BY <1>2, <1>3, <1>4, Zenon

\* The list of names extended, the last of the new names by f.
Extended(c, d, f) ==
  /\ Len(d.names) >= Len(c.names)
  /\ \A i \in 1 .. Len(c.names) : d.names[i].name = c.names[i].name
  /\ \A i \in Len(c.names) + 1 .. Len(d.names) :
       d.names[i].name = IF i = Len(d.names) THEN f ELSE NoName
  /\ f # NoName => Len(d.names) > Len(c.names)

LEMMA NamesOfType ==
  ASSUME NEW c \in Context, NEW f
  PROVE  /\ NamesOf(c, f) = Cardinality({i \in 1 .. Len(c.names) : c.names[i].name = f})
         /\ IsFiniteSet({i \in 1 .. Len(c.names) : c.names[i].name = f})
         /\ NamesOf(c, f) \in Nat /\ (c.names = <<>> => NamesOf(c, f) = 0)
<1> DEFINE S == {i \in 1 .. Len(c.names) : c.names[i].name = f}
<1>1. NamesOf(c, f) = Cardinality(S)
  BY ContextFields DEF NamesOf
<1>2. IsFiniteSet(S)
  <2>1. 1 \in Int /\ Len(c.names) \in Int
    BY ContextFields
  <2>2. IsFiniteSet(1 .. Len(c.names))
    BY ONLY <2>1, FS_Interval
  <2> QED BY <2>2, FS_Subset
<1>3. c.names = <<>> => S = {}
  <2> HAVE c.names = <<>>
  <2>1. Len(c.names) = 0
    OBVIOUS
  <2> QED BY <2>1
<1> QED BY <1>1, <1>2, <1>3, FS_CardinalityType, FS_EmptySet

LEMMA ExtendedCount ==
  ASSUME NEW c \in Context, NEW d \in Context, NEW f \in Filenames \cup {NoName}, Extended(c, d, f)
  PROVE  \A g \in Filenames : NamesOf(d, g) = NamesOf(c, g) + (IF g = f THEN 1 ELSE 0)
<1> TAKE g \in Filenames
<1> DEFINE n == Len(c.names)  m == Len(d.names)
           S == {i \in 1 .. n : c.names[i].name = g}
           T == {i \in 1 .. m : d.names[i].name = g}
<1>1. /\ NamesOf(c, g) = Cardinality(S) /\ IsFiniteSet(S) /\ NamesOf(d, g) = Cardinality(T)
      /\ NamesOf(c, g) \in Nat /\ n \in Nat /\ m \in Nat
  BY NamesOfType, ContextFields
<1>2. /\ m >= n /\ \A i \in 1 .. n : d.names[i].name = c.names[i].name
      /\ \A i \in n + 1 .. m : d.names[i].name = IF i = m THEN f ELSE NoName
      /\ f # NoName => m > n
  BY DEF Extended
<1>3. g # NoName
  BY AuditContextAssumption
<1>4. CASE g = f
  <2>1. T = S \cup {m} /\ m \notin S
    BY <1>1, <1>2, <1>3, <1>4
  <2> HIDE DEF S, T
  <2>2. Cardinality(T) = Cardinality(S) + 1
    BY <1>1, <2>1, FS_AddElement
  <2> QED BY <1>1, <1>4, <2>2
<1>5. CASE g # f
  <2>1. T = S
    <3>1. \A i \in 1 .. n : i \in 1 .. m
      BY <1>1, <1>2
    <3>2. \A i \in 1 .. m : i \in 1 .. n \/ i \in n + 1 .. m
      BY <1>1, <1>2
    <3>3. \A i \in n + 1 .. m : d.names[i].name # g
      BY <1>2, <1>3, <1>5
    <3> QED BY <1>2, <3>1, <3>2, <3>3
  <2> HIDE DEF S, T
  <2> QED BY <1>1, <1>5, <2>1
<1> QED BY <1>4, <1>5

\* What a hook does to the names: an entry for f, a reference for the call to g.
Given(f, g) == [x \in Filenames |-> refcnt[x] + (IF x = f THEN 1 ELSE 0) + (IF x = g THEN 1 ELSE 0)]

Named(f, g) ==
  /\ Extended(ctx, ctx', f)
  /\ (g = NoName /\ mine' = mine) \/ (g \in Filenames \ mine /\ mine' = mine \cup {g})
  /\ refcnt' = Given(f, g)
  /\ aname' = aname \/ (f \in Filenames /\ aname' = [aname EXCEPT ![f] = Len(ctx'.names)])

LEMMA NamedStep ==
  ASSUME NameInv, ctx \in Context, ctx' \in Context, NEW f \in Filenames \cup {NoName}, NEW g, Named(f, g)
  PROVE  NameInv'
<1>0. /\ refcnt \in [Filenames -> Nat] /\ aname \in [Filenames -> Nat] /\ ctx # NoCtx /\ ctx' # NoCtx
      /\ \A x \in Filenames :
           /\ refcnt[x] = (IF x \in mine THEN 1 ELSE 0) + NamesOf(ctx, x)
           /\ aname[x] # 0 => aname[x] \in 1 .. Len(ctx.names) /\ ctx.names[aname[x]].name = x
  BY ContextFields DEF NameInv, NamesCounted
<1>1. /\ refcnt' \in [Filenames -> Nat]
      /\ \A x \in Filenames : refcnt'[x] = (IF x \in mine' THEN 1 ELSE 0) + NamesOf(ctx', x)
  <2>1. \A x \in Filenames : /\ NamesOf(ctx', x) = NamesOf(ctx, x) + (IF x = f THEN 1 ELSE 0)
                             /\ NamesOf(ctx, x) \in Nat
    <3>1. Extended(ctx, ctx', f)
      BY DEF Named
    <3>2. \A x \in Filenames : NamesOf(ctx', x) = NamesOf(ctx, x) + (IF x = f THEN 1 ELSE 0)
      BY <3>1, ExtendedCount, Zenon
    <3>3. \A x \in Filenames : NamesOf(ctx, x) \in Nat
      BY NamesOfType
    <3> QED BY <3>2, <3>3
  <2>2. refcnt' \in [Filenames -> Nat]
    BY <1>0 DEF Named, Given
  <2>3. \A x \in Filenames : (IF x \in mine' THEN 1 ELSE 0) = (IF x \in mine THEN 1 ELSE 0) + (IF x = g THEN 1 ELSE 0)
    BY AuditContextAssumption DEF Named
  <2>4. \A x \in Filenames : refcnt'[x] = refcnt[x] + (IF x = f THEN 1 ELSE 0) + (IF x = g THEN 1 ELSE 0)
    BY DEF Named, Given
  <2> DEFINE M(x) == IF x \in mine THEN 1 ELSE 0
             N(x) == IF x \in mine' THEN 1 ELSE 0
             F(x) == IF x = f THEN 1 ELSE 0
             G(x) == IF x = g THEN 1 ELSE 0
  <2>5. \A x \in Filenames : M(x) \in Nat /\ N(x) \in Nat /\ F(x) \in Nat /\ G(x) \in Nat
    OBVIOUS
  <2>6. /\ \A x \in Filenames : refcnt'[x] = refcnt[x] + F(x) + G(x) /\ N(x) = M(x) + G(x)
        /\ \A x \in Filenames : /\ NamesOf(ctx', x) = NamesOf(ctx, x) + F(x) /\ NamesOf(ctx, x) \in Nat
                                /\ refcnt[x] = M(x) + NamesOf(ctx, x)
    BY <1>0, <2>1, <2>3, <2>4
  <2> HIDE DEF M, N, F, G
  <2>7. \A x \in Filenames : refcnt'[x] = N(x) + NamesOf(ctx', x)
    BY <2>5, <2>6
  <2> QED BY <2>2, <2>7 DEF N
<1>2. ASSUME NEW x \in Filenames
      PROVE  /\ aname'[x] \in Nat
             /\ aname'[x] # 0 => aname'[x] \in 1 .. Len(ctx'.names) /\ ctx'.names[aname'[x]].name = x
  <2>1. Len(ctx.names) \in Nat /\ Len(ctx'.names) \in Nat /\ Len(ctx'.names) >= Len(ctx.names)
    BY ContextFields DEF Named, Extended
  <2>2. CASE aname'[x] = aname[x]
    <3>1. \A i \in 1 .. Len(ctx.names) : /\ i \in 1 .. Len(ctx'.names)
                                         /\ ctx'.names[i].name = ctx.names[i].name
      BY <2>1 DEF Named, Extended
    <3> QED BY <1>0, <2>2, <3>1
  <2>3. CASE aname'[x] # aname[x]
    <3>1. f = x /\ aname'[x] = Len(ctx'.names)
      BY <1>0, <2>3 DEF Named
    <3>2. Len(ctx'.names) > Len(ctx.names) /\ ctx'.names[Len(ctx'.names)].name = f
      BY <2>1, <3>1, AuditContextAssumption DEF Named, Extended
    <3> QED BY <2>1, <3>1, <3>2
  <2> QED BY <2>2, <2>3
<1>3. aname' \in [Filenames -> Nat]
  BY <1>0, <1>2 DEF Named
<1> QED BY <1>0, <1>1, <1>2, <1>3, ContextFields DEF NameInv, NamesCounted

LEMMA RefsGiven ==
  ASSUME refcnt \in [Filenames -> Nat]
  PROVE  /\ Given(NoName, NoName) = refcnt
         /\ \A f \in Filenames : /\ Given(f, NoName) = [refcnt EXCEPT ![f] = @ + 1]
                                 /\ Given(NoName, f) = [refcnt EXCEPT ![f] = @ + 1]
                                 /\ Given(f, f) = [refcnt EXCEPT ![f] = @ + 2]
<1>1. \A x \in Filenames : x # NoName /\ refcnt[x] \in Nat
  BY AuditContextAssumption
<1>2. Given(NoName, NoName) = refcnt
  BY <1>1 DEF Given
<1>3. ASSUME NEW f \in Filenames
      PROVE  /\ Given(f, NoName) = [refcnt EXCEPT ![f] = @ + 1]
             /\ Given(NoName, f) = [refcnt EXCEPT ![f] = @ + 1]
             /\ Given(f, f) = [refcnt EXCEPT ![f] = @ + 2]
  <2>1. /\ DOMAIN Given(f, NoName) = Filenames /\ DOMAIN Given(NoName, f) = Filenames
        /\ DOMAIN Given(f, f) = Filenames
    BY DEF Given
  <2>2. \A x \in Filenames : /\ Given(f, NoName)[x] = refcnt[x] + (IF x = f THEN 1 ELSE 0)
                             /\ Given(NoName, f)[x] = refcnt[x] + (IF x = f THEN 1 ELSE 0)
                             /\ Given(f, f)[x] = refcnt[x] + (IF x = f THEN 2 ELSE 0)
    BY <1>1 DEF Given
  <2>3. Given(f, NoName) = [refcnt EXCEPT ![f] = @ + 1]
    <3> DEFINE a == Given(f, NoName)  b == [refcnt EXCEPT ![f] = @ + 1]
    <3>1. a \in [Filenames -> Nat]
      BY <1>1 DEF Given
    <3>2. b \in [Filenames -> Nat]
      BY <1>1
    <3>3. \A x \in Filenames : b[x] = refcnt[x] + (IF x = f THEN 1 ELSE 0)
      BY <1>1
    <3>4. \A x \in Filenames : a[x] = b[x]
      BY <2>2, <3>3
    <3> HIDE DEF a, b
    <3>5. a = b
      BY <3>1, <3>2, <3>4
    <3> QED BY <3>5 DEF a, b
  <2>4. Given(NoName, f) = [refcnt EXCEPT ![f] = @ + 1]
    <3> DEFINE a == Given(NoName, f)  b == [refcnt EXCEPT ![f] = @ + 1]
    <3>1. a \in [Filenames -> Nat]
      BY <1>1 DEF Given
    <3>2. b \in [Filenames -> Nat]
      BY <1>1
    <3>3. \A x \in Filenames : b[x] = refcnt[x] + (IF x = f THEN 1 ELSE 0)
      BY <1>1
    <3>4. \A x \in Filenames : a[x] = b[x]
      BY <2>2, <3>3
    <3> HIDE DEF a, b
    <3>5. a = b
      BY <3>1, <3>2, <3>4
    <3> QED BY <3>5 DEF a, b
  <2>5. Given(f, f) = [refcnt EXCEPT ![f] = @ + 2]
    <3> DEFINE a == Given(f, f)  b == [refcnt EXCEPT ![f] = @ + 2]
    <3>1. a \in [Filenames -> Nat]
      BY <1>1 DEF Given
    <3>2. b \in [Filenames -> Nat]
      BY <1>1
    <3>3. \A x \in Filenames : b[x] = refcnt[x] + (IF x = f THEN 2 ELSE 0)
      BY <1>1
    <3>4. \A x \in Filenames : a[x] = b[x]
      BY <2>2, <3>3
    <3> HIDE DEF a, b
    <3>5. a = b
      BY <3>1, <3>2, <3>4
    <3> QED BY <3>5 DEF a, b
  <2> QED BY <2>3, <2>4, <2>5
<1> QED BY <1>2, <1>3

LEMMA UnnamedHook ==
  ASSUME NameInv, ctx \in Context, ctx'.names = ctx.names, refcnt' = refcnt, aname' = aname, mine' = mine
  PROVE  Named(NoName, NoName)
<1>1. Extended(ctx, ctx', NoName)
  BY ContextFields DEF Extended
<1>2. refcnt \in [Filenames -> Nat]
  BY DEF NameInv
<1> QED BY <1>1, <1>2, RefsGiven DEF Named

LEMMA AddedName ==
  ASSUME NEW c \in Context, NEW n \in Name, NEW d, d.names = Append(c.names, n)
  PROVE  Extended(c, d, n.name) /\ Len(d.names) = Len(c.names) + 1
<1>1. Len(c.names) \in Nat /\ c.names \in Seq(Name)
  BY ContextFields
<1>2. /\ Len(d.names) = Len(c.names) + 1 /\ d.names[Len(c.names) + 1] = n
      /\ \A i \in 1 .. Len(c.names) : d.names[i] = c.names[i]
  BY <1>1
<1>3. \A i \in Len(c.names) + 1 .. Len(d.names) : i = Len(c.names) + 1
  BY <1>1, <1>2
<1> QED BY <1>1, <1>2, <1>3 DEF Extended

LEMMA GetnameNames ==
  ASSUME TypeInv, NameInv, NEW f \in Filenames, AuditGetname(f)
  PROVE  \E x \in Filenames \cup {NoName} : Named(x, f)
<1>0. ctx \in Context /\ refcnt \in [Filenames -> Nat] /\ f # NoName /\ f \notin mine /\ mine' = mine \cup {f}
  BY HookStart, AuditContextAssumption DEF AuditGetname, NameInv
<1> DEFINE n == Entry(f, Unset, "UNKNOWN")
<1>1. CASE /\ ctx' = [ctx EXCEPT !.names = Append(@, n), !.pwd = TRUE]
           /\ refcnt' = [refcnt EXCEPT ![f] = @ + 2] /\ aname' = [aname EXCEPT ![f] = Len(ctx.names) + 1]
  <2>1. n \in Name /\ n.name = f
    BY EntryType DEF Inos
  <2> HIDE DEF n
  <2>2. ctx'.names = Append(ctx.names, n)
    BY <1>0, <1>1 DEF Context
  <2>3. Extended(ctx, ctx', f) /\ Len(ctx'.names) = Len(ctx.names) + 1
    BY <1>0, <2>1, <2>2, AddedName
  <2>4. Named(f, f)
    BY <1>0, <1>1, <2>3, RefsGiven DEF Named
  <2> QED BY <2>4
<1>2. CASE refcnt' = [refcnt EXCEPT ![f] = @ + 1] /\ UNCHANGED <<ctx, aname>>
  <2>1. Extended(ctx, ctx', NoName)
    BY <1>0, <1>2, ContextFields DEF Extended
  <2>2. Named(NoName, f)
    BY <1>0, <1>2, <2>1, RefsGiven DEF Named
  <2> QED BY <2>2
<1> QED BY <1>1, <1>2 DEF AuditGetname

LEMMA ReuseNames ==
  ASSUME TypeInv, NameInv, NEW f \in Filenames, AuditReusename(f)
  PROVE  Named(NoName, f)
<1>0. /\ ctx \in Context /\ refcnt \in [Filenames -> Nat] /\ f # NoName /\ f \notin mine
      /\ mine' = mine \cup {f} /\ refcnt' = [refcnt EXCEPT ![f] = @ + 1] /\ ctx' = ctx /\ aname' = aname
  BY HookStart, AuditContextAssumption DEF AuditReusename, NameInv
<1>1. Extended(ctx, ctx', NoName)
  BY <1>0, ContextFields DEF Extended
<1> QED BY <1>0, <1>1, RefsGiven DEF Named

LEMMA InodeNames ==
  ASSUME TypeInv, NameInv, NEW f \in Filenames \cup {NoName}, NEW d \in Dentries,
         NEW parent \in BOOLEAN, NEW hidden \in BOOLEAN, AuditInode(f, d, parent, hidden)
  PROVE  \E x \in Filenames \cup {NoName} : Named(x, NoName)
<1>0. /\ ctx \in Context /\ refcnt \in [Filenames -> Nat] /\ mine' = mine /\ aname' = aname
  BY HookStart DEF AuditInode, NameInv
<1>1. CASE ctx' = ctx /\ refcnt' = refcnt
  BY <1>0, <1>1, UnnamedHook
<1>2. CASE /\ refcnt' = refcnt
           /\ \E i \in 1 .. Len(ctx.names), n \in Name : /\ n.name = ctx.names[i].name
                                                         /\ ctx' = [ctx EXCEPT !.names[i] = n]
  <2>1. PICK i \in 1 .. Len(ctx.names), n \in Name : /\ n.name = ctx.names[i].name
                                                     /\ ctx' = [ctx EXCEPT !.names[i] = n]
    BY <1>2
  <2>2. ctx'.names = [ctx.names EXCEPT ![i] = n] /\ Len(ctx'.names) = Len(ctx.names)
    BY <1>0, <2>1, SetEntry
  <2>3. Extended(ctx, ctx', NoName)
    BY <1>0, <2>1, <2>2, ContextFields DEF Extended
  <2>4. Named(NoName, NoName)
    BY <1>0, <1>2, <2>3, RefsGiven DEF Named
  <2> QED BY <2>4
<1>3. CASE /\ \E n \in Name : n.name = f /\ ctx' = [ctx EXCEPT !.names = Append(@, n)]
           /\ refcnt' = IF f = NoName THEN refcnt ELSE [refcnt EXCEPT ![f] = @ + 1]
  <2>1. PICK n \in Name : n.name = f /\ ctx' = [ctx EXCEPT !.names = Append(@, n)]
    BY <1>3
  <2>2. ctx'.names = Append(ctx.names, n)
    BY <1>0, <2>1, AddEntry
  <2>3. Extended(ctx, ctx', f)
    BY <1>0, <2>1, <2>2, AddedName
  <2>4. Named(f, NoName)
    BY <1>0, <1>3, <2>3, RefsGiven DEF Named
  <2> QED BY <2>4
<1> QED BY <1>0, <1>1, <1>2, <1>3, InodeEnds

LEMMA ChildNames ==
  ASSUME TypeInv, NameInv, NEW p \in Dentries, NEW d \in Dentries, NEW type \in {"CREATE", "DELETE"},
         AuditInodeChild(p, d, type)
  PROVE  \E x \in Filenames \cup {NoName} : Named(x, NoName)
<1>0. /\ ctx \in Context /\ refcnt \in [Filenames -> Nat] /\ mine' = mine /\ aname' = aname
  BY HookStart DEF AuditInodeChild, NameInv
<1>1. CASE ctx' = ctx /\ refcnt' = refcnt
  BY <1>0, <1>1, UnnamedHook
<1>2. ASSUME NEW c \in Context, NEW f \in Filenames \cup {NoName}, Child(d, c, f)
      PROVE  Named(f, NoName)
  <2>1. ctx' = c \/ ctx' = Auditable(c)
    BY <1>2 DEF Child, HandleOne
  <2>2. ctx'.names = c.names
    BY <2>1, AuditableType DEF SameFacts
  <2>3. Extended(ctx, ctx', f)
    BY <1>2, <2>2 DEF Child, Grown, Extended
  <2>4. refcnt' = IF f = NoName THEN refcnt ELSE [refcnt EXCEPT ![f] = @ + 1]
    BY <1>2 DEF Child
  <2>5. refcnt' = Given(f, NoName)
    BY <1>0, <2>4, RefsGiven
  <2> QED BY <1>0, <2>3, <2>5 DEF Named
<1> QED BY <1>0, <1>1, <1>2, ChildEnds

LEMMA OtherNames ==
  ASSUME TypeInv, NameInv,
         \/ \E t \in Specials : Special(t)
         \/ FdPair \/ AuditSockaddr \/ BprmFcaps \/ LogInCall
         \/ \E p \in Pids : AuditPtrace(p) \/ AuditSignalInfo(p)
  PROVE  Named(NoName, NoName)
<1>1. refcnt' = refcnt /\ aname' = aname /\ mine' = mine
  BY DEF Special, FdPair, AuditSockaddr, BprmFcaps, LogInCall, AuditPtrace, AuditSignalInfo
<1>2. NextHook
  BY DEF NextHook
<1>3. ctx \in Context
  BY <1>2, HookTypes
<1>4. ctx'.names = ctx.names
  <2>1. CASE \E t \in Specials : Special(t)
    BY <1>3, <2>1 DEF Special, Context
  <2>2. CASE FdPair \/ AuditSockaddr \/ BprmFcaps
    BY <1>3, <2>2 DEF FdPair, AuditSockaddr, BprmFcaps, Context
  <2>3. CASE LogInCall
    <3>1. ctx' = ctx \/ ctx' = [Auditable(ctx) EXCEPT !.stamped = TRUE]
      BY <2>3 DEF LogInCall
    <3>2. Auditable(ctx) \in Context /\ Auditable(ctx).names = ctx.names
      BY <1>3, AuditableType DEF SameFacts
    <3>3. [Auditable(ctx) EXCEPT !.stamped = TRUE].names = Auditable(ctx).names
      BY <3>2 DEF Context
    <3> QED BY <3>1, <3>2, <3>3
  <2>4. CASE \E p \in Pids : AuditPtrace(p) \/ AuditSignalInfo(p)
    BY <1>3, <2>4 DEF AuditPtrace, AuditSignalInfo, Context
  <2> QED BY <2>1, <2>2, <2>3, <2>4
<1> QED BY <1>1, <1>3, <1>4, UnnamedHook

LEMMA HookNames ==
  ASSUME TypeInv, NameInv, NextHook
  PROVE  \E f \in Filenames \cup {NoName} : \E g : Named(f, g)
<1>1. CASE \E f \in Filenames : AuditGetname(f) \/ AuditReusename(f)
  BY <1>1, GetnameNames, ReuseNames
<1>2. CASE \E f \in Filenames \cup {NoName}, d \in Dentries, parent, hidden \in BOOLEAN :
             AuditInode(f, d, parent, hidden)
  BY <1>2, InodeNames
<1>3. CASE \E p, d \in Dentries, type \in {"CREATE", "DELETE"} : AuditInodeChild(p, d, type)
  BY <1>3, ChildNames
<1>4. CASE \/ \E t \in Specials : Special(t)
           \/ FdPair \/ AuditSockaddr \/ BprmFcaps \/ LogInCall
           \/ \E p \in Pids : AuditPtrace(p) \/ AuditSignalInfo(p)
  BY <1>4, OtherNames
<1> QED BY <1>1, <1>2, <1>3, <1>4 DEF NextHook

LEMMA NameInit == Init => NameInv
BY DEF Init, NameInv, NamesCounted

\* The end of a context gives the file names back.
LEMMA NamesFreed ==
  ASSUME TypeInv, NameInv, ctx # NoCtx, mine = {}, mine' = mine,
         NEW c, c.names = ctx.names, FreeNamesAndTrees(c),
         ctx' = NoCtx \/ (ctx' \in Context /\ ctx'.names = <<>>)
  PROVE  NameInv'
<1>1. ctx \in Context /\ \A f \in Filenames : refcnt[f] = NamesOf(ctx, f)
  <2>1. \A f \in Filenames : refcnt[f] = 0 + NamesOf(ctx, f)
    BY DEF NameInv, NamesCounted
  <2>2. ctx \in Context
    BY DEF TypeInv
  <2>3. \A f \in Filenames : NamesOf(ctx, f) \in Nat
    BY <2>2, NamesOfType
  <2> QED BY <2>1, <2>2, <2>3
<1>2. \A f \in Filenames : NamesOf(c, f) = NamesOf(ctx, f)
  BY DEF NamesOf
<1>3. \A f \in Filenames : refcnt'[f] = 0 /\ aname'[f] = 0
  <2>1. \A f \in Filenames : NamesOf(ctx, f) \in Nat
    BY <1>1, NamesOfType
  <2>2. \A f \in Filenames : refcnt'[f] = refcnt[f] - NamesOf(c, f) /\ aname'[f] = 0
    BY DEF FreeNamesAndTrees
  <2> QED BY <1>1, <1>2, <2>1, <2>2
<1>4. refcnt' \in [Filenames -> Nat] /\ aname' \in [Filenames -> Nat]
  BY <1>3 DEF FreeNamesAndTrees
<1>5. \A f \in Filenames : ctx' # NoCtx => NamesOf(ctx', f) = 0
  BY NamesOfType
<1> QED BY <1>3, <1>4, <1>5 DEF NameInv, NamesCounted

LEMMA NameStep ==
  ASSUME TypeInv, NameInv, [Next]_vars
  PROVE  NameInv'
<1>0. /\ refcnt \in [Filenames -> Nat] /\ aname \in [Filenames -> Nat] /\ ctx \in Context \cup {NoCtx}
      /\ \A f \in Filenames :
           /\ refcnt[f] = (IF f \in mine THEN 1 ELSE 0) + (IF ctx = NoCtx THEN 0 ELSE NamesOf(ctx, f))
           /\ aname[f] # 0 => ctx # NoCtx /\ aname[f] \in DOMAIN ctx.names /\ ctx.names[aname[f]].name = f
  BY DEF NameInv, NamesCounted, TypeInv
<1>1. ASSUME refcnt' = refcnt, aname' = aname, mine' = mine, (ctx = NoCtx) = (ctx' = NoCtx),
             ctx # NoCtx => ctx'.names = ctx.names
      PROVE  NameInv'
  <2>1. \A f \in Filenames : ctx # NoCtx => NamesOf(ctx', f) = NamesOf(ctx, f)
    BY <1>1 DEF NamesOf
  <2> QED BY <1>0, <1>1, <2>1 DEF NameInv, NamesCounted
<1>2. ASSUME refcnt' = refcnt, aname' = aname, mine' = mine, ctx' # NoCtx, ctx' \in Context,
             ctx'.names = <<>>, ctx = NoCtx \/ ctx.names = <<>>
      PROVE  NameInv'
  <2>1. \A f \in Filenames : NamesOf(ctx', f) = 0 /\ (ctx # NoCtx => NamesOf(ctx, f) = 0)
    BY <1>0, <1>2, NamesOfType
  <2>2. \A f \in Filenames : aname[f] = 0
    BY <1>0, <1>2
  <2> QED BY <1>0, <1>2, <2>1, <2>2 DEF NameInv, NamesCounted
<1>3. CASE AuditAlloc
  <2>1. ctx = NoCtx /\ (ctx' = NoCtx \/ (ctx' \in Context /\ Clean(ctx')))
    BY <1>3, AllocContext
  <2>2. refcnt' = refcnt /\ aname' = aname /\ mine' = mine
    BY <1>3 DEF AuditAlloc
  <2> QED BY <1>1, <1>2, <2>1, <2>2, ContextFields DEF Clean
<1>4. CASE AuditFree
  <2>1. mine = {} /\ mine' = mine /\ ctx' = NoCtx
    BY <1>4 DEF AuditFree
  <2>2. CASE ctx = NoCtx
    <3>1. refcnt' = refcnt /\ aname' = aname
      BY <1>4, <2>2 DEF AuditFree
    <3> QED BY <1>1, <2>1, <2>2, <3>1
  <2>3. CASE ctx # NoCtx
    <3>1. FreeNamesAndTrees(ctx)
      BY <1>4, <2>3 DEF AuditFree
    <3> QED BY <2>1, <2>3, <3>1, NamesFreed
  <2> QED BY <2>2, <2>3
<1>5. ASSUME NEW valid \in {"success", "failure"}, AuditSyscallExit(valid)
      PROVE  NameInv'
  <2>1. mine = {} /\ mine' = mine
    BY <1>5 DEF AuditSyscallExit
  <2>2. CASE ctx = NoCtx
    <3>1. refcnt' = refcnt /\ aname' = aname /\ ctx' = ctx
      BY <1>5, <2>2 DEF AuditSyscallExit
    <3> QED BY <1>1, <2>1, <2>2, <3>1
  <2>3. CASE ctx # NoCtx
    <3> DEFINE c == Taken(valid)
    <3>1. FreeNamesAndTrees(c)
      BY <1>5, <2>3 DEF AuditSyscallExit
    <3>2. c.names = ctx.names
      BY <1>0, <2>3, TakenType DEF TypeInv, SameFacts
    <3>3. ctx' \in Context /\ ctx'.names = <<>>
      BY <1>5, <2>3, ExitContext DEF Clean
    <3> HIDE DEF c
    <3> QED BY <2>1, <2>3, <3>1, <3>2, <3>3, NamesFreed
  <2> QED BY <2>2, <2>3
<1>6. ASSUME NEW major \in Majors, AuditSyscallEntry(major)
      PROVE  NameInv'
  <2>1. refcnt' = refcnt /\ aname' = aname /\ mine' = mine
    BY <1>6 DEF AuditSyscallEntry
  <2>2. CASE ctx' = ctx
    BY <1>1, <2>1, <2>2
  <2>3. CASE ctx' # ctx
    <3>1. phase = "user" /\ ctx \in Context /\ ctx' \in Context /\ ctx'.names = <<>>
      BY <1>6, <2>3, EntryContext
    <3>2. ctx' # NoCtx /\ ctx # NoCtx
      BY <3>1, ContextFields
    <3>3. ctx.names = <<>>
      BY <3>1, <3>2 DEF TypeInv, Clean
    <3> QED BY <1>2, <2>1, <3>1, <3>2, <3>3
  <2> QED BY <2>2, <2>3
<1>7. ASSUME NEW f \in Filenames, PutName(f) PROVE NameInv'
  <2>1. /\ ctx' = ctx /\ aname' = aname /\ f \in mine /\ mine' = mine \ {f}
        /\ refcnt' = [refcnt EXCEPT ![f] = @ - 1]
    BY <1>7 DEF PutName
  <2>2. \A x \in Filenames : ctx # NoCtx => NamesOf(ctx, x) \in Nat
    BY <1>0, NamesOfType
  <2>3. refcnt[f] >= 1
    BY <1>0, <2>1, <2>2
  <2>4. refcnt' \in [Filenames -> Nat]
    BY <1>0, <2>1, <2>3
  <2>5. \A x \in Filenames :
          refcnt'[x] = (IF x \in mine' THEN 1 ELSE 0) + (IF ctx = NoCtx THEN 0 ELSE NamesOf(ctx, x))
    BY <1>0, <2>1, <2>2
  <2> QED BY <1>0, <2>1, <2>4, <2>5 DEF NameInv, NamesCounted
<1>8. CASE WalkUp \/ WalkEnds \/ WalkFull
  <2>1. /\ ctx \in Context /\ refcnt' = refcnt /\ aname' = aname /\ mine' = mine
        /\ (ctx' = ctx \/ ctx' = Auditable(ctx))
    BY <1>8, WalkTypes
  <2>2. ctx' \in Context /\ ctx'.names = ctx.names
    BY <2>1, AuditableType DEF SameFacts
  <2> QED BY <1>1, <2>1, <2>2, ContextFields
<1>9. CASE NextHook
  <2>1. ctx \in Context /\ ctx' \in Context
    BY <1>9, HookTypes DEF Hooked
  <2> QED BY <1>9, <2>1, HookNames, NamedStep
<1>10. CASE SetEnabled \/ BecomesAuditd \/ ChangeRules
  <2>1. refcnt' = refcnt /\ aname' = aname /\ mine' = mine /\ ctx' = ctx
    BY <1>10 DEF SetEnabled, BecomesAuditd, ChangeRules
  <2> QED BY <1>1, <2>1
<1>11. CASE UNCHANGED vars
  BY <1>1, <1>11 DEF vars
<1> QED BY <1>3, <1>4, <1>5, <1>6, <1>7, <1>8, <1>9, <1>10, <1>11 DEF Next

-----------------------------------------------------------------------------
(***************************************************************************)
(* Theorems about the references.                                          *)
(***************************************************************************)
RefInv == TypeInv /\ NameInv /\ ChainInv /\ WalkInv

LEMMA RefsInductive == Spec => []RefInv
<1>1. Init => RefInv
  BY TypeInit, NameInit, ChainInit DEF RefInv
<1>2. RefInv /\ [Next]_vars => RefInv'
  BY TypeStep, NameStep, ChainStep DEF RefInv
<1> QED BY <1>1, <1>2, PTL DEF Spec

LEMMA RefsImply == RefInv => ReferencesExact
<1> SUFFICES ASSUME RefInv PROVE ReferencesExact
  OBVIOUS
<1>1. TypeInv /\ NameInv /\ ChainInv
  BY DEF RefInv
<1>2. TypeOK
  BY <1>1 DEF TypeInv, NameInv, ChainInv, ChainOK, TypeOK, Clean
<1>3. RefsExact
  BY <1>1 DEF ChainInv, ChainOK, RefsExact, Free
<1> QED BY <1>1, <1>2, <1>3 DEF ReferencesExact, NameInv

\* The references a context holds on chunks and on file names (put_tree_ref,
\* unroll_tree_refs, audit_getname, audit_free_names) are exact at all times.
THEOREM ReferencesCorrect == Spec => []ReferencesExact
BY RefsInductive, RefsImply, PTL

\* A walk up a path (handle_path) ends with every chunk of it in the chain, or
\* with the call auditable.
THEOREM WalksComplete == Spec => WalkIsComplete
<1>1. ASSUME RefInv, [Next]_vars, walk.busy, ~walk'.busy
      PROVE  \/ \A i \in DOMAIN walk.path : walk.path[i] # NoChunk => MatchTreeRefs(chain', walk.path[i])
             \/ ctx'.prio > 0 /\ (ctx.prio = 0 => ctx'.current_state = "RECORD")
  <2>1. TypeInv /\ NameInv /\ Counted(chain, refs) /\ WalkInv
    BY <1>1 DEF RefInv, ChainInv, Counted
  <2>2. phase = "kernel"
    BY <1>1, <2>1 DEF TypeInv
  <2>3. ~NextHook
    BY <1>1, <2>1, HookTypes
  <2>4. ~AuditAlloc /\ ~AuditFree /\ \A valid : ~AuditSyscallExit(valid)
    BY <1>1, <2>2 DEF AuditAlloc, AuditFree, AuditSyscallExit
  <2>5. /\ \A major : ~AuditSyscallEntry(major)
        /\ \A f : ~PutName(f)
    BY <1>1, <2>2 DEF AuditSyscallEntry, PutName
  <2>6. ~SetEnabled /\ ~BecomesAuditd /\ ~ChangeRules /\ ~UNCHANGED vars
    BY <1>1 DEF SetEnabled, BecomesAuditd, ChangeRules, vars
  <2>7. WalkUp \/ WalkEnds \/ WalkFull
    BY <1>1, <2>3, <2>4, <2>5, <2>6 DEF Next
  <2> QED BY <1>1, <2>1, <2>7, WalkStep
<1>2. RefInv /\ [Next]_vars =>
        [walk.busy /\ ~walk'.busy =>
           \/ \A i \in DOMAIN walk.path : walk.path[i] # NoChunk => MatchTreeRefs(chain', walk.path[i])
           \/ ctx'.prio > 0 /\ (ctx.prio = 0 => ctx'.current_state = "RECORD")]_vars
  BY <1>1
<1> QED BY <1>2, RefsInductive, PTL DEF Spec, WalkIsComplete

-----------------------------------------------------------------------------
(***************************************************************************)
(* The records of a call.                                                  *)
(***************************************************************************)
\* The kinds of records the hooks leave, but pairs of descriptors, and what
\* the context has of each.
Shown == {"BPRM_FCAPS", "SPECIAL", "OBJ_PID", "SOCKADDR", "CWD", "PATH"}
Kind(S, t) == {r \in S : r[1] = t}

Paths(c) == {<<"PATH", i>> : i \in {j \in 1 .. Len(c.names) : ~c.names[j].hidden}}

Part(c, t) ==
  IF t = "BPRM_FCAPS" THEN (IF c.aux > 0 THEN {<<"BPRM_FCAPS", c.aux>>} ELSE {})
  ELSE IF t = "SPECIAL" THEN ShowSpecial(c)
  ELSE IF t = "OBJ_PID" THEN PidRecords(c)
  ELSE IF t = "SOCKADDR" THEN (IF c.sockaddr THEN {<<"SOCKADDR", "">>} ELSE {})
  ELSE IF t = "CWD" THEN (IF c.pwd THEN {<<"CWD", "">>} ELSE {})
  ELSE Paths(c)

Recorded(c, S) ==
  /\ \A r \in S : r[1] \in Shown \cup {"FD_PAIR"}
  /\ \A t \in Shown : Kind(S, t) = Part(c, t)

EventInv == phase = "kernel" /\ ctx # NoCtx /\ ctx.in_syscall => Recorded(ctx, did)

LEMMA Parts ==
  ASSUME NEW c
  PROVE  /\ Part(c, "BPRM_FCAPS") = IF c.aux > 0 THEN {<<"BPRM_FCAPS", c.aux>>} ELSE {}
         /\ Part(c, "SPECIAL") = ShowSpecial(c) /\ Part(c, "OBJ_PID") = PidRecords(c)
         /\ Part(c, "SOCKADDR") = IF c.sockaddr THEN {<<"SOCKADDR", "">>} ELSE {}
         /\ Part(c, "CWD") = IF c.pwd THEN {<<"CWD", "">>} ELSE {}
         /\ Part(c, "PATH") = Paths(c)
BY DEF Part

LEMMA PartKinds ==
  ASSUME NEW c
  PROVE  \A t \in Shown : \A r \in Part(c, t) : r[1] = t
<1>1. \A r \in PidRecords(c) : r[1] = "OBJ_PID"
  BY DEF PidRecords
<1>2. \A r \in ShowSpecial(c) : r[1] = "SPECIAL"
  BY DEF ShowSpecial
<1>3. \A r \in Paths(c) : r[1] = "PATH"
  BY DEF Paths
<1>4. /\ \A r \in Part(c, "BPRM_FCAPS") : r[1] = "BPRM_FCAPS"
      /\ \A r \in Part(c, "SOCKADDR") : r[1] = "SOCKADDR"
      /\ \A r \in Part(c, "CWD") : r[1] = "CWD"
  <2>1. \A r \in Part(c, "BPRM_FCAPS") : r = <<"BPRM_FCAPS", c.aux>>
    BY DEF Part
  <2>2. \A r \in Part(c, "SOCKADDR") : r = <<"SOCKADDR", "">>
    BY DEF Part
  <2>3. \A r \in Part(c, "CWD") : r = <<"CWD", "">>
    BY DEF Part
  <2>4. /\ <<"BPRM_FCAPS", c.aux>>[1] = "BPRM_FCAPS" /\ <<"SOCKADDR", "">>[1] = "SOCKADDR"
        /\ <<"CWD", "">>[1] = "CWD"
    OBVIOUS
  <2> QED BY ONLY <2>1, <2>2, <2>3, <2>4, Zenon
<1>5. /\ \A r \in Part(c, "OBJ_PID") : r[1] = "OBJ_PID"
      /\ \A r \in Part(c, "SPECIAL") : r[1] = "SPECIAL"
      /\ \A r \in Part(c, "PATH") : r[1] = "PATH"
  <2>1. /\ Part(c, "SPECIAL") = ShowSpecial(c) /\ Part(c, "OBJ_PID") = PidRecords(c)
        /\ Part(c, "PATH") = Paths(c)
    BY Parts
  <2> QED BY <1>1, <1>2, <1>3, <2>1
<1> QED BY <1>4, <1>5 DEF Shown

\* Contexts that differ only in what a hook does not record.
LEMMA SameParts ==
  ASSUME NEW c, NEW d
  PROVE  /\ d.aux = c.aux => Part(d, "BPRM_FCAPS") = Part(c, "BPRM_FCAPS")
         /\ d.type = c.type => Part(d, "SPECIAL") = Part(c, "SPECIAL")
         /\ d.target = c.target /\ d.aux_pids = c.aux_pids => Part(d, "OBJ_PID") = Part(c, "OBJ_PID")
         /\ d.sockaddr = c.sockaddr => Part(d, "SOCKADDR") = Part(c, "SOCKADDR")
         /\ d.pwd = c.pwd => Part(d, "CWD") = Part(c, "CWD")
         /\ d.names = c.names => Part(d, "PATH") = Part(c, "PATH")
BY Parts DEF ShowSpecial, PidRecords, Paths

LEMMA RecordedSame ==
  ASSUME NEW c, NEW d, NEW S, Recorded(c, S), d.aux = c.aux, d.type = c.type, d.target = c.target,
         d.aux_pids = c.aux_pids, d.sockaddr = c.sockaddr, d.pwd = c.pwd, d.names = c.names
  PROVE  Recorded(d, S)
<1>1. \A t \in Shown : Part(d, t) = Part(c, t)
  BY SameParts DEF Shown
<1> QED BY <1>1 DEF Recorded

LEMMA RecordedMore ==
  ASSUME NEW c, NEW d, NEW S, Recorded(c, S), NEW t \in Shown \cup {"FD_PAIR"}, NEW X,
         \A r \in X : r[1] = t, \A u \in Shown \ {t} : Part(d, u) = Part(c, u),
         t \in Shown => Part(d, t) = Part(c, t) \cup X
  PROVE  Recorded(d, S \cup X)
<1>1. \A u \in Shown \ {t} : Kind(S \cup X, u) = Kind(S, u)
  BY DEF Kind
<1>2. Kind(S \cup X, t) = Kind(S, t) \cup X
  BY DEF Kind
<1> QED BY <1>1, <1>2 DEF Recorded

LEMMA RecordedInstead ==
  ASSUME NEW c, NEW d, NEW S, Recorded(c, S), NEW t \in Shown, NEW X,
         \A r \in X : r[1] = t, \A u \in Shown \ {t} : Part(d, u) = Part(c, u), Part(d, t) = X
  PROVE  Recorded(d, {r \in S : r[1] # t} \cup X)
<1> DEFINE T == {r \in S : r[1] # t} \cup X
<1>1. \A u \in Shown \ {t} : Kind(T, u) = Kind(S, u)
  BY DEF Kind
<1>2. Kind(T, t) = X
  BY DEF Kind
<1>3. \A r \in T : r[1] \in Shown \cup {"FD_PAIR"}
  BY DEF Recorded
<1> HIDE DEF T
<1>4. Recorded(d, T)
  BY <1>1, <1>2, <1>3 DEF Recorded
<1> QED BY <1>4 DEF T

LEMMA RecordedLess ==
  ASSUME NEW c, NEW d, NEW S, Recorded(c, S), NEW t \in Shown, NEW X,
         \A r \in X : r[1] = t, \A u \in Shown \ {t} : Part(d, u) = Part(c, u),
         Part(d, t) = Part(c, t) \ X
  PROVE  Recorded(d, S \ X)
<1>1. \A u \in Shown \ {t} : Kind(S \ X, u) = Kind(S, u)
  BY DEF Kind
<1>2. Kind(S \ X, t) = Kind(S, t) \ X
  BY DEF Kind
<1> QED BY <1>1, <1>2 DEF Recorded

\* Names added, or hidden.
LEMMA PathsGrown ==
  ASSUME NEW c \in Context, NEW d, Len(d.names) \in Nat, Grown(c, d)
  PROVE  Paths(d) = Paths(c) \cup {<<"PATH", i>> : i \in Len(c.names) + 1 .. Len(d.names)}
<1> DEFINE n == Len(c.names)  m == Len(d.names)
           H == {j \in 1 .. n : ~c.names[j].hidden}
           K == {j \in 1 .. m : ~d.names[j].hidden}
<1>1. /\ n \in Nat /\ m \in Nat /\ m >= n /\ \A i \in 1 .. n : d.names[i].hidden = c.names[i].hidden
      /\ \A i \in n + 1 .. m : d.names[i].hidden = FALSE
  BY ContextFields DEF Grown
<1>2. K = H \cup (n + 1 .. m)
  <2>1. \A i \in 1 .. m : i \in 1 .. n \/ i \in n + 1 .. m
    BY <1>1
  <2>2. (\A i \in 1 .. n : i \in 1 .. m) /\ \A i \in n + 1 .. m : i \in 1 .. m
    BY <1>1
  <2> QED BY <1>1, <2>1, <2>2
<1>3. Paths(c) = {<<"PATH", i>> : i \in H} /\ Paths(d) = {<<"PATH", i>> : i \in K}
  BY DEF Paths
<1> HIDE DEF H, K, n, m
<1>4. {<<"PATH", i>> : i \in H \cup (n + 1 .. m)} = {<<"PATH", i>> : i \in H} \cup {<<"PATH", i>> : i \in n + 1 .. m}
  <2> DEFINE A == n + 1 .. m
  <2> HIDE DEF A
  <2>1. {<<"PATH", i>> : i \in H \cup A} = {<<"PATH", i>> : i \in H} \cup {<<"PATH", i>> : i \in A}
    OBVIOUS
  <2> QED BY <2>1 DEF A
<1>5. Paths(d) = Paths(c) \cup {<<"PATH", i>> : i \in n + 1 .. m}
  BY <1>2, <1>3, <1>4
<1> QED BY <1>5 DEF n, m

LEMMA PathsSame ==
  ASSUME NEW c \in Context, NEW d, Len(d.names) = Len(c.names),
         \A i \in 1 .. Len(c.names) : d.names[i].hidden = c.names[i].hidden
  PROVE  Paths(d) = Paths(c)
BY DEF Paths

LEMMA PathsHidden ==
  ASSUME NEW c \in Context, NEW i \in 1 .. Len(c.names), NEW d, Len(d.names) = Len(c.names),
         d.names[i].hidden = TRUE,
         \A j \in 1 .. Len(c.names) : j # i => d.names[j].hidden = c.names[j].hidden
  PROVE  Paths(d) = Paths(c) \ {<<"PATH", i>>}
<1> DEFINE H == {j \in 1 .. Len(c.names) : ~c.names[j].hidden}
           K == {j \in 1 .. Len(d.names) : ~d.names[j].hidden}
<1>1. K = H \ {i}
  OBVIOUS
<1>2. Paths(c) = {<<"PATH", j>> : j \in H} /\ Paths(d) = {<<"PATH", j>> : j \in K}
  BY DEF Paths
<1> HIDE DEF H, K
<1> QED BY <1>1, <1>2

\* What a hook must keep.
Kept == ctx'.in_syscall = ctx.in_syscall /\ (ctx.in_syscall => Recorded(ctx', did'))
Sound == ctx.in_syscall => Recorded(ctx, did)

LEMMA KeptSame ==
  ASSUME Sound, ctx'.in_syscall = ctx.in_syscall, ctx'.aux = ctx.aux, ctx'.type = ctx.type,
         ctx'.target = ctx.target, ctx'.aux_pids = ctx.aux_pids, ctx'.sockaddr = ctx.sockaddr,
         ctx'.pwd = ctx.pwd, ctx'.names = ctx.names, did' = did
  PROVE  Kept
BY RecordedSame DEF Kept, Sound

LEMMA GetnameEvent ==
  ASSUME TypeInv, Sound, NEW f \in Filenames, AuditGetname(f)
  PROVE  Kept
<1>0. ctx \in Context
  BY HookStart DEF AuditGetname
<1> DEFINE n == Entry(f, Unset, "UNKNOWN")
           k == Len(ctx.names) + 1
           d == [ctx EXCEPT !.names = Append(@, n)]
<1>1. CASE /\ ctx.in_syscall /\ ctx' = [ctx EXCEPT !.names = Append(@, n), !.pwd = TRUE]
           /\ Records({<<"PATH", k>>, <<"CWD", "">>})
  <2>1. n \in Name /\ n.hidden = FALSE
    BY EntryType DEF Inos
  <2> HIDE DEF n
  <2>2. /\ d \in Context /\ Frame(ctx, d) /\ d.pwd = ctx.pwd /\ d.names = Append(ctx.names, n)
        /\ Len(d.names) = k
    BY <1>0, <2>1, AddEntry
  <2>3. ctx' = [d EXCEPT !.pwd = TRUE]
    BY <1>0, <1>1 DEF Context
  <2> HIDE DEF d
  <2>4. /\ ctx'.in_syscall = d.in_syscall /\ ctx'.aux = d.aux /\ ctx'.type = d.type
        /\ ctx'.target = d.target /\ ctx'.aux_pids = d.aux_pids /\ ctx'.sockaddr = d.sockaddr
        /\ ctx'.names = d.names /\ ctx'.pwd = TRUE
    BY <2>2, <2>3 DEF Context
  <2>5. Len(ctx.names) \in Nat /\ ctx.names \in Seq(Name) /\ k .. k = {k}
    BY <1>0, ContextFields
  <2>6. Grown(ctx, d)
    BY <2>1, <2>2, <2>5 DEF Grown
  <2>7. Recorded(d, did \cup {<<"PATH", k>>})
    <3>1. Paths(d) = Paths(ctx) \cup {<<"PATH", k>>}
      <4>1. Paths(d) = Paths(ctx) \cup {<<"PATH", i>> : i \in k .. Len(d.names)}
        BY <1>0, <2>2, <2>5, <2>6, PathsGrown
      <4>2. {<<"PATH", i>> : i \in k .. Len(d.names)} = {<<"PATH", k>>}
        BY <2>2, <2>5
      <4> QED BY <4>1, <4>2
    <3>2. \A u \in Shown \ {"PATH"} : Part(d, u) = Part(ctx, u)
      BY <2>2, SameParts DEF Frame, Shown
    <3>3. Part(d, "PATH") = Part(ctx, "PATH") \cup {<<"PATH", k>>}
      BY <3>1, Parts
    <3>4. "PATH" \in Shown /\ \A r \in {<<"PATH", k>>} : r[1] = "PATH"
      BY DEF Shown
    <3> HIDE DEF k
    <3> QED BY <1>1, <3>2, <3>3, <3>4, RecordedMore DEF Sound
  <2>8. Recorded(ctx', (did \cup {<<"PATH", k>>}) \cup {<<"CWD", "">>})
    <3>1. \A u \in Shown \ {"CWD"} : Part(ctx', u) = Part(d, u)
      BY <2>4, SameParts DEF Shown
    <3>2. Part(ctx', "CWD") = Part(d, "CWD") \cup {<<"CWD", "">>}
      BY <2>4, Parts
    <3>3. "CWD" \in Shown /\ \A r \in {<<"CWD", "">>} : r[1] = "CWD"
      BY DEF Shown
    <3> QED BY <2>7, <3>1, <3>2, <3>3, RecordedMore
  <2>9. did' = (did \cup {<<"PATH", k>>}) \cup {<<"CWD", "">>}
    BY <1>1 DEF Records
  <2> QED BY <2>2, <2>4, <2>8, <2>9 DEF Kept, Frame
<1>2. CASE UNCHANGED <<ctx, did>>
  BY <1>2, KeptSame
<1> QED BY <1>1, <1>2 DEF AuditGetname

LEMMA InodeEvent ==
  ASSUME TypeInv, NameInv, Sound, NEW f \in Filenames \cup {NoName}, NEW d \in Dentries,
         NEW parent \in BOOLEAN, NEW hidden \in BOOLEAN, AuditInode(f, d, parent, hidden)
  PROVE  Kept
<1>0. ctx \in Context
  BY HookStart DEF AuditInode
<1>1. CASE ctx' = ctx /\ did' = did
  BY <1>1, KeptSame
<1>2. ASSUME Frame(ctx, ctx'), ctx'.pwd = ctx.pwd
      PROVE  /\ \A u \in Shown \ {"PATH"} : Part(ctx', u) = Part(ctx, u)
             /\ Part(ctx', "PATH") = Paths(ctx') /\ Part(ctx, "PATH") = Paths(ctx)
             /\ \A i : \A r \in {<<"PATH", i>>} : r[1] = "PATH"
  <2>1. \A u \in Shown \ {"PATH"} : Part(ctx', u) = Part(ctx, u)
    BY <1>2, SameParts DEF Frame, Shown
  <2>2. Part(ctx', "PATH") = Paths(ctx') /\ Part(ctx, "PATH") = Paths(ctx)
    BY Parts
  <2> QED BY <2>1, <2>2
<1>3. ASSUME ctx.in_syscall, NEW i \in 1 .. Len(ctx.names), NEW n \in Name,
             n.hidden = (ctx.names[i].hidden \/ hidden), ctx' = [ctx EXCEPT !.names[i] = n],
             did' = IF hidden THEN did \ {<<"PATH", i>>} ELSE did
      PROVE  Kept
  <2>1. /\ Frame(ctx, ctx') /\ ctx'.pwd = ctx.pwd /\ Len(ctx'.names) = Len(ctx.names)
        /\ ctx'.names = [ctx.names EXCEPT ![i] = n]
    BY <1>0, <1>3, SetEntry
  <2>2. /\ ctx'.names[i].hidden = (ctx.names[i].hidden \/ hidden)
        /\ \A j \in 1 .. Len(ctx.names) : j # i => ctx'.names[j].hidden = ctx.names[j].hidden
    BY <1>0, <1>3, <2>1, ContextFields
  <2>3. CASE hidden
    <3>1. ctx'.names[i].hidden = TRUE
      BY <2>2, <2>3
    <3>2. Paths(ctx') = Paths(ctx) \ {<<"PATH", i>>}
      BY <1>0, <2>1, <2>2, <3>1, PathsHidden
    <3>3. Recorded(ctx', did \ {<<"PATH", i>>})
      <4>1. "PATH" \in Shown /\ \A r \in {<<"PATH", i>>} : r[1] = "PATH"
        BY DEF Shown
      <4>2. Part(ctx', "PATH") = Part(ctx, "PATH") \ {<<"PATH", i>>}
        BY <1>2, <2>1, <3>2
      <4>3. Recorded(ctx, did) /\ \A u \in Shown \ {"PATH"} : Part(ctx', u) = Part(ctx, u)
        BY <1>2, <1>3, <2>1 DEF Sound
      <4> DEFINE X == {<<"PATH", i>>}
      <4>4. Part(ctx', "PATH") = Part(ctx, "PATH") \ X /\ \A r \in X : r[1] = "PATH"
        BY <4>1, <4>2
      <4> HIDE DEF X
      <4>5. Recorded(ctx', did \ X)
        BY ONLY <4>1, <4>3, <4>4, RecordedLess
      <4> QED BY <4>5 DEF X
    <3> QED BY <1>3, <2>1, <2>3, <3>3 DEF Kept, Frame
  <2>4. CASE ~hidden
    <3>1. \A j \in 1 .. Len(ctx.names) : ctx'.names[j].hidden = ctx.names[j].hidden
      <4>1. ctx.names[i].hidden \in BOOLEAN
        BY <1>0, ContextFields DEF Name
      <4> QED BY <2>2, <2>4, <4>1
    <3>2. Paths(ctx') = Paths(ctx)
      BY <1>0, <2>1, <3>1, PathsSame
    <3>3. \A u \in Shown : Part(ctx', u) = Part(ctx, u)
      BY <1>2, <2>1, <3>2
    <3> QED BY <1>3, <2>1, <2>4, <3>3 DEF Kept, Frame, Sound, Recorded
  <2> QED BY <2>3, <2>4
<1>4. ASSUME ctx.in_syscall, NEW n \in Name, n.hidden = hidden, ctx' = [ctx EXCEPT !.names = Append(@, n)],
             did' = IF hidden THEN did ELSE did \cup {<<"PATH", Len(ctx.names) + 1>>}
      PROVE  Kept
  <2> DEFINE k == Len(ctx.names) + 1
  <2>1. /\ Frame(ctx, ctx') /\ ctx'.pwd = ctx.pwd /\ Len(ctx'.names) = k
        /\ ctx'.names = Append(ctx.names, n)
    BY <1>0, <1>4, AddEntry
  <2>2. /\ Len(ctx.names) \in Nat /\ ctx'.names[k].hidden = hidden
        /\ \A j \in 1 .. Len(ctx.names) : ctx'.names[j].hidden = ctx.names[j].hidden
    BY <1>0, <1>4, <2>1, ContextFields
  <2>3. CASE hidden
    <3>1. Paths(ctx') = Paths(ctx)
      <4>1. {j \in 1 .. Len(ctx'.names) : ~ctx'.names[j].hidden} = {j \in 1 .. Len(ctx.names) : ~ctx.names[j].hidden}
        <5>1. \A j \in 1 .. k : j = k \/ j \in 1 .. Len(ctx.names)
          BY <2>2
        <5>2. \A j \in 1 .. Len(ctx.names) : j \in 1 .. k
          BY <2>2
        <5> HIDE DEF k
        <5> QED BY <2>1, <2>2, <2>3, <5>1, <5>2
      <4> QED BY <4>1 DEF Paths
    <3>2. \A u \in Shown : Part(ctx', u) = Part(ctx, u)
      BY <1>2, <2>1, <3>1
    <3> QED BY <1>4, <2>1, <2>3, <3>2 DEF Kept, Frame, Sound, Recorded
  <2>4. CASE ~hidden
    <3>1. Grown(ctx, ctx')
      <4>1. \A i \in 1 .. Len(ctx.names) : ctx'.names[i] = ctx.names[i]
        BY <1>0, <2>1, ContextFields
      <4>2. \A i \in Len(ctx.names) + 1 .. Len(ctx'.names) : i = k
        BY <2>1, <2>2
      <4>3. Len(ctx'.names) >= Len(ctx.names)
        BY <2>1, <2>2
      <4> QED BY <2>2, <2>4, <4>1, <4>2, <4>3 DEF Grown
    <3>2. Paths(ctx') = Paths(ctx) \cup {<<"PATH", i>> : i \in k .. Len(ctx'.names)}
      BY <1>0, <2>1, <2>2, <3>1, PathsGrown
    <3>3. {<<"PATH", i>> : i \in k .. Len(ctx'.names)} = {<<"PATH", k>>}
      BY <2>1, <2>2
    <3>4. Recorded(ctx', did \cup {<<"PATH", k>>})
      <4>1. "PATH" \in Shown /\ \A r \in {<<"PATH", k>>} : r[1] = "PATH"
        BY DEF Shown
      <4>2. Part(ctx', "PATH") = Part(ctx, "PATH") \cup {<<"PATH", k>>}
        BY <1>2, <2>1, <3>2, <3>3
      <4>3. Recorded(ctx, did) /\ \A u \in Shown \ {"PATH"} : Part(ctx', u) = Part(ctx, u)
        BY <1>2, <1>4, <2>1 DEF Sound
      <4> DEFINE X == {<<"PATH", k>>}
      <4>4. Part(ctx', "PATH") = Part(ctx, "PATH") \cup X /\ \A r \in X : r[1] = "PATH"
        BY <4>1, <4>2
      <4> HIDE DEF X
      <4>5. Recorded(ctx', did \cup X)
        BY ONLY <4>1, <4>3, <4>4, RecordedMore
      <4> QED BY <4>5 DEF X
    <3> QED BY <1>4, <2>1, <2>4, <3>4 DEF Kept, Frame
  <2> QED BY <2>3, <2>4
<1>5. \/ ctx' = ctx /\ refcnt' = refcnt /\ did' = did
      \/ /\ ctx.in_syscall /\ refcnt' = refcnt
         /\ \E i \in 1 .. Len(ctx.names), n \in Name :
              /\ n.name = ctx.names[i].name /\ n.hidden = (ctx.names[i].hidden \/ hidden)
              /\ ctx' = [ctx EXCEPT !.names[i] = n]
              /\ did' = IF hidden THEN did \ {<<"PATH", i>>} ELSE did
      \/ /\ ctx.in_syscall
         /\ \E n \in Name : /\ n.name = f /\ n.hidden = hidden
                            /\ ctx' = [ctx EXCEPT !.names = Append(@, n)]
         /\ did' = IF hidden THEN did ELSE did \cup {<<"PATH", Len(ctx.names) + 1>>}
         /\ refcnt' = IF f = NoName THEN refcnt ELSE [refcnt EXCEPT ![f] = @ + 1]
  BY <1>0, InodeEnds
<1> HIDE DEF Kept
<1> QED BY ONLY <1>1, <1>3, <1>4, <1>5, Zenon

LEMMA ChildEvent ==
  ASSUME TypeInv, Sound, NEW p \in Dentries, NEW d \in Dentries, NEW type \in {"CREATE", "DELETE"},
         AuditInodeChild(p, d, type)
  PROVE  Kept
<1>0. ctx \in Context
  BY HookStart DEF AuditInodeChild
<1>1. CASE ctx' = ctx /\ did' = did
  BY <1>1, KeptSame
<1>2. ASSUME ctx.in_syscall, NEW c \in Context, NEW f, Child(d, c, f)
      PROVE  Kept
  <2> DEFINE X == {<<"PATH", i>> : i \in Len(ctx.names) + 1 .. Len(c.names)}
  <2>1. ctx' = c \/ ctx' = Auditable(c)
    BY <1>2 DEF Child, HandleOne
  <2>2. SameFacts(c, ctx')
    BY <2>1, AuditableType DEF SameFacts
  <2>3. Frame(ctx, c) /\ c.pwd = ctx.pwd /\ Grown(ctx, c) /\ did' = did \cup X
    BY <1>2 DEF Child, Records
  <2>4. Paths(c) = Paths(ctx) \cup X
    BY <1>0, <2>3, PathsGrown, ContextFields
  <2>5. \A u \in Shown \ {"PATH"} : Part(c, u) = Part(ctx, u)
    BY <2>3, SameParts DEF Frame, Shown
  <2>6. "PATH" \in Shown /\ \A r \in X : r[1] = "PATH"
    BY DEF Shown
  <2> HIDE DEF X
  <2>7. Part(c, "PATH") = Part(ctx, "PATH") \cup X
    BY <2>4, Parts
  <2>8. Recorded(c, did \cup X)
    BY <1>2, <2>5, <2>6, <2>7, RecordedMore DEF Sound
  <2>9. Recorded(ctx', did \cup X)
    BY <2>2, <2>8, RecordedSame DEF SameFacts
  <2> QED BY <1>2, <2>2, <2>3, <2>9 DEF Kept, Frame, SameFacts
<1> QED BY <1>0, <1>1, <1>2, ChildEnds

LEMMA FactEvent ==
  ASSUME TypeInv, Sound, (\E t \in Specials : Special(t)) \/ FdPair \/ AuditSockaddr \/ BprmFcaps
  PROVE  Kept
<1>0. ctx \in Context
  <2>1. Hook
    BY DEF Special, FdPair, AuditSockaddr, BprmFcaps
  <2> QED BY <2>1, HookStart
<1>1. ASSUME NEW t \in Specials, Special(t) PROVE Kept
  <2>1. /\ ctx' = [ctx EXCEPT !.type = t]
        /\ ctx.in_syscall => did' = {r \in did : r[1] # "SPECIAL"} \cup {<<"SPECIAL", t>>}
    BY <1>1 DEF Special
  <2>2. /\ ctx'.in_syscall = ctx.in_syscall /\ ctx'.aux = ctx.aux /\ ctx'.type = t
        /\ ctx'.target = ctx.target /\ ctx'.aux_pids = ctx.aux_pids
        /\ ctx'.sockaddr = ctx.sockaddr /\ ctx'.pwd = ctx.pwd /\ ctx'.names = ctx.names
    BY <1>0, <2>1 DEF Context
  <2>3. \A u \in Shown \ {"SPECIAL"} : Part(ctx', u) = Part(ctx, u)
    BY <2>2, SameParts DEF Shown
  <2>4. Part(ctx', "SPECIAL") = {<<"SPECIAL", t>>}
    BY <2>2, Parts, AuditContextAssumption DEF ShowSpecial
  <2>5. "SPECIAL" \in Shown /\ \A r \in {<<"SPECIAL", t>>} : r[1] = "SPECIAL"
    BY DEF Shown
  <2>6. ctx.in_syscall => Recorded(ctx', {r \in did : r[1] # "SPECIAL"} \cup {<<"SPECIAL", t>>})
    BY <2>3, <2>4, <2>5, RecordedInstead DEF Sound
  <2> QED BY <2>1, <2>2, <2>6 DEF Kept
<1>2. CASE FdPair
  <2>1. ctx' = [ctx EXCEPT !.fds = TRUE] /\ (ctx.in_syscall => did' = did \cup {<<"FD_PAIR", "">>})
    BY <1>2 DEF FdPair, Records
  <2>2. /\ ctx'.in_syscall = ctx.in_syscall /\ ctx'.aux = ctx.aux /\ ctx'.type = ctx.type
        /\ ctx'.target = ctx.target /\ ctx'.aux_pids = ctx.aux_pids
        /\ ctx'.sockaddr = ctx.sockaddr /\ ctx'.pwd = ctx.pwd /\ ctx'.names = ctx.names
    BY <1>0, <2>1 DEF Context
  <2>3. \A u \in Shown : Part(ctx', u) = Part(ctx, u)
    BY <2>2, SameParts DEF Shown
  <2>4. "FD_PAIR" \notin Shown /\ \A r \in {<<"FD_PAIR", "">>} : r[1] = "FD_PAIR"
    BY DEF Shown
  <2>5. ctx.in_syscall => Recorded(ctx', did \cup {<<"FD_PAIR", "">>})
    BY <2>3, <2>4, RecordedMore DEF Sound
  <2> QED BY <2>1, <2>2, <2>5 DEF Kept
<1>3. CASE AuditSockaddr
  <2>1. ctx' = [ctx EXCEPT !.sockaddr = TRUE] /\ (ctx.in_syscall => did' = did \cup {<<"SOCKADDR", "">>})
    BY <1>3 DEF AuditSockaddr, Records
  <2>2. /\ ctx'.in_syscall = ctx.in_syscall /\ ctx'.aux = ctx.aux /\ ctx'.type = ctx.type
        /\ ctx'.target = ctx.target /\ ctx'.aux_pids = ctx.aux_pids
        /\ ctx'.sockaddr = TRUE /\ ctx'.pwd = ctx.pwd /\ ctx'.names = ctx.names
    BY <1>0, <2>1 DEF Context
  <2>3. \A u \in Shown \ {"SOCKADDR"} : Part(ctx', u) = Part(ctx, u)
    BY <2>2, SameParts DEF Shown
  <2>4. "SOCKADDR" \in Shown /\ \A r \in {<<"SOCKADDR", "">>} : r[1] = "SOCKADDR"
    BY DEF Shown
  <2>5. Part(ctx', "SOCKADDR") = Part(ctx, "SOCKADDR") \cup {<<"SOCKADDR", "">>}
    BY <2>2, Parts
  <2>6. ctx.in_syscall => Recorded(ctx', did \cup {<<"SOCKADDR", "">>})
    BY <2>3, <2>4, <2>5, RecordedMore DEF Sound
  <2> QED BY <2>1, <2>2, <2>6 DEF Kept
<1>4. CASE BprmFcaps
  <2> DEFINE k == ctx.aux + 1
  <2>1. /\ ctx' = [ctx EXCEPT !.aux = k]
        /\ ctx.in_syscall => did' = {r \in did : r[1] # "BPRM_FCAPS"} \cup {<<"BPRM_FCAPS", k>>}
    BY <1>4 DEF BprmFcaps
  <2>2. /\ ctx'.in_syscall = ctx.in_syscall /\ ctx'.aux = k /\ ctx'.type = ctx.type
        /\ ctx'.target = ctx.target /\ ctx'.aux_pids = ctx.aux_pids
        /\ ctx'.sockaddr = ctx.sockaddr /\ ctx'.pwd = ctx.pwd /\ ctx'.names = ctx.names
    BY <1>0, <2>1 DEF Context
  <2>3. \A u \in Shown \ {"BPRM_FCAPS"} : Part(ctx', u) = Part(ctx, u)
    BY <2>2, SameParts DEF Shown
  <2>4. k > 0
    BY <1>0, ContextFields
  <2> HIDE DEF k
  <2>5. Part(ctx', "BPRM_FCAPS") = {<<"BPRM_FCAPS", k>>}
    BY <2>2, <2>4, Parts
  <2>6. "BPRM_FCAPS" \in Shown /\ \A r \in {<<"BPRM_FCAPS", k>>} : r[1] = "BPRM_FCAPS"
    BY DEF Shown
  <2>7. ctx.in_syscall => Recorded(ctx', {r \in did : r[1] # "BPRM_FCAPS"} \cup {<<"BPRM_FCAPS", k>>})
    BY <2>3, <2>5, <2>6, RecordedInstead DEF Sound
  <2> QED BY <2>1, <2>2, <2>7 DEF Kept
<1> QED BY <1>1, <1>2, <1>3, <1>4

\* The targets in blocks, and the records of a context that has them.
InBlocks(bs, v) == \E b \in 1 .. Len(bs) : \E i \in 1 .. Len(bs[b]) : v = bs[b][i]

LEMMA PidRecordsAre ==
  ASSUME NEW c, c.aux_pids \in Seq(Seq(Pids)),
         \A b \in 1 .. Len(c.aux_pids) : Len(c.aux_pids[b]) <= AuxPids
  PROVE  \A r : r \in PidRecords(c) <=>
                  \/ c.target # "none" /\ r = <<"OBJ_PID", c.target>>
                  \/ \E v : InBlocks(c.aux_pids, v) /\ r = <<"OBJ_PID", v>>
<1> DEFINE bs == c.aux_pids
<1>1. /\ Len(bs) \in Nat /\ DOMAIN bs = 1 .. Len(bs) /\ AuxPids \in Nat
      /\ \A b \in 1 .. Len(bs) : Len(bs[b]) \in Nat /\ DOMAIN bs[b] = 1 .. Len(bs[b])
  BY AuditContextAssumption
<1>2. \A b \in 1 .. Len(bs) : DOMAIN bs[b] \cap (1 .. AuxPids) = 1 .. Len(bs[b])
  <2> TAKE b \in 1 .. Len(bs)
  <2>1. Len(bs[b]) \in Nat /\ DOMAIN bs[b] = 1 .. Len(bs[b]) /\ Len(bs[b]) <= AuxPids
    BY <1>1
  <2> DEFINE n == Len(bs[b])
  <2> HIDE DEF n
  <2>2. n \in Nat /\ n <= AuxPids => (1 .. n) \cap (1 .. AuxPids) = 1 .. n
    BY <1>1
  <2> QED BY <2>1, <2>2 DEF n
<1>3. Range(bs) = {bs[b] : b \in 1 .. Len(bs)}
  BY <1>1 DEF Range
<1> DEFINE own == IF c.target # "none" THEN {<<"OBJ_PID", c.target>>} ELSE {}
           of(b) == {<<"OBJ_PID", b[i]>> : i \in DOMAIN b \cap (1 .. AuxPids)}
<1>4. PidRecords(c) = own \cup UNION {of(b) : b \in Range(bs)}
  BY DEF PidRecords
<1>5. \A r : r \in own <=> c.target # "none" /\ r = <<"OBJ_PID", c.target>>
  OBVIOUS
<1>6. \A b \in 1 .. Len(bs) : \A r : r \in of(bs[b]) <=> \E i \in 1 .. Len(bs[b]) : r = <<"OBJ_PID", bs[b][i]>>
  BY <1>2
<1> HIDE DEF own, of, bs
<1>7. \A r : r \in UNION {of(b) : b \in Range(bs)} <=> \E b \in 1 .. Len(bs) : r \in of(bs[b])
  BY <1>3
<1>8. \A r : (\E b \in 1 .. Len(bs) : r \in of(bs[b])) <=> \E v : InBlocks(bs, v) /\ r = <<"OBJ_PID", v>>
  BY ONLY <1>6, Zenon DEF InBlocks
<1>9. \A r : r \in PidRecords(c) <=> \/ c.target # "none" /\ r = <<"OBJ_PID", c.target>>
                                     \/ \E v : InBlocks(bs, v) /\ r = <<"OBJ_PID", v>>
  BY <1>4, <1>5, <1>7, <1>8
<1> QED BY <1>9 DEF bs

\* A target put into the first block, or into a new one.
InFirst(bs, p) == [bs EXCEPT ![1] = Append(@, p)]
InNew(bs, p) == <<<<p>>>> \o bs

LEMMA FirstBlock ==
  ASSUME NEW bs \in Seq(Seq(Pids)), bs # <<>>, NEW p \in Pids, NEW more, more = InFirst(bs, p)
  PROVE  /\ more \in Seq(Seq(Pids)) /\ Len(more) = Len(bs) /\ Len(more[1]) = Len(bs[1]) + 1
         /\ \A b \in 1 .. Len(bs) : b # 1 => more[b] = bs[b]
         /\ \A v : InBlocks(more, v) <=> InBlocks(bs, v) \/ v = p
<1> DEFINE one == bs[1]  put == Append(one, p)
<1>1. Len(bs) \in Nat /\ Len(bs) >= 1 /\ 1 \in 1 .. Len(bs) /\ one \in Seq(Pids) /\ Len(one) \in Nat
  OBVIOUS
<1> HIDE DEF one
<1>2. /\ put \in Seq(Pids) /\ Len(put) = Len(one) + 1 /\ put[Len(one) + 1] = p
      /\ \A i \in 1 .. Len(one) : put[i] = one[i]
  BY <1>1
<1>3. more = [bs EXCEPT ![1] = put]
  BY DEF one, InFirst
<1> HIDE DEF put
<1>4. /\ more \in Seq(Seq(Pids)) /\ Len(more) = Len(bs) /\ more[1] = put
      /\ \A b \in 1 .. Len(bs) : b # 1 => more[b] = bs[b]
  BY <1>1, <1>2, <1>3
<1>5. ASSUME NEW v, NEW b \in 1 .. Len(more), NEW i \in 1 .. Len(more[b]), v = more[b][i]
      PROVE  InBlocks(bs, v) \/ v = p
  <2>1. CASE b # 1
    BY <1>4, <1>5, <2>1 DEF InBlocks
  <2>2. CASE b = 1 /\ i = Len(one) + 1
    BY <1>2, <1>4, <1>5, <2>2
  <2>3. CASE b = 1 /\ i # Len(one) + 1
    <3>0. i \in 1 .. Len(put) /\ v = put[i]
      BY <1>4, <1>5, <2>3
    <3>1. i \in 1 .. Len(one) /\ v = one[i]
      BY <1>1, <1>2, <2>3, <3>0
    <3> QED BY <1>1, <3>1 DEF InBlocks, one
  <2> QED BY <2>1, <2>2, <2>3
<1>6. ASSUME NEW v, NEW b \in 1 .. Len(bs), NEW i \in 1 .. Len(bs[b]), v = bs[b][i]
      PROVE  InBlocks(more, v)
  <2>1. CASE b # 1
    BY <1>4, <1>6, <2>1 DEF InBlocks
  <2>2. CASE b = 1
    <3>1. i \in 1 .. Len(one) /\ v = one[i]
      BY <1>6, <2>2 DEF one
    <3>2. i \in 1 .. Len(put) /\ v = put[i]
      BY <1>1, <1>2, <3>1
    <3> QED BY <1>1, <1>4, <3>2 DEF InBlocks
  <2> QED BY <2>1, <2>2
<1>7. InBlocks(more, p)
  <2>1. Len(one) + 1 \in 1 .. Len(put)
    BY <1>1, <1>2
  <2> QED BY <1>1, <1>2, <1>4, <2>1 DEF InBlocks
<1>8. \A v : InBlocks(more, v) <=> InBlocks(bs, v) \/ v = p
  <2>1. \A v : InBlocks(more, v) => InBlocks(bs, v) \/ v = p
    BY ONLY <1>5, Zenon DEF InBlocks
  <2>2. \A v : InBlocks(bs, v) => InBlocks(more, v)
    BY ONLY <1>6, Zenon DEF InBlocks
  <2> QED BY ONLY <2>1, <2>2, <1>7, Zenon
<1> QED BY <1>2, <1>4, <1>8 DEF one

OneMore(bs, p, new) ==
  /\ new \in Seq(Seq(Pids)) /\ Len(new) = Len(bs) + 1 /\ Len(new[1]) = 1
  /\ \A b \in 1 .. Len(new) : b = 1 \/ \E a \in 1 .. Len(bs) : new[b] = bs[a]
  /\ \A v : InBlocks(new, v) <=> InBlocks(bs, v) \/ v = p

LEMMA NewBlock ==
  ASSUME NEW bs \in Seq(Seq(Pids)), NEW p \in Pids
  PROVE  OneMore(bs, p, InNew(bs, p))
<1> DEFINE one == <<p>>
           new == InNew(bs, p)
<1>1. one \in Seq(Pids) /\ Len(one) = 1 /\ one[1] = p /\ Len(bs) \in Nat
  OBVIOUS
<1> HIDE DEF one
<1>2. new = <<one>> \o bs
  BY DEF one, InNew
<1> HIDE DEF new
<1>3. /\ new \in Seq(Seq(Pids)) /\ Len(new) = Len(bs) + 1 /\ new[1] = one
  BY <1>1, <1>2
<1>4. \A b \in 2 .. Len(new) : b - 1 \in 1 .. Len(bs) /\ new[b] = bs[b - 1]
  BY <1>1, <1>2, <1>3
<1>5. \A b \in 1 .. Len(bs) : b + 1 \in 1 .. Len(new) /\ new[b + 1] = bs[b]
  BY <1>1, <1>2, <1>3
<1>6. \A b \in 1 .. Len(new) : b = 1 \/ \E a \in 1 .. Len(bs) : new[b] = bs[a]
  <2> TAKE b \in 1 .. Len(new)
  <2>1. b # 1 => b \in 2 .. Len(new)
    BY <1>3
  <2> QED BY <1>4, <2>1
<1>7. ASSUME NEW v, NEW b \in 1 .. Len(new), NEW i \in 1 .. Len(new[b]), v = new[b][i]
      PROVE  InBlocks(bs, v) \/ v = p
  <2>1. CASE b = 1
    BY <1>1, <1>3, <1>7, <2>1
  <2>2. CASE b # 1
    <3>1. b \in 2 .. Len(new)
      BY <1>1, <1>3, <2>2
    <3> QED BY <1>4, <1>7, <3>1 DEF InBlocks
  <2> QED BY <2>1, <2>2
<1>8. ASSUME NEW v, NEW b \in 1 .. Len(bs), NEW i \in 1 .. Len(bs[b]), v = bs[b][i]
      PROVE  InBlocks(new, v)
  BY <1>5, <1>8 DEF InBlocks
<1>9. InBlocks(new, p)
  <2>1. 1 \in 1 .. Len(new) /\ 1 \in 1 .. Len(one)
    BY <1>1, <1>3
  <2> QED BY <1>1, <1>3, <2>1 DEF InBlocks
<1>10. \A v : InBlocks(new, v) <=> InBlocks(bs, v) \/ v = p
  <2>1. \A v : InBlocks(new, v) => InBlocks(bs, v) \/ v = p
    BY ONLY <1>7, Zenon DEF InBlocks
  <2>2. \A v : InBlocks(bs, v) => InBlocks(new, v)
    BY ONLY <1>8, Zenon DEF InBlocks
  <2> QED BY ONLY <2>1, <2>2, <1>9, Zenon
<1>11. OneMore(bs, p, new)
  BY <1>1, <1>3, <1>6, <1>10 DEF OneMore
<1> QED BY <1>11 DEF new

LEMMA PidEvent ==
  ASSUME TypeInv, Sound, NEW p \in Pids, AuditPtrace(p) \/ AuditSignalInfo(p)
  PROVE  Kept
<1> DEFINE bs == ctx.aux_pids
           X == {<<"OBJ_PID", p>>}
<1>0. Hook
  BY DEF AuditPtrace, AuditSignalInfo
<1>1. ctx \in Context /\ BlocksOK(ctx) /\ p # "none"
  BY <1>0, HookStart, AuditContextAssumption
<1>2. \/ ctx' = ctx /\ did' = did
      \/ ctx.target = "none" /\ ctx' = [ctx EXCEPT !.target = p] /\ Records(X)
      \/ /\ bs # <<>> /\ Len(bs[1]) < AuxPids
         /\ ctx' = [ctx EXCEPT !.aux_pids = [bs EXCEPT ![1] = Append(@, p)]] /\ Records(X)
      \/ ctx' = [ctx EXCEPT !.aux_pids = <<<<p>>>> \o bs] /\ Records(X)
  BY DEF AuditPtrace, AuditSignalInfo
<1>3. /\ bs \in Seq(Seq(Pids)) /\ Len(bs) \in Nat /\ AuxPids \in Nat /\ AuxPids >= 1
      /\ \A b \in 1 .. Len(bs) : Len(bs[b]) <= AuxPids
  BY <1>1, ContextFields, AuditContextAssumption DEF BlocksOK
<1>4. \A r \in X : r[1] = "OBJ_PID"
  OBVIOUS
<1>5. ASSUME ctx'.in_syscall = ctx.in_syscall, ctx'.aux = ctx.aux, ctx'.type = ctx.type,
             ctx'.sockaddr = ctx.sockaddr, ctx'.pwd = ctx.pwd, ctx'.names = ctx.names,
             \A r : r \in PidRecords(ctx') <=> r \in PidRecords(ctx) \/ r = <<"OBJ_PID", p>>, Records(X)
      PROVE  Kept
  <2>1. \A u \in Shown \ {"OBJ_PID"} : Part(ctx', u) = Part(ctx, u)
    BY <1>5, SameParts DEF Shown
  <2>2. PidRecords(ctx') = PidRecords(ctx) \cup X
    <3>1. \A r : r \in X <=> r = <<"OBJ_PID", p>>
      OBVIOUS
    <3> HIDE DEF X
    <3> QED BY ONLY <3>1, <1>5
  <2> HIDE DEF X
  <2>3. Part(ctx', "OBJ_PID") = Part(ctx, "OBJ_PID") \cup X /\ "OBJ_PID" \in Shown
    BY <2>2, Parts DEF Shown
  <2>4. ctx.in_syscall => Recorded(ctx', did \cup X)
    BY <1>4, <2>1, <2>3, RecordedMore DEF Sound
  <2> QED BY <1>5, <2>4 DEF Kept, Records
<1>6. \A r : r \in PidRecords(ctx) <=>
               \/ ctx.target # "none" /\ r = <<"OBJ_PID", ctx.target>>
               \/ \E v : InBlocks(bs, v) /\ r = <<"OBJ_PID", v>>
  BY <1>3, PidRecordsAre
<1>7. ASSUME ctx'.aux_pids \in Seq(Seq(Pids)),
             \A b \in 1 .. Len(ctx'.aux_pids) : Len(ctx'.aux_pids[b]) <= AuxPids,
             \/ ctx.target = "none" /\ ctx'.target = p /\ ctx'.aux_pids = bs
             \/ /\ ctx'.target = ctx.target
                /\ \A v : InBlocks(ctx'.aux_pids, v) <=> InBlocks(bs, v) \/ v = p
      PROVE  \A r : r \in PidRecords(ctx') <=> r \in PidRecords(ctx) \/ r = <<"OBJ_PID", p>>
  <2> HIDE DEF bs, X
  <2>1. \A r : r \in PidRecords(ctx') <=>
               \/ ctx'.target # "none" /\ r = <<"OBJ_PID", ctx'.target>>
               \/ \E v : InBlocks(ctx'.aux_pids, v) /\ r = <<"OBJ_PID", v>>
    BY <1>7, PidRecordsAre
  <2>2. p # "none"
    BY <1>1
  <2>3. CASE ctx.target = "none" /\ ctx'.target = p /\ ctx'.aux_pids = bs
    BY ONLY <1>6, <2>1, <2>2, <2>3, Zenon
  <2>4. CASE /\ ctx'.target = ctx.target
             /\ \A v : InBlocks(ctx'.aux_pids, v) <=> InBlocks(bs, v) \/ v = p
    BY ONLY <1>6, <2>1, <2>4, Zenon
  <2> QED BY <1>7, <2>3, <2>4
<1>8. CASE ctx' = ctx /\ did' = did
  BY <1>8, KeptSame
<1>9. CASE ctx.target = "none" /\ ctx' = [ctx EXCEPT !.target = p] /\ Records(X)
  <2>1. /\ ctx'.in_syscall = ctx.in_syscall /\ ctx'.aux = ctx.aux /\ ctx'.type = ctx.type
        /\ ctx'.sockaddr = ctx.sockaddr /\ ctx'.pwd = ctx.pwd /\ ctx'.names = ctx.names
        /\ ctx'.target = p /\ ctx'.aux_pids = bs
    BY <1>1, <1>9 DEF Context
  <2>2. \A r : r \in PidRecords(ctx') <=> r \in PidRecords(ctx) \/ r = <<"OBJ_PID", p>>
    BY <1>3, <1>7, <1>9, <2>1
  <2> QED BY <1>5, <1>9, <2>1, <2>2
<1>10. CASE /\ bs # <<>> /\ Len(bs[1]) < AuxPids
            /\ ctx' = [ctx EXCEPT !.aux_pids = [bs EXCEPT ![1] = Append(@, p)]] /\ Records(X)
  <2> DEFINE more == [bs EXCEPT ![1] = Append(@, p)]
  <2>1. /\ more \in Seq(Seq(Pids)) /\ Len(more) = Len(bs) /\ Len(more[1]) = Len(bs[1]) + 1
        /\ \A b \in 1 .. Len(bs) : b # 1 => more[b] = bs[b]
        /\ \A v : InBlocks(more, v) <=> InBlocks(bs, v) \/ v = p
    <3> HIDE DEF more
    <3>1. more = InFirst(bs, p)
      BY DEF more, InFirst
    <3>2. bs \in Seq(Seq(Pids)) /\ bs # <<>> /\ p \in Pids
      BY <1>3, <1>10
    <3> HIDE DEF bs
    <3> QED BY ONLY <3>1, <3>2, FirstBlock, Zenon
  <2>2. ctx' = [ctx EXCEPT !.aux_pids = more]
    BY <1>10
  <2> HIDE DEF more
  <2>3. /\ ctx'.in_syscall = ctx.in_syscall /\ ctx'.aux = ctx.aux /\ ctx'.type = ctx.type
        /\ ctx'.sockaddr = ctx.sockaddr /\ ctx'.pwd = ctx.pwd /\ ctx'.names = ctx.names
        /\ ctx'.target = ctx.target /\ ctx'.aux_pids = more
    BY <1>1, <2>2 DEF Context
  <2>4. \A b \in 1 .. Len(more) : Len(more[b]) <= AuxPids
    <3> HIDE DEF bs
    <3> TAKE b \in 1 .. Len(more)
    <3>1. Len(bs[1]) \in Nat /\ b \in 1 .. Len(bs)
      BY <1>3, <1>10, <2>1
    <3>2. CASE b = 1
      BY <1>3, <1>10, <2>1, <3>1, <3>2
    <3>3. CASE b # 1
      BY <1>3, <2>1, <3>1, <3>3
    <3> QED BY <3>2, <3>3
  <2>5. \A r : r \in PidRecords(ctx') <=> r \in PidRecords(ctx) \/ r = <<"OBJ_PID", p>>
    BY <1>7, <2>1, <2>3, <2>4
  <2> QED BY <1>5, <1>10, <2>3, <2>5
<1>11. CASE ctx' = [ctx EXCEPT !.aux_pids = <<<<p>>>> \o bs] /\ Records(X)
  <2> DEFINE new == InNew(bs, p)
  <2>1. OneMore(bs, p, InNew(bs, p))
    <3>1. bs \in Seq(Seq(Pids))
      BY <1>3
    <3> HIDE DEF bs
    <3> QED BY ONLY <3>1, p \in Pids, NewBlock
  <2>2. ctx' = [ctx EXCEPT !.aux_pids = new]
    BY <1>11 DEF InNew
  <2> HIDE DEF new
  <2>3. /\ new \in Seq(Seq(Pids)) /\ Len(new) = Len(bs) + 1 /\ Len(new[1]) = 1
        /\ \A b \in 1 .. Len(new) : b = 1 \/ \E a \in 1 .. Len(bs) : new[b] = bs[a]
        /\ \A v : InBlocks(new, v) <=> InBlocks(bs, v) \/ v = p
    BY <2>1 DEF OneMore, new
  <2>4. /\ ctx'.in_syscall = ctx.in_syscall /\ ctx'.aux = ctx.aux /\ ctx'.type = ctx.type
        /\ ctx'.sockaddr = ctx.sockaddr /\ ctx'.pwd = ctx.pwd /\ ctx'.names = ctx.names
        /\ ctx'.target = ctx.target /\ ctx'.aux_pids = new
    BY <1>1, <2>2 DEF Context
  <2>5. \A b \in 1 .. Len(new) : Len(new[b]) <= AuxPids
    <3> TAKE b \in 1 .. Len(new)
    <3> HIDE DEF bs
    <3>1. b = 1 \/ \E a \in 1 .. Len(bs) : new[b] = bs[a]
      BY <2>3
    <3> QED BY <1>3, <2>3, <3>1
  <2>6. \A r : r \in PidRecords(ctx') <=> r \in PidRecords(ctx) \/ r = <<"OBJ_PID", p>>
    BY <1>7, <2>3, <2>4, <2>5
  <2> QED BY <1>5, <1>11, <2>4, <2>6
<1> HIDE DEF Kept
<1> QED BY ONLY <1>2, <1>8, <1>9, <1>10, <1>11, Zenon

LEMMA LogEvent ==
  ASSUME TypeInv, Sound, LogInCall
  PROVE  Kept
<1>1. ctx \in Context /\ did' = did
  BY DEF LogInCall, TypeInv
<1> DEFINE c == Auditable(ctx)
<1>2. c \in Context /\ SameFacts(ctx, c)
  BY <1>1, AuditableType
<1>3. ctx' = ctx \/ ctx' = [c EXCEPT !.stamped = TRUE]
  BY DEF LogInCall
<1> HIDE DEF c
<1>4. SameFacts(c, [c EXCEPT !.stamped = TRUE])
  BY <1>2 DEF SameFacts, Context
<1>5. SameFacts(ctx, ctx')
  BY <1>2, <1>3, <1>4 DEF SameFacts
<1> QED BY <1>1, <1>5, KeptSame DEF SameFacts

\* All hooks at once.
LEMMA HookEvent ==
  ASSUME TypeInv, NameInv, Sound, NextHook
  PROVE  Kept
<1>1. ASSUME NEW f \in Filenames, AuditGetname(f) \/ AuditReusename(f) PROVE Kept
  <2>1. CASE AuditReusename(f)
    <3>1. ctx' = ctx /\ did' = did
      BY <2>1 DEF AuditReusename
    <3> QED BY <3>1, KeptSame
  <2> QED BY <1>1, <2>1, GetnameEvent
<1>2. CASE \E f \in Filenames \cup {NoName}, d \in Dentries, parent, hidden \in BOOLEAN :
             AuditInode(f, d, parent, hidden)
  BY <1>2, InodeEvent
<1>3. CASE \E p, d \in Dentries, type \in {"CREATE", "DELETE"} : AuditInodeChild(p, d, type)
  BY <1>3, ChildEvent
<1>4. CASE (\E t \in Specials : Special(t)) \/ FdPair \/ AuditSockaddr \/ BprmFcaps
  BY <1>4, FactEvent
<1>5. CASE LogInCall
  BY <1>5, LogEvent
<1>6. CASE \E p \in Pids : AuditPtrace(p) \/ AuditSignalInfo(p)
  BY <1>6, PidEvent
<1> QED BY <1>1, <1>2, <1>3, <1>4, <1>5, <1>6 DEF NextHook

\* A call starts with nothing recorded.
LEMMA NothingRecorded ==
  ASSUME NEW c, c.names = <<>>, c.aux = 0, c.aux_pids = <<>>, c.target = "none", c.type = "none",
         ~c.sockaddr, ~c.pwd
  PROVE  Recorded(c, {})
<1>1. Paths(c) = {}
  BY DEF Paths
<1>2. PidRecords(c) = {}
  <2>1. Range(c.aux_pids) = {}
    BY DEF Range
  <2> QED BY <2>1 DEF PidRecords
<1>3. ShowSpecial(c) = {}
  BY DEF ShowSpecial
<1>4. \A t \in Shown : Part(c, t) = {}
  <2>1. /\ Part(c, "BPRM_FCAPS") = {} /\ Part(c, "SPECIAL") = {} /\ Part(c, "OBJ_PID") = {}
        /\ Part(c, "SOCKADDR") = {} /\ Part(c, "CWD") = {} /\ Part(c, "PATH") = {}
    <3>1. ~(c.aux > 0)
      OBVIOUS
    <3>2. Part(c, "BPRM_FCAPS") = {} /\ Part(c, "SOCKADDR") = {} /\ Part(c, "CWD") = {}
      BY <3>1 DEF Part
    <3>3. Part(c, "SPECIAL") = ShowSpecial(c) /\ Part(c, "OBJ_PID") = PidRecords(c)
          /\ Part(c, "PATH") = Paths(c)
      BY Parts
    <3> QED BY <1>1, <1>2, <1>3, <3>2, <3>3
  <2> QED BY <2>1 DEF Shown
<1> QED BY <1>4 DEF Recorded, Kind

LEMMA EventInit == Init => EventInv
BY DEF Init, EventInv

LEMMA EventStep ==
  ASSUME TypeInv, NameInv, EventInv, [Next]_vars
  PROVE  EventInv'
<1>1. CASE AuditAlloc \/ AuditFree
  BY <1>1 DEF AuditAlloc, AuditFree, EventInv
<1>2. ASSUME NEW major \in Majors, AuditSyscallEntry(major)
      PROVE  EventInv'
  <2>1. phase = "user" /\ did' = {}
    BY <1>2, EntryContext
  <2>2. CASE ctx' = ctx
    <3>1. ctx' # NoCtx => ~ctx'.in_syscall
      BY <2>1, <2>2 DEF TypeInv, Clean
    <3> QED BY <3>1 DEF EventInv
  <2>3. CASE ctx' # ctx
    <3>1. /\ ctx'.names = <<>> /\ ctx'.aux = 0 /\ ctx'.aux_pids = <<>> /\ ctx'.target = "none"
          /\ ctx'.type = "none" /\ ~ctx'.sockaddr /\ ~ctx'.pwd
      BY <1>2, <2>3, EntryContext
    <3>2. Recorded(ctx', {})
      BY <3>1, NothingRecorded
    <3> QED BY <2>1, <3>2 DEF EventInv
  <2> QED BY <2>2, <2>3
<1>3. ASSUME NEW valid, AuditSyscallExit(valid)
      PROVE  EventInv'
  BY <1>3 DEF AuditSyscallExit, EventInv
<1>4. ASSUME NEW f \in Filenames, PutName(f) PROVE EventInv'
  BY <1>4 DEF PutName, EventInv
<1>5. CASE WalkUp \/ WalkEnds \/ WalkFull
  <2>1. /\ phase = "kernel" /\ ctx \in Context /\ did' = did
        /\ (ctx' = ctx \/ ctx' = Auditable(ctx))
    BY <1>5, WalkTypes
  <2>2. SameFacts(ctx, ctx') /\ ctx # NoCtx
    BY <2>1, AuditableType, ContextFields DEF SameFacts
  <2>3. Sound
    BY <2>1, <2>2 DEF EventInv, Sound
  <2>4. Kept
    BY <2>1, <2>2, <2>3, KeptSame DEF SameFacts
  <2> QED BY <2>2, <2>4 DEF EventInv, Kept, SameFacts
<1>6. CASE NextHook
  <2>1. phase = "kernel" /\ ctx \in Context
    BY <1>6, HookTypes
  <2>2. Sound
    BY <2>1, ContextFields DEF EventInv, Sound
  <2>3. Kept
    BY <1>6, <2>2, HookEvent
  <2> QED BY <2>3 DEF EventInv, Kept
<1>7. CASE SetEnabled \/ BecomesAuditd \/ ChangeRules \/ UNCHANGED vars
  BY <1>7 DEF SetEnabled, BecomesAuditd, ChangeRules, vars, EventInv
<1> QED BY <1>1, <1>2, <1>3, <1>4, <1>5, <1>6, <1>7 DEF Next

LEMMA RecordedIsShown ==
  ASSUME NEW c \in Context, NEW S, Recorded(c, S)
  PROVE  {r \in Wanted(c) : r[1] \notin {"SYSCALL", "PROCTITLE", "EOE", "FD_PAIR"}}
           = {r \in S : r[1] # "FD_PAIR"}
<1> DEFINE first == {<<"SYSCALL", c.filterkey>>} \cup {<<"PROCTITLE", "">>, <<"EOE", "">>}
           pair == IF c.fds THEN {<<"FD_PAIR", "">>} ELSE {}
           all == UNION {Part(c, t) : t \in Shown}
<1>1. Wanted(c) = first \cup pair \cup all
  <2>1. Paths(c) = {<<"PATH", i>> : i \in {j \in DOMAIN c.names : ~c.names[j].hidden}}
    <3>1. DOMAIN c.names = 1 .. Len(c.names)
      BY ContextFields
    <3> QED BY <3>1 DEF Paths
  <2>2. Wanted(c) = first \cup Part(c, "BPRM_FCAPS") \cup Part(c, "SPECIAL") \cup Part(c, "OBJ_PID")
                      \cup pair \cup Part(c, "SOCKADDR") \cup Part(c, "CWD") \cup Part(c, "PATH")
    <3> HIDE DEF first, pair
    <3>1. Wanted(c) = first \cup (IF c.aux > 0 THEN {<<"BPRM_FCAPS", c.aux>>} ELSE {})
                        \cup ShowSpecial(c) \cup PidRecords(c) \cup pair
                        \cup (IF c.sockaddr THEN {<<"SOCKADDR", "">>} ELSE {})
                        \cup (IF c.pwd THEN {<<"CWD", "">>} ELSE {}) \cup Paths(c)
      BY <2>1 DEF Wanted, first, pair
    <3> QED BY <3>1, Parts
  <2>3. all = Part(c, "BPRM_FCAPS") \cup Part(c, "SPECIAL") \cup Part(c, "OBJ_PID")
                \cup Part(c, "SOCKADDR") \cup Part(c, "CWD") \cup Part(c, "PATH")
    BY DEF Shown
  <2> HIDE DEF first, pair, all
  <2> QED BY <2>2, <2>3
<1>2. /\ \A r \in first : r[1] \in {"SYSCALL", "PROCTITLE", "EOE"}
      /\ \A r \in pair : r[1] = "FD_PAIR"
  <2>1. /\ <<"SYSCALL", c.filterkey>>[1] = "SYSCALL" /\ <<"PROCTITLE", "">>[1] = "PROCTITLE"
        /\ <<"EOE", "">>[1] = "EOE" /\ <<"FD_PAIR", "">>[1] = "FD_PAIR"
    OBVIOUS
  <2>2. \A r \in first : r = <<"SYSCALL", c.filterkey>> \/ r = <<"PROCTITLE", "">> \/ r = <<"EOE", "">>
    OBVIOUS
  <2>3. \A r \in pair : r = <<"FD_PAIR", "">>
    OBVIOUS
  <2> QED BY ONLY <2>1, <2>2, <2>3
<1>3. \A t \in Shown : \A r \in Part(c, t) : r[1] = t
  BY PartKinds
<1>4. \A r : r \in all <=> \E t \in Shown : r \in Part(c, t)
  OBVIOUS
<1>5. Shown \cap {"SYSCALL", "PROCTITLE", "EOE", "FD_PAIR"} = {}
  BY DEF Shown
<1>6. \A t \in Shown : \A r : r \in Part(c, t) <=> r \in S /\ r[1] = t
  BY DEF Recorded, Kind
<1>7. \A r \in S : r[1] \in Shown \cup {"FD_PAIR"}
  BY DEF Recorded
<1> DEFINE others == {"SYSCALL", "PROCTITLE", "EOE", "FD_PAIR"}
<1>8. \A x \in others : x \in {"SYSCALL", "PROCTITLE", "EOE"} \/ x = "FD_PAIR"
  OBVIOUS
<1>9. "FD_PAIR" \in others /\ {"SYSCALL", "PROCTITLE", "EOE"} \subseteq others
  OBVIOUS
<1> HIDE DEF first, pair, all, Shown
<1>10. \A r : r \in Wanted(c) /\ r[1] \notin others <=> r \in S /\ r[1] # "FD_PAIR"
  <2> TAKE r
  <2>1. ASSUME r \in Wanted(c), r[1] \notin others PROVE r \in S /\ r[1] # "FD_PAIR"
    <3>1. r \in all
      BY <1>1, <1>2, <1>9, <2>1
    <3> QED BY <1>4, <1>6, <1>9, <2>1, <3>1
  <2>2. ASSUME r \in S, r[1] # "FD_PAIR" PROVE r \in Wanted(c) /\ r[1] \notin others
    <3>1. r[1] \in Shown
      BY <1>7, <2>2
    <3>2. r \in Part(c, r[1])
      BY <1>6, <2>2, <3>1
    <3> QED BY <1>1, <1>4, <1>5, <3>1, <3>2
  <2> QED BY <2>1, <2>2
<1> HIDE DEF others
<1>11. {r \in Wanted(c) : r[1] \notin others} = {r \in S : r[1] # "FD_PAIR"}
  BY <1>10
<1> QED BY <1>11 DEF others

\* What the end of a call will write is what the hooks of that call recorded
\* (audit_log_exit against __audit_getname, __audit_inode and the others, and
\* the cleaning at the end of __audit_syscall_exit).
THEOREM EventCorrect == Spec => []EventIsThisCall
<1>1. Init => RefInv /\ EventInv
  BY TypeInit, NameInit, ChainInit, EventInit DEF RefInv
<1>2. RefInv /\ EventInv /\ [Next]_vars => (RefInv /\ EventInv)'
  BY TypeStep, NameStep, ChainStep, EventStep DEF RefInv
<1>3. RefInv /\ EventInv => EventIsThisCall
  <2> SUFFICES ASSUME RefInv, EventInv, phase = "kernel", ctx # NoCtx, ctx.in_syscall
               PROVE  {r \in Wanted(ctx) : r[1] \notin {"SYSCALL", "PROCTITLE", "EOE", "FD_PAIR"}}
                        = {r \in did : r[1] # "FD_PAIR"}
    BY DEF EventIsThisCall
  <2>1. ctx \in Context /\ Recorded(ctx, did)
    BY DEF RefInv, TypeInv, EventInv
  <2> QED BY <2>1, RecordedIsShown
<1> QED BY <1>1, <1>2, <1>3, PTL DEF Spec

-----------------------------------------------------------------------------
(***************************************************************************)
(* The decision at the end of a call.                                      *)
(***************************************************************************)
\* A rule that matches a context and a name, whatever its priority.
Fits(r, x, c, n, t) == c.major \in r.mask /\ FieldsMatch(r, x, c, n, t)

\* Contexts a rule cannot tell apart: a decision is not looked at.
SameView(c, d) ==
  /\ c # NoCtx /\ d # NoCtx /\ d.val = c.val /\ d.names = c.names /\ d.major = c.major
  /\ d.return_valid = c.return_valid /\ d.return_code = c.return_code /\ d.type = c.type

LEMMA SameMatch ==
  ASSUME NEW c, NEW d, SameView(c, d), NEW r, NEW x, NEW n, NEW t
  PROVE  Fits(r, x, d, n, t) <=> Fits(r, x, c, n, t)
<1>1. \A f : FieldMatches(f, x, d, n, t) <=> FieldMatches(f, x, c, n, t)
  <2> TAKE f
  <2>1. AuditMatchPerm(d, f.val) <=> AuditMatchPerm(c, f.val)
    BY DEF AuditMatchPerm, SameView
  <2>2. AuditMatchFiletype(d, f.val) <=> AuditMatchFiletype(c, f.val)
    BY DEF AuditMatchFiletype, SameView
  <2>3. \A i : AuditCompareId(i, n, f, d) <=> AuditCompareId(i, n, f, c)
    BY DEF AuditCompareId, SameView
  <2>4. AuditFieldCompare(x, f, d, n) <=> AuditFieldCompare(x, f, c, n)
    BY <2>3 DEF AuditFieldCompare
  <2> DEFINE names(e) == IF n # NoName THEN {n}
                         ELSE IF e # NoCtx THEN {e.names[i] : i \in DOMAIN e.names} ELSE {}
             Other(val, valid, code, type, ns) ==
               \/ f.type \in TaskTypes /\ Comparator(x.val[f.type], f.op, f.val)
               \/ /\ f.type \in GroupTypes
                  /\ Comparator(TRUE, f.op, f.val = x.val[f.type] \/ f.val \in x.groups)
               \/ f.type \in CtxTypes /\ Comparator(val[f.type], f.op, f.val)
               \/ /\ f.type \in ExitTypes /\ valid # "invalid"
                  /\ Comparator(IF f.type = "EXIT" THEN code ELSE valid, f.op, f.val)
               \/ /\ f.type \in NameTypes
                  /\ \E m \in ns : Comparator(IF f.type = "INODE" THEN m.ino ELSE m.val[f.type], f.op, f.val)
               \/ f.type = "WATCH" /\ n # NoName /\ n.ino = f.val
               \/ f.type = "DIR" /\ MatchTreeRefs(t, f.val)
               \/ /\ f.type = "OBJ"
                  /\ \/ \E m \in ns : Comparator(m.val["OSID"], f.op, f.val)
                     \/ type = "IPC" /\ Comparator(val["OSID"], f.op, f.val)
               \/ f.type = "FILTERKEY"
  <2>5. names(d) = names(c)
    BY DEF SameView
  <2>6. ASSUME NEW e, e # NoCtx
        PROVE  FieldMatches(f, x, e, n, t) <=>
                 \/ Other(e.val, e.return_valid, e.return_code, e.type, names(e))
                 \/ f.type = "PERM" /\ AuditMatchPerm(e, f.val)
                 \/ f.type = "FILETYPE" /\ AuditMatchFiletype(e, f.val)
                 \/ f.type = "FIELD_COMPARE" /\ AuditFieldCompare(x, f, e, n)
    BY <2>6, ZenonT(60) DEF FieldMatches
  <2> HIDE DEF Other, names
  <2>7. Other(d.val, d.return_valid, d.return_code, d.type, names(d)) <=>
          Other(c.val, c.return_valid, c.return_code, c.type, names(c))
    BY <2>5 DEF SameView
  <2>8. c # NoCtx /\ d # NoCtx
    BY DEF SameView
  <2> QED BY <2>1, <2>2, <2>4, <2>6, <2>7, <2>8
<1> QED BY <1>1 DEF Fits, FieldsMatch, SameView

LEMMA DecidedView ==
  ASSUME NEW c \in Context, NEW r \in AllRules
  PROVE  SameView(c, Decided(c, r))
<1>1. Decided(c, r) \in Context
  BY DecidedType
<1>2. c # NoCtx /\ Decided(c, r) # NoCtx
  BY <1>1, ContextFields
<1> DEFINE d == Decided(c, r)
<1>3. /\ d.val = c.val /\ d.names = c.names /\ d.major = c.major
      /\ d.return_valid = c.return_valid /\ d.return_code = c.return_code /\ d.type = c.type
  BY DEF Decided, Context
<1> HIDE DEF d
<1>4. SameView(c, d)
  BY <1>2, <1>3 DEF SameView, d
<1> QED BY <1>4 DEF d

\* The first rule of a list that matches with a higher priority, and in a
\* sorted list it is the one with the highest.
Hits(list, x, c, n, t) ==
  {k \in DOMAIN list : c.major \in list[k].mask /\ AuditFilterRules(list[k], x, c, n, t)}

Decides(list, x, c, n, t, i) ==
  IF i = 0 THEN \A r \in Range(list) : Fits(r, x, c, n, t) => r.prio <= c.prio
  ELSE /\ i \in DOMAIN list /\ list[i] \in Range(list) /\ list[i] \in AllRules
       /\ Fits(list[i], x, c, n, t) /\ list[i].prio > c.prio
       /\ Sorted(list) => \A r \in Range(list) : Fits(r, x, c, n, t) => r.prio <= list[i].prio

LEMMA ListDecides ==
  ASSUME NEW c \in Context, NEW list \in Seq(AllRules), NEW x, NEW n, NEW t
  PROVE  Decides(list, x, c, n, t, FirstMatch(Hits(list, x, c, n, t)))
<1> DEFINE H == Hits(list, x, c, n, t)
           i == FirstMatch(H)
<1>1. /\ DOMAIN list = 1 .. Len(list) /\ Len(list) \in Nat /\ c.prio \in Nat /\ c # NoCtx
      /\ \A k \in DOMAIN list : list[k] \in AllRules /\ list[k].prio \in Nat
  BY ContextFields, RuleTypes
<1>2. \A k \in DOMAIN list : k \in H <=> Fits(list[k], x, c, n, t) /\ list[k].prio > c.prio
  BY <1>1 DEF Fits, AuditFilterRules, Hits
<1>3. H \subseteq DOMAIN list /\ H \subseteq Nat
  BY <1>1 DEF Hits
<1>4. IF H = {} THEN i = 0 ELSE i \in H /\ \A j \in H : i <= j
  <2> HIDE DEF H
  <2> QED BY <1>3, FirstMatchIs
<1>5. \A r \in Range(list) : \E k \in DOMAIN list : r = list[k]
  BY DEF Range
<1> HIDE DEF i, H
<1>6. CASE H = {}
  <2>1. i = 0
    BY <1>4, <1>6
  <2>2. \A r \in Range(list) : Fits(r, x, c, n, t) => r.prio <= c.prio
    BY <1>1, <1>2, <1>5, <1>6
  <2> QED BY <2>1, <2>2 DEF i, H, Decides
<1>7. CASE H # {}
  <2>1. i \in H /\ i \in DOMAIN list /\ i # 0 /\ \A j \in H : i <= j
    BY <1>1, <1>3, <1>4, <1>7
  <2>2. list[i] \in Range(list)
    BY <2>1 DEF Range
  <2>3. Fits(list[i], x, c, n, t) /\ list[i].prio > c.prio /\ list[i] \in AllRules
    BY <1>1, <1>2, <2>1
  <2>4. ASSUME Sorted(list), NEW r \in Range(list), Fits(r, x, c, n, t)
        PROVE  r.prio <= list[i].prio
    <3>1. PICK k \in DOMAIN list : r = list[k]
      BY <1>5
    <3>2. CASE k \in H
      <4>1. i < k \/ i = k
        BY <1>1, <2>1, <3>2
      <4>2. i < k => list[i].prio > list[k].prio
        BY <2>1, <2>4, <3>1 DEF Sorted
      <4> QED BY <1>1, <2>1, <3>1, <4>1, <4>2
    <3>3. CASE k \notin H
      <4>1. ~(list[k].prio > c.prio)
        BY <1>2, <2>4, <3>1, <3>3
      <4> QED BY <1>1, <2>1, <2>3, <3>1, <4>1
    <3> QED BY <3>2, <3>3
  <2> QED BY <2>1, <2>2, <2>3, <2>4 DEF i, H, Decides
<1> QED BY <1>6, <1>7

LEMMA SyscallDecides ==
  ASSUME NEW c \in Context, NEW list \in Seq(AllRules), Sorted(list), NEW x, ~x.auditd, NEW t
  PROVE  LET d == AuditFilterSyscall(list, x, c, t).ctx
         IN  \/ /\ d = c
                /\ \A r \in Range(list) : Fits(r, x, c, NoName, t) => r.prio <= c.prio
             \/ \E r \in Range(list) : /\ r \in AllRules /\ d = Decided(c, r) /\ r.prio > c.prio
                                       /\ Fits(r, x, c, NoName, t)
                                       /\ \A q \in Range(list) : Fits(q, x, c, NoName, t) => q.prio <= r.prio
<1> DEFINE H == Hits(list, x, c, NoName, t)
           d == AuditFilterSyscall(list, x, c, t).ctx
           i == FirstMatch(H)
<1>1. AuditFilterSyscall(list, x, c, t) =
        IF i = 0 THEN [state |-> "BUILD", ctx |-> c]
        ELSE [state |-> StateOf(list[i]), ctx |-> Decided(c, list[i])]
  BY DEF AuditFilterSyscall, Hits
<1> HIDE DEF i
<1>2. d = IF i = 0 THEN c ELSE Decided(c, list[i])
  BY <1>1
<1> HIDE DEF d
<1>3. Decides(list, x, c, NoName, t, i)
  BY ListDecides DEF i
<1>4. \/ /\ d = c
         /\ \A r \in Range(list) : Fits(r, x, c, NoName, t) => r.prio <= c.prio
      \/ \E r \in Range(list) : /\ r \in AllRules /\ d = Decided(c, r) /\ r.prio > c.prio
                                /\ Fits(r, x, c, NoName, t)
                                /\ \A q \in Range(list) : Fits(q, x, c, NoName, t) => q.prio <= r.prio
  <2>1. CASE i = 0
    BY <1>2, <1>3, <2>1 DEF Decides
  <2>2. CASE i # 0
    <3> DEFINE r == list[i]
    <3>1. /\ r \in Range(list) /\ r \in AllRules /\ Fits(r, x, c, NoName, t) /\ r.prio > c.prio
          /\ \A q \in Range(list) : Fits(q, x, c, NoName, t) => q.prio <= r.prio
      BY <1>3, <2>2 DEF Decides
    <3>2. d = Decided(c, r)
      BY <1>2, <2>2
    <3> HIDE DEF r
    <3> QED BY <3>1, <3>2
  <2> QED BY <2>1, <2>2
<1> QED BY <1>4 DEF d

LEMMA NameDecides ==
  ASSUME NEW c \in Context, NEW s \in RuleSets, NEW n \in Name, NEW x, NEW t, NEW e,
         e = AuditFilterInodeName(s.inode, x, c, n, t)
  PROVE  \/ e = c /\ \A r \in Range(s.inode[n.ino]) : Fits(r, x, c, n, t) => r.prio <= c.prio
         \/ \E r \in Range(s.inode[n.ino]) : /\ r \in AllRules /\ e = Decided(c, r) /\ e # c
                                             /\ r.prio > c.prio /\ Fits(r, x, c, n, t)
<1> DEFINE list == s.inode[n.ino]
           H == Hits(list, x, c, n, t)
           i == FirstMatch(H)
<1>1. list \in Seq(AllRules)
  BY RuleLists DEF Name
<1>2. e = IF i = 0 THEN c ELSE Decided(c, list[i])
  BY DEF AuditFilterInodeName, Hits
<1> HIDE DEF i, list
<1>3. Decides(list, x, c, n, t, i)
  BY <1>1, ListDecides DEF i
<1>4. CASE i = 0
  BY <1>2, <1>3, <1>4 DEF list, Decides
<1>5. CASE i # 0
  <2> DEFINE r == list[i]
  <2>1. r \in Range(list) /\ r \in AllRules /\ Fits(r, x, c, n, t) /\ r.prio > c.prio
    BY <1>3, <1>5 DEF Decides
  <2>2. e = Decided(c, r)
    BY <1>2, <1>5
  <2> HIDE DEF r
  <2>3. e.prio = r.prio /\ r.prio \in Nat /\ c.prio \in Nat
    BY <2>1, <2>2, DecidedType, RuleTypes, ContextFields
  <2>4. e # c
    BY <2>1, <2>3
  <2> QED BY <2>1, <2>2, <2>4 DEF list
<1> QED BY <1>4, <1>5

LEMMA InodesDecide ==
  ASSUME NEW c \in Context, NEW s \in RuleSets, NEW x, ~x.auditd, NEW t, NEW e,
         e = AuditFilterInodes(s.inode, x, c, t)
  PROVE  \/ /\ e = c
            /\ \A n \in Range(c.names) : \A r \in Range(s.inode[n.ino]) :
                 Fits(r, x, c, n, t) => r.prio <= c.prio
         \/ \E n \in Range(c.names) : \E r \in Range(s.inode[n.ino]) :
              r \in AllRules /\ e = Decided(c, r) /\ r.prio > c.prio /\ Fits(r, x, c, n, t)
<1> DEFINE F(n) == AuditFilterInodeName(s.inode, x, c, n, t)
           H == {i \in DOMAIN c.names : F(c.names[i]) # c}
<1>1. H \subseteq Nat /\ (\A k \in DOMAIN c.names : c.names[k] \in Name) /\ H \subseteq DOMAIN c.names
  BY ContextFields
<1>2. e = IF H = {} THEN c ELSE F(c.names[FirstMatch(H)])
  BY DEF AuditFilterInodes
<1>3. \A k \in DOMAIN c.names : k \notin H => F(c.names[k]) = c
  OBVIOUS
<1>4. \A k \in H : F(c.names[k]) # c
  OBVIOUS
<1>5. Range(c.names) = {c.names[k] : k \in DOMAIN c.names}
  BY DEF Range
<1> HIDE DEF H
<1>6. H # {} => FirstMatch(H) \in H
  BY <1>1, FirstMatchIs
<1>7. \A n \in Name :
        \/ F(n) = c /\ \A r \in Range(s.inode[n.ino]) : Fits(r, x, c, n, t) => r.prio <= c.prio
        \/ \E r \in Range(s.inode[n.ino]) : /\ r \in AllRules /\ F(n) = Decided(c, r) /\ F(n) # c
                                            /\ r.prio > c.prio /\ Fits(r, x, c, n, t)
  <2> HIDE DEF F
  <2> TAKE n \in Name
  <2>1. F(n) = AuditFilterInodeName(s.inode, x, c, n, t)
    BY DEF F
  <2> QED BY <2>1, NameDecides
<1> HIDE DEF F
<1>8. CASE H = {}
  <2>1. e = c
    BY <1>2, <1>8
  <2>2. \A n \in Range(c.names) : n \in Name /\ F(n) = c
    BY <1>1, <1>3, <1>5, <1>8
  <2>3. \A n \in Range(c.names) : \A r \in Range(s.inode[n.ino]) : Fits(r, x, c, n, t) => r.prio <= c.prio
    BY <1>7, <2>2
  <2> QED BY <2>1, <2>3
<1>9. CASE H # {}
  <2> DEFINE n == c.names[FirstMatch(H)]
  <2>1. n \in Name /\ n \in Range(c.names) /\ F(n) # c /\ e = F(n)
    BY <1>1, <1>2, <1>4, <1>5, <1>6, <1>9
  <2> HIDE DEF n
  <2>2. \E r \in Range(s.inode[n.ino]) : /\ r \in AllRules /\ F(n) = Decided(c, r)
                                         /\ r.prio > c.prio /\ Fits(r, x, c, n, t)
    BY <1>7, <2>1
  <2> QED BY <2>1, <2>2
<1> QED BY <1>8, <1>9

\* A decision, and that of a rule.
As(r) == [prio |-> r.prio, state |-> StateOf(r)]
Decision(c) == [prio |-> c.prio, state |-> c.current_state]

\* What the exit rules, and then the inode rules, make of a decision.
LEMMA TakenDecides ==
  ASSUME ctx \in Context, ctx.in_syscall, ~ctx.dummy, rules \in RuleSets, ~tsk.auditd,
         NEW valid \in {"success", "failure"}, Chosen(ctx)
  PROVE  LET c == Taken(valid)
             exits == {Decision(ctx)} \cup {As(r) : r \in MatchingExit(c)}
             top == CHOOSE e \in exits : \A o \in exits : o.prio <= e.prio
             above == {As(r) : r \in {x \in MatchingInode(c) : x.prio > top.prio}}
         IN  Decision(c) \in (IF above = {} THEN {top} ELSE above)
<1> DEFINE a == [ctx EXCEPT !.return_valid = valid,
                            !.return_code = IF valid = "success" THEN 0 ELSE 1]
           d == AuditFilterSyscall(rules.exit, tsk, a, chain).ctx
           c == Taken(valid)
           list == rules.exit
<1>1. a \in Context /\ a.prio = ctx.prio /\ a.current_state = ctx.current_state
  BY DEF Context
<1>2. c = AuditFilterInodes(rules.inode, tsk, d, chain)
  <2>1. a.in_syscall /\ ~a.dummy
    BY DEF Context
  <2> QED BY <2>1 DEF Taken, ExitFilters
<1> HIDE DEF a
<1>3. list \in Seq(AllRules) /\ Sorted(list) /\ \A r \in Range(list) : r \in AllRules
  BY RuleLists DEF Range
<1>4. \/ /\ d = a
         /\ \A r \in Range(list) : Fits(r, tsk, a, NoName, chain) => r.prio <= a.prio
      \/ \E r \in Range(list) : /\ r \in AllRules /\ d = Decided(a, r) /\ r.prio > a.prio
                                /\ Fits(r, tsk, a, NoName, chain)
                                /\ \A q \in Range(list) : Fits(q, tsk, a, NoName, chain) => q.prio <= r.prio
  <2> HIDE DEF list
  <2>1. d = AuditFilterSyscall(list, tsk, a, chain).ctx
    BY DEF list
  <2> HIDE DEF d
  <2> QED BY <1>1, <1>3, <2>1, SyscallDecides
<1> HIDE DEF d, list, c
<1>5. d \in Context /\ SameView(a, d)
  <2>1. CASE d = a
    BY <1>1, <2>1, ContextFields DEF SameView
  <2>2. CASE \E r \in AllRules : d = Decided(a, r)
    BY <1>1, <2>2, DecidedType, DecidedView
  <2> QED BY <1>4, <2>1, <2>2
<1>6. \/ /\ c = d
         /\ \A n \in Range(d.names) : \A r \in Range(rules.inode[n.ino]) :
              Fits(r, tsk, d, n, chain) => r.prio <= d.prio
      \/ \E n \in Range(d.names) : \E r \in Range(rules.inode[n.ino]) :
           r \in AllRules /\ c = Decided(d, r) /\ r.prio > d.prio /\ Fits(r, tsk, d, n, chain)
  BY <1>2, <1>5, InodesDecide
<1>7. c \in Context /\ SameView(d, c)
  <2>1. CASE c = d
    BY <1>5, <2>1, ContextFields DEF SameView
  <2>2. CASE \E r \in AllRules : c = Decided(d, r)
    BY <1>5, <2>2, DecidedType, DecidedView
  <2> QED BY <1>6, <2>1, <2>2
<1>8. \A r : r \in MatchingExit(c) <=> r \in Range(list) /\ Fits(r, tsk, a, NoName, chain)
  <2>1. \A r : r \in MatchingExit(c) <=> r \in Range(list) /\ Fits(r, tsk, c, NoName, chain)
    BY DEF MatchingExit, Fits, list
  <2>2. \A r : Fits(r, tsk, c, NoName, chain) <=> Fits(r, tsk, d, NoName, chain)
    BY <1>7, SameMatch
  <2>3. \A r : Fits(r, tsk, d, NoName, chain) <=> Fits(r, tsk, a, NoName, chain)
    BY <1>5, SameMatch
  <2> QED BY <2>1, <2>2, <2>3
<1>9. \A r : r \in MatchingInode(c) <=>
               \E n \in Range(d.names) : r \in Range(rules.inode[n.ino]) /\ Fits(r, tsk, d, n, chain)
  <2>1. \A r : r \in MatchingInode(c) <=>
                 \E n \in Range(c.names) : r \in Range(rules.inode[n.ino]) /\ Fits(r, tsk, c, n, chain)
    BY DEF MatchingInode, Fits
  <2>2. \A r, n : Fits(r, tsk, c, n, chain) <=> Fits(r, tsk, d, n, chain)
    BY <1>7, SameMatch
  <2>3. c.names = d.names
    BY <1>7 DEF SameView
  <2> QED BY <2>1, <2>2, <2>3
<1> DEFINE exits == {Decision(ctx)} \cup {As(r) : r \in MatchingExit(c)}
           top == CHOOSE e \in exits : \A o \in exits : o.prio <= e.prio
           above == {As(r) : r \in {x \in MatchingInode(c) : x.prio > top.prio}}
<1>10. /\ Decision(ctx) = Decision(a)
       /\ \A o : o \in exits <=> o = Decision(a) \/ \E r \in MatchingExit(c) : o = As(r)
  BY <1>1 DEF Decision
<1>11. \A r \in MatchingExit(c) : r \in AllRules /\ r.prio \in Nat /\ Fits(r, tsk, a, NoName, chain)
                                  /\ r \in Range(list)
  BY <1>3, <1>8, RuleTypes
<1>12. (\A r : As(r).prio = r.prio /\ As(r).state = StateOf(r))
       /\ \A e : Decision(e).prio = e.prio /\ Decision(e).state = e.current_state
  BY DEF As, Decision
<1>13. a.prio \in Nat /\ d.prio \in Nat
  BY <1>1, <1>5, ContextFields
<1> HIDE DEF exits
<1>14. /\ Decision(d) \in exits /\ \A o \in exits : o.prio \in Nat /\ o.prio <= d.prio
       /\ \A o \in exits : o.prio = d.prio => o = Decision(d)
  <2>1. CASE /\ d = a
             /\ \A r \in Range(list) : Fits(r, tsk, a, NoName, chain) => r.prio <= a.prio
    <3>1. \A r \in MatchingExit(c) : r.prio <= a.prio
      BY <1>11, <2>1
    <3>2. ASSUME NEW r \in MatchingExit(c), r.prio = a.prio
          PROVE  As(r) = Decision(a)
      <4>1. 1 < r.prio /\ r.prio < TopPrio /\ r \in AllRules
        BY <1>11, RuleTypes
      <4>2. PICK q \in AllRules : a.prio = q.prio /\ a.current_state = StateOf(q)
        <5>1. r.prio \in Nat /\ TopPrio \in Nat
          BY <1>11, AuditContextAssumption
        <5>2. ctx.prio \notin {0, 1, TopPrio}
          BY <1>1, <3>2, <4>1, <5>1
        <5> QED BY <1>1, <5>2 DEF Chosen
      <4>3. q = r
        BY <3>2, <4>1, <4>2, AuditContextAssumption
      <4> QED BY <4>2, <4>3 DEF As, Decision
    <3>3. \A o \in exits : o.prio \in Nat /\ o.prio <= a.prio /\ (o.prio = a.prio => o = Decision(a))
      BY <1>10, <1>11, <1>12, <1>13, <3>1, <3>2
    <3> QED BY <1>10, <2>1, <3>3
  <2>2. ASSUME NEW r \in Range(list), r \in AllRules, d = Decided(a, r), r.prio > a.prio,
               Fits(r, tsk, a, NoName, chain),
               \A q \in Range(list) : Fits(q, tsk, a, NoName, chain) => q.prio <= r.prio
        PROVE  /\ Decision(d) \in exits /\ \A o \in exits : o.prio \in Nat /\ o.prio <= d.prio
               /\ \A o \in exits : o.prio = d.prio => o = Decision(d)
    <3>1. d.prio = r.prio /\ d.current_state = StateOf(r)
      BY <1>1, <2>2, DecidedType
    <3>2. Decision(d) = As(r) /\ r \in MatchingExit(c)
      BY <1>8, <2>2, <3>1 DEF Decision, As
    <3>3. \A q \in MatchingExit(c) : q.prio <= r.prio
      BY <1>11, <2>2
    <3>4. \A q \in MatchingExit(c) : q.prio = r.prio => q = r
      BY <1>11, <2>2, AuditContextAssumption
    <3>5. \A o \in exits : o.prio \in Nat /\ o.prio <= r.prio /\ (o.prio = r.prio => o = As(r))
      BY <1>10, <1>11, <1>12, <1>13, <2>2, <3>1, <3>3, <3>4
    <3> QED BY <1>10, <3>1, <3>2, <3>5
  <2> QED BY <1>4, <2>1, <2>2
<1>15. top = Decision(d)
  <2>1. \A o \in exits : o.prio <= Decision(d).prio
    BY <1>12, <1>14
  <2>2. top \in exits /\ \A o \in exits : o.prio <= top.prio
    BY <1>14, <2>1
  <2> HIDE DEF top
  <2>3. top.prio = d.prio
    BY <1>12, <1>13, <1>14, <2>2
  <2> QED BY <1>14, <2>2, <2>3
<1> HIDE DEF top
<1>16. \A o : o \in above <=> \E r \in MatchingInode(c) : r.prio > d.prio /\ o = As(r)
  BY <1>12, <1>15
<1> HIDE DEF above
<1>17. Decision(c) \in (IF above = {} THEN {top} ELSE above)
  <2>1. CASE /\ c = d
             /\ \A n \in Range(d.names) : \A r \in Range(rules.inode[n.ino]) :
                  Fits(r, tsk, d, n, chain) => r.prio <= d.prio
    <3>1. ASSUME NEW n \in Range(d.names), NEW r \in Range(rules.inode[n.ino]) PROVE r.prio \in Nat
      <4>1. n \in Name
        BY <1>5, ContextFields DEF Range
      <4>2. rules.inode[n.ino] \in Seq(AllRules)
        BY <4>1, RuleLists DEF Name
      <4>3. r \in AllRules
        BY <3>1, <4>2 DEF Range
      <4> QED BY <4>3, RuleTypes
    <3>2. \A r \in MatchingInode(c) : ~(r.prio > d.prio)
      BY <1>9, <1>13, <2>1, <3>1
    <3>3. above = {}
      BY <1>16, <3>2
    <3> QED BY <1>15, <2>1, <3>3
  <2>2. ASSUME NEW n \in Range(d.names), NEW r \in Range(rules.inode[n.ino]), r \in AllRules,
               c = Decided(d, r), r.prio > d.prio, Fits(r, tsk, d, n, chain)
        PROVE  Decision(c) \in (IF above = {} THEN {top} ELSE above)
    <3>1. c.prio = r.prio /\ c.current_state = StateOf(r)
      BY <1>5, <2>2, DecidedType
    <3>2. Decision(c) = As(r)
      BY <3>1 DEF Decision, As
    <3>3. r \in MatchingInode(c)
      BY <1>9, <2>2
    <3>4. As(r) \in above
      BY <1>16, <2>2, <3>3
    <3> QED BY <3>2, <3>4
  <2> QED BY <1>6, <2>1, <2>2
<1> QED BY <1>17 DEF above, top, exits, c

\* Within a call, the decision so far is that of a rule, or made without one.
PrioInv == phase = "kernel" /\ ctx # NoCtx /\ ctx.in_syscall => Chosen(ctx)

LEMMA AuditableChosen ==
  ASSUME NEW c \in Context, NEW d, d.prio = Auditable(c).prio,
         d.current_state = Auditable(c).current_state, Chosen(c)
  PROVE  Chosen(d)
<1>1. CASE c.prio = 0
  BY <1>1, AuditableType DEF Chosen
<1>2. CASE c.prio # 0
  BY <1>2, AuditableType DEF Chosen
<1> QED BY <1>1, <1>2

\* A hook leaves the decision, or makes the call auditable.
LEMMA HookDecision ==
  ASSUME TypeInv, NameInv, NextHook
  PROVE  /\ ctx'.in_syscall = ctx.in_syscall
         /\ \/ ctx'.prio = ctx.prio /\ ctx'.current_state = ctx.current_state
            \/ ctx'.prio = Auditable(ctx).prio /\ ctx'.current_state = Auditable(ctx).current_state
<1> DEFINE Goal == /\ ctx'.in_syscall = ctx.in_syscall
                   /\ \/ ctx'.prio = ctx.prio /\ ctx'.current_state = ctx.current_state
                      \/ /\ ctx'.prio = Auditable(ctx).prio
                         /\ ctx'.current_state = Auditable(ctx).current_state
<1>1. ctx \in Context
  BY HookTypes
<1>2. ASSUME NEW f \in Filenames, AuditGetname(f) \/ AuditReusename(f) PROVE Goal
  <2>1. ctx' = ctx \/ \E s : ctx' = [ctx EXCEPT !.names = s, !.pwd = TRUE]
    BY <1>2 DEF AuditGetname, AuditReusename
  <2> QED BY <1>1, <2>1 DEF Context
<1>3. ASSUME NEW f \in Filenames \cup {NoName}, NEW d \in Dentries, NEW parent \in BOOLEAN,
             NEW hidden \in BOOLEAN, AuditInode(f, d, parent, hidden)
      PROVE  Goal
  <2>1. ctx' = ctx \/ \E s : ctx' = [ctx EXCEPT !.names = s]
    BY <1>3 DEF AuditInode
  <2> QED BY <1>1, <2>1 DEF Context
<1>4. ASSUME NEW p \in Dentries, NEW d \in Dentries, NEW type \in {"CREATE", "DELETE"},
             AuditInodeChild(p, d, type)
      PROVE  Goal
  <2>1. ctx' = ctx \/ \E c \in Context : \E f : Child(d, c, f)
    BY <1>1, <1>4, ChildEnds
  <2>2. ASSUME NEW c \in Context, NEW f, Child(d, c, f) PROVE Goal
    <3>1. Frame(ctx, c) /\ (ctx' = c \/ ctx' = Auditable(c))
      BY <2>2 DEF Child, HandleOne
    <3>2. /\ c.prio = ctx.prio /\ c.current_state = ctx.current_state
          /\ c.in_syscall = ctx.in_syscall
      BY <3>1 DEF Frame
    <3>3. /\ Auditable(c).prio = Auditable(ctx).prio
          /\ Auditable(c).current_state = Auditable(ctx).current_state
          /\ Auditable(c).in_syscall = c.in_syscall
      BY <1>1, <3>1, <3>2, AuditableType DEF SameFacts
    <3> QED BY <3>1, <3>2, <3>3
  <2> QED BY <2>1, <2>2
<1>5. CASE (\E t \in Specials : Special(t)) \/ FdPair \/ AuditSockaddr \/ BprmFcaps
  BY <1>1, <1>5 DEF Special, FdPair, AuditSockaddr, BprmFcaps, Context
<1>6. CASE LogInCall
  <2>1. ctx' = ctx \/ ctx' = [Auditable(ctx) EXCEPT !.stamped = TRUE]
    BY <1>6 DEF LogInCall
  <2>2. Auditable(ctx) \in Context /\ Auditable(ctx).in_syscall = ctx.in_syscall
    BY <1>1, AuditableType DEF SameFacts
  <2> QED BY <2>1, <2>2 DEF Context
<1>7. ASSUME NEW p \in Pids, AuditPtrace(p) \/ AuditSignalInfo(p) PROVE Goal
  <2>1. \/ ctx' = ctx \/ ctx' = [ctx EXCEPT !.target = p]
        \/ \E s : ctx' = [ctx EXCEPT !.aux_pids = s]
    BY <1>7 DEF AuditPtrace, AuditSignalInfo
  <2> QED BY <1>1, <2>1 DEF Context
<1>8. CASE \E f \in Filenames : AuditGetname(f) \/ AuditReusename(f)
  BY <1>2, <1>8
<1>9. CASE \E f \in Filenames \cup {NoName}, d \in Dentries, parent, hidden \in BOOLEAN :
             AuditInode(f, d, parent, hidden)
  BY <1>3, <1>9
<1>10. CASE \E p, d \in Dentries, type \in {"CREATE", "DELETE"} : AuditInodeChild(p, d, type)
  BY <1>4, <1>10
<1>11. CASE \E p \in Pids : AuditPtrace(p) \/ AuditSignalInfo(p)
  BY <1>7, <1>11
<1> QED BY <1>5, <1>6, <1>8, <1>9, <1>10, <1>11 DEF NextHook

LEMMA PrioInit == Init => PrioInv
BY DEF Init, PrioInv

LEMMA PrioStep ==
  ASSUME TypeInv, NameInv, PrioInv, [Next]_vars
  PROVE  PrioInv'
<1>1. CASE AuditAlloc \/ AuditFree
  BY <1>1 DEF AuditAlloc, AuditFree, PrioInv
<1>2. ASSUME NEW major \in Majors, AuditSyscallEntry(major)
      PROVE  PrioInv'
  <2>1. phase = "user"
    BY <1>2, EntryContext
  <2>2. CASE ctx' = ctx
    <3>1. ctx' # NoCtx => ~ctx'.in_syscall
      BY <2>1, <2>2 DEF TypeInv, Clean
    <3> QED BY <3>1 DEF PrioInv
  <2>3. CASE ctx' # ctx
    <3>1. Chosen(ctx')
      BY <1>2, <2>3, EntryContext
    <3> QED BY <3>1 DEF PrioInv, Chosen
  <2> QED BY <2>2, <2>3
<1>3. ASSUME NEW valid, AuditSyscallExit(valid)
      PROVE  PrioInv'
  BY <1>3 DEF AuditSyscallExit, PrioInv
<1>4. ASSUME NEW f \in Filenames, PutName(f) PROVE PrioInv'
  BY <1>4 DEF PutName, PrioInv, Chosen
<1>5. ASSUME phase = "kernel", ctx \in Context, ctx'.in_syscall = ctx.in_syscall,
             \/ ctx'.prio = ctx.prio /\ ctx'.current_state = ctx.current_state
             \/ ctx'.prio = Auditable(ctx).prio /\ ctx'.current_state = Auditable(ctx).current_state
      PROVE  PrioInv'
  <2>1. ctx.in_syscall => Chosen(ctx)
    BY <1>5, ContextFields DEF PrioInv
  <2>2. Chosen(ctx) => Chosen(ctx')
    <3>1. CASE ctx'.prio = ctx.prio /\ ctx'.current_state = ctx.current_state
      BY <3>1 DEF Chosen
    <3>2. CASE /\ ctx'.prio = Auditable(ctx).prio
               /\ ctx'.current_state = Auditable(ctx).current_state
      BY <1>5, <3>2, AuditableChosen
    <3> QED BY <1>5, <3>1, <3>2
  <2> QED BY <1>5, <2>1, <2>2 DEF PrioInv, Chosen
<1>6. CASE WalkUp \/ WalkEnds \/ WalkFull
  <2>1. /\ phase = "kernel" /\ ctx \in Context /\ (ctx' = ctx \/ ctx' = Auditable(ctx))
    BY <1>6, WalkTypes
  <2>2. ctx'.in_syscall = ctx.in_syscall
    BY <2>1, AuditableType DEF SameFacts
  <2> QED BY <1>5, <2>1, <2>2
<1>7. CASE NextHook
  <2>1. phase = "kernel" /\ ctx \in Context
    BY <1>7, HookTypes
  <2> QED BY <1>5, <1>7, <2>1, HookDecision
<1>8. CASE SetEnabled \/ BecomesAuditd \/ ChangeRules \/ UNCHANGED vars
  BY <1>8 DEF SetEnabled, BecomesAuditd, ChangeRules, vars, PrioInv, Chosen
<1> QED BY <1>1, <1>2, <1>3, <1>4, <1>6, <1>7, <1>8 DEF Next

\* The decision at the end of a call (audit_filter_syscall on the exit list,
\* then audit_filter_inodes) is that of a matching rule of the highest
\* priority, or what was decided before.
THEOREM DecisionCorrect == Spec => []DecisionByPriority
<1>1. Init => RefInv /\ PrioInv
  BY TypeInit, NameInit, ChainInit, PrioInit DEF RefInv
<1>2. RefInv /\ PrioInv /\ [Next]_vars => (RefInv /\ PrioInv)'
  BY TypeStep, NameStep, ChainStep, PrioStep DEF RefInv
<1>3. RefInv /\ PrioInv => DecisionByPriority
  <2> SUFFICES ASSUME RefInv, PrioInv, phase = "kernel", ctx # NoCtx, ctx.in_syscall, ~ctx.dummy,
                      ~tsk.auditd
               PROVE  DecisionByPriority
    BY DEF DecisionByPriority
  <2>1. ctx \in Context /\ rules \in RuleSets /\ Chosen(ctx)
    BY DEF RefInv, TypeInv, PrioInv
  <2>2. \A valid \in {"success", "failure"} :
          LET c == Taken(valid)
              exits == {Decision(ctx)} \cup {As(r) : r \in MatchingExit(c)}
              top == CHOOSE e \in exits : \A o \in exits : o.prio <= e.prio
              above == {As(r) : r \in {x \in MatchingInode(c) : x.prio > top.prio}}
          IN  Decision(c) \in (IF above = {} THEN {top} ELSE above)
    BY <2>1, TakenDecides
  <2> QED BY <2>2 DEF DecisionByPriority, Decision, As
<1> QED BY <1>1, <1>2, <1>3, PTL DEF Spec

=============================================================================
