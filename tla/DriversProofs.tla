--------------------------- MODULE DriversProofs ----------------------------
(***************************************************************************)
(* Proofs about the handlers with a double fetch, for any number of        *)
(* threads, any contents of user memory, any sizes and any bounds.         *)
(***************************************************************************)
EXTENDS Drivers, FiniteSetTheorems, WellFoundedInduction, TLAPS

\* Whole words, back to words.
LEMMA WordsOfWords == \A n \in Nat, w \in Nat \ {0} : (n * w) \div w = n
<1> SUFFICES ASSUME NEW n \in Nat, NEW w \in Nat \ {0} PROVE (n * w) \div w = n
    OBVIOUS
<1> DEFINE q == (n * w) \div w
           r == (n * w) % w
<1>1. n * w \in Int /\ w \in Int /\ w > 0
  OBVIOUS
<1>2. q \in Int /\ r \in 0 .. w - 1 /\ n * w = w * q + r
  BY <1>1
<1> HIDE DEF q, r
<1>3. q < n => w * q <= w * (n - 1)
  BY <1>1, <1>2
<1>4. q > n => w * q >= w * (n + 1)
  BY <1>1, <1>2
<1>5. w * (n - 1) = n * w - w /\ w * (n + 1) = n * w + w
  BY <1>1
<1>6. ~(q < n) /\ ~(q > n)
  BY <1>1, <1>2, <1>3, <1>4, <1>5
<1> QED
  BY <1>2, <1>6 DEF q

-----------------------------------------------------------------------------
(***************************************************************************)
(* FHandle.                                                                *)
(***************************************************************************)
FPlaces == {"idle", "encode", "give", "refetch", "mount", "decode", "open", "install"}
FResults == {"none", "ok", "ENOMEM", "EOVERFLOW", "EFAULT", "EBADF", "ESTALE", "EMFILE", "error"}

FType ==
  /\ ufh \in FH!Handle
  /\ pc \in [Threads -> FPlaces]
  /\ want \in [Threads -> Files \cup {None}]
  /\ f_handle \in [Threads -> FH!Header \cup {FH!NoHeader}]
  /\ handle \in [Threads -> FH!Handle \cup {FH!NoHandle}]
  /\ heap \subseteq Threads
  /\ fds \in [1 .. MaxFds -> Files \cup Threads \cup {None}]
  /\ ret \in [Threads -> FResults]
  /\ named \in Files \cup {None}
  /\ calls \in 0 .. CallBounds["fhandle"] /\ writes \in 0 .. WriteBounds["fhandle"]

\* What a call under way has fetched, checked and made.
FLocal(t) ==
  /\ pc[t] \in {"encode", "give"} => /\ want[t] \in Files
                                     /\ f_handle[t] \in FH!Header
                                     /\ f_handle[t].bytes <= MaxHandleSz
  /\ pc[t] = "give" =>
       LET e == FH!EncodeFh(want[t], FH!Words(f_handle[t].bytes))
       IN  handle[t] = [hdr |-> [bytes |-> e.words * Word, type |-> e.type], file |-> want[t]]
  /\ pc[t] \in {"refetch", "mount", "decode", "open", "install"} =>
       f_handle[t] \in FH!Header /\ FH!SizeOk(f_handle[t])
  /\ pc[t] \in {"mount", "decode", "open", "install"} =>
       handle[t] \in FH!Handle /\ handle[t].hdr = f_handle[t]
  /\ pc[t] \in {"open", "install"} => handle[t].file \in Files

FShape == \A t \in Threads : FLocal(t)

LEMMA HeaderFacts ==
  /\ FH!NoHeader \notin FH!Header
  /\ \A h \in FH!Header : h.bytes \in Nat /\ h.type \in {"ok", "invalid"}
  /\ \A h \in FH!Handle : h.hdr \in FH!Header /\ h.file \in Files \cup {None}
  /\ \A f \in Files, k \in {"ok", "invalid"} : [bytes |-> Need[f] * Word, type |-> k] \in FH!Header
<1>1. \A f \in Files : Need[f] \in Nat /\ Word * Need[f] \in Nat /\ Need[f] * Word = Word * Need[f]
  BY FHandleAssumption
<1>2. \A h \in FH!Header : h.bytes \in Nat /\ h.type \in {"ok", "invalid"}
  BY <1>1, FHandleAssumption DEF FH!Header
<1>3. FH!NoHeader \notin FH!Header
  BY <1>2 DEF FH!NoHeader
<1>4. \A h \in FH!Handle : h.hdr \in FH!Header /\ h.file \in Files \cup {None}
  BY DEF FH!Handle
<1>5. \A f \in Files, k \in {"ok", "invalid"} : [bytes |-> Need[f] * Word, type |-> k] \in FH!Header
  BY <1>1 DEF FH!Header
<1> QED
  BY <1>2, <1>3, <1>4, <1>5

\* The handle of a file, as encoded for any room.
LEMMA EncodedHandle ==
  ASSUME NEW f \in Files, NEW w
  PROVE  LET e == FH!EncodeFh(f, w)
         IN  /\ e.words = Need[f]
             /\ e.type \in {"ok", "invalid"}
             /\ [hdr |-> [bytes |-> e.words * Word, type |-> e.type], file |-> f] \in FH!Handle
<1>1. FH!EncodeFh(f, w).words = Need[f] /\ FH!EncodeFh(f, w).type \in {"ok", "invalid"}
  BY DEF FH!EncodeFh
<1> QED
  BY <1>1, HeaderFacts DEF FH!Handle

LEMMA FTypeInit == FH!Init => FType /\ FShape
<1> SUFFICES ASSUME FH!Init PROVE FType /\ FShape
  OBVIOUS
<1>1. FType
  <2>1. ufh \in FH!Handle
    BY DEF FH!Init, FH!Handle, FH!Header
  <2> QED
    BY <2>1, BoundsAssumption, FHandleAssumption DEF FH!Init, FType, FPlaces, FResults, Systems
<1>2. FShape
  BY DEF FH!Init, FShape, FLocal
<1> QED
  BY <1>1, <1>2

\* The end of a call.
LEMMA FReturn ==
  ASSUME FType, FShape, NEW t \in Threads, NEW r \in FResults, FH!Return(t, r)
  PROVE  /\ pc' \in [Threads -> FPlaces]
         /\ want' \in [Threads -> Files \cup {None}]
         /\ f_handle' \in [Threads -> FH!Header \cup {FH!NoHeader}]
         /\ handle' \in [Threads -> FH!Handle \cup {FH!NoHandle}]
         /\ ret' \in [Threads -> FResults]
         /\ FShape'
<1>1. /\ pc' \in [Threads -> FPlaces]
      /\ want' \in [Threads -> Files \cup {None}]
      /\ f_handle' \in [Threads -> FH!Header \cup {FH!NoHeader}]
      /\ handle' \in [Threads -> FH!Handle \cup {FH!NoHandle}]
      /\ ret' \in [Threads -> FResults]
  BY DEF FType, FH!Return, FPlaces
<1>2. ASSUME NEW d \in Threads PROVE FLocal(d)'
  <2>1. CASE d = t
    BY <2>1 DEF FH!Return, FLocal, FType
  <2>2. CASE d # t
    BY <2>2 DEF FH!Return, FLocal, FType, FShape, FH!EncodeFh, FH!Words, FH!SizeOk
  <2> QED
    BY <2>1, <2>2
<1> QED
  BY <1>1, <1>2 DEF FShape

\* The actions that end a call, and what else they change.
FEnds(t) == \/ FH!NameNoMemory(t) \/ FH!NameGive(t) \/ FH!NameFaults(t) \/ FH!OpenRefused(t)
            \/ FH!OpenBadDir(t) \/ FH!OpenStale(t) \/ FH!OpenNoFd(t) \/ FH!OpenInstall(t)
            \/ FH!OpenFails(t)

LEMMA FEndsType ==
  ASSUME FType, FShape, NEW t \in Threads, FEnds(t)
  PROVE  FType' /\ FShape'
<1>1. \E r \in FResults : FH!Return(t, r)
  BY DEF FEnds, FResults, FH!NameNoMemory, FH!NameGive, FH!NameFaults, FH!OpenRefused, FH!OpenBadDir,
         FH!OpenStale, FH!OpenNoFd, FH!OpenInstall, FH!OpenFails
<1>2. /\ FShape'
      /\ pc' \in [Threads -> FPlaces]
      /\ want' \in [Threads -> Files \cup {None}]
      /\ f_handle' \in [Threads -> FH!Header \cup {FH!NoHeader}]
      /\ handle' \in [Threads -> FH!Handle \cup {FH!NoHandle}]
      /\ ret' \in [Threads -> FResults]
  BY <1>1, FReturn
<1>3. /\ heap' \subseteq Threads
      /\ calls' \in 0 .. CallBounds["fhandle"] /\ writes' \in 0 .. WriteBounds["fhandle"]
  BY DEF FType, FEnds, FH!NameNoMemory, FH!NameGive, FH!NameFaults, FH!OpenRefused, FH!OpenBadDir,
         FH!OpenStale, FH!OpenNoFd, FH!OpenInstall, FH!OpenFails
<1>4. fds' \in [1 .. MaxFds -> Files \cup Threads \cup {None}]
  <2>1. CASE FH!OpenInstall(t)
    <3>1. handle[t].file \in Files
      BY <2>1 DEF FShape, FLocal, FH!OpenInstall
    <3> QED
      BY <2>1, <3>1 DEF FType, FH!OpenInstall
  <2>2. CASE FH!OpenFails(t)
    BY <2>2 DEF FType, FH!OpenFails
  <2>3. CASE ~FH!OpenInstall(t) /\ ~FH!OpenFails(t)
    BY <2>3 DEF FType, FEnds, FH!NameNoMemory, FH!NameGive, FH!NameFaults, FH!OpenRefused,
                FH!OpenBadDir, FH!OpenStale, FH!OpenNoFd
  <2> QED
    BY <2>1, <2>2, <2>3
<1>5. ufh' \in FH!Handle /\ named' \in Files \cup {None}
  <2>1. CASE FH!NameGive(t)
    <3>1. want[t] \in Files
      BY <2>1 DEF FShape, FLocal, FH!NameGive
    <3> DEFINE e == FH!EncodeFh(want[t], FH!Words(f_handle[t].bytes))
    <3>0. [hdr |-> [bytes |-> e.words * Word, type |-> e.type], file |-> want[t]] \in FH!Handle
      BY <3>1, EncodedHandle
    <3>2. handle[t] \in FH!Handle
      BY <2>1, <3>0 DEF FShape, FLocal, FH!NameGive
    <3>3. handle[t].hdr \in FH!Header /\ handle[t].file \in Files \cup {None}
          /\ ufh.file \in Files \cup {None}
      BY <3>2, HeaderFacts DEF FType
    <3> QED
      BY <2>1, <3>3 DEF FH!NameGive, FH!Handle
  <2>2. CASE ~FH!NameGive(t)
    BY <2>2 DEF FType, FEnds, FH!NameNoMemory, FH!NameFaults, FH!OpenRefused,
                FH!OpenBadDir, FH!OpenStale, FH!OpenNoFd, FH!OpenInstall, FH!OpenFails
  <2> QED
    BY <2>1, <2>2
<1> QED
  BY <1>2, <1>3, <1>4, <1>5 DEF FType

\* A free descriptor is found.
LEMMA FreeFd ==
  ASSUME FType, FH!FreeFds # {}
  PROVE  FH!Min(FH!FreeFds) \in FH!FreeFds
<1>1. FH!FreeFds \subseteq Nat
  BY FHandleAssumption DEF FH!FreeFds, FType
<1> DEFINE R == {ss \in Nat \X Nat : ss[1] < ss[2]}
<1>0. IsWellFoundedOn(R, Nat)
  BY NatLessThanWellFounded DEF OpToRel
<1>2. PICK x \in FH!FreeFds : \A y \in FH!FreeFds : ~(<<y, x>> \in R)
  <2> HIDE DEF R
  <2> QED
    BY <1>0, <1>1, WFMin
<1>3. ASSUME NEW y \in FH!FreeFds PROVE x =< y
  <2>1. x \in Nat /\ y \in Nat
    BY <1>1, <1>2
  <2>2. y < x => <<y, x>> \in R
    BY <2>1
  <2>3. ~(y < x)
    BY <1>2, <2>2
  <2> QED
    BY <2>1, <2>3
<1> QED
  BY <1>3 DEF FH!Min

LEMMA FStepType ==
  ASSUME FType, FShape, FH!Next
  PROVE  FType' /\ FShape'
<1>1. ASSUME FH!UserWrites PROVE FType' /\ FShape'
  <2>1. FType'
    BY <1>1, BoundsAssumption DEF FType, FH!UserWrites, Systems
  <2>2. FShape'
    BY <1>1 DEF FShape, FLocal, FH!UserWrites, FH!EncodeFh, FH!Words, FH!SizeOk
  <2> QED
    BY <2>1, <2>2
<1>2. ASSUME FH!Close PROVE FType' /\ FShape'
  <2>1. FType'
    BY <1>2 DEF FType, FH!Close, FH!PathPut
  <2>2. FShape'
    BY <1>2 DEF FShape, FLocal, FH!Close, FH!EncodeFh, FH!Words, FH!SizeOk
  <2> QED
    BY <2>1, <2>2
<1>3. ASSUME NEW t \in Threads, FH!OpenFetch(t) PROVE FType' /\ FShape'
  <2>0. ufh.hdr \in FH!Header
    BY HeaderFacts DEF FType
  <2>1. FType'
    BY <1>3, <2>0, BoundsAssumption DEF FType, FH!OpenFetch, FH!Begin, Systems, FPlaces, FResults
  <2>2. FLocal(t)'
    BY <1>3, <2>0 DEF FType, FH!OpenFetch, FH!Begin, FShape, FLocal, FH!EncodeFh, FH!Words, FH!SizeOk
  <2>3. ASSUME NEW d \in Threads, d # t PROVE FLocal(d)'
    BY <1>3, <2>3 DEF FType, FH!OpenFetch, FH!Begin, FShape, FLocal, FH!EncodeFh, FH!Words, FH!SizeOk
  <2> QED
    BY <2>1, <2>2, <2>3 DEF FShape
<1>4. ASSUME NEW t \in Threads, NEW f \in Files, FH!NameFetch(t, f) PROVE FType' /\ FShape'
  <2>0. ufh.hdr \in FH!Header
    BY HeaderFacts DEF FType
  <2>1. FType'
    BY <1>4, <2>0, BoundsAssumption DEF FType, FH!NameFetch, FH!Begin, Systems, FPlaces, FResults
  <2>2. FLocal(t)'
    BY <1>4, <2>0 DEF FType, FH!NameFetch, FH!Begin, FShape, FLocal, FH!EncodeFh, FH!Words, FH!SizeOk
  <2>3. ASSUME NEW d \in Threads, d # t PROVE FLocal(d)'
    BY <1>4, <2>3 DEF FType, FH!NameFetch, FH!Begin, FShape, FLocal, FH!EncodeFh, FH!Words, FH!SizeOk
  <2> QED
    BY <2>1, <2>2, <2>3 DEF FShape
<1>5. ASSUME NEW t \in Threads, FH!NameEncode(t) PROVE FType' /\ FShape'
  <2> DEFINE e == FH!EncodeFh(want[t], FH!Words(f_handle[t].bytes))
             h == [hdr |-> [bytes |-> e.words * Word, type |-> e.type], file |-> want[t]]
  <2>0. want[t] \in Files /\ h \in FH!Handle
    BY <1>5, EncodedHandle DEF FShape, FLocal, FH!NameEncode
  <2>1. handle' = [handle EXCEPT ![t] = h]
    BY <1>5 DEF FH!NameEncode, FH!StoredHeader
  <2> HIDE DEF h
  <2>2. FType'
    BY <1>5, <2>0, <2>1 DEF FType, FH!NameEncode, FPlaces
  <2>3. FLocal(t)'
    BY <1>5, <2>0, <2>1 DEF FType, FH!NameEncode, FShape, FLocal, h, FH!EncodeFh, FH!Words
  <2>4. ASSUME NEW d \in Threads, d # t PROVE FLocal(d)'
    BY <1>5, <2>1, <2>4 DEF FType, FH!NameEncode, FShape, FLocal, FH!EncodeFh, FH!Words, FH!SizeOk
  <2> QED
    BY <2>2, <2>3, <2>4 DEF FShape
<1>6. ASSUME NEW t \in Threads, FH!OpenRefetch(t) PROVE FType' /\ FShape'
  <2>1. FType'
    BY <1>6 DEF FType, FH!OpenRefetch, FPlaces
  <2>2. FLocal(t)'
    BY <1>6 DEF FType, FH!OpenRefetch, FH!SameHeader, FShape, FLocal, FH!SizeOk
  <2>3. ASSUME NEW d \in Threads, d # t PROVE FLocal(d)'
    BY <1>6, <2>3 DEF FType, FH!OpenRefetch, FShape, FLocal, FH!EncodeFh, FH!Words, FH!SizeOk
  <2> QED
    BY <2>1, <2>2, <2>3 DEF FShape
<1>7. ASSUME NEW t \in Threads, FH!OpenMount(t) PROVE FType' /\ FShape'
  <2>1. FType'
    BY <1>7 DEF FType, FH!OpenMount, FPlaces
  <2>2. ASSUME NEW d \in Threads PROVE FLocal(d)'
    BY <1>7, <2>2 DEF FType, FH!OpenMount, FShape, FLocal, FH!EncodeFh, FH!Words, FH!SizeOk
  <2> QED
    BY <2>1, <2>2 DEF FShape
<1>8. ASSUME NEW t \in Threads, FH!OpenDecode(t) PROVE FType' /\ FShape'
  <2>1. FType'
    BY <1>8 DEF FType, FH!OpenDecode, FPlaces
  <2>2. handle[t] \in FH!Handle /\ handle[t].file # None
    BY <1>8 DEF FH!OpenDecode, FH!Decodes, FShape, FLocal
  <2>3. handle[t].file \in Files
    BY <2>2, HeaderFacts
  <2>4. ASSUME NEW d \in Threads PROVE FLocal(d)'
    BY <1>8, <2>3 DEF FType, FH!OpenDecode, FShape, FLocal, FH!EncodeFh, FH!Words, FH!SizeOk
  <2> QED
    BY <2>1, <2>4 DEF FShape
<1>9. ASSUME NEW t \in Threads, FH!OpenFd(t) PROVE FType' /\ FShape'
  <2>1. FType'
    BY <1>9 DEF FType, FH!OpenFd, FPlaces
  <2>2. ASSUME NEW d \in Threads PROVE FLocal(d)'
    BY <1>9 DEF FType, FH!OpenFd, FShape, FLocal, FH!EncodeFh, FH!Words, FH!SizeOk
  <2> QED
    BY <2>1, <2>2 DEF FShape
<1>10. ASSUME NEW t \in Threads, FEnds(t) PROVE FType' /\ FShape'
  BY <1>10, FEndsType
<1> QED
  BY <1>1, <1>2, <1>3, <1>4, <1>5, <1>6, <1>7, <1>8, <1>9, <1>10 DEF FH!Next, FH!Step, FEnds

\* The words a handle was stored with are enough to decode it.
LEMMA StoredWords ==
  ASSUME NEW f \in Files
  PROVE  FH!Words(Need[f] * Word) = Need[f] /\ Need[f] * Word > 0
<1>1. Need[f] \in Nat \ {0} /\ Word \in Nat \ {0}
  BY FHandleAssumption
<1>2. FH!Words(Need[f] * Word) = Need[f]
  BY <1>1, WordsOfWords DEF FH!Words
<1>3. Need[f] * Word >= Need[f]
  BY <1>1
<1> QED
  BY <1>1, <1>2, <1>3

\* What a call that has encoded holds.
LEMMA AtGive ==
  ASSUME FType, FShape, NEW t \in Threads, pc[t] = "give"
  PROVE  /\ want[t] \in Files /\ handle[t].file = want[t]
         /\ handle[t].hdr.bytes = Need[want[t]] * Word
         /\ handle[t].hdr.type \in {"ok", "invalid"}
         /\ f_handle[t].bytes \in Nat /\ f_handle[t].bytes <= MaxHandleSz
<1> DEFINE e == FH!EncodeFh(want[t], FH!Words(f_handle[t].bytes))
<1>1. want[t] \in Files /\ f_handle[t] \in FH!Header /\ f_handle[t].bytes <= MaxHandleSz
  BY DEF FShape, FLocal
<1>2. handle[t] = [hdr |-> [bytes |-> e.words * Word, type |-> e.type], file |-> want[t]]
  BY DEF FShape, FLocal
<1>3. e.words = Need[want[t]] /\ e.type \in {"ok", "invalid"}
  BY <1>1, EncodedHandle
<1>4. f_handle[t].bytes \in Nat
  BY <1>1, HeaderFacts
<1> QED
  BY <1>1, <1>2, <1>3, <1>4

LEMMA FRoundTripStep ==
  ASSUME FType, FShape, FH!RoundTrip, FH!Next
  PROVE  FH!RoundTrip'
<1>1. CASE UNCHANGED <<ufh, named>>
  BY <1>1 DEF FH!RoundTrip, FH!Decodes, FH!Words, FH!SizeOk
<1>2. CASE FH!UserWrites
  BY <1>2 DEF FH!UserWrites, FH!RoundTrip
<1>3. ASSUME NEW t \in Threads, FH!NameGive(t) PROVE FH!RoundTrip'
  <2>1. CASE FH!Overflows(t)
    BY <1>3, <2>1 DEF FH!NameGive, FH!RoundTrip
  <2>2. CASE ~FH!Overflows(t)
    <3>0. pc[t] = "give"
      BY <1>3 DEF FH!NameGive
    <3>1. /\ want[t] \in Files /\ handle[t].file = want[t]
          /\ handle[t].hdr.bytes = Need[want[t]] * Word
          /\ handle[t].hdr.type \in {"ok", "invalid"}
          /\ f_handle[t].bytes \in Nat /\ f_handle[t].bytes <= MaxHandleSz
      BY <3>0, AtGive
    <3>2. ufh' = [hdr |-> handle[t].hdr, file |-> want[t]] /\ named' = want[t]
      BY <1>3, <2>2, <3>1 DEF FH!NameGive
    <3>3. handle[t].hdr.type = "ok" /\ ~(handle[t].hdr.bytes > f_handle[t].bytes)
      BY <2>2, <3>1 DEF FH!Overflows
    <3>4. want[t] # None
      BY <3>1, FHandleAssumption
    <3>5. Need[want[t]] \in Nat /\ Need[want[t]] * Word \in Nat /\ MaxHandleSz \in Nat
      BY <3>1, FHandleAssumption
    <3>6. FH!Words(Need[want[t]] * Word) = Need[want[t]] /\ Need[want[t]] * Word > 0
      BY <3>1, StoredWords
    <3>7. FH!Decodes([hdr |-> handle[t].hdr, file |-> want[t]])
      BY <3>1, <3>3, <3>4, <3>5, <3>6 DEF FH!Decodes
    <3>8. FH!SizeOk(handle[t].hdr)
      BY <3>1, <3>3, <3>5, <3>6 DEF FH!SizeOk
    <3>9. FH!Decodes(ufh')
      BY <3>2, <3>7
    <3>10. FH!SizeOk(ufh'.hdr) /\ ufh'.file = named'
      BY <3>2, <3>8
    <3> QED
      BY <3>9, <3>10 DEF FH!RoundTrip, FH!Decodes, FH!SizeOk, FH!Words
  <2> QED
    BY <2>1, <2>2
<1>4. FH!UserWrites \/ (\E t \in Threads : FH!NameGive(t)) \/ UNCHANGED <<ufh, named>>
  <2>1. ASSUME FH!Close PROVE UNCHANGED <<ufh, named>>
    BY <2>1 DEF FH!Close
  <2>2. ASSUME NEW t \in Threads, FH!Step(t), ~FH!NameGive(t) PROVE UNCHANGED <<ufh, named>>
    BY <2>2 DEF FH!Step, FH!NameEncode, FH!NameNoMemory, FH!NameFaults, FH!OpenRefetch,
                FH!OpenRefused, FH!OpenMount, FH!OpenBadDir, FH!OpenDecode, FH!OpenStale,
                FH!OpenFd, FH!OpenNoFd, FH!OpenInstall, FH!OpenFails
  <2>3. ASSUME NEW t \in Threads, FH!OpenFetch(t) PROVE UNCHANGED <<ufh, named>>
    BY <2>3 DEF FH!OpenFetch
  <2>4. ASSUME NEW t \in Threads, NEW f \in Files, FH!NameFetch(t, f) PROVE UNCHANGED <<ufh, named>>
    BY <2>4 DEF FH!NameFetch
  <2> QED
    BY <2>1, <2>2, <2>3, <2>4 DEF FH!Next
<1> QED
  BY <1>1, <1>2, <1>3, <1>4

LEMMA FRetryStep ==
  ASSUME FType, FShape, FH!Next
  PROVE  FH!RetryStep
<1> SUFFICES ASSUME NEW t \in Threads, ret[t] = "none", ret'[t] = "EOVERFLOW"
             PROVE  FH!EncodeFh(want[t], FH!Words(ufh'.hdr.bytes)).type = "ok"
  BY DEF FH!RetryStep
<1>1. ASSUME NEW d \in Threads, NEW r, FH!Return(d, r) PROVE d = t /\ r = "EOVERFLOW"
  BY <1>1 DEF FH!Return, FType
<1>2. ASSUME NEW d \in Threads, FH!Begin(d) PROVE FALSE
  BY <1>2 DEF FH!Begin, FType
<1>3. ret' # ret
  OBVIOUS
<1>4. FH!NameGive(t)
  <2>1. ~FH!UserWrites /\ ~FH!Close
    BY <1>3 DEF FH!UserWrites, FH!Close
  <2>2. ASSUME NEW d \in Threads PROVE ~FH!OpenFetch(d)
    BY <1>2 DEF FH!OpenFetch
  <2>3. ASSUME NEW d \in Threads, NEW f \in Files PROVE ~FH!NameFetch(d, f)
    BY <1>2 DEF FH!NameFetch
  <2>4. PICK d \in Threads : FH!Step(d)
    BY <2>1, <2>2, <2>3 DEF FH!Next
  <2>5. FH!NameGive(d)
    BY <1>1, <1>3, <2>4 DEF FH!Step, FH!NameEncode, FH!NameNoMemory, FH!NameFaults, FH!OpenRefetch,
                FH!OpenRefused, FH!OpenMount, FH!OpenBadDir, FH!OpenDecode, FH!OpenStale,
                FH!OpenFd, FH!OpenNoFd, FH!OpenInstall, FH!OpenFails
  <2>6. d = t
    BY <1>1, <2>5 DEF FH!NameGive
  <2> QED
    BY <2>5, <2>6
<1>5. pc[t] = "give" /\ ufh'.hdr = handle[t].hdr
  BY <1>4 DEF FH!NameGive
<1>6. want[t] \in Files /\ ufh'.hdr.bytes = Need[want[t]] * Word
  BY <1>5, AtGive
<1>7. FH!Words(ufh'.hdr.bytes) = Need[want[t]] /\ Need[want[t]] \in Nat
  BY <1>6, StoredWords, FHandleAssumption
<1> QED
  BY <1>7 DEF FH!EncodeFh

\* How many are at certain places, when one moves.
PlacesIn(D, p, W) == {d \in D : p[d] \in W}

One(v, W) == IF v \in W THEN 1 ELSE 0

LEMMA MoveCount ==
  ASSUME NEW D, NEW p, NEW q, NEW W, NEW t, NEW v,
         IsFiniteSet(D), t \in D, q[t] = v, \A d \in D : d # t => q[d] = p[d]
  PROVE  /\ Cardinality(PlacesIn(D, p, W)) \in Nat
         /\ Cardinality(PlacesIn(D, q, W)) =
              Cardinality(PlacesIn(D, p, W)) + One(v, W) - One(p[t], W)
<1> USE DEF One
<1> DEFINE P == PlacesIn(D, p, W)
           Q == PlacesIn(D, q, W)
<1>1. P \in SUBSET D /\ Q \in SUBSET D
  BY DEF PlacesIn
<1>2. IsFiniteSet(P) /\ IsFiniteSet(Q)
  BY <1>1, FS_Subset
<1>3. Cardinality(P) \in Nat /\ Cardinality(Q) \in Nat
  BY <1>2, FS_CardinalityType
<1>4. t \in P <=> p[t] \in W
  BY DEF PlacesIn
<1>5. CASE v \in W /\ p[t] \in W
  <2>1. Q = P
    BY <1>5 DEF PlacesIn
  <2> QED
    BY <1>2, <1>3, <1>5, <2>1
<1>6. CASE v \notin W /\ p[t] \notin W
  <2>1. Q = P
    BY <1>6 DEF PlacesIn
  <2> QED
    BY <1>2, <1>3, <1>6, <2>1
<1>7. CASE v \in W /\ p[t] \notin W
  <2>1. Q = P \cup {t}
    BY <1>7 DEF PlacesIn
  <2>2. Cardinality(Q) = Cardinality(P) + 1
    BY <1>2, <1>4, <1>7, <2>1, FS_AddElement
  <2> QED
    BY <1>2, <1>3, <1>7, <2>2
<1>8. CASE v \notin W /\ p[t] \in W
  <2>1. Q = P \ {t}
    BY <1>8 DEF PlacesIn
  <2>2. Cardinality(Q) = Cardinality(P) - 1
    BY <1>2, <1>4, <1>8, <2>1, FS_RemoveElement
  <2> QED
    BY <1>2, <1>3, <1>8, <2>2
<1> QED
  BY <1>5, <1>6, <1>7, <1>8

\* A descriptor is reserved by one call.
FReserved == \A m, n \in 1 .. MaxFds : fds[m] \in Threads /\ fds[m] = fds[n] => m = n

FBal == FH!Balanced /\ FReserved

HoldsMnt == {"encode", "give", "decode", "open", "install"}
HoldsDent == {"encode", "give", "open", "install"}
HoldsCopy == {"give", "refetch", "mount", "decode"}
FilesOpen == PlacesIn(1 .. MaxFds, fds, Files)

LEMMA FHCardinality == \A S : FH!Cardinality(S) = Cardinality(S)
BY DEF FH!Cardinality, Cardinality

\* Balanced, in these words.
LEMMA FBalanced ==
  ASSUME FType
  PROVE  FH!Balanced <=>
           /\ mnts = Cardinality(PlacesIn(Threads, pc, HoldsMnt)) + Cardinality(FilesOpen)
           /\ dents = Cardinality(PlacesIn(Threads, pc, HoldsDent)) + Cardinality(FilesOpen)
           /\ heap = PlacesIn(Threads, pc, HoldsCopy)
           /\ \A t \in Threads : pc[t] = "install" <=> \E n \in 1 .. MaxFds : fds[n] = t
<1>1. DOMAIN fds = 1 .. MaxFds
  BY DEF FType
<1>2. FH!OpenFiles = Cardinality(FilesOpen)
  BY <1>1, FHCardinality DEF FH!OpenFiles, PlacesIn, FilesOpen
<1>3. FH!Holding(HoldsMnt) = Cardinality(PlacesIn(Threads, pc, HoldsMnt))
  BY FHCardinality DEF FH!Holding, PlacesIn
<1>4. FH!Holding(HoldsDent) = Cardinality(PlacesIn(Threads, pc, HoldsDent))
  BY FHCardinality DEF FH!Holding, PlacesIn
<1>5. PlacesIn(Threads, pc, HoldsCopy) = {t \in Threads : pc[t] \in HoldsCopy}
  BY DEF PlacesIn
<1> QED
  BY <1>1, <1>2, <1>3, <1>4, <1>5 DEF FH!Balanced, HoldsMnt, HoldsDent, HoldsCopy

LEMMA FBalancedPrime ==
  ASSUME FType'
  PROVE  FH!Balanced' <=>
           /\ mnts' = Cardinality(PlacesIn(Threads, pc', HoldsMnt)) + Cardinality(FilesOpen')
           /\ dents' = Cardinality(PlacesIn(Threads, pc', HoldsDent)) + Cardinality(FilesOpen')
           /\ heap' = PlacesIn(Threads, pc', HoldsCopy)
           /\ \A t \in Threads : pc'[t] = "install" <=> \E n \in 1 .. MaxFds : fds'[n] = t
<1>1. DOMAIN fds' = 1 .. MaxFds
  BY DEF FType
<1>2. FH!OpenFiles' = Cardinality(FilesOpen')
  BY <1>1, FHCardinality DEF FH!OpenFiles, PlacesIn, FilesOpen
<1>3. FH!Holding(HoldsMnt)' = Cardinality(PlacesIn(Threads, pc', HoldsMnt))
  BY FHCardinality DEF FH!Holding, PlacesIn, HoldsMnt
<1>4. FH!Holding(HoldsDent)' = Cardinality(PlacesIn(Threads, pc', HoldsDent))
  BY FHCardinality DEF FH!Holding, PlacesIn, HoldsDent
<1>5. PlacesIn(Threads, pc', HoldsCopy) = {t \in Threads : pc'[t] \in HoldsCopy}
  BY DEF PlacesIn
<1> QED
  BY <1>1, <1>2, <1>3, <1>4, <1>5 DEF FH!Balanced, HoldsMnt, HoldsDent, HoldsCopy

LEMMA FCounts ==
  ASSUME FType
  PROVE  /\ IsFiniteSet(1 .. MaxFds) /\ DOMAIN fds = 1 .. MaxFds /\ DOMAIN pc = Threads
         /\ Cardinality(FilesOpen) \in Nat
         /\ Cardinality(PlacesIn(Threads, pc, HoldsMnt)) \in Nat
         /\ Cardinality(PlacesIn(Threads, pc, HoldsDent)) \in Nat
<1>1. IsFiniteSet(1 .. MaxFds) /\ DOMAIN fds = 1 .. MaxFds /\ DOMAIN pc = Threads
  BY FS_Interval, FHandleAssumption DEF FType
<1>2. /\ FilesOpen \in SUBSET (1 .. MaxFds)
      /\ PlacesIn(Threads, pc, HoldsMnt) \in SUBSET Threads
      /\ PlacesIn(Threads, pc, HoldsDent) \in SUBSET Threads
  BY DEF FilesOpen, PlacesIn
<1>3. /\ IsFiniteSet(FilesOpen) /\ IsFiniteSet(PlacesIn(Threads, pc, HoldsMnt))
      /\ IsFiniteSet(PlacesIn(Threads, pc, HoldsDent))
  BY <1>1, <1>2, FS_Subset, ThreadsAssumption
<1> QED
  BY <1>1, <1>3, FS_CardinalityType

LEMMA PcMoves ==
  ASSUME NEW t \in Threads, NEW W,
         \A d \in Threads : d # t => pc'[d] = pc[d]
  PROVE  Cardinality(PlacesIn(Threads, pc', W)) =
           Cardinality(PlacesIn(Threads, pc, W)) + One(pc'[t], W) - One(pc[t], W)
BY MoveCount, ThreadsAssumption, SMT

LEMMA FdsMove ==
  ASSUME NEW D, IsFiniteSet(D), NEW n \in D, NEW W,
         \A m \in D : m # n => fds'[m] = fds[m]
  PROVE  Cardinality(PlacesIn(D, fds', W)) =
           Cardinality(PlacesIn(D, fds, W)) + One(fds'[n], W) - One(fds[n], W)
BY MoveCount, SMT

LEMMA FilesMove ==
  ASSUME NEW n \in 1 .. MaxFds, \A m \in 1 .. MaxFds : m # n => fds'[m] = fds[m]
  PROVE  Cardinality(FilesOpen') =
           Cardinality(FilesOpen) + One(fds'[n], Files) - One(fds[n], Files)
<1>1. IsFiniteSet(1 .. MaxFds)
  BY FS_Interval, FHandleAssumption
<1> QED
  BY <1>1, FdsMove DEF FilesOpen

\* A call moves and the descriptors stay.
LEMMA FBalMove ==
  ASSUME FType, FType', FBal, NEW t \in Threads, NEW v,
         pc' = [pc EXCEPT ![t] = v], fds' = fds, v # "install", pc[t] # "install",
         heap' = IF v \in HoldsCopy THEN heap \cup {t} ELSE heap \ {t},
         mnts' = mnts + One(v, HoldsMnt) - One(pc[t], HoldsMnt),
         dents' = dents + One(v, HoldsDent) - One(pc[t], HoldsDent)
  PROVE  FBal'
<1>1. /\ mnts = Cardinality(PlacesIn(Threads, pc, HoldsMnt)) + Cardinality(FilesOpen)
      /\ dents = Cardinality(PlacesIn(Threads, pc, HoldsDent)) + Cardinality(FilesOpen)
      /\ heap = PlacesIn(Threads, pc, HoldsCopy)
      /\ \A d \in Threads : pc[d] = "install" <=> \E n \in 1 .. MaxFds : fds[n] = d
  BY FBalanced DEF FBal
<1>2. /\ DOMAIN pc = Threads /\ Cardinality(FilesOpen) \in Nat
      /\ Cardinality(PlacesIn(Threads, pc, HoldsMnt)) \in Nat
      /\ Cardinality(PlacesIn(Threads, pc, HoldsDent)) \in Nat
  BY FCounts
<1>3. FilesOpen' = FilesOpen
  BY DEF FilesOpen, PlacesIn
<1>0. pc'[t] = v /\ \A d \in Threads : d # t => pc'[d] = pc[d]
  BY <1>2
<1>4. Cardinality(PlacesIn(Threads, pc', HoldsMnt)) =
        Cardinality(PlacesIn(Threads, pc, HoldsMnt)) + One(v, HoldsMnt) - One(pc[t], HoldsMnt)
  BY <1>0, PcMoves
<1>5. Cardinality(PlacesIn(Threads, pc', HoldsDent)) =
        Cardinality(PlacesIn(Threads, pc, HoldsDent)) + One(v, HoldsDent) - One(pc[t], HoldsDent)
  BY <1>0, PcMoves
<1>6. mnts' = Cardinality(PlacesIn(Threads, pc', HoldsMnt)) + Cardinality(FilesOpen')
  BY <1>1, <1>2, <1>3, <1>4 DEF One
<1>7. dents' = Cardinality(PlacesIn(Threads, pc', HoldsDent)) + Cardinality(FilesOpen')
  BY <1>1, <1>2, <1>3, <1>5 DEF One
<1>8. heap' = PlacesIn(Threads, pc', HoldsCopy)
  BY <1>1, <1>2 DEF PlacesIn
<1>9. \A d \in Threads : pc'[d] = "install" <=> \E n \in 1 .. MaxFds : fds'[n] = d
  BY <1>1, <1>2
<1>10. FReserved'
  BY DEF FBal, FReserved
<1>11. FH!Balanced'
  BY <1>6, <1>7, <1>8, <1>9, FBalancedPrime
<1> QED
  BY <1>10, <1>11 DEF FBal

\* The descriptor of a call that has reserved one.
LEMMA AtInstall ==
  ASSUME FType, FBal, NEW t \in Threads, pc[t] = "install"
  PROVE  FH!Reserved(t) \in 1 .. MaxFds /\ fds[FH!Reserved(t)] = t
<1>1. \E n \in DOMAIN fds : fds[n] = t
  BY DEF FBal, FH!Balanced
<1>2. FH!Reserved(t) \in DOMAIN fds /\ fds[FH!Reserved(t)] = t
  BY <1>1 DEF FH!Reserved
<1> QED
  BY <1>2 DEF FType

\* A call moves and a descriptor changes.
LEMMA FBalFds ==
  ASSUME FType, FType', FBal, NEW t \in Threads, NEW v, NEW n \in 1 .. MaxFds, NEW x,
         pc' = [pc EXCEPT ![t] = v], fds' = [fds EXCEPT ![n] = x],
         \/ v = "install" /\ pc[t] = "open" /\ fds[n] = None /\ x = t
         \/ v = "idle" /\ pc[t] = "install" /\ fds[n] = t /\ x \in Files \cup {None},
         heap' = heap,
         mnts' = mnts - One(x, {None}), dents' = dents - One(x, {None})
  PROVE  FBal'
<1>1. /\ mnts = Cardinality(PlacesIn(Threads, pc, HoldsMnt)) + Cardinality(FilesOpen)
      /\ dents = Cardinality(PlacesIn(Threads, pc, HoldsDent)) + Cardinality(FilesOpen)
      /\ heap = PlacesIn(Threads, pc, HoldsCopy)
      /\ \A d \in Threads : pc[d] = "install" <=> \E m \in 1 .. MaxFds : fds[m] = d
  BY FBalanced DEF FBal
<1>2. /\ DOMAIN pc = Threads /\ DOMAIN fds = 1 .. MaxFds /\ Cardinality(FilesOpen) \in Nat
      /\ Cardinality(PlacesIn(Threads, pc, HoldsMnt)) \in Nat
      /\ Cardinality(PlacesIn(Threads, pc, HoldsDent)) \in Nat
  BY FCounts
<1>3. pc'[t] = v /\ \A d \in Threads : d # t => pc'[d] = pc[d]
  BY <1>2
<1>4. fds'[n] = x /\ \A m \in 1 .. MaxFds : m # n => fds'[m] = fds[m]
  BY <1>2
<1>5. Cardinality(PlacesIn(Threads, pc', HoldsMnt)) =
        Cardinality(PlacesIn(Threads, pc, HoldsMnt)) + One(v, HoldsMnt) - One(pc[t], HoldsMnt)
  BY <1>3, PcMoves
<1>6. Cardinality(PlacesIn(Threads, pc', HoldsDent)) =
        Cardinality(PlacesIn(Threads, pc, HoldsDent)) + One(v, HoldsDent) - One(pc[t], HoldsDent)
  BY <1>3, PcMoves
<1>7. Cardinality(FilesOpen') = Cardinality(FilesOpen) + One(x, Files) - One(fds[n], Files)
  BY <1>4, FilesMove
<1>8. /\ One(v, HoldsMnt) - One(pc[t], HoldsMnt) + One(x, Files) - One(fds[n], Files) = 0 - One(x, {None})
      /\ One(v, HoldsDent) - One(pc[t], HoldsDent) + One(x, Files) - One(fds[n], Files) = 0 - One(x, {None})
  <2>1. CASE v = "install" /\ pc[t] = "open" /\ fds[n] = None /\ x = t
    <3>1. x \notin Files /\ fds[n] \notin Files /\ x # None
      BY <2>1, FHandleAssumption, ThreadsAssumption
    <3> QED
      BY <2>1, <3>1 DEF One, HoldsMnt, HoldsDent
  <2>2. CASE v = "idle" /\ pc[t] = "install" /\ fds[n] = t /\ x \in Files
    <3>1. x \in Files /\ fds[n] \notin Files /\ x # None
      BY <2>2, FHandleAssumption, ThreadsAssumption
    <3> QED
      BY <2>2, <3>1 DEF One, HoldsMnt, HoldsDent
  <2>3. CASE v = "idle" /\ pc[t] = "install" /\ fds[n] = t /\ x = None
    <3>1. x \notin Files /\ fds[n] \notin Files
      BY <2>3, FHandleAssumption, ThreadsAssumption
    <3> QED
      BY <2>3, <3>1 DEF One, HoldsMnt, HoldsDent
  <2> QED
    BY <2>1, <2>2, <2>3
<1>9. /\ One(v, HoldsMnt) \in {0, 1} /\ One(pc[t], HoldsMnt) \in {0, 1}
      /\ One(v, HoldsDent) \in {0, 1} /\ One(pc[t], HoldsDent) \in {0, 1}
      /\ One(x, Files) \in {0, 1} /\ One(fds[n], Files) \in {0, 1} /\ One(x, {None}) \in {0, 1}
  BY DEF One
<1>10. mnts' = Cardinality(PlacesIn(Threads, pc', HoldsMnt)) + Cardinality(FilesOpen')
  BY <1>1, <1>2, <1>5, <1>7, <1>8, <1>9
<1>11. dents' = Cardinality(PlacesIn(Threads, pc', HoldsDent)) + Cardinality(FilesOpen')
  BY <1>1, <1>2, <1>6, <1>7, <1>8, <1>9
<1>12. heap' = PlacesIn(Threads, pc', HoldsCopy)
  BY <1>1, <1>3 DEF PlacesIn, HoldsCopy
<1>13. \A d \in Threads : d # None /\ d \notin Files
  BY FHandleAssumption, ThreadsAssumption
<1>14. ASSUME NEW d \in Threads PROVE pc'[d] = "install" <=> \E m \in 1 .. MaxFds : fds'[m] = d
  <2>1. CASE d # t
    <3>1. x # d /\ fds[n] # d
      BY <1>13, <2>1
    <3> QED
      BY <1>1, <1>3, <1>4, <2>1, <3>1
  <2>2. CASE d = t /\ v = "install"
    BY <1>3, <1>4, <2>2
  <2>3. CASE d = t /\ v = "idle"
    <3>1. fds[n] = t /\ x # t
      BY <1>13, <2>3
    <3>2. \A m \in 1 .. MaxFds : fds[m] = t => m = n
      BY <3>1 DEF FBal, FReserved
    <3> QED
      BY <1>3, <1>4, <2>3, <3>1, <3>2
  <2> QED
    BY <2>1, <2>2, <2>3
<1>15. FReserved'
  <2>1. CASE x = t /\ pc[t] = "open"
    <3>1. \A m \in 1 .. MaxFds : fds[m] # t
      BY <1>1, <2>1
    <3> QED
      BY <1>4, <2>1, <3>1 DEF FBal, FReserved
  <2>2. CASE x \in Files \cup {None}
    <3>1. x \notin Threads
      BY <1>13, <2>2
    <3> QED
      BY <1>4, <3>1 DEF FBal, FReserved
  <2> QED
    BY <2>1, <2>2
<1>16. FH!Balanced'
  BY <1>10, <1>11, <1>12, <1>14, FBalancedPrime
<1> QED
  BY <1>15, <1>16 DEF FBal

\* A file is closed.
LEMMA FBalClose ==
  ASSUME FType, FType', FBal, FH!Close
  PROVE  FBal'
<1>1. /\ mnts = Cardinality(PlacesIn(Threads, pc, HoldsMnt)) + Cardinality(FilesOpen)
      /\ dents = Cardinality(PlacesIn(Threads, pc, HoldsDent)) + Cardinality(FilesOpen)
      /\ heap = PlacesIn(Threads, pc, HoldsCopy)
      /\ \A d \in Threads : pc[d] = "install" <=> \E m \in 1 .. MaxFds : fds[m] = d
  BY FBalanced DEF FBal
<1>2. /\ DOMAIN fds = 1 .. MaxFds /\ Cardinality(FilesOpen) \in Nat
      /\ Cardinality(PlacesIn(Threads, pc, HoldsMnt)) \in Nat
      /\ Cardinality(PlacesIn(Threads, pc, HoldsDent)) \in Nat
  BY FCounts
<1>3. PICK n \in 1 .. MaxFds : fds[n] \in Files /\ fds' = [fds EXCEPT ![n] = None]
  BY <1>2 DEF FH!Close
<1>4. fds'[n] = None /\ \A m \in 1 .. MaxFds : m # n => fds'[m] = fds[m]
  BY <1>2, <1>3
<1>5. Cardinality(FilesOpen') = Cardinality(FilesOpen) + One(None, Files) - One(fds[n], Files)
  BY <1>4, FilesMove
<1>6. One(None, Files) = 0 /\ One(fds[n], Files) = 1
  BY <1>3, FHandleAssumption DEF One
<1>7. mnts' = mnts - 1 /\ dents' = dents - 1 /\ pc' = pc /\ heap' = heap
  BY DEF FH!Close, FH!PathPut
<1>8. mnts' = Cardinality(PlacesIn(Threads, pc', HoldsMnt)) + Cardinality(FilesOpen')
  BY <1>1, <1>2, <1>5, <1>6, <1>7
<1>9. dents' = Cardinality(PlacesIn(Threads, pc', HoldsDent)) + Cardinality(FilesOpen')
  BY <1>1, <1>2, <1>5, <1>6, <1>7
<1>10. \A d \in Threads : d # None /\ d # fds[n]
  BY <1>3, FHandleAssumption, ThreadsAssumption
<1>11. \A d \in Threads : pc'[d] = "install" <=> \E m \in 1 .. MaxFds : fds'[m] = d
  BY <1>1, <1>4, <1>7, <1>10
<1>12. FReserved'
  BY <1>4, <1>10 DEF FBal, FReserved
<1>13. FH!Balanced'
  BY <1>1, <1>7, <1>8, <1>9, <1>11, FBalancedPrime
<1> QED
  BY <1>12, <1>13 DEF FBal

LEMMA FBalInit ==
  ASSUME FH!Init PROVE FBal
<1>1. FType
  BY FTypeInit
<1>2. PlacesIn(Threads, pc, HoldsMnt) = {} /\ PlacesIn(Threads, pc, HoldsDent) = {}
      /\ PlacesIn(Threads, pc, HoldsCopy) = {}
  BY DEF FH!Init, PlacesIn, HoldsMnt, HoldsDent, HoldsCopy
<1>3. FilesOpen = {}
  BY FHandleAssumption DEF FH!Init, FilesOpen, PlacesIn
<1>4. \A t \in Threads, n \in 1 .. MaxFds : fds[n] # t /\ fds[n] \notin Threads /\ pc[t] # "install"
  BY ThreadsAssumption DEF FH!Init
<1>5. FReserved
  BY ThreadsAssumption DEF FH!Init, FReserved
<1>6. mnts = 0 /\ dents = 0 /\ heap = {} /\ Cardinality({}) = 0
  BY FS_EmptySet DEF FH!Init
<1>7. \A t \in Threads : pc[t] = "install" <=> \E n \in 1 .. MaxFds : fds[n] = t
  <2>1. \A t \in Threads : pc[t] # "install"
    BY DEF FH!Init
  <2> QED
    BY <1>4, <2>1
<1>8. FH!Balanced
  BY <1>1, <1>2, <1>3, <1>6, <1>7, FBalanced
<1> QED
  BY <1>5, <1>8 DEF FBal

LEMMA FBalStep ==
  ASSUME FType, FType', FShape, FBal, FH!Next
  PROVE  FBal'
<1>0. DOMAIN fds = 1 .. MaxFds /\ \A t \in Threads : t \in heap <=> pc[t] \in HoldsCopy
  BY DEF FType, FBal, FH!Balanced, HoldsCopy
<1>00. mnts \in Nat /\ dents \in Nat
  <2>1. /\ mnts = Cardinality(PlacesIn(Threads, pc, HoldsMnt)) + Cardinality(FilesOpen)
        /\ dents = Cardinality(PlacesIn(Threads, pc, HoldsDent)) + Cardinality(FilesOpen)
    BY FBalanced DEF FBal
  <2> QED
    BY <2>1, FCounts
<1>1. ASSUME FH!UserWrites PROVE FBal'
  BY <1>1 DEF FH!UserWrites, FBal, FReserved, FH!Balanced, FH!Holding, FH!OpenFiles
<1>2. ASSUME FH!Close PROVE FBal'
  BY <1>2, FBalClose
<1>4. ASSUME UNCHANGED <<pc, fds, heap, mnts, dents>> PROVE FBal'
  BY <1>4 DEF FBal, FReserved, FH!Balanced, FH!Holding, FH!OpenFiles
<1>5. ASSUME NEW t \in Threads, NEW f \in Files, FH!NameFetch(t, f) PROVE FBal'
  <2>1. CASE ufh.hdr.bytes <= MaxHandleSz
    <3>1. /\ pc[t] = "idle" /\ pc' = [pc EXCEPT ![t] = "encode"] /\ fds' = fds /\ heap' = heap
          /\ mnts' = mnts + 1 /\ dents' = dents + 1
      BY <1>5, <2>1 DEF FH!NameFetch, FH!Begin
    <3>2. heap' = heap \ {t}
      BY <1>0, <3>1 DEF HoldsCopy
    <3>9. /\ mnts' = mnts + One("encode", HoldsMnt) - One(pc[t], HoldsMnt)
          /\ dents' = dents + One("encode", HoldsDent) - One(pc[t], HoldsDent)
          /\ heap' = IF "encode" \in HoldsCopy THEN heap \cup {t} ELSE heap \ {t}
      BY <1>00, <3>1, <3>2 DEF One, HoldsMnt, HoldsDent, HoldsCopy
    <3> QED
      BY <3>1, <3>9, FBalMove
  <2>2. CASE ~(ufh.hdr.bytes <= MaxHandleSz)
    BY <1>4, <1>5, <2>2 DEF FH!NameFetch
  <2> QED
    BY <2>1, <2>2
<1>6. ASSUME NEW t \in Threads, FH!OpenFetch(t) PROVE FBal'
  <2>1. CASE FH!SizeOk(ufh.hdr)
    <3>1. /\ pc[t] = "idle" /\ pc' = [pc EXCEPT ![t] = "refetch"] /\ fds' = fds
          /\ heap' = heap \cup {t} /\ mnts' = mnts /\ dents' = dents
      BY <1>6, <2>1 DEF FH!OpenFetch, FH!Begin
    <3>9. /\ mnts' = mnts + One("refetch", HoldsMnt) - One(pc[t], HoldsMnt)
          /\ dents' = dents + One("refetch", HoldsDent) - One(pc[t], HoldsDent)
          /\ heap' = IF "refetch" \in HoldsCopy THEN heap \cup {t} ELSE heap \ {t}
      BY <1>00, <3>1 DEF One, HoldsMnt, HoldsDent, HoldsCopy
    <3> QED
      BY <3>1, <3>9, FBalMove
  <2>2. CASE ~FH!SizeOk(ufh.hdr)
    BY <1>4, <1>6, <2>2 DEF FH!OpenFetch
  <2> QED
    BY <2>1, <2>2
<1>7. ASSUME NEW t \in Threads, FH!NameEncode(t) PROVE FBal'
  <2>1. /\ pc[t] = "encode" /\ pc' = [pc EXCEPT ![t] = "give"] /\ fds' = fds
        /\ heap' = heap \cup {t} /\ mnts' = mnts /\ dents' = dents
    BY <1>7 DEF FH!NameEncode
  <2>9. /\ mnts' = mnts + One("give", HoldsMnt) - One(pc[t], HoldsMnt)
        /\ dents' = dents + One("give", HoldsDent) - One(pc[t], HoldsDent)
        /\ heap' = IF "give" \in HoldsCopy THEN heap \cup {t} ELSE heap \ {t}
    BY <1>00, <2>1 DEF One, HoldsMnt, HoldsDent, HoldsCopy
  <2> QED
    BY <2>1, <2>9, FBalMove
<1>8. ASSUME NEW t \in Threads, FH!NameNoMemory(t) PROVE FBal'
  <2>1. /\ pc[t] = "encode" /\ pc' = [pc EXCEPT ![t] = "idle"] /\ fds' = fds /\ heap' = heap
        /\ mnts' = mnts - 1 /\ dents' = dents - 1
    BY <1>8 DEF FH!NameNoMemory, FH!Return
  <2>2. heap' = heap \ {t}
    BY <1>0, <2>1 DEF HoldsCopy
  <2>9. /\ mnts' = mnts + One("idle", HoldsMnt) - One(pc[t], HoldsMnt)
        /\ dents' = dents + One("idle", HoldsDent) - One(pc[t], HoldsDent)
        /\ heap' = IF "idle" \in HoldsCopy THEN heap \cup {t} ELSE heap \ {t}
    BY <1>00, <2>1, <2>2 DEF One, HoldsMnt, HoldsDent, HoldsCopy
  <2> QED
    BY <2>1, <2>9, FBalMove
<1>9. ASSUME NEW t \in Threads, FH!NameGive(t) \/ FH!NameFaults(t) PROVE FBal'
  <2>1. /\ pc[t] = "give" /\ pc' = [pc EXCEPT ![t] = "idle"] /\ fds' = fds
        /\ heap' = heap \ {t} /\ mnts' = mnts - 1 /\ dents' = dents - 1
    BY <1>9 DEF FH!NameGive, FH!NameFaults, FH!Return
  <2>9. /\ mnts' = mnts + One("idle", HoldsMnt) - One(pc[t], HoldsMnt)
        /\ dents' = dents + One("idle", HoldsDent) - One(pc[t], HoldsDent)
        /\ heap' = IF "idle" \in HoldsCopy THEN heap \cup {t} ELSE heap \ {t}
    BY <1>00, <2>1 DEF One, HoldsMnt, HoldsDent, HoldsCopy
  <2> QED
    BY <2>1, <2>9, FBalMove
<1>10. ASSUME NEW t \in Threads, FH!OpenRefetch(t) PROVE FBal'
  <2>1. /\ pc[t] = "refetch" /\ pc' = [pc EXCEPT ![t] = "mount"] /\ fds' = fds
        /\ heap' = heap /\ mnts' = mnts /\ dents' = dents
    BY <1>10 DEF FH!OpenRefetch
  <2>2. heap' = heap \cup {t}
    BY <1>0, <2>1 DEF HoldsCopy
  <2>9. /\ mnts' = mnts + One("mount", HoldsMnt) - One(pc[t], HoldsMnt)
        /\ dents' = dents + One("mount", HoldsDent) - One(pc[t], HoldsDent)
        /\ heap' = IF "mount" \in HoldsCopy THEN heap \cup {t} ELSE heap \ {t}
    BY <1>00, <2>1, <2>2 DEF One, HoldsMnt, HoldsDent, HoldsCopy
  <2> QED
    BY <2>1, <2>9, FBalMove
<1>11. ASSUME NEW t \in Threads, FH!OpenRefused(t) \/ FH!OpenBadDir(t) PROVE FBal'
  <2>1. /\ pc[t] \in {"refetch", "mount"} /\ pc' = [pc EXCEPT ![t] = "idle"] /\ fds' = fds
        /\ heap' = heap \ {t} /\ mnts' = mnts /\ dents' = dents
    BY <1>11 DEF FH!OpenRefused, FH!OpenBadDir, FH!Return
  <2>9. /\ mnts' = mnts + One("idle", HoldsMnt) - One(pc[t], HoldsMnt)
        /\ dents' = dents + One("idle", HoldsDent) - One(pc[t], HoldsDent)
        /\ heap' = IF "idle" \in HoldsCopy THEN heap \cup {t} ELSE heap \ {t}
    BY <1>00, <2>1 DEF One, HoldsMnt, HoldsDent, HoldsCopy
  <2> QED
    BY <2>1, <2>9, FBalMove
<1>12. ASSUME NEW t \in Threads, FH!OpenMount(t) PROVE FBal'
  <2>1. /\ pc[t] = "mount" /\ pc' = [pc EXCEPT ![t] = "decode"] /\ fds' = fds
        /\ heap' = heap /\ mnts' = mnts + 1 /\ dents' = dents
    BY <1>12 DEF FH!OpenMount
  <2>2. heap' = heap \cup {t}
    BY <1>0, <2>1 DEF HoldsCopy
  <2>9. /\ mnts' = mnts + One("decode", HoldsMnt) - One(pc[t], HoldsMnt)
        /\ dents' = dents + One("decode", HoldsDent) - One(pc[t], HoldsDent)
        /\ heap' = IF "decode" \in HoldsCopy THEN heap \cup {t} ELSE heap \ {t}
    BY <1>00, <2>1, <2>2 DEF One, HoldsMnt, HoldsDent, HoldsCopy
  <2> QED
    BY <2>1, <2>9, FBalMove
<1>13. ASSUME NEW t \in Threads, FH!OpenDecode(t) PROVE FBal'
  <2>1. /\ pc[t] = "decode" /\ pc' = [pc EXCEPT ![t] = "open"] /\ fds' = fds
        /\ heap' = heap \ {t} /\ mnts' = mnts /\ dents' = dents + 1
    BY <1>13 DEF FH!OpenDecode
  <2>9. /\ mnts' = mnts + One("open", HoldsMnt) - One(pc[t], HoldsMnt)
        /\ dents' = dents + One("open", HoldsDent) - One(pc[t], HoldsDent)
        /\ heap' = IF "open" \in HoldsCopy THEN heap \cup {t} ELSE heap \ {t}
    BY <1>00, <2>1 DEF One, HoldsMnt, HoldsDent, HoldsCopy
  <2> QED
    BY <2>1, <2>9, FBalMove
<1>14. ASSUME NEW t \in Threads, FH!OpenStale(t) PROVE FBal'
  <2>1. /\ pc[t] = "decode" /\ pc' = [pc EXCEPT ![t] = "idle"] /\ fds' = fds
        /\ heap' = heap \ {t} /\ mnts' = mnts - 1 /\ dents' = dents
    BY <1>14 DEF FH!OpenStale, FH!Return
  <2>9. /\ mnts' = mnts + One("idle", HoldsMnt) - One(pc[t], HoldsMnt)
        /\ dents' = dents + One("idle", HoldsDent) - One(pc[t], HoldsDent)
        /\ heap' = IF "idle" \in HoldsCopy THEN heap \cup {t} ELSE heap \ {t}
    BY <1>00, <2>1 DEF One, HoldsMnt, HoldsDent, HoldsCopy
  <2> QED
    BY <2>1, <2>9, FBalMove
<1>15. ASSUME NEW t \in Threads, FH!OpenNoFd(t) PROVE FBal'
  <2>1. /\ pc[t] = "open" /\ pc' = [pc EXCEPT ![t] = "idle"] /\ fds' = fds
        /\ heap' = heap /\ mnts' = mnts - 1 /\ dents' = dents - 1
    BY <1>15 DEF FH!OpenNoFd, FH!Return, FH!PathPut
  <2>2. heap' = heap \ {t}
    BY <1>0, <2>1 DEF HoldsCopy
  <2>9. /\ mnts' = mnts + One("idle", HoldsMnt) - One(pc[t], HoldsMnt)
        /\ dents' = dents + One("idle", HoldsDent) - One(pc[t], HoldsDent)
        /\ heap' = IF "idle" \in HoldsCopy THEN heap \cup {t} ELSE heap \ {t}
    BY <1>00, <2>1, <2>2 DEF One, HoldsMnt, HoldsDent, HoldsCopy
  <2> QED
    BY <2>1, <2>9, FBalMove
<1>16. ASSUME NEW t \in Threads, FH!OpenFd(t) PROVE FBal'
  <2> DEFINE n == FH!Min(FH!FreeFds)
  <2>1. /\ pc[t] = "open" /\ pc' = [pc EXCEPT ![t] = "install"] /\ fds' = [fds EXCEPT ![n] = t]
        /\ heap' = heap /\ mnts' = mnts /\ dents' = dents
    BY <1>16 DEF FH!OpenFd
  <2>2. n \in FH!FreeFds
    BY <1>16, FreeFd DEF FH!OpenFd
  <2>3. n \in 1 .. MaxFds /\ fds[n] = None /\ t # None
    BY <1>0, <2>2, ThreadsAssumption DEF FH!FreeFds
  <2> HIDE DEF n
  <2>4. mnts' = mnts - One(t, {None}) /\ dents' = dents - One(t, {None})
    BY <1>00, <2>1, <2>3 DEF One
  <2> QED
    BY <2>1, <2>3, <2>4, FBalFds
<1>17. ASSUME NEW t \in Threads, FH!OpenInstall(t) PROVE FBal'
  <2> DEFINE n == FH!Reserved(t)
  <2>1. /\ pc[t] = "install" /\ pc' = [pc EXCEPT ![t] = "idle"]
        /\ fds' = [fds EXCEPT ![n] = handle[t].file]
        /\ heap' = heap /\ mnts' = mnts /\ dents' = dents
    BY <1>17 DEF FH!OpenInstall, FH!Return
  <2>2. n \in 1 .. MaxFds /\ fds[n] = t
    BY <2>1, AtInstall
  <2>3. handle[t].file \in Files /\ handle[t].file # None
    BY <2>1, FHandleAssumption DEF FShape, FLocal
  <2> HIDE DEF n
  <2>4. mnts' = mnts - One(handle[t].file, {None}) /\ dents' = dents - One(handle[t].file, {None})
    BY <1>00, <2>1, <2>3 DEF One
  <2> QED
    BY <2>1, <2>2, <2>3, <2>4, FBalFds
<1>18. ASSUME NEW t \in Threads, FH!OpenFails(t) PROVE FBal'
  <2> DEFINE n == FH!Reserved(t)
  <2>1. /\ pc[t] = "install" /\ pc' = [pc EXCEPT ![t] = "idle"] /\ fds' = [fds EXCEPT ![n] = None]
        /\ heap' = heap /\ mnts' = mnts - 1 /\ dents' = dents - 1
    BY <1>18 DEF FH!OpenFails, FH!Return, FH!PathPut
  <2>2. n \in 1 .. MaxFds /\ fds[n] = t
    BY <2>1, AtInstall
  <2> HIDE DEF n
  <2>4. mnts' = mnts - One(None, {None}) /\ dents' = dents - One(None, {None})
    BY <1>00, <2>1 DEF One
  <2> QED
    BY <2>1, <2>2, <2>4, FBalFds
<1> QED
  BY <1>1, <1>2, <1>5, <1>6, <1>7, <1>8, <1>9, <1>10, <1>11, <1>12, <1>13, <1>14, <1>15, <1>16,
     <1>17, <1>18 DEF FH!Next, FH!Step

-----------------------------------------------------------------------------
(***************************************************************************)
(* The patched handle_to_path implements CheckedFetch.                     *)
(***************************************************************************)
Acts == {"mount", "decode", "open", "install"}

PhaseAt(t) == FH!Phase(t)
HeaderAt(t) == FH!ActsOn(t)

\* What a caller is doing, by the place of its call.
LEMMA PhaseFacts ==
  ASSUME NEW t
  PROVE  /\ pc[t] = "refetch" => PhaseAt(t) = "checked" /\ HeaderAt(t) = f_handle[t]
         /\ pc[t] \in Acts => PhaseAt(t) = "acts" /\ HeaderAt(t) = handle[t].hdr
         /\ pc[t] \in {"idle", "encode", "give"} => PhaseAt(t) = "idle" /\ HeaderAt(t) = FH!NoHeader
<1>1. pc[t] = "refetch" => PhaseAt(t) = "checked"
  BY DEF PhaseAt, FH!Phase
<1>2. pc[t] \in Acts => PhaseAt(t) = "acts"
  BY DEF PhaseAt, FH!Phase, Acts
<1>3. pc[t] \in {"idle", "encode", "give"} => PhaseAt(t) = "idle"
  BY DEF PhaseAt, FH!Phase
<1>4. /\ PhaseAt(t) = "checked" => HeaderAt(t) = f_handle[t]
      /\ PhaseAt(t) = "acts" => HeaderAt(t) = handle[t].hdr
      /\ PhaseAt(t) = "idle" => HeaderAt(t) = FH!NoHeader
  BY DEF PhaseAt, HeaderAt, FH!ActsOn
<1> QED
  BY <1>1, <1>2, <1>3, <1>4

LEMMA PhaseFactsPrime ==
  ASSUME NEW t
  PROVE  /\ pc'[t] = "refetch" => PhaseAt(t)' = "checked" /\ HeaderAt(t)' = f_handle'[t]
         /\ pc'[t] \in Acts => PhaseAt(t)' = "acts" /\ HeaderAt(t)' = handle'[t].hdr
         /\ pc'[t] \in {"idle", "encode", "give"} => /\ PhaseAt(t)' = "idle"
                                                     /\ HeaderAt(t)' = FH!NoHeader
<1>1. pc'[t] = "refetch" => PhaseAt(t)' = "checked"
  BY DEF PhaseAt, FH!Phase
<1>2. pc'[t] \in Acts => PhaseAt(t)' = "acts"
  BY DEF PhaseAt, FH!Phase, Acts
<1>3. pc'[t] \in {"idle", "encode", "give"} => PhaseAt(t)' = "idle"
  BY DEF PhaseAt, FH!Phase
<1>4. /\ PhaseAt(t)' = "checked" => HeaderAt(t)' = f_handle'[t]
      /\ PhaseAt(t)' = "acts" => HeaderAt(t)' = handle'[t].hdr
      /\ PhaseAt(t)' = "idle" => HeaderAt(t)' = FH!NoHeader
  BY DEF PhaseAt, HeaderAt, FH!ActsOn, FH!NoHeader
<1> QED
  BY <1>1, <1>2, <1>3, <1>4

\* A step that touches one caller only.
LEMMA OthersStay ==
  ASSUME NEW d, pc'[d] = pc[d], f_handle'[d] = f_handle[d], handle'[d] = handle[d],
         pc[d] \in FPlaces
  PROVE  PhaseAt(d)' = PhaseAt(d) /\ HeaderAt(d)' = HeaderAt(d)
BY PhaseFacts, PhaseFactsPrime DEF FPlaces, Acts

\* The step of one caller, and that of the promise it takes.
FSame(t) == PhaseAt(t)' = PhaseAt(t) /\ HeaderAt(t)' = HeaderAt(t)
FCheck(t) == /\ PhaseAt(t) = "idle" /\ PhaseAt(t)' = "checked"
             /\ HeaderAt(t)' \in {h \in FH!Header : FH!SizeOk(h)}
FAct(t) == PhaseAt(t) = "checked" /\ PhaseAt(t)' = "acts" /\ HeaderAt(t)' = HeaderAt(t)
FLeave(t) == PhaseAt(t) # "idle" /\ PhaseAt(t)' = "idle" /\ HeaderAt(t)' = FH!NoHeader

LEMMA FPhaseStep ==
  ASSUME FType, FShape, FH!Next
  PROVE  \/ \A d \in Threads : FSame(d)
         \/ \E t \in Threads : /\ \A d \in Threads : d # t => FSame(d)
                               /\ FSame(t) \/ FCheck(t) \/ FAct(t) \/ FLeave(t)
<1>0. \A d \in Threads : pc[d] \in FPlaces
  BY DEF FType
<1>1. ASSUME UNCHANGED <<pc, f_handle, handle>> PROVE \A d \in Threads : FSame(d)
  BY <1>0, <1>1, OthersStay DEF FSame
<1> DEFINE Only(t) == \A d \in Threads : d # t => FSame(d)
<1>2. ASSUME NEW t \in Threads, NEW r, FH!Return(t, r) PROVE Only(t)
  <2>1. ASSUME NEW d \in Threads, d # t
        PROVE  pc'[d] = pc[d] /\ f_handle'[d] = f_handle[d] /\ handle'[d] = handle[d]
    BY <1>2, <2>1 DEF FH!Return, FType
  <2> QED
    BY <1>0, <2>1, OthersStay DEF FSame
<1>3. ASSUME NEW t \in Threads, NEW r, FH!Return(t, r)
      PROVE  PhaseAt(t)' = "idle" /\ HeaderAt(t)' = FH!NoHeader
  <2>1. pc'[t] = "idle"
    BY <1>3 DEF FH!Return, FType
  <2> QED
    BY <2>1, PhaseFactsPrime
<1>4. ASSUME NEW t \in Threads,
             FH!NameNoMemory(t) \/ FH!NameGive(t) \/ FH!NameFaults(t)
      PROVE  Only(t) /\ FSame(t)
  <2>1. (\E r : FH!Return(t, r)) /\ pc[t] \in {"encode", "give"}
    BY <1>4 DEF FH!NameNoMemory, FH!NameGive, FH!NameFaults
  <2>2. PhaseAt(t) = "idle" /\ HeaderAt(t) = FH!NoHeader
    BY <2>1, PhaseFacts
  <2> QED
    BY <1>2, <1>3, <2>1, <2>2 DEF FSame
<1>5. ASSUME NEW t \in Threads,
             \/ FH!OpenRefused(t) \/ FH!OpenBadDir(t) \/ FH!OpenStale(t) \/ FH!OpenNoFd(t)
             \/ FH!OpenInstall(t) \/ FH!OpenFails(t)
      PROVE  Only(t) /\ FLeave(t)
  <2>1. (\E r : FH!Return(t, r)) /\ pc[t] \in {"refetch", "mount", "decode", "open", "install"}
    BY <1>5 DEF FH!OpenRefused, FH!OpenBadDir, FH!OpenStale, FH!OpenNoFd, FH!OpenInstall, FH!OpenFails
  <2>2. PhaseAt(t) # "idle"
    BY <2>1, PhaseFacts DEF Acts
  <2> QED
    BY <1>2, <1>3, <2>1, <2>2 DEF FLeave
<1>6. ASSUME NEW t \in Threads, NEW f \in Files, FH!NameFetch(t, f)
      PROVE  Only(t) /\ FSame(t)
  <2>1. pc[t] = "idle" /\ pc'[t] \in {"idle", "encode"}
    BY <1>6 DEF FH!NameFetch, FH!Begin, FType
  <2>2. FSame(t)
    BY <2>1, PhaseFacts, PhaseFactsPrime DEF FSame
  <2>3. ASSUME NEW d \in Threads, d # t
        PROVE  pc'[d] = pc[d] /\ f_handle'[d] = f_handle[d] /\ handle'[d] = handle[d]
    BY <1>6, <2>3 DEF FH!NameFetch, FType
  <2> QED
    BY <1>0, <2>2, <2>3, OthersStay DEF FSame
<1>7. ASSUME NEW t \in Threads, FH!NameEncode(t)
      PROVE  Only(t) /\ FSame(t)
  <2>1. pc[t] = "encode" /\ pc'[t] = "give"
    BY <1>7 DEF FH!NameEncode, FType
  <2>2. FSame(t)
    BY <2>1, PhaseFacts, PhaseFactsPrime DEF FSame
  <2>3. ASSUME NEW d \in Threads, d # t
        PROVE  pc'[d] = pc[d] /\ f_handle'[d] = f_handle[d] /\ handle'[d] = handle[d]
    BY <1>7, <2>3 DEF FH!NameEncode, FType
  <2> QED
    BY <1>0, <2>2, <2>3, OthersStay DEF FSame
<1>8. ASSUME NEW t \in Threads, FH!OpenFetch(t)
      PROVE  Only(t) /\ (FSame(t) \/ FCheck(t))
  <2>1. CASE FH!SizeOk(ufh.hdr)
    <3>1. pc[t] = "idle" /\ pc'[t] = "refetch" /\ f_handle'[t] = ufh.hdr
      BY <1>8, <2>1 DEF FH!OpenFetch, FH!Begin, FType
    <3>2. ufh.hdr \in FH!Header
      BY HeaderFacts DEF FType
    <3>3. FCheck(t)
      BY <2>1, <3>1, <3>2, PhaseFacts, PhaseFactsPrime DEF FCheck
    <3>4. ASSUME NEW d \in Threads, d # t
          PROVE  pc'[d] = pc[d] /\ f_handle'[d] = f_handle[d] /\ handle'[d] = handle[d]
      BY <1>8, <3>4 DEF FH!OpenFetch, FType
    <3> QED
      BY <1>0, <3>3, <3>4, OthersStay DEF FSame
  <2>2. CASE ~FH!SizeOk(ufh.hdr)
    <3>1. UNCHANGED <<pc, f_handle, handle>>
      BY <1>8, <2>2 DEF FH!OpenFetch
    <3> QED
      BY <1>1, <3>1
  <2> QED
    BY <2>1, <2>2
<1>9. ASSUME NEW t \in Threads, FH!OpenRefetch(t)
      PROVE  Only(t) /\ FAct(t)
  <2>1. /\ pc[t] = "refetch" /\ pc'[t] = "mount"
        /\ handle'[t] = ufh /\ f_handle[t] = ufh.hdr
    BY <1>9 DEF FH!OpenRefetch, FH!SameHeader, FType
  <2>2. FAct(t)
    BY <2>1, PhaseFacts, PhaseFactsPrime DEF FAct, Acts
  <2>3. ASSUME NEW d \in Threads, d # t
        PROVE  pc'[d] = pc[d] /\ f_handle'[d] = f_handle[d] /\ handle'[d] = handle[d]
    BY <1>9, <2>3 DEF FH!OpenRefetch, FType
  <2> QED
    BY <1>0, <2>2, <2>3, OthersStay DEF FSame
<1>10. ASSUME NEW t \in Threads, FH!OpenMount(t) \/ FH!OpenDecode(t) \/ FH!OpenFd(t)
      PROVE  Only(t) /\ FSame(t)
  <2>1. pc[t] \in Acts /\ pc'[t] \in Acts /\ handle' = handle
    BY <1>10 DEF FH!OpenMount, FH!OpenDecode, FH!OpenFd, FType, Acts
  <2>2. FSame(t)
    BY <2>1, PhaseFacts, PhaseFactsPrime DEF FSame
  <2>3. ASSUME NEW d \in Threads, d # t
        PROVE  pc'[d] = pc[d] /\ f_handle'[d] = f_handle[d] /\ handle'[d] = handle[d]
    BY <1>10, <2>3 DEF FH!OpenMount, FH!OpenDecode, FH!OpenFd, FType
  <2> QED
    BY <1>0, <2>2, <2>3, OthersStay DEF FSame
<1>11. ASSUME FH!UserWrites \/ FH!Close PROVE \A d \in Threads : FSame(d)
  BY <1>1, <1>11 DEF FH!UserWrites, FH!Close
<1> QED
  BY <1>4, <1>5, <1>6, <1>7, <1>8, <1>9, <1>10, <1>11 DEF FH!Next, FH!Step

-----------------------------------------------------------------------------
(***************************************************************************)
(* SclpCtl.                                                                *)
(***************************************************************************)
Busy == {"header", "check", "request", "give"}

SType ==
  /\ ulen \in Lengths
  /\ pc \in [Threads -> {"idle"} \cup Busy]
  /\ fetched \in [Threads -> Lengths \cup {0}]
  /\ length \in [Threads -> Lengths \cup {0}]
  /\ pages \in 0 .. Pages /\ refused \in Nat /\ calls \in 0 .. CallBounds["sclp"]
  /\ altered \in [Threads -> BOOLEAN]

\* The pages, and why they are never more than the calls.
SPages == /\ pages = Cardinality(PlacesIn(Threads, pc, Busy)) + refused
          /\ pages <= calls

\* From the second fetch on the length is good or is known to be altered.
SLength(t) == /\ fetched[t] <= PageSize
              /\ pc[t] \in {"check", "request", "give"} => length[t] \in Lengths
              /\ pc[t] \in {"request", "give"} => SC!LengthOk(length[t]) \/ altered[t]

SInv == SType /\ SPages /\ \A t \in Threads : SLength(t)

LEMMA SCount == Cardinality(PlacesIn(Threads, pc, Busy)) \in Nat
<1>1. PlacesIn(Threads, pc, Busy) \in SUBSET Threads
  BY DEF PlacesIn
<1>2. IsFiniteSet(PlacesIn(Threads, pc, Busy))
  BY <1>1, FS_Subset, ThreadsAssumption
<1> QED
  BY <1>2, FS_CardinalityType

LEMMA SInvInit ==
  ASSUME SC!Init PROVE SInv
<1>1. SType
  BY BoundsAssumption, SclpAssumption DEF SC!Init, SType, Systems
<1>2. PlacesIn(Threads, pc, Busy) = {}
  BY DEF SC!Init, PlacesIn, Busy
<1>3. SPages
  BY <1>2, FS_EmptySet DEF SC!Init, SPages
<1>4. \A t \in Threads : SLength(t)
  BY SclpAssumption DEF SC!Init, SLength
<1> QED
  BY <1>1, <1>3, <1>4 DEF SInv

\* What the accounting needs of a step: one call moves.
LEMMA SPagesMove ==
  ASSUME SType, SPages, NEW t \in Threads, NEW v,
         pc' = [pc EXCEPT ![t] = v],
         refused' \in Nat, calls' \in Nat, calls' >= calls,
         pages' - refused' = pages - refused + One(v, Busy) - One(pc[t], Busy),
         pages' - calls' <= pages - calls, pages' \in Nat
  PROVE  SPages'
<1>1. pc'[t] = v /\ \A d \in Threads : d # t => pc'[d] = pc[d]
  BY DEF SType
<1>2. Cardinality(PlacesIn(Threads, pc', Busy)) =
        Cardinality(PlacesIn(Threads, pc, Busy)) + One(v, Busy) - One(pc[t], Busy)
  BY <1>1, PcMoves
<1>3. Cardinality(PlacesIn(Threads, pc, Busy)) \in Nat /\ pages \in Nat /\ refused \in Nat /\ calls \in Nat
  BY SCount, SclpAssumption, BoundsAssumption DEF SType, Systems
<1>4. One(v, Busy) \in {0, 1} /\ One(pc[t], Busy) \in {0, 1}
  BY DEF One
<1>5. pages' = Cardinality(PlacesIn(Threads, pc', Busy)) + refused'
  BY <1>2, <1>3, <1>4 DEF SPages
<1>6. pages' <= calls'
  BY <1>3 DEF SPages
<1> QED
  BY <1>5, <1>6 DEF SPages, Busy, PlacesIn

LEMMA SInvStep ==
  ASSUME SInv, SC!Next
  PROVE  SInv'
<1>0. /\ SType /\ SPages /\ \A t \in Threads : SLength(t)
      /\ Pages \in Nat /\ Lengths \subseteq Nat /\ PageSize \in Nat /\ MinLength \in Nat
      /\ CallBounds["sclp"] \in Nat
  BY SclpAssumption, BoundsAssumption DEF SInv, Systems
<1>00. pages \in Nat /\ refused \in Nat /\ calls \in Nat /\ pages >= refused
  BY <1>0, SCount DEF SType, SPages
<1>1. ASSUME SC!UserWrites PROVE SInv'
  BY <1>0, <1>1 DEF SC!UserWrites, SInv, SType, SPages, SLength, PlacesIn, SC!LengthOk
<1>2. ASSUME NEW t \in Threads, SC!Begin(t) PROVE SInv'
  <2>1. SType'
    BY <1>0, <1>2 DEF SC!Begin, SType, Busy
  <2>2. pages' = pages + 1 /\ calls' = calls + 1 /\ refused' = refused /\ pc[t] = "idle"
        /\ pc' = [pc EXCEPT ![t] = "header"]
    BY <1>2 DEF SC!Begin
  <2>3. One("header", Busy) = 1 /\ One(pc[t], Busy) = 0
    BY <2>2 DEF One, Busy
  <2>8. /\ refused' \in Nat /\ calls' \in Nat /\ calls' >= calls
        /\ pages' - refused' = pages - refused + One("header", Busy) - One(pc[t], Busy)
        /\ pages' - calls' <= pages - calls /\ pages' \in Nat
    BY <1>00, <2>2, <2>3
  <2>4. SPages'
    BY <1>0, <2>2, <2>8, SPagesMove
  <2>5. ASSUME NEW d \in Threads PROVE SLength(d)'
    BY <1>0, <1>2 DEF SC!Begin, SLength, SType, SC!LengthOk
  <2> QED
    BY <2>1, <2>4, <2>5 DEF SInv
<1>3. ASSUME NEW t \in Threads, SC!FetchHeader(t) PROVE SInv'
  <2>1. SType'
    BY <1>0, <1>3 DEF SC!FetchHeader, SType, Busy
  <2>2. pages' = pages /\ calls' = calls /\ refused' = refused /\ pc[t] = "header"
        /\ pc' = [pc EXCEPT ![t] = "check"]
    BY <1>3 DEF SC!FetchHeader
  <2>3. One("check", Busy) = 1 /\ One(pc[t], Busy) = 1
    BY <2>2 DEF One, Busy
  <2>8. /\ refused' \in Nat /\ calls' \in Nat /\ calls' >= calls
        /\ pages' - refused' = pages - refused + One("check", Busy) - One(pc[t], Busy)
        /\ pages' - calls' <= pages - calls /\ pages' \in Nat
    BY <1>00, <2>2, <2>3
  <2>4. SPages'
    BY <1>0, <2>2, <2>8, SPagesMove
  <2>5. ASSUME NEW d \in Threads PROVE SLength(d)'
    BY <1>0, <1>3 DEF SC!FetchHeader, SLength, SType, SC!LengthOk
  <2> QED
    BY <2>1, <2>4, <2>5 DEF SInv
<1>4. ASSUME NEW t \in Threads, SC!CheckFails(t) PROVE SInv'
  <2>1. SType'
    BY <1>0, <1>00, <1>4 DEF SC!CheckFails, SC!Return, SType, Busy
  <2>2. pages' = pages /\ calls' = calls /\ refused' = refused + 1 /\ pc[t] = "check"
        /\ pc' = [pc EXCEPT ![t] = "idle"]
    BY <1>4 DEF SC!CheckFails, SC!Return
  <2>3. One("idle", Busy) = 0 /\ One(pc[t], Busy) = 1
    BY <2>2 DEF One, Busy
  <2>8. /\ refused' \in Nat /\ calls' \in Nat /\ calls' >= calls
        /\ pages' - refused' = pages - refused + One("idle", Busy) - One(pc[t], Busy)
        /\ pages' - calls' <= pages - calls /\ pages' \in Nat
    BY <1>00, <2>2, <2>3
  <2>4. SPages'
    BY <1>0, <2>2, <2>8, SPagesMove
  <2>5. ASSUME NEW d \in Threads PROVE SLength(d)'
    BY <1>0, <1>4 DEF SC!CheckFails, SC!Return, SLength, SType, SC!LengthOk
  <2> QED
    BY <2>1, <2>4, <2>5 DEF SInv
<1>5. ASSUME NEW t \in Threads, SC!FetchAll(t) PROVE SInv'
  <2>1. SType'
    BY <1>0, <1>5 DEF SC!FetchAll, SType, Busy
  <2>2. pages' = pages /\ calls' = calls /\ refused' = refused /\ pc[t] = "check"
        /\ pc' = [pc EXCEPT ![t] = "request"]
    BY <1>5 DEF SC!FetchAll
  <2>3. One("request", Busy) = 1 /\ One(pc[t], Busy) = 1
    BY <2>2 DEF One, Busy
  <2>8. /\ refused' \in Nat /\ calls' \in Nat /\ calls' >= calls
        /\ pages' - refused' = pages - refused + One("request", Busy) - One(pc[t], Busy)
        /\ pages' - calls' <= pages - calls /\ pages' \in Nat
    BY <1>00, <2>2, <2>3
  <2>4. SPages'
    BY <1>0, <2>2, <2>8, SPagesMove
  <2>5. ASSUME NEW d \in Threads, d # t PROVE SLength(d)'
    BY <1>0, <1>5, <2>5 DEF SC!FetchAll, SLength, SType, SC!LengthOk
  <2>6. /\ fetched'[t] = length[t] /\ length'[t] = ulen /\ altered'[t] = (ulen # length[t])
        /\ SC!LengthOk(length[t])
    BY <1>0, <1>5 DEF SC!FetchAll, SType
  <2>7. SLength(t)'
    BY <1>0, <2>6 DEF SLength, SC!LengthOk, SType
  <2> QED
    BY <2>1, <2>4, <2>5, <2>7 DEF SInv
<1>6. ASSUME NEW t \in Threads, SC!Request(t) PROVE SInv'
  <2>0. PICK l \in Lengths : /\ length' = [length EXCEPT ![t] = l]
                             /\ altered' = [altered EXCEPT ![t] = @ \/ l # length[t]]
    BY <1>6 DEF SC!Request
  <2>1. SType'
    BY <1>0, <1>6, <2>0 DEF SC!Request, SType, Busy
  <2>2. pages' = pages /\ calls' = calls /\ refused' = refused /\ pc[t] = "request"
        /\ pc' = [pc EXCEPT ![t] = "give"]
    BY <1>6 DEF SC!Request
  <2>3. One("give", Busy) = 1 /\ One(pc[t], Busy) = 1
    BY <2>2 DEF One, Busy
  <2>8. /\ refused' \in Nat /\ calls' \in Nat /\ calls' >= calls
        /\ pages' - refused' = pages - refused + One("give", Busy) - One(pc[t], Busy)
        /\ pages' - calls' <= pages - calls /\ pages' \in Nat
    BY <1>00, <2>2, <2>3
  <2>4. SPages'
    BY <1>0, <2>2, <2>8, SPagesMove
  <2>5. ASSUME NEW d \in Threads, d # t PROVE SLength(d)'
    BY <1>0, <1>6, <2>0, <2>5 DEF SC!Request, SLength, SType, SC!LengthOk
  <2>6. /\ fetched'[t] = fetched[t] /\ length'[t] = l /\ altered'[t] = (altered[t] \/ l # length[t])
        /\ SC!LengthOk(length[t]) \/ altered[t]
    BY <1>0, <1>6, <2>0, <2>2 DEF SC!Request, SType, SLength
  <2>7. SLength(t)'
    BY <1>0, <2>6 DEF SLength, SC!LengthOk, SType
  <2> QED
    BY <2>1, <2>4, <2>5, <2>7 DEF SInv
<1>7. ASSUME NEW t \in Threads, SC!Fail(t) \/ SC!Give(t) PROVE SInv'
  <2>0. /\ pages' = pages - 1 /\ calls' = calls /\ refused' = refused /\ SC!Return(t)
        /\ pc' = [pc EXCEPT ![t] = "idle"] /\ pc[t] \in Busy
    BY <1>7 DEF SC!Fail, SC!Give, SC!Return, Busy
  <2>1. Cardinality(PlacesIn(Threads, pc, Busy)) >= 1
    <3>1. t \in PlacesIn(Threads, pc, Busy) /\ PlacesIn(Threads, pc, Busy) \in SUBSET Threads
      BY <2>0 DEF PlacesIn
    <3>2. IsFiniteSet(PlacesIn(Threads, pc, Busy))
      BY <3>1, FS_Subset, ThreadsAssumption
    <3>3. Cardinality(PlacesIn(Threads, pc, Busy)) # 0
      BY <3>1, <3>2, FS_EmptySet
    <3> QED
      BY <3>3, SCount
  <2>2. pages >= 1
    BY <1>0, <1>00, <2>1, SCount DEF SPages
  <2>3. One("idle", Busy) = 0 /\ One(pc[t], Busy) = 1
    BY <2>0 DEF One, Busy
  <2>8. /\ refused' \in Nat /\ calls' \in Nat /\ calls' >= calls
        /\ pages' - refused' = pages - refused + One("idle", Busy) - One(pc[t], Busy)
        /\ pages' - calls' <= pages - calls /\ pages' \in Nat
    BY <1>00, <2>0, <2>2, <2>3
  <2>4. SPages'
    BY <1>0, <2>0, <2>8, SPagesMove
  <2>5. ulen' \in Lengths
    <3>1. CASE SC!Fail(t)
      BY <1>0, <3>1 DEF SC!Fail, SType
    <3>2. CASE SC!Give(t)
      BY <1>0, <3>2 DEF SC!Give, SLength
    <3> QED
      BY <1>7, <3>1, <3>2
  <2>6. SType'
    BY <1>0, <1>00, <2>0, <2>2, <2>5 DEF SC!Return, SType, Busy
  <2>7. ASSUME NEW d \in Threads PROVE SLength(d)'
    BY <1>0, <2>0 DEF SC!Return, SLength, SType, SC!LengthOk
  <2> QED
    BY <2>4, <2>6, <2>7 DEF SInv
<1> QED
  BY <1>1, <1>2, <1>3, <1>4, <1>5, <1>6, <1>7 DEF SC!Next

-----------------------------------------------------------------------------
(***************************************************************************)
(* RawSrb.                                                                 *)
(***************************************************************************)
RPlaces == {"idle", "size", "srb", "check", "map", "wait", "back", "cleanup"}
Buf(i) == <<"buffer", i>>
Bufs(k) == {Buf(i) : i \in 1 .. k}
Line(i) == [buf |-> Buf(i), count |-> cmd.counts[i]]
Misread == host64 /\ ~RS!Is64

RType ==
  /\ host64 \in BOOLEAN /\ usrb \in Srbs /\ pool \subseteq Threads /\ fib \in Threads \cup {None}
  /\ at \in RPlaces /\ size \in Nat
  /\ adapter \in [Threads -> RS!Requests \cup {None}]
  /\ sg \in Seq({"buffer"} \X Nat) /\ psg \in Seq([buf : {"buffer"} \X Nat, count : Nat])
  /\ byte_count \in Nat
  /\ data \in Seq([of : {"program", "adapter"}, len : Nat])
  /\ given \in Seq([of : {"program", "adapter", "fib"}, len : Nat])
  /\ calls \in 0 .. CallBounds["rawsrb"] /\ writes \in 0 .. WriteBounds["rawsrb"]

\* Where the fibs are: free, with the call, or with the adapter; a fib whose
\* call has given up is the adapter's alone.
RPool ==
  /\ at = "idle" <=> fib = None
  /\ at # "cleanup" => rcode = "ok"
  /\ rcode = "ERESTARTSYS" => pool = {f \in Threads : adapter[f] = None}
  /\ rcode # "ERESTARTSYS" => /\ pool = {f \in Threads : adapter[f] = None /\ f # fib}
                              /\ at \notin {"idle", "wait"} => adapter[fib] = None

\* What the call has allocated.
RHeap ==
  /\ at \in {"idle", "size", "srb"} => alloc = {}
  /\ at = "check" => alloc = {RS!Copy}
  /\ at = "map" => alloc = {RS!Copy} \cup Bufs(Len(sg)) \cup IF Misread THEN {RS!List} ELSE {}
  /\ at \in {"wait", "back"} => alloc = {RS!Copy} \cup Bufs(Len(sg))
  /\ at = "cleanup" => alloc \subseteq {RS!Copy} \cup Bufs(Len(sg))

\* The list as far as it is built.
RList ==
  /\ at \in {"idle", "size", "srb", "check"} =>
       sg = <<>> /\ psg = <<>> /\ data = <<>> /\ given = <<>> /\ byte_count = 0
  /\ \A i \in 1 .. Len(sg) : sg[i] = Buf(i)
  /\ Len(psg) <= Len(sg) /\ Len(sg) <= MaxSg /\ Len(data) = Len(psg)
  /\ at \in {"check", "map", "wait", "back"} => cmd \in Srbs
  /\ at \in {"map", "wait", "back"} =>
       /\ cmd.n <= MaxSg /\ Len(psg) = Len(sg) /\ Len(sg) <= cmd.n
       /\ \A i \in 1 .. Len(psg) : psg[i] = Line(i)
       /\ RS!IsSum(byte_count, cmd.counts, Len(psg))
  /\ at \in {"wait", "back"} => Len(sg) = cmd.n
  /\ at \in {"map", "wait"} =>
       /\ given = <<>>
       /\ cmd.dir \in RS!Sends /\ ~Misread =>
            \A i \in 1 .. Len(data) : data[i].len = cmd.counts[i]

\* What goes to the adapter, and comes back.
ROut == at = "wait" =>
  adapter[fib] = [list |-> psg, dir |-> cmd.dir, mine |-> data, total |-> byte_count]

Filled(i) == [of |-> "adapter", len |-> cmd.counts[i]]

RBack ==
  /\ at = "back" /\ cmd.dir \in RS!Receives /\ cmd.n > 0 =>
       /\ \A i \in 1 .. cmd.n : data[i] = Filled(i)
       /\ Len(given) <= cmd.n /\ \A i \in 1 .. Len(given) : given[i] = Filled(i)
  /\ RS!DataGivenBack

RInv == RType /\ RPool /\ RHeap /\ RList /\ ROut /\ RBack

LEMMA SrbFacts ==
  /\ \A r \in Srbs : /\ r.size \in Nat /\ r.n \in Nat /\ r.dir \in RS!Directions
                     /\ \A i \in 1 .. r.n : r.counts[i] \in Nat
  /\ Base \in Nat /\ E32 \in Nat /\ E64 \in Nat /\ MaxSg \in Nat /\ MaxCount \in Nat /\ MaxFib \in Nat
  /\ CallBounds["rawsrb"] \in Nat /\ WriteBounds["rawsrb"] \in Nat
BY SrbAssumption, BoundsAssumption DEF Systems

LEMMA BufType == \A i \in Nat : Buf(i) \in {"buffer"} \X Nat
BY DEF Buf

LEMMA RInvInit ==
  ASSUME RS!Init PROVE RInv
<1>1. RType
  BY SrbFacts DEF RS!Init, RType, RPlaces
<1>2. RPool
  BY ThreadsAssumption DEF RS!Init, RPool
<1>3. RHeap
  BY DEF RS!Init, RHeap
<1>4. RList
  BY SrbFacts DEF RS!Init, RList
<1>5. ROut /\ RBack
  BY DEF RS!Init, ROut, RBack, RS!DataGivenBack
<1> QED
  BY <1>1, <1>2, <1>3, <1>4, <1>5 DEF RInv

LEMMA RUserWrites ==
  ASSUME RInv, RS!UserWrites PROVE RInv'
<1>1. RType'
  BY SrbFacts DEF RS!UserWrites, RInv, RType
<1>2. RPool'
  BY DEF RS!UserWrites, RInv, RPool
<1>3. RHeap'
  BY DEF RS!UserWrites, RInv, RHeap, Misread, RS!Is64, RS!Size64, Bufs, Buf, RS!Copy, RS!List
<1>4. RList'
  BY DEF RS!UserWrites, RInv, RList, Misread, RS!Is64, RS!Size64, Buf, Line, RS!IsSum, RS!Sends
<1>5. ROut' /\ RBack'
  BY DEF RS!UserWrites, RInv, ROut, RBack, RS!DataGivenBack, Filled, RS!Receives
<1> QED
  BY <1>1, <1>2, <1>3, <1>4, <1>5 DEF RInv

LEMMA RBegin ==
  ASSUME RInv, NEW f \in Threads, RS!Begin(f) PROVE RInv'
<1>0. at = "idle" /\ at' = "size" /\ f \in pool
  BY DEF RS!Begin, RS!Goto
<1>1. RType'
  BY <1>0, SrbFacts DEF RS!Begin, RInv, RType, RPlaces
<1>2. RPool'
  BY <1>0, ThreadsAssumption DEF RS!Begin, RInv, RPool
<1>3. RHeap'
  BY <1>0 DEF RS!Begin, RInv, RHeap
<1>4. RList'
  BY <1>0 DEF RS!Begin, RInv, RList, Buf
<1>5. ROut' /\ RBack'
  BY <1>0 DEF RS!Begin, RInv, ROut, RBack, RS!DataGivenBack
<1> QED
  BY <1>1, <1>2, <1>3, <1>4, <1>5 DEF RInv

LEMMA RSignal ==
  ASSUME RInv, RS!Signal PROVE RInv'
<1>0. at = "wait" /\ at' = "cleanup" /\ rcode' = "ERESTARTSYS"
  BY DEF RS!Signal, RS!Goto
<1>1. RType'
  BY <1>0 DEF RS!Signal, RInv, RType, RPlaces
<1>2. RPool'
  <2>1. adapter[fib] \in RS!Requests /\ fib # None
    <3>1. fib \in Threads
      BY <1>0 DEF RInv, RType, RPool
    <3>2. adapter[fib] = [list |-> psg, dir |-> cmd.dir, mine |-> data, total |-> byte_count]
      BY <1>0 DEF RInv, ROut
    <3>3. cmd.dir \in RS!Directions
      BY <1>0, SrbFacts DEF RInv, RList
    <3> QED
      BY <1>0, <3>2, <3>3 DEF RS!Requests, RInv, RType, RPool
  <2>2. adapter[fib] # None
    BY <2>1, SrbAssumption
  <2> QED
    BY <1>0, <2>2 DEF RS!Signal, RInv, RPool
<1>3. RHeap'
  BY <1>0 DEF RS!Signal, RInv, RHeap, Bufs, Buf, RS!Copy
<1>4. RList'
  BY <1>0 DEF RS!Signal, RInv, RList, Buf
<1>5. ROut' /\ RBack'
  BY <1>0 DEF RS!Signal, RInv, ROut, RBack, RS!DataGivenBack
<1> QED
  BY <1>1, <1>2, <1>3, <1>4, <1>5 DEF RInv

LEMMA RCleanup ==
  ASSUME RInv, RS!Cleanup PROVE RInv'
<1>0. at = "cleanup" /\ at' = "idle" /\ rcode' = "ok" /\ fib' = None
  BY DEF RS!Cleanup
<1>00. fib \in Threads
  BY <1>0 DEF RInv, RType, RPool
<1>1. RType'
  BY <1>0, <1>00 DEF RS!Cleanup, RInv, RType, RPlaces
<1>2. RPool'
  BY <1>0, <1>00, ThreadsAssumption DEF RS!Cleanup, RInv, RPool
<1>3. RHeap'
  <2>1. alloc \subseteq {RS!Copy} \cup Bufs(Len(sg)) /\ \A i \in 1 .. Len(sg) : sg[i] = Buf(i)
    BY <1>0 DEF RInv, RHeap, RList
  <2>2. Len(sg) \in Nat /\ DOMAIN sg = 1 .. Len(sg)
    BY DEF RInv, RType
  <2>3. \A i \in 1 .. Len(sg) : i \in DOMAIN sg \cap 1 .. RS!SgIndx + 1
    BY <2>2 DEF RS!SgIndx
  <2>4. Bufs(Len(sg)) \subseteq RS!Freed
    BY <2>1, <2>3 DEF Bufs, RS!Freed
  <2>5. alloc' = {}
    BY <2>1, <2>4 DEF RS!Cleanup, RS!Freed
  <2> QED
    BY <1>0, <2>5 DEF RHeap
<1>4. RList'
  BY <1>0, SrbFacts DEF RS!Cleanup, RList, Buf
<1>5. ROut' /\ RBack'
  BY <1>0 DEF ROut, RBack, RS!DataGivenBack
<1> QED
  BY <1>1, <1>2, <1>3, <1>4, <1>5 DEF RInv

\* A call that fails before its fib is sent.
LEMMA RFails ==
  ASSUME RInv, at \in {"size", "srb", "check", "map"}, at' = "cleanup",
         rcode' \in {"EINVAL", "ENOMEM", "EFAULT", "ENXIO"}, size' \in Nat,
         sg' \in Seq({"buffer"} \X Nat), Len(sg) <= Len(sg'), Len(sg') <= MaxSg,
         \A i \in 1 .. Len(sg') : sg'[i] = Buf(i),
         alloc' \subseteq {RS!Copy} \cup Bufs(Len(sg')),
         UNCHANGED <<host64, usrb, pool, fib, psg, byte_count, data, given, adapter, calls, writes>>
  PROVE  RInv'
<1>1. RType'
  BY DEF RInv, RType, RPlaces
<1>2. RPool'
  BY DEF RInv, RPool
<1>3. RHeap'
  BY DEF RHeap
<1>4. RList'
  <2>1. Len(psg) <= Len(sg) /\ Len(data) = Len(psg)
    BY DEF RInv, RList
  <2>2. Len(psg) \in Nat /\ Len(sg) \in Nat /\ Len(sg') \in Nat
    BY DEF RInv, RType
  <2>3. Len(psg') <= Len(sg') /\ Len(data') = Len(psg')
    BY <2>1, <2>2
  <2> QED
    BY <2>3 DEF RList, Buf
<1>5. ROut' /\ RBack'
  BY DEF ROut, RBack, RS!DataGivenBack
<1> QED
  BY <1>1, <1>2, <1>3, <1>4, <1>5 DEF RInv

\* What a call has allocated by then, but for the copy of the list.
LEMMA RAllocated ==
  ASSUME RInv, at \in {"size", "srb", "check", "map"}
  PROVE  /\ alloc \ {RS!List} \subseteq {RS!Copy} \cup Bufs(Len(sg))
         /\ RS!List # RS!Copy
         /\ \A i : RS!List # Buf(i) /\ RS!Copy # Buf(i)
<1>1. RS!List # RS!Copy /\ \A i : RS!List # Buf(i) /\ RS!Copy # Buf(i)
  BY DEF RS!List, RS!Copy, Buf
<1>2. alloc \ {RS!List} \subseteq {RS!Copy} \cup Bufs(Len(sg))
  BY DEF RInv, RHeap
<1> QED
  BY <1>1, <1>2

LEMMA RFailsEarly ==
  ASSUME RInv, at \in {"size", "srb", "check", "map"}, NEW err \in {"EINVAL", "ENOMEM", "EFAULT", "ENXIO"},
         RS!Fail(err), size' \in Nat,
         UNCHANGED <<host64, usrb, pool, fib, sg, psg, byte_count, data, given, adapter, calls, writes>>
  PROVE  RInv'
<1>1. alloc' \subseteq {RS!Copy} \cup Bufs(Len(sg'))
  BY RAllocated DEF RS!Fail
<1>2. sg' \in Seq({"buffer"} \X Nat) /\ Len(sg) <= Len(sg') /\ Len(sg') <= MaxSg
  BY DEF RInv, RType, RList
<1>3. \A i \in 1 .. Len(sg') : sg'[i] = Buf(i)
  BY DEF RInv, RList
<1>4. at' = "cleanup" /\ rcode' \in {"EINVAL", "ENOMEM", "EFAULT", "ENXIO"}
  BY DEF RS!Fail
<1> QED
  BY <1>1, <1>2, <1>3, <1>4, RFails

LEMMA RFetchSize ==
  ASSUME RInv, RS!FetchSize PROVE RInv'
<1>0. at = "size" /\ size' = usrb.size /\ size' \in Nat
  BY SrbFacts DEF RS!FetchSize, RInv, RType
<1>1. CASE usrb.size < Base \/ usrb.size > MaxFib
  BY <1>0, <1>1, RFailsEarly DEF RS!FetchSize
<1>2. CASE ~(usrb.size < Base \/ usrb.size > MaxFib)
  <2>0. at' = "srb" /\ UNCHANGED <<rcode, alloc>>
    BY <1>2 DEF RS!FetchSize
  <2>1. RType'
    BY <1>0, <2>0 DEF RS!FetchSize, RInv, RType, RPlaces
  <2>2. RPool'
    BY <1>0, <2>0 DEF RS!FetchSize, RInv, RPool
  <2>3. RHeap'
    BY <1>0, <2>0 DEF RInv, RHeap
  <2>4. RList'
    BY <1>0, <2>0 DEF RS!FetchSize, RInv, RList, Buf
  <2>5. ROut' /\ RBack'
    BY <2>0 DEF ROut, RBack, RS!DataGivenBack
  <2> QED
    BY <2>1, <2>2, <2>3, <2>4, <2>5 DEF RInv
<1> QED
  BY <1>1, <1>2

LEMMA RFetchFaults ==
  ASSUME RInv, RS!FetchFaults PROVE RInv'
<1>1. at = "size" /\ size' \in Nat
  BY DEF RS!FetchFaults, RInv, RType
<1> QED
  BY <1>1, RFailsEarly DEF RS!FetchFaults

LEMMA RNoMemory ==
  ASSUME RInv, RS!NoMemory PROVE RInv'
<1>1. at \in {"size", "srb", "check", "map"} /\ size' \in Nat
  BY DEF RS!NoMemory, RInv, RType
<1> QED
  BY <1>1, RFailsEarly DEF RS!NoMemory

LEMMA RFetchSrb ==
  ASSUME RInv, RS!FetchSrb PROVE RInv'
<1>0. at = "srb" /\ cmd' = usrb /\ alloc' = {RS!Copy}
  BY DEF RS!FetchSrb, RInv, RHeap
<1>01. cmd' \in Srbs
  BY <1>0 DEF RInv, RType
<1>1. CASE at' = "check" /\ UNCHANGED rcode
  <2>1. RType'
    BY <1>0, <1>1 DEF RS!FetchSrb, RInv, RType, RPlaces
  <2>2. RPool'
    BY <1>0, <1>1 DEF RS!FetchSrb, RInv, RPool
  <2>3. RHeap'
    BY <1>0, <1>1 DEF RHeap, RS!Copy
  <2>4. RList'
    BY <1>0, <1>01, <1>1 DEF RS!FetchSrb, RInv, RList, Buf
  <2>5. ROut' /\ RBack'
    BY <1>1 DEF ROut, RBack, RS!DataGivenBack
  <2> QED
    BY <2>1, <2>2, <2>3, <2>4, <2>5 DEF RInv
<1>2. CASE at' = "cleanup" /\ rcode' = "EFAULT"
  <2>1. sg' \in Seq({"buffer"} \X Nat) /\ Len(sg) <= Len(sg') /\ Len(sg') <= MaxSg /\ size' \in Nat
    BY DEF RInv, RType, RList, RS!FetchSrb
  <2>2. \A i \in 1 .. Len(sg') : sg'[i] = Buf(i)
    BY DEF RInv, RList, RS!FetchSrb
  <2> QED
    BY <1>0, <1>2, <2>1, <2>2, RFails DEF RS!FetchSrb
<1> QED
  BY <1>1, <1>2 DEF RS!FetchSrb

LEMMA RCheckSrb ==
  ASSUME RInv, RS!CheckSrb PROVE RInv'
<1>0. at = "check" /\ size' \in Nat /\ cmd \in Srbs
  BY DEF RS!CheckSrb, RInv, RType, RList
<1>1. CASE ~RS!Acceptable
  BY <1>0, <1>1, RFailsEarly DEF RS!CheckSrb
<1>2. CASE RS!Acceptable
  <2>0. at' = "map" /\ UNCHANGED rcode /\ alloc' = {RS!Copy} \cup IF Misread THEN {RS!List} ELSE {}
    BY <1>0, <1>2 DEF RS!CheckSrb, RInv, RHeap, Misread
  <2>1. RType'
    BY <1>0, <2>0 DEF RS!CheckSrb, RInv, RType, RPlaces
  <2>2. RPool'
    BY <1>0, <2>0 DEF RS!CheckSrb, RInv, RPool
  <2>3. sg = <<>> /\ psg = <<>> /\ data = <<>> /\ given = <<>> /\ byte_count = 0
    BY <1>0 DEF RInv, RList
  <2>30. Misread' = Misread
    BY DEF Misread, RS!Is64, RS!Size64, RS!CheckSrb
  <2>31. Bufs(Len(sg)) = {}
    BY <2>3 DEF Bufs
  <2>4. RHeap'
    <3>1. Bufs(Len(sg))' = {} /\ sg' = sg
      BY <2>31 DEF RS!CheckSrb, Bufs, Buf
    <3> QED
      BY <2>0, <2>30, <3>1 DEF RHeap
  <2>5. cmd' = cmd /\ cmd.n <= MaxSg /\ cmd.n \in Nat
    BY <1>0, <1>2, SrbFacts DEF RS!Acceptable, RS!CheckSrb
  <2>6. RS!IsSum(0, cmd.counts, 0)
    <3> DEFINE p == [i \in 0 .. 0 |-> 0]
    <3>1. p \in [0 .. 0 -> 0 .. 0] /\ p[0] = 0 /\ \A i \in 1 .. 0 : p[i] = p[i - 1] + cmd.counts[i]
      OBVIOUS
    <3> QED
      BY ONLY <3>1 DEF RS!IsSum
  <2>7. RList'
    <3>1. sg' = <<>> /\ psg' = <<>> /\ data' = <<>> /\ given' = <<>> /\ byte_count' = 0
      BY <2>3 DEF RS!CheckSrb
    <3>2. RS!IsSum(byte_count, cmd.counts, Len(psg))'
      BY <2>5, <2>6, <3>1 DEF RS!IsSum
    <3>3. Len(psg') = 0 /\ Len(sg') = 0 /\ Len(data') = 0 /\ 0 <= MaxSg
      BY <3>1, SrbFacts
    <3> QED
      BY <1>0, <2>0, <2>5, <3>1, <3>2, <3>3 DEF RList
  <2>8. ROut' /\ RBack'
    BY <2>0 DEF ROut, RBack, RS!DataGivenBack
  <2> QED
    BY <2>1, <2>2, <2>4, <2>7, <2>8 DEF RInv
<1> QED
  BY <1>1, <1>2

LEMMA IsSumNext ==
  ASSUME NEW t \in Nat, NEW n \in Nat, NEW counts, RS!IsSum(t, counts, n), counts[n + 1] \in Nat
  PROVE  RS!IsSum(t + counts[n + 1], counts, n + 1)
<1>1. PICK p \in [0 .. n -> 0 .. t] :
        p[0] = 0 /\ p[n] = t /\ \A i \in 1 .. n : p[i] = p[i - 1] + counts[i]
  BY DEF RS!IsSum
<1> DEFINE v == t + counts[n + 1]
           q == [i \in 0 .. n + 1 |-> IF i <= n THEN p[i] ELSE v]
<1>2. \A i \in 0 .. n + 1 : q[i] \in 0 .. v
  OBVIOUS
<1>3. q \in [0 .. n + 1 -> 0 .. v]
  BY <1>2
<1>4. q[0] = 0 /\ q[n + 1] = v
  BY <1>1
<1>5. \A i \in 1 .. n + 1 : q[i] = q[i - 1] + counts[i]
  <2> TAKE i \in 1 .. n + 1
  <2>1. CASE i <= n
    BY <1>1, <2>1
  <2>2. CASE i = n + 1
    BY <1>1, <2>2
  <2> QED
    BY <2>1, <2>2
<1> HIDE DEF q, v
<1>6. RS!IsSum(v, counts, n + 1)
  BY <1>3, <1>4, <1>5 DEF RS!IsSum
<1> QED
  BY <1>6 DEF v

\* The next entry of the list and its buffer.
LEMMA RNextEntry ==
  ASSUME RInv, at = "map", Len(sg) + 1 <= cmd.n,
         sg' = Append(sg, Buf(Len(sg) + 1))
  PROVE  /\ sg' \in Seq({"buffer"} \X Nat) /\ Len(sg') = Len(sg) + 1 /\ Len(sg) \in Nat
         /\ Len(sg) <= Len(sg') /\ Len(sg') <= MaxSg /\ Len(sg') <= cmd.n
         /\ \A i \in 1 .. Len(sg') : sg'[i] = Buf(i)
         /\ Bufs(Len(sg')) = Bufs(Len(sg)) \cup {Buf(Len(sg) + 1)}
<1>1. sg \in Seq({"buffer"} \X Nat) /\ Len(sg) \in Nat
  BY DEF RInv, RType
<1>2. Buf(Len(sg) + 1) \in {"buffer"} \X Nat
  BY <1>1, BufType
<1>3. sg' \in Seq({"buffer"} \X Nat) /\ Len(sg') = Len(sg) + 1
  BY <1>1, <1>2
<1>4. \A i \in 1 .. Len(sg') : sg'[i] = IF i <= Len(sg) THEN sg[i] ELSE Buf(Len(sg) + 1)
  BY <1>1, <1>2, <1>3
<1>5. cmd \in Srbs /\ cmd.n <= MaxSg /\ \A i \in 1 .. Len(sg) : sg[i] = Buf(i)
  BY DEF RInv, RList
<1>6. Len(sg') <= MaxSg
  BY <1>1, <1>3, <1>5, SrbFacts
<1>7. \A i \in 1 .. Len(sg') : i \in 1 .. Len(sg) \/ i = Len(sg) + 1
  BY <1>1, <1>3
<1>8. \A i \in 1 .. Len(sg') : sg'[i] = Buf(i)
  BY <1>1, <1>4, <1>5, <1>7
<1>9. 1 .. Len(sg') = 1 .. Len(sg) \cup {Len(sg) + 1}
  BY <1>1, <1>3
<1>10. Bufs(Len(sg')) = Bufs(Len(sg)) \cup {Buf(Len(sg) + 1)}
  BY <1>9 DEF Bufs
<1> QED
  BY <1>1, <1>3, <1>6, <1>8, <1>10

LEMMA RMapEntry ==
  ASSUME RInv, RS!MapEntry PROVE RInv'
<1> DEFINE k == Len(sg) + 1
           c == cmd.counts[k]
<1>0. /\ at = "map" /\ k <= cmd.n
      /\ UNCHANGED <<host64, usrb, pool, fib, size, cmd, given, adapter, calls, writes>>
  BY DEF RS!MapEntry
<1>01. cmd \in Srbs /\ size' \in Nat /\ Len(sg) \in Nat /\ cmd.n \in Nat /\ c \in Nat
  <2>1. cmd \in Srbs /\ size' \in Nat /\ Len(sg) \in Nat /\ cmd.n \in Nat
    BY <1>0, SrbFacts DEF RInv, RType, RList
  <2>2. k \in 1 .. cmd.n
    BY <1>0, <2>1
  <2> QED
    BY <2>1, <2>2, SrbFacts
<1>1. CASE c > MaxCount
  BY <1>0, <1>01, <1>1, RFailsEarly DEF RS!MapEntry
<1>2. CASE ~(c > MaxCount)
  <2>0. sg' = Append(sg, Buf(k))
    BY <1>2 DEF RS!MapEntry, Buf
  <2>1. /\ sg' \in Seq({"buffer"} \X Nat) /\ Len(sg') = Len(sg) + 1
        /\ Len(sg) <= Len(sg') /\ Len(sg') <= MaxSg /\ Len(sg') <= cmd.n
        /\ \A i \in 1 .. Len(sg') : sg'[i] = Buf(i)
        /\ Bufs(Len(sg')) = Bufs(Len(sg)) \cup {Buf(k)}
    BY <1>0, <2>0, RNextEntry
  <2>2. CASE /\ at' = "cleanup" /\ rcode' = "EFAULT"
             /\ alloc' = (alloc \cup {Buf(k)}) \ {RS!List}
             /\ UNCHANGED <<psg, byte_count, data>>
    <3>1. alloc' \subseteq {RS!Copy} \cup Bufs(Len(sg'))
      BY <1>0, <2>1, <2>2, RAllocated
    <3> QED
      BY <1>0, <1>01, <2>1, <2>2, <3>1, RFails
  <2>3. ASSUME NEW n \in IF cmd.dir \in RS!Sends THEN RS!Copied(k) ELSE {0},
               data' = Append(data, [of |-> "program", len |-> n]),
               alloc' = alloc \cup {Buf(k)},
               psg' = Append(psg, [buf |-> Buf(k), count |-> c]),
               byte_count' = byte_count + c,
               UNCHANGED <<at, rcode>>
        PROVE  RInv'
    <3>1. n \in Nat /\ (cmd.dir \in RS!Sends /\ ~Misread => n = c)
      BY <1>01, <2>3, SrbFacts DEF RS!Copied, Misread
    <3>2. /\ psg \in Seq([buf : {"buffer"} \X Nat, count : Nat])
          /\ data \in Seq([of : {"program", "adapter"}, len : Nat])
          /\ Len(psg) = Len(sg) /\ Len(data) = Len(sg) /\ byte_count \in Nat
      BY <1>0 DEF RInv, RType, RList
    <3>3. Buf(k) \in {"buffer"} \X Nat
      <4>1. k \in Nat
        BY <1>01
      <4> HIDE DEF k
      <4> QED
        BY <4>1, BufType
    <3>4. /\ psg' \in Seq([buf : {"buffer"} \X Nat, count : Nat]) /\ Len(psg') = k
          /\ \A i \in 1 .. k : psg'[i] = IF i <= Len(psg) THEN psg[i] ELSE [buf |-> Buf(k), count |-> c]
      <4> DEFINE L == [buf |-> Buf(k), count |-> c]
      <4>1. L \in [buf : {"buffer"} \X Nat, count : Nat]
        BY <1>01, <3>3
      <4>2. psg' = Append(psg, L)
        BY <2>3
      <4> HIDE DEF L
      <4>3. /\ psg' \in Seq([buf : {"buffer"} \X Nat, count : Nat]) /\ Len(psg') = k
            /\ \A i \in 1 .. k : psg'[i] = IF i <= Len(psg) THEN psg[i] ELSE L
        BY <1>01, <3>2, <4>1, <4>2
      <4> QED
        BY <4>3 DEF L
    <3>5. /\ data' \in Seq([of : {"program", "adapter"}, len : Nat]) /\ Len(data') = k
          /\ \A i \in 1 .. k : data'[i] = IF i <= Len(data) THEN data[i] ELSE [of |-> "program", len |-> n]
      <4> DEFINE L == [of |-> "program", len |-> n]
      <4>1. L \in [of : {"program", "adapter"}, len : Nat]
        BY <3>1
      <4>2. data' = Append(data, L)
        BY <2>3
      <4> HIDE DEF L
      <4>3. /\ data' \in Seq([of : {"program", "adapter"}, len : Nat]) /\ Len(data') = k
            /\ \A i \in 1 .. k : data'[i] = IF i <= Len(data) THEN data[i] ELSE L
        BY <1>01, <3>2, <4>1, <4>2
      <4> QED
        BY <4>3 DEF L
    <3>6. RType'
      <4>1. byte_count' \in Nat
        BY <1>01, <2>3, <3>2
      <4> QED
        BY <1>0, <2>1, <2>3, <3>4, <3>5, <4>1 DEF RInv, RType
    <3>7. RPool'
      BY <1>0, <2>3 DEF RInv, RPool
    <3>8. Misread' = Misread
      BY <1>0 DEF Misread, RS!Is64, RS!Size64
    <3>9. RHeap'
      <4>1. alloc = {RS!Copy} \cup Bufs(Len(sg)) \cup IF Misread THEN {RS!List} ELSE {}
        BY <1>0 DEF RInv, RHeap
      <4>2. alloc' = {RS!Copy} \cup Bufs(Len(sg')) \cup IF Misread THEN {RS!List} ELSE {}
        BY <2>1, <2>3, <4>1
      <4> QED
        BY <1>0, <2>3, <3>8, <4>2 DEF RHeap
    <3>10. \A i \in 1 .. k : i \in 1 .. Len(sg) \/ (i = k /\ ~(i <= Len(sg)))
      BY <1>01
    <3>11. \A i \in 1 .. k : psg'[i] = [buf |-> Buf(i), count |-> cmd.counts[i]]
      <4>1. \A i \in 1 .. Len(sg) : psg[i] = [buf |-> Buf(i), count |-> cmd.counts[i]] /\ i <= Len(sg)
        BY <1>0, <1>01, <3>2 DEF RInv, RList, Line
      <4> QED
        BY <3>2, <3>4, <3>10, <4>1
    <3>12. cmd.dir \in RS!Sends /\ ~Misread => \A i \in 1 .. k : data'[i].len = cmd.counts[i]
      <4> SUFFICES ASSUME cmd.dir \in RS!Sends /\ ~Misread PROVE \A i \in 1 .. k : data'[i].len = cmd.counts[i]
        OBVIOUS
      <4>1. \A i \in 1 .. Len(sg) : data[i].len = cmd.counts[i] /\ i <= Len(sg)
        BY <1>0, <1>01, <3>2 DEF RInv, RList
      <4> TAKE i \in 1 .. k
      <4>2. CASE i \in 1 .. Len(sg)
        <5>1. data'[i] = data[i]
          BY <3>2, <3>5, <4>1, <4>2
        <5> QED
          BY <4>1, <4>2, <5>1
      <4>3. CASE i = k /\ ~(i <= Len(sg))
        <5>1. data'[i] = [of |-> "program", len |-> n]
          BY <3>2, <3>5, <4>3
        <5> QED
          BY <3>1, <4>3, <5>1
      <4> QED
        BY <3>10, <4>2, <4>3
    <3>13. RS!IsSum(byte_count', cmd.counts, k)
      <4>1. RS!IsSum(byte_count, cmd.counts, Len(sg))
        BY <1>0, <3>2 DEF RInv, RList
      <4> QED
        BY <1>01, <2>3, <3>2, <4>1, IsSumNext
    <3>14. RList'
      <4>1. given' = <<>> /\ cmd' = cmd /\ at' = "map"
        BY <1>0, <2>3 DEF RInv, RList
      <4>2. RS!IsSum(byte_count, cmd.counts, Len(psg))'
        BY <3>4, <3>13, <4>1 DEF RS!IsSum
      <4>3. Len(psg') <= Len(sg') /\ Len(data') = Len(psg') /\ Len(psg') = Len(sg') /\ cmd.n <= MaxSg
        BY <1>0, <1>01, <2>1, <3>4, <3>5 DEF RInv, RList
      <4>4. \A i \in 1 .. Len(psg') : psg'[i] = Line(i)'
        BY <3>4, <3>11, <4>1 DEF Line, Buf
      <4>5. (cmd.dir \in RS!Sends /\ ~Misread => \A i \in 1 .. Len(data) : data[i].len = cmd.counts[i])'
        BY <3>5, <3>8, <3>12, <4>1 DEF RS!Sends
      <4>6. \A i \in 1 .. Len(sg') : sg'[i] = Buf(i)'
        BY <2>1 DEF Buf
      <4> QED
        BY <1>01, <2>1, <4>1, <4>2, <4>3, <4>4, <4>5, <4>6 DEF RList
    <3>15. ROut' /\ RBack'
      BY <1>0, <2>3 DEF ROut, RBack, RS!DataGivenBack
    <3> QED
      BY <3>6, <3>7, <3>9, <3>14, <3>15 DEF RInv
  <2> QED
    BY <1>2, <2>2, <2>3 DEF RS!MapEntry, Buf
<1> QED
  BY <1>1, <1>2

LEMMA SgCountIs ==
  ASSUME RInv, at = "map", Len(sg) = cmd.n
  PROVE  RS!SgCount = cmd.n /\ SubSeq(psg, 1, RS!SgCount) = psg
<1>1. sg \in Seq({"buffer"} \X Nat) /\ psg \in Seq([buf : {"buffer"} \X Nat, count : Nat])
  BY DEF RInv, RType
<1>2. Len(psg) = cmd.n /\ Len(sg) \in Nat
  BY <1>1 DEF RInv, RList
<1>3. RS!SgCount = cmd.n
  BY <1>1, <1>2 DEF RS!SgCount, RS!SgIndx
<1>4. SubSeq(psg, 1, Len(psg)) = psg
  BY <1>1
<1> QED
  BY <1>2, <1>3, <1>4

LEMMA RSend ==
  ASSUME RInv, RS!Send PROVE RInv'
<1>0. /\ at = "map" /\ Len(sg) = cmd.n
      /\ UNCHANGED <<host64, usrb, pool, fib, size, cmd, sg, psg, byte_count, data, given, calls, writes>>
  BY DEF RS!Send
<1>01. size' \in Nat
  BY <1>0 DEF RInv, RType
<1>1. CASE RS!Fail("ENXIO") /\ UNCHANGED adapter
  BY <1>0, <1>01, <1>1, RFailsEarly
<1> DEFINE r == [list |-> psg, dir |-> cmd.dir, mine |-> data, total |-> byte_count]
<1>2. CASE /\ at' = "wait" /\ UNCHANGED rcode /\ alloc' = alloc \ {RS!List}
           /\ adapter' = [adapter EXCEPT ![fib] = r]
  <2>0. fib \in Threads /\ r \in RS!Requests /\ cmd \in Srbs /\ rcode = "ok"
    <3>1. cmd \in Srbs /\ cmd.dir \in RS!Directions
      BY <1>0, SrbFacts DEF RInv, RList
    <3>2. fib \in Threads /\ rcode = "ok"
      BY <1>0 DEF RInv, RType, RPool
    <3> QED
      BY <3>1, <3>2 DEF RS!Requests, RInv, RType
  <2>1. adapter \in [Threads -> RS!Requests \cup {None}] /\ r # None
    BY <2>0, SrbAssumption DEF RInv, RType
  <2> HIDE DEF r
  <2>2. adapter'[fib] = r /\ adapter' \in [Threads -> RS!Requests \cup {None}]
        /\ \A f \in Threads : f # fib => adapter'[f] = adapter[f]
    BY <1>2, <2>0, <2>1
  <2>3. RType'
    BY <1>0, <1>2, <2>2 DEF RInv, RType, RPlaces
  <2>4. RPool'
    BY <1>0, <1>2, <2>0, <2>1, <2>2 DEF RInv, RPool
  <2>5. RHeap'
    <3>1. alloc = {RS!Copy} \cup Bufs(Len(sg)) \cup IF Misread THEN {RS!List} ELSE {}
      BY <1>0 DEF RInv, RHeap
    <3>2. RS!List # RS!Copy /\ RS!List \notin Bufs(Len(sg))
      BY <1>0, RAllocated DEF Bufs
    <3>3. alloc' = {RS!Copy} \cup Bufs(Len(sg))
      BY <1>2, <3>1, <3>2
    <3> QED
      BY <1>0, <1>2, <3>3 DEF RHeap, Bufs, Buf, RS!Copy
  <2>6. RList'
    <3>1. Misread' = Misread
      BY <1>0 DEF Misread, RS!Is64, RS!Size64
    <3> QED
      BY <1>0, <1>2, <3>1 DEF RInv, RList, Buf, Line, RS!IsSum, RS!Sends
  <2>7. ROut'
    BY <1>0, <1>2, <2>2 DEF ROut, r
  <2>8. RBack'
    BY <1>2 DEF RBack, RS!DataGivenBack
  <2> QED
    BY <2>3, <2>4, <2>5, <2>6, <2>7, <2>8 DEF RInv
<1> QED
  BY <1>0, <1>1, <1>2, SgCountIs DEF RS!Send

\* What CopyBack gives of the next entry.
LEMMA NextBack ==
  ASSUME RInv, at = "back", ~RS!BackDone
  PROVE  /\ Len(given) \in Nat
         /\ cmd.n > 0 => /\ sg # <<>> /\ Len(given) + 1 \in 1 .. cmd.n
                         /\ [data[Len(given) + 1] EXCEPT !.len = psg[Len(given) + 1].count]
                              = Filled(Len(given) + 1)
                         /\ cmd.counts[Len(given) + 1] \in Nat
         /\ ~(cmd.n > 0) => sg = <<>>
         /\ cmd.dir \in RS!Receives
<1>1. /\ sg \in Seq({"buffer"} \X Nat) /\ Len(given) \in Nat /\ cmd \in Srbs
      /\ Len(sg) = cmd.n /\ Len(psg) = cmd.n
      /\ \A i \in 1 .. Len(psg) : psg[i] = Line(i)
  BY DEF RInv, RType, RList
<1>2. cmd.n \in Nat /\ \A i \in 1 .. cmd.n : cmd.counts[i] \in Nat
  BY <1>1, SrbFacts
<1>3. cmd.dir \in RS!Receives /\ ~(Len(given) > RS!SgIndx)
  BY DEF RS!BackDone
<1>4. ASSUME cmd.n > 0
      PROVE  /\ sg # <<>> /\ Len(given) + 1 \in 1 .. cmd.n
             /\ [data[Len(given) + 1] EXCEPT !.len = psg[Len(given) + 1].count]
                              = Filled(Len(given) + 1)
  <2>1. sg # <<>>
    BY <1>1, <1>4
  <2>2. Len(given) + 1 \in 1 .. cmd.n
    BY <1>1, <1>2, <1>3, <2>1 DEF RS!SgIndx
  <2>3. data[Len(given) + 1] = Filled(Len(given) + 1)
    BY <1>3, <1>4, <2>2 DEF RInv, RBack
  <2>4. psg[Len(given) + 1].count = cmd.counts[Len(given) + 1]
    <3>1. \A i \in 1 .. cmd.n : psg[i] = [buf |-> Buf(i), count |-> cmd.counts[i]]
      BY <1>1 DEF Line
    <3>2. psg[Len(given) + 1] = [buf |-> Buf(Len(given) + 1), count |-> cmd.counts[Len(given) + 1]]
      BY <2>2, <3>1, Zenon
    <3> QED
      BY <3>2
  <2>5. data[Len(given) + 1] = [of |-> "adapter", len |-> cmd.counts[Len(given) + 1]]
    BY <2>3 DEF Filled
  <2>6. [data[Len(given) + 1] EXCEPT !.len = psg[Len(given) + 1].count]
          = [of |-> "adapter", len |-> cmd.counts[Len(given) + 1]]
    BY <2>4, <2>5
  <2> QED
    BY <2>1, <2>2, <2>6 DEF Filled
<1>5. ASSUME ~(cmd.n > 0) PROVE sg = <<>>
  BY <1>1, <1>2, <1>5
<1> QED
  BY <1>1, <1>2, <1>3, <1>4, <1>5

\* The call is over, with its buffers as they are.
LEMMA RBackEnds ==
  ASSUME RInv, at = "back", at' = "cleanup", rcode' \in {"ok", "EFAULT"}, RS!DataGivenBack',
         UNCHANGED <<host64, usrb, pool, fib, size, cmd, sg, psg, byte_count, data, given, alloc,
                     adapter, calls, writes>>
  PROVE  RInv'
<1>1. RType'
  BY DEF RInv, RType, RPlaces
<1>2. RPool'
  BY DEF RInv, RPool
<1>3. RHeap'
  BY DEF RInv, RHeap, Bufs, Buf, RS!Copy
<1>4. RList'
  BY DEF RInv, RList, Buf
<1>5. ROut' /\ RBack'
  BY DEF ROut, RBack
<1> QED
  BY <1>1, <1>2, <1>3, <1>4, <1>5 DEF RInv

LEMMA RCopyBack ==
  ASSUME RInv, RS!CopyBack PROVE RInv'
<1> DEFINE k == Len(given) + 1
           g == IF sg = <<>> THEN [of |-> "fib", len |-> 0]
                ELSE [data[k] EXCEPT !.len = psg[k].count]
<1>0. /\ at = "back" /\ ~RS!BackDone
      /\ UNCHANGED <<host64, usrb, pool, fib, size, cmd, sg, psg, byte_count, data, alloc, adapter, calls, writes>>
  BY DEF RS!CopyBack
<1>1. CASE at' = "cleanup" /\ rcode' = "EFAULT" /\ UNCHANGED given
  BY <1>0, <1>1, RBackEnds DEF RS!DataGivenBack
<1>2. CASE given' = Append(given, g) /\ UNCHANGED <<at, rcode>>
  <2>1. /\ Len(given) \in Nat /\ cmd \in Srbs /\ cmd.n \in Nat
        /\ given \in Seq([of : {"program", "adapter", "fib"}, len : Nat])
    BY <1>0, SrbFacts DEF RInv, RType, RList
  <2>2. cmd.n > 0 => k \in 1 .. cmd.n /\ g = Filled(k)
    BY <1>0, NextBack
  <2>3. g \in [of : {"program", "adapter", "fib"}, len : Nat]
    <3>1. CASE cmd.n > 0
      BY <1>0, <2>2, <3>1, NextBack DEF Filled
    <3>2. CASE ~(cmd.n > 0)
      BY <1>0, <3>2, NextBack
    <3> QED
      BY <3>1, <3>2
  <2> HIDE DEF g
  <2>4. /\ given' \in Seq([of : {"program", "adapter", "fib"}, len : Nat]) /\ Len(given') = k
        /\ \A i \in 1 .. k : given'[i] = IF i <= Len(given) THEN given[i] ELSE g
    BY <1>2, <2>1, <2>3
  <2>5. RType'
    BY <1>0, <1>2, <2>4 DEF RInv, RType
  <2>6. RPool'
    BY <1>0, <1>2 DEF RInv, RPool
  <2>7. RHeap'
    BY <1>0, <1>2 DEF RInv, RHeap, Bufs, Buf, RS!Copy
  <2>8. RList'
    BY <1>0, <1>2 DEF RInv, RList, Buf, Line, RS!IsSum
  <2>9. RBack'
    <3>1. ASSUME cmd.dir \in RS!Receives, cmd.n > 0
          PROVE  /\ \A i \in 1 .. cmd.n : data[i] = Filled(i)
                 /\ Len(given') <= cmd.n /\ \A i \in 1 .. Len(given') : given'[i] = Filled(i)
      <4>1. /\ \A i \in 1 .. cmd.n : data[i] = Filled(i)
            /\ \A i \in 1 .. Len(given) : given[i] = Filled(i)
        BY <1>0, <3>1 DEF RInv, RBack
      <4>2. \A i \in 1 .. k : \/ i \in 1 .. Len(given) /\ i <= Len(given)
                              \/ i = k /\ ~(i <= Len(given))
        BY <2>1
      <4>3. \A i \in 1 .. k : given'[i] = Filled(i)
        <5> HIDE DEF k
        <5> TAKE i \in 1 .. k
        <5>1. CASE i \in 1 .. Len(given) /\ i <= Len(given)
          BY <2>4, <4>1, <5>1
        <5>2. CASE i = k /\ ~(i <= Len(given))
          BY <2>2, <2>4, <3>1, <5>2
        <5> QED
          BY <4>2, <5>1, <5>2
      <4> QED
        BY <2>1, <2>2, <2>4, <3>1, <4>1, <4>3
    <3>2. cmd' = cmd /\ data' = data /\ at' = "back"
      BY <1>0, <1>2
    <3> QED
      BY <3>1, <3>2 DEF RBack, RS!DataGivenBack, Filled, RS!Receives
  <2>10. ROut'
    BY <1>0, <1>2 DEF ROut
  <2> QED
    BY <2>5, <2>6, <2>7, <2>8, <2>9, <2>10 DEF RInv
<1> QED
  BY <1>0, <1>1, <1>2 DEF RS!CopyBack

LEMMA RCopyReply ==
  ASSUME RInv, RS!CopyReply PROVE RInv'
<1>0. /\ at = "back" /\ RS!BackDone /\ at' = "cleanup" /\ rcode' \in {"ok", "EFAULT"}
      /\ UNCHANGED <<host64, usrb, pool, fib, size, cmd, sg, psg, byte_count, data, given, alloc, adapter, calls, writes>>
  BY DEF RS!CopyReply
<1>1. ASSUME cmd.dir \in RS!Receives, cmd.n > 0
      PROVE  given = [i \in 1 .. cmd.n |-> Filled(i)]
  <2>1. /\ sg \in Seq({"buffer"} \X Nat) /\ cmd \in Srbs /\ Len(sg) = cmd.n
        /\ given \in Seq([of : {"program", "adapter", "fib"}, len : Nat])
    BY <1>0 DEF RInv, RType, RList
  <2>2. Len(given) <= cmd.n /\ \A i \in 1 .. Len(given) : given[i] = Filled(i)
    BY <1>0, <1>1 DEF RInv, RBack
  <2>3. Len(given) > RS!SgIndx /\ sg # <<>>
    BY <1>0, <1>1, <2>1 DEF RS!BackDone
  <2>4. Len(given) = cmd.n
    BY <2>1, <2>2, <2>3, SrbFacts DEF RS!SgIndx
  <2>5. given = [i \in 1 .. cmd.n |-> given[i]]
    BY <2>1, <2>4
  <2> QED
    BY <2>2, <2>4, <2>5
<1>2. RS!DataGivenBack'
  <2>1. cmd.dir \in RS!Receives /\ cmd.n > 0 =>
          given = [i \in 1 .. cmd.n |-> [of |-> "adapter", len |-> cmd.counts[i]]]
    BY <1>1 DEF Filled
  <2> QED
    BY <1>0, <2>1 DEF RS!DataGivenBack, RS!Receives
<1> QED
  BY <1>0, <1>2, RBackEnds

LEMMA FunIsSeq ==
  ASSUME NEW S, NEW n \in Nat, NEW g \in [1 .. n -> S]
  PROVE  g \in Seq(S) /\ Len(g) = n
OBVIOUS

\* The adapter fills the buffers of the waiting call.
LEMMA RFilled ==
  ASSUME RInv, RS!Answer(fib), at = "wait", fib \in Threads
  PROVE  /\ Len(data) = cmd.n /\ cmd.n \in Nat
         /\ data' \in Seq([of : {"program", "adapter"}, len : Nat]) /\ Len(data') = Len(data)
         /\ cmd.dir \in RS!Receives => \A i \in 1 .. cmd.n : data'[i] = Filled(i)
<1>1. /\ Len(data) = cmd.n /\ Len(psg) = cmd.n /\ cmd \in Srbs
      /\ data \in Seq([of : {"program", "adapter"}, len : Nat]) /\ DOMAIN data = 1 .. cmd.n
  BY DEF RInv, RType, RList
<1>2. cmd.n \in Nat /\ \A i \in 1 .. cmd.n : cmd.counts[i] \in Nat
  BY <1>1, SrbFacts
<1>3. adapter[fib].list = psg /\ adapter[fib].dir = cmd.dir
  BY DEF RInv, ROut
<1>4. \A i \in 1 .. cmd.n : psg[i] = [buf |-> Buf(i), count |-> cmd.counts[i]]
  BY <1>1 DEF RInv, RList, Line
<1>5. data' = IF cmd.dir \in RS!Receives
              THEN [i \in DOMAIN data |-> [of |-> "adapter", len |-> psg[i].count]] ELSE data
  BY <1>3 DEF RS!Answer
<1>6. CASE cmd.dir \in RS!Receives
  <2>1. \A i \in 1 .. cmd.n : psg[i].count = cmd.counts[i]
    <3> TAKE i \in 1 .. cmd.n
    <3>1. psg[i] = [buf |-> Buf(i), count |-> cmd.counts[i]]
      BY <1>4
    <3> QED
      BY <3>1
  <2>2. data' = [i \in 1 .. cmd.n |-> [of |-> "adapter", len |-> psg[i].count]]
    BY <1>1, <1>5, <1>6
  <2>3. \A i \in 1 .. cmd.n : data'[i] = [of |-> "adapter", len |-> psg[i].count]
    BY <2>2
  <2>31. \A i \in 1 .. cmd.n : data'[i] = [of |-> "adapter", len |-> cmd.counts[i]]
    BY <2>1, <2>3
  <2>4. \A i \in 1 .. cmd.n : data'[i] \in [of : {"program", "adapter"}, len : Nat]
    <3> TAKE i \in 1 .. cmd.n
    <3>1. data'[i] = [of |-> "adapter", len |-> cmd.counts[i]] /\ cmd.counts[i] \in Nat
      BY <1>2, <2>31
    <3> QED
      BY <3>1
  <2>5. data' \in [1 .. cmd.n -> [of : {"program", "adapter"}, len : Nat]]
    BY <2>2, <2>4
  <2>6. data' \in Seq([of : {"program", "adapter"}, len : Nat]) /\ Len(data') = cmd.n
    BY <1>2, <2>5, FunIsSeq
  <2> QED
    BY <1>1, <1>2, <2>6, <2>31 DEF Filled
<1>7. CASE cmd.dir \notin RS!Receives
  BY <1>1, <1>2, <1>5, <1>7
<1> QED
  BY <1>6, <1>7

LEMMA RAnswer ==
  ASSUME RInv, NEW f \in Threads, RS!Answer(f) PROVE RInv'
<1>0. /\ adapter[f] # None /\ adapter' = [adapter EXCEPT ![f] = None]
      /\ UNCHANGED <<host64, usrb, fib, size, cmd, sg, psg, byte_count, given, alloc, rcode, calls, writes>>
  BY DEF RS!Answer
<1>1. adapter \in [Threads -> RS!Requests \cup {None}] /\ pool \subseteq Threads
  BY DEF RInv, RType
<1>2. /\ adapter' \in [Threads -> RS!Requests \cup {None}] /\ adapter'[f] = None
      /\ \A g \in Threads : g # f => adapter'[g] = adapter[g]
  BY <1>0, <1>1
<1>3. CASE at = "wait" /\ fib = f
  <2>0. at' = "back" /\ pool' = pool /\ rcode = "ok"
    BY <1>3 DEF RS!Answer, RInv, RPool
  <2>1. /\ Len(data) = cmd.n /\ cmd.n \in Nat
        /\ data' \in Seq([of : {"program", "adapter"}, len : Nat]) /\ Len(data') = Len(data)
        /\ cmd.dir \in RS!Receives => \A i \in 1 .. cmd.n : data'[i] = Filled(i)
    BY <1>3, RFilled
  <2>2. RType'
    BY <1>0, <1>2, <2>0, <2>1 DEF RInv, RType, RPlaces
  <2>3. RPool'
    BY <1>0, <1>2, <1>3, <2>0, ThreadsAssumption DEF RInv, RPool
  <2>4. RHeap'
    BY <1>0, <1>3, <2>0 DEF RInv, RHeap, Bufs, Buf, RS!Copy
  <2>5. RList'
    BY <1>0, <1>3, <2>0, <2>1 DEF RInv, RList, Buf, Line, RS!IsSum
  <2>6. RBack'
    <3>1. given = <<>>
      BY <1>3 DEF RInv, RList
    <3>2. given' = <<>> /\ Len(given') = 0 /\ cmd' = cmd
      BY <1>0, <3>1
    <3>3. \A i \in 1 .. Len(given') : given'[i] = Filled(i)'
      BY <3>2
    <3>4. (cmd.dir \in RS!Receives /\ cmd.n > 0 => \A i \in 1 .. cmd.n : data[i] = Filled(i))'
      BY <2>1, <3>2 DEF Filled, RS!Receives
    <3> QED
      BY <2>0, <2>1, <3>2, <3>3, <3>4 DEF RBack, RS!DataGivenBack
  <2>7. ROut'
    BY <2>0 DEF ROut
  <2> QED
    BY <2>2, <2>3, <2>4, <2>5, <2>6, <2>7 DEF RInv
<1>4. CASE ~(at = "wait" /\ fib = f)
  <2>0. at' = at /\ data' = data /\ pool' = pool \cup {f}
    BY <1>4 DEF RS!Answer
  <2>1. at = "wait" => adapter'[fib] = adapter[fib]
    BY <1>2, <1>4 DEF RInv, RType, RPool
  <2>2. RType'
    BY <1>0, <1>1, <1>2, <2>0 DEF RInv, RType
  <2>3. RPool'
    <3>1. CASE rcode = "ERESTARTSYS"
      BY <1>0, <1>1, <1>2, <2>0, <3>1 DEF RInv, RPool
    <3>2. CASE rcode # "ERESTARTSYS"
      <4>1. f # fib
        BY <1>0, <1>4, <3>2, ThreadsAssumption DEF RInv, RPool
      <4>2. pool' = {g \in Threads : adapter'[g] = None /\ g # fib}
        BY <1>0, <1>1, <1>2, <2>0, <3>2, <4>1 DEF RInv, RPool
      <4>3. at \notin {"idle", "wait"} => adapter'[fib] = None
        BY <1>1, <1>2, <3>2, <4>1 DEF RInv, RPool, RType
      <4> QED
        BY <1>0, <2>0, <3>2, <4>2, <4>3 DEF RInv, RPool
    <3> QED
      BY <3>1, <3>2
  <2>4. RHeap'
    <3>1. Misread' = Misread
      BY <1>0 DEF Misread, RS!Is64, RS!Size64
    <3> QED
      BY <1>0, <2>0, <3>1 DEF RInv, RHeap, Bufs, Buf, RS!Copy, RS!List
  <2>5. RList'
    <3>1. Misread' = Misread
      BY <1>0 DEF Misread, RS!Is64, RS!Size64
    <3> QED
      BY <1>0, <2>0, <3>1 DEF RInv, RList, Buf, Line, RS!IsSum, RS!Sends
  <2>6. RBack'
    BY <1>0, <2>0 DEF RInv, RBack, RS!DataGivenBack, Filled, RS!Receives
  <2>7. ROut'
    BY <1>0, <2>0, <2>1 DEF RInv, ROut
  <2> QED
    BY <2>2, <2>3, <2>4, <2>5, <2>6, <2>7 DEF RInv
<1> QED
  BY <1>3, <1>4

LEMMA RInvStep ==
  ASSUME RInv, RS!Next PROVE RInv'
BY RUserWrites, RFetchSize, RFetchFaults, RFetchSrb, RCheckSrb, RNoMemory, RMapEntry, RSend,
   RSignal, RCopyBack, RCopyReply, RCleanup, RBegin, RAnswer DEF RS!Next

LEMMA RSafe ==
  ASSUME RInv
  PROVE  RS!TypeOK /\ RS!SrbBalanced /\ RS!ListIsTheProgramsOwn /\ RS!DataGivenBack
<1>1. RS!TypeOK
  BY DEF RInv, RType, RList, RS!TypeOK
<1>2. RS!SrbBalanced
  BY ThreadsAssumption DEF RInv, RPool, RHeap, RS!SrbBalanced
<1>3. RS!ListIsTheProgramsOwn
  <2> SUFFICES ASSUME at = "wait"
      PROVE  LET r == adapter[fib]
             IN  /\ Len(r.list) = cmd.n
                 /\ \A i \in 1 .. cmd.n : r.list[i].buf \in alloc /\ r.list[i].count = cmd.counts[i]
                 /\ RS!IsSum(r.total, cmd.counts, cmd.n)
                 /\ (cmd.dir \in RS!Sends /\ ~(host64 /\ ~RS!Is64)) =>
                       \A i \in 1 .. cmd.n : r.mine[i].len = r.list[i].count
    BY DEF RS!ListIsTheProgramsOwn
  <2>1. adapter[fib].list = psg /\ adapter[fib].mine = data /\ adapter[fib].total = byte_count
    BY DEF RInv, ROut
  <2>2. Len(psg) = cmd.n /\ Len(data) = cmd.n /\ RS!IsSum(byte_count, cmd.counts, cmd.n)
        /\ alloc = {RS!Copy} \cup Bufs(cmd.n)
    BY DEF RInv, RList, RHeap
  <2>3. \A i \in 1 .. cmd.n : psg[i] = [buf |-> Buf(i), count |-> cmd.counts[i]]
    BY <2>2 DEF RInv, RList, Line
  <2>4. \A i \in 1 .. cmd.n : psg[i].buf = Buf(i) /\ psg[i].count = cmd.counts[i]
    <3> TAKE i \in 1 .. cmd.n
    <3>1. psg[i] = [buf |-> Buf(i), count |-> cmd.counts[i]]
      BY <2>3
    <3> QED
      BY <3>1
  <2>5. \A i \in 1 .. cmd.n : psg[i].buf \in alloc
    BY <2>2, <2>4 DEF Bufs
  <2>6. (cmd.dir \in RS!Sends /\ ~(host64 /\ ~RS!Is64)) => \A i \in 1 .. cmd.n : data[i].len = cmd.counts[i]
    BY <2>2 DEF RInv, RList, Misread
  <2> QED
    BY <2>1, <2>2, <2>4, <2>5, <2>6
<1> QED
  BY <1>1, <1>2, <1>3 DEF RInv, RBack

-----------------------------------------------------------------------------
(***************************************************************************)
(* CrosEc.                                                                 *)
(***************************************************************************)
\* Where a caller holds the mutex, and where it has not polled yet.
Locked == {"query", "query_pd", "query_v2", "realloc", "sizes", "send", "xfer", "read",
           "poll", "unlock"}
Unpolled == {"idle", "refetch", "lock", "query", "query_pd", "query_v2", "realloc", "sizes",
             "send", "xfer", "read"}
CPlaces == {"idle", "refetch", "lock", "give"} \cup Locked
Command == [out : Nat, in : Nat, pass : BOOLEAN, res : {"ok", "busy", "refused"}]

CType ==
  /\ ucmd \in Command /\ proto \in {0, 2, 3} /\ pkt \in BOOLEAN /\ ec \in Ecs
  /\ maxReq \in Nat /\ maxResp \in Nat /\ maxPass \in Nat /\ dinSize \in Nat /\ doutSize \in Nat
  /\ din \in [size : Int, of : Threads \cup {"nobody"}]
  /\ dout \in [size : Int, of : Threads \cup {"nobody"}]
  /\ lock \in Threads \cup {"nobody"} /\ busy \in Threads \cup {"nobody"}
  /\ pc \in [Threads -> CPlaces] /\ polls \in [Threads -> 0 .. Retries]
  /\ u \in [Threads -> Command \cup {CE!NoCmd}] /\ s \in [Threads -> Command \cup {CE!NoCmd}]
  /\ room \in [Threads -> Nat] /\ got \in [Threads -> Nat \cup {-1}]
  /\ ret \in [Threads -> {"none", "ok", "error"}]

CLock(c) == pc[c] \in Locked <=> lock = c

\* What a caller has allocated is enough for what it sends and receives.
CMine(c) ==
  /\ pc[c] \in {"idle", "refetch"} => s[c] = CE!NoCmd /\ got[c] = -1
  /\ pc[c] \notin {"idle", "refetch"} => s[c] \in Command /\ s[c].in <= room[c]
  /\ pc[c] = "refetch" => u[c] \in Command /\ u[c].in <= room[c] /\ u[c].out <= room[c]
  /\ got[c] <= room[c] /\ s[c].out <= room[c]
  /\ pc[c] \in Unpolled => polls[c] = 0

\* A command the EC is still at.
CLate(c) ==
  /\ pc[c] = "give" => ret[c] = "ok"
  /\ pc[c] \in {"unlock", "give"} /\ ret[c] = "ok" /\ busy = c /\ polls[c] > 0 /\ s[c].res = "ok"
       => polls[c] = Retries

\* The sizes are those of the buffers, but for the time between the query of
\* the protocol and the allocation; the packet of the holder is in the buffers.
Resizing == \E c \in Threads : pc[c] \in {"query_pd", "realloc"}
CSizes == ~lost /\ ~Resizing => dinSize = din.size /\ doutSize = dout.size
CFits(c) ==
  /\ ~lost /\ pc[c] = "query_pd" => CE!Fits(InfoSize, 0, din.size, dout.size)
  /\ ~lost /\ pc[c] = "xfer" => CE!Fits(s[c].in, s[c].out, din.size, dout.size)
  /\ pc[c] = "xfer" => dout.of = c
  /\ pc[c] = "read" /\ proto = 3 => din.of = c

CInv == /\ CType /\ CSizes
        /\ \A c \in Threads : CLock(c) /\ CMine(c) /\ CLate(c) /\ CFits(c)

LEMMA CrosFacts ==
  /\ ReqHdr \in Nat /\ RespHdr \in Nat /\ ReqI2c \in Nat /\ RespI2c \in Nat /\ InfoSize \in Nat
  /\ Proto2Max \in Nat /\ Retries \in Nat /\ Answers \subseteq Nat
  /\ Cmds \subseteq Command
  /\ \A e \in Ecs : /\ e.req \in Nat /\ e.req >= ReqHdr
                    /\ e.resp \in Nat /\ e.resp >= RespHdr
                    /\ e.pd \in Nat /\ (e.pd = 0 \/ e.pd >= ReqHdr)
                    /\ e.proto \in {0, 2, 3}
<1>1. Cmds \subseteq Command
  <2>1. Cmds \subseteq [out : Nat, in : Nat, pass : BOOLEAN, res : {"ok", "busy"}]
    BY CrosAssumption
  <2>2. [out : Nat, in : Nat, pass : BOOLEAN, res : {"ok", "busy"}] \subseteq Command
    BY DEF Command
  <2> QED
    BY <2>1, <2>2
<1> QED
  BY <1>1, CrosAssumption

LEMMA NoCmdIs ==
  /\ CE!NoCmd.out = -1 /\ CE!NoCmd.in = -1 /\ CE!NoCmd.res = "ok"
  /\ CE!NoCmd \notin Command
<1>1. CE!NoCmd.out = -1 /\ CE!NoCmd.in = -1 /\ CE!NoCmd.res = "ok"
  BY DEF CE!NoCmd
<1>2. \A h \in Command : h.out \in Nat
  BY DEF Command
<1>3. -1 \notin Nat
  OBVIOUS
<1> QED
  BY <1>1, <1>2, <1>3

WithIn(h, n) == [h EXCEPT !.in = n]
WithPass(h, p) == [h EXCEPT !.pass = p]
WithRes(h, r) == [h EXCEPT !.res = r]

LEMMA CommandFields ==
  ASSUME NEW h \in Command
  PROVE  h.out \in Nat /\ h.in \in Nat /\ h.pass \in BOOLEAN /\ h.res \in {"ok", "busy", "refused"}
BY DEF Command

LEMMA WithInIs ==
  ASSUME NEW h \in Command, NEW n \in Nat
  PROVE  WithIn(h, n) \in Command /\ WithIn(h, n).in = n /\ WithIn(h, n).out = h.out
BY DEF Command, WithIn

LEMMA WithPassIs ==
  ASSUME NEW h \in Command, NEW p \in BOOLEAN
  PROVE  WithPass(h, p) \in Command /\ WithPass(h, p).in = h.in /\ WithPass(h, p).out = h.out
BY DEF Command, WithPass

LEMMA WithResIs ==
  ASSUME NEW h \in Command, NEW r \in {"ok", "busy", "refused"}
  PROVE  /\ WithRes(h, r) \in Command /\ WithRes(h, r).res = r
         /\ WithRes(h, r).in = h.in /\ WithRes(h, r).out = h.out
BY DEF Command, WithRes

\* A step of c leaves what the others have alone.
CFrame(c) == \A d \in Threads : d # c =>
  /\ pc'[d] = pc[d] /\ u'[d] = u[d] /\ s'[d] = s[d] /\ room'[d] = room[d]
  /\ got'[d] = got[d] /\ polls'[d] = polls[d] /\ ret'[d] = ret[d]

LEMMA CrosMine ==
  ASSUME CInv, NEW c \in Threads, CFrame(c), busy' \in {busy, "nobody", c},
         NEW d \in Threads, d # c
  PROVE  CMine(d)' /\ CLate(d)'
<1>1. CMine(d) /\ CLate(d)
  BY DEF CInv
<1>2. /\ pc'[d] = pc[d] /\ u'[d] = u[d] /\ s'[d] = s[d] /\ room'[d] = room[d]
      /\ got'[d] = got[d] /\ polls'[d] = polls[d] /\ ret'[d] = ret[d]
  BY DEF CFrame
<1>3. busy' = d => busy = d
  BY ThreadsAssumption
<1>4. CMine(d)'
  BY <1>1, <1>2 DEF CMine, Command, Unpolled
<1>5. CLate(d)'
  BY <1>1, <1>2, <1>3 DEF CLate
<1> QED
  BY <1>4, <1>5

LEMMA CrosTogether ==
  ASSUME CInv, NEW c \in Threads, CType', CFrame(c), busy' \in {busy, "nobody", c},
         lock' = lock \/ (lock \in {c, "nobody"} /\ lock' \in {c, "nobody"}),
         CLock(c)', CMine(c)', CLate(c)', CSizes', \A d \in Threads : CFits(d)'
  PROVE  CInv'
<1>1. ASSUME NEW d \in Threads PROVE CLock(d)' /\ CMine(d)' /\ CLate(d)'
  <2>1. CASE d = c
    BY <2>1 DEF CLock, CMine, CLate
  <2>2. CASE d # c
    <3>1. CMine(d)' /\ CLate(d)'
      BY <2>2, CrosMine
    <3>2. lock' = d <=> lock = d
      BY <2>2, ThreadsAssumption
    <3>3. CLock(d) /\ pc'[d] = pc[d]
      BY <2>2 DEF CInv, CFrame
    <3>4. CLock(d)'
      BY <3>2, <3>3 DEF CLock, Locked
    <3> QED
      BY <3>1, <3>4
  <2> QED
    BY <2>1, <2>2
<1> QED
  BY <1>1 DEF CInv

\* Only one caller is where the mutex is held.
LEMMA CrosAlone ==
  ASSUME CInv, NEW c \in Threads, pc[c] \in Locked, CFrame(c)
  PROVE  /\ lock = c
         /\ \A d \in Threads : d # c => pc'[d] \notin Locked
<1>1. lock = c
  BY DEF CInv, CLock
<1>2. \A d \in Threads : d # c => pc[d] \notin Locked
  BY <1>1 DEF CInv, CLock
<1>3. \A d \in Threads : d # c => pc'[d] = pc[d]
  BY DEF CFrame
<1> QED
  BY <1>1, <1>2, <1>3

\* Steps that leave the device as it is.
LEMMA CrosDevice ==
  ASSUME CInv, NEW c \in Threads, CFrame(c),
         UNCHANGED <<proto, dinSize, doutSize, lost, din, dout>>,
         pc[c] \notin {"query_pd", "realloc"},
         pc'[c] \notin {"query_pd", "realloc", "xfer"},
         pc'[c] = "read" => proto # 3
  PROVE  CSizes' /\ \A d \in Threads : CFits(d)'
<1>1. ~Resizing' => ~Resizing
  BY DEF Resizing, CFrame
<1>2. CSizes'
  BY <1>1 DEF CSizes, CInv
<1>3. ASSUME NEW d \in Threads PROVE CFits(d)'
  <2>1. CASE d = c
    BY <2>1 DEF CFits
  <2>2. CASE d # c
    <3>1. pc'[d] = pc[d] /\ s'[d] = s[d] /\ CFits(d)
      BY <2>2 DEF CFrame, CInv
    <3> QED
      BY <3>1 DEF CFits, CE!Fits
  <2> QED
    BY <2>1, <2>2
<1> QED
  BY <1>2, <1>3

\* Steps of the holder: the device is then as they leave it.
LEMMA CrosHolder ==
  ASSUME CInv, NEW c \in Threads, CFrame(c), pc[c] \in Locked, CFits(c)'
  PROVE  \A d \in Threads : CFits(d)'
<1> TAKE d \in Threads
<1>1. CASE d = c
  BY <1>1 DEF CFits
<1>2. CASE d # c
  <2>1. pc'[d] \notin {"query_pd", "xfer", "read"}
    BY <1>2, CrosAlone DEF Locked
  <2> QED
    BY <2>1 DEF CFits
<1> QED
  BY <1>1, <1>2

\* The end of a call.
LEMMA CrosLeave ==
  ASSUME CInv, NEW c \in Threads, CE!Leave(c)
  PROVE  /\ CFrame(c) /\ pc'[c] = "idle" /\ CMine(c)' /\ CLate(c)'
         /\ pc' \in [Threads -> CPlaces] /\ polls' \in [Threads -> 0 .. Retries]
         /\ u' \in [Threads -> Command \cup {CE!NoCmd}] /\ s' \in [Threads -> Command \cup {CE!NoCmd}]
         /\ room' \in [Threads -> Nat] /\ got' \in [Threads -> Nat \cup {-1}]
         /\ ret' \in [Threads -> {"none", "ok", "error"}]
<1>1. /\ pc \in [Threads -> CPlaces] /\ polls \in [Threads -> 0 .. Retries]
      /\ u \in [Threads -> Command \cup {CE!NoCmd}] /\ s \in [Threads -> Command \cup {CE!NoCmd}]
      /\ room \in [Threads -> Nat] /\ got \in [Threads -> Nat \cup {-1}]
      /\ ret \in [Threads -> {"none", "ok", "error"}]
  BY DEF CInv, CType
<1>2. /\ pc' = [pc EXCEPT ![c] = "idle"] /\ ret' = [ret EXCEPT ![c] = "none"]
      /\ u' = [u EXCEPT ![c] = CE!NoCmd] /\ s' = [s EXCEPT ![c] = CE!NoCmd]
      /\ room' = [room EXCEPT ![c] = 0] /\ got' = [got EXCEPT ![c] = -1]
      /\ polls' = [polls EXCEPT ![c] = 0]
  BY DEF CE!Leave, CE!Go
<1>3. CFrame(c) /\ pc'[c] = "idle"
  BY <1>1, <1>2 DEF CFrame
<1>4. /\ pc' \in [Threads -> CPlaces] /\ polls' \in [Threads -> 0 .. Retries]
      /\ u' \in [Threads -> Command \cup {CE!NoCmd}] /\ s' \in [Threads -> Command \cup {CE!NoCmd}]
      /\ room' \in [Threads -> Nat] /\ got' \in [Threads -> Nat \cup {-1}]
      /\ ret' \in [Threads -> {"none", "ok", "error"}]
  BY <1>1, <1>2, CrosFacts DEF CPlaces
<1>5. s'[c] = CE!NoCmd /\ room'[c] = 0 /\ got'[c] = -1 /\ polls'[c] = 0
  BY <1>1, <1>2
<1>6. CMine(c)'
  <2>1. s'[c].out = -1
    BY <1>5, NoCmdIs
  <2> QED
    BY <1>3, <1>5, <2>1 DEF CMine
<1>7. CLate(c)'
  BY <1>3 DEF CLate
<1> QED
  BY <1>3, <1>4, <1>6, <1>7

LEMMA CrosGo ==
  ASSUME CInv, NEW c \in Threads, NEW w \in CPlaces, CE!Go(c, w)
  PROVE  pc' \in [Threads -> CPlaces] /\ pc'[c] = w /\ \A d \in Threads : d # c => pc'[d] = pc[d]
BY DEF CE!Go, CInv, CType

\* The end of a call that leaves the device as it is.
LEMMA CrosEnds ==
  ASSUME CInv, NEW c \in Threads, CE!Leave(c), pc[c] \notin {"query_pd", "realloc"},
         ucmd' \in Command,
         UNCHANGED <<ec, proto, pkt, maxReq, maxResp, maxPass, dinSize, doutSize, lost, din, dout, busy>>,
         lock' = IF pc[c] \in Locked THEN "nobody" ELSE lock
  PROVE  CInv'
<1>1. CType'
  BY CrosLeave DEF CInv, CType
<1>2. CLock(c)'
  <2>1. lock' # c
    BY ThreadsAssumption DEF CInv, CLock
  <2> QED
    BY <2>1, CrosLeave DEF CLock, Locked
<1>3. lock' = lock \/ (lock \in {c, "nobody"} /\ lock' \in {c, "nobody"})
  BY DEF CInv, CLock
<1>4. CSizes' /\ \A d \in Threads : CFits(d)'
  BY CrosLeave, CrosDevice
<1> QED
  BY <1>1, <1>2, <1>3, <1>4, CrosLeave, CrosTogether

LEMMA CrosXcmdRefused ==
  ASSUME CInv, NEW c \in Threads, CE!XcmdRefused(c) PROVE CInv'
<1>1. pc[c] = "refetch" /\ ucmd' = ucmd /\ ucmd \in Command /\ lock' = lock
  BY DEF CE!XcmdRefused, CE!At, CInv, CType
<1> QED
  BY <1>1, CrosEnds DEF CE!XcmdRefused, CE!dev, Locked

LEMMA CrosRefuse ==
  ASSUME CInv, NEW c \in Threads, CE!Refuse(c) PROVE CInv'
<1>1. pc[c] = "sizes" /\ ucmd' = ucmd /\ ucmd \in Command /\ lock' = "nobody"
  BY DEF CE!Refuse, CE!At, CE!Unlock, CE!Nobody, CInv, CType
<1> QED
  BY <1>1, CrosEnds DEF CE!Refuse, CE!dev, Locked

LEMMA CrosGive ==
  ASSUME CInv, NEW c \in Threads, CE!Give(c) PROVE CInv'
<1>1. pc[c] = "give" /\ lock' = lock /\ ucmd \in Command /\ CMine(c)
  BY DEF CE!Give, CE!At, CInv, CType
<1>2. s[c] \in Command
  BY <1>1 DEF CMine
<1>3. ucmd' \in Command
  BY <1>1, <1>2 DEF CE!Give
<1> QED
  BY <1>1, <1>3, CrosEnds DEF CE!Give, CE!dev, Locked

LEMMA CrosUserWrites ==
  ASSUME CInv, CE!UserWrites \/ CE!EcFinishes PROVE CInv'
<1>1. /\ ucmd' \in Command /\ busy' \in {busy, "nobody"}
      /\ UNCHANGED <<ec, proto, pkt, maxReq, maxResp, maxPass, dinSize, doutSize, lost, din, dout,
                     lock, pc, u, s, room, got, polls, ret>>
  BY CrosFacts DEF CE!UserWrites, CE!EcFinishes, CE!dev, CE!Nobody, CInv, CType
<1>2. CType'
  BY <1>1 DEF CInv, CType
<1>3. CSizes'
  BY <1>1 DEF CInv, CSizes, Resizing
<1>4. ASSUME NEW c \in Threads PROVE CLock(c)' /\ CMine(c)' /\ CLate(c)' /\ CFits(c)'
  <2>0. CLock(c) /\ CMine(c) /\ CLate(c) /\ CFits(c)
    BY DEF CInv
  <2>1. CLock(c)' /\ CMine(c)'
    BY <1>1, <2>0 DEF CLock, CMine, Locked, Unpolled, Command
  <2>2. CFits(c)'
    BY <1>1, <2>0 DEF CFits, CE!Fits
  <2>3. busy' = c => busy = c
    BY <1>1, ThreadsAssumption
  <2>4. CLate(c)'
    BY <1>1, <2>0, <2>3 DEF CLate
  <2> QED
    BY <2>1, <2>2, <2>4
<1> QED
  BY <1>2, <1>3, <1>4 DEF CInv

\* A step of c to w, with a command h, its answer g and its result r changed,
\* that leaves the device as it is.
CMove(c, w, h, r, g, n) ==
  /\ w \in CPlaces \ {"idle", "refetch", "query_pd", "realloc", "xfer"}
  /\ CE!Go(c, w) /\ pc[c] \notin {"query_pd", "realloc"}
  /\ h \in Command /\ s' = [s EXCEPT ![c] = h] /\ h.in <= room[c] /\ h.out <= room[c]
  /\ r \in {"none", "ok", "error"} /\ ret' = [ret EXCEPT ![c] = r]
  /\ g \in Nat \cup {-1} /\ got' = [got EXCEPT ![c] = g] /\ g <= room[c]
  /\ n \in 0 .. Retries /\ polls' = [polls EXCEPT ![c] = n]
  /\ UNCHANGED <<u, room, ucmd, ec, pkt, proto, maxReq, maxResp, maxPass,
                 dinSize, doutSize, lost, din, dout>>
  /\ busy' \in {busy, c} /\ (w \in Locked <=> lock' = c)
  /\ lock' = lock \/ (lock \in {c, "nobody"} /\ lock' \in {c, "nobody"})
  /\ w \in Unpolled => n = 0
  /\ w = "give" => r = "ok"
  /\ w \in {"unlock", "give"} /\ r = "ok" /\ busy' = c /\ n > 0 /\ h.res = "ok" => n = Retries
  /\ w = "read" => proto # 3

LEMMA CrosMoves ==
  ASSUME CInv, NEW c \in Threads, NEW w, NEW h, NEW r, NEW g, NEW n, CMove(c, w, h, r, g, n)
  PROVE  CInv'
<1> USE DEF CMove
<1>1. /\ s \in [Threads -> Command \cup {CE!NoCmd}] /\ ret \in [Threads -> {"none", "ok", "error"}]
      /\ got \in [Threads -> Nat \cup {-1}] /\ polls \in [Threads -> 0 .. Retries]
      /\ lock \in Threads \cup {"nobody"} /\ busy \in Threads \cup {"nobody"}
  BY DEF CInv, CType
<1>2. /\ s' \in [Threads -> Command \cup {CE!NoCmd}] /\ s'[c] = h
      /\ ret' \in [Threads -> {"none", "ok", "error"}] /\ ret'[c] = r
      /\ got' \in [Threads -> Nat \cup {-1}] /\ got'[c] = g
      /\ polls' \in [Threads -> 0 .. Retries] /\ polls'[c] = n
      /\ \A d \in Threads : d # c => /\ s'[d] = s[d] /\ ret'[d] = ret[d]
                                     /\ got'[d] = got[d] /\ polls'[d] = polls[d]
  BY <1>1
<1>3. CFrame(c)
  BY <1>2, CrosGo DEF CFrame
<1>4. pc' \in [Threads -> CPlaces] /\ pc'[c] = w
  BY CrosGo
<1>5. CType'
  BY <1>1, <1>2, <1>4 DEF CInv, CType
<1>6. CLock(c)'
  BY <1>4 DEF CLock
<1>7. CMine(c)'
  BY <1>2, <1>4 DEF CMine
<1>8. CLate(c)'
  BY <1>2, <1>4 DEF CLate
<1>9. CSizes' /\ \A d \in Threads : CFits(d)'
  BY <1>3, <1>4, CrosDevice
<1> QED
  BY <1>3, <1>5, <1>6, <1>7, <1>8, <1>9, CrosTogether

\* What is known of a caller with a command.
LEMMA CrosAt ==
  ASSUME CInv, NEW c \in Threads, pc[c] \notin {"idle", "refetch"}
  PROVE  /\ s[c] \in Command /\ s[c].in <= room[c] /\ s[c].out <= room[c] /\ got[c] <= room[c]
         /\ room[c] \in Nat /\ got[c] \in Nat \cup {-1} /\ polls[c] \in 0 .. Retries
         /\ ret[c] \in {"none", "ok", "error"}
         /\ pc[c] \in Unpolled => polls[c] = 0
         /\ pc[c] \in Locked <=> lock = c
         /\ c # "nobody" /\ maxResp \in Nat
         /\ s = [s EXCEPT ![c] = s[c]] /\ got = [got EXCEPT ![c] = got[c]]
         /\ polls = [polls EXCEPT ![c] = polls[c]] /\ ret = [ret EXCEPT ![c] = ret[c]]
<1>1. CType /\ CMine(c) /\ CLock(c)
  BY DEF CInv
<1>2. /\ s = [s EXCEPT ![c] = s[c]] /\ got = [got EXCEPT ![c] = got[c]]
      /\ polls = [polls EXCEPT ![c] = polls[c]] /\ ret = [ret EXCEPT ![c] = ret[c]]
  BY <1>1 DEF CType
<1>3. /\ room[c] \in Nat /\ got[c] \in Nat \cup {-1} /\ polls[c] \in 0 .. Retries
      /\ ret[c] \in {"none", "ok", "error"} /\ maxResp \in Nat
  BY <1>1 DEF CType
<1> QED
  BY <1>1, <1>2, <1>3, ThreadsAssumption DEF CMine, CLock

LEMMA CrosLock ==
  ASSUME CInv, NEW c \in Threads, CE!Lock(c) PROVE CInv'
<1> DEFINE w == IF proto = 0 THEN "query" ELSE "sizes"
<1>1. pc[c] = "lock" /\ lock = "nobody" /\ lock' = c /\ CE!Go(c, w) /\ w \in CPlaces
  BY DEF CE!Lock, CE!At, CE!LockFree, CE!Nobody, CPlaces, Locked
<1>2. /\ s' = [s EXCEPT ![c] = s[c]] /\ got' = [got EXCEPT ![c] = got[c]]
      /\ polls' = [polls EXCEPT ![c] = polls[c]] /\ ret' = [ret EXCEPT ![c] = ret[c]]
  BY <1>1, CrosAt DEF CE!Lock
<1>3. polls[c] = 0
  BY <1>1, CrosAt DEF Unpolled
<1>4. CMove(c, w, s[c], ret[c], got[c], polls[c])
  BY <1>1, <1>2, <1>3, CrosAt DEF CMove, CE!Lock, CE!dev, Locked
<1> QED
  BY <1>4, CrosMoves

LEMMA CrosCheckSizes ==
  ASSUME CInv, NEW c \in Threads, CE!CheckSizes(c) PROVE CInv'
<1> DEFINE n == IF s[c].in > maxResp THEN maxResp ELSE s[c].in
           h == WithIn(s[c], n)
<1>1. pc[c] = "sizes" /\ lock' = lock /\ CE!Go(c, "send") /\ "send" \in CPlaces
  BY DEF CE!CheckSizes, CE!At, CPlaces, Locked
<1>2. s[c] \in Command /\ polls[c] = 0 /\ lock = c
  BY <1>1, CrosAt DEF Unpolled, Locked
<1>3. n \in Nat /\ n <= room[c]
  <2>1. s[c].in \in Nat /\ maxResp \in Nat /\ room[c] \in Nat /\ s[c].in <= room[c]
    BY <1>1, <1>2, CrosAt, CommandFields
  <2> QED
    BY <2>1
<1>4. h \in Command /\ h.in = n /\ h.out = s[c].out
  <2> HIDE DEF n
  <2> QED
    BY <1>2, <1>3, WithInIs
<1>5. s' = [s EXCEPT ![c] = h]
  <2>1. s' = [s EXCEPT ![c].in = IF s[c].in > maxResp THEN maxResp ELSE s[c].in]
    BY DEF CE!CheckSizes
  <2> QED
    BY <2>1 DEF WithIn
<1>6. /\ got' = [got EXCEPT ![c] = got[c]]
      /\ polls' = [polls EXCEPT ![c] = polls[c]] /\ ret' = [ret EXCEPT ![c] = ret[c]]
  BY <1>1, CrosAt DEF CE!CheckSizes
<1> HIDE DEF h, n
<1>7. CMove(c, "send", h, ret[c], got[c], polls[c])
  BY <1>1, <1>2, <1>3, <1>4, <1>5, <1>6, CrosAt DEF CMove, CE!CheckSizes, CE!dev, Locked
<1> QED
  BY <1>7, CrosMoves

LEMMA CrosTransferV2 ==
  ASSUME CInv, NEW c \in Threads, CE!TransferV2(c) PROVE CInv'
<1>1. pc[c] = "send" /\ proto # 3 /\ lock' = lock /\ CE!Go(c, "read") /\ "read" \in CPlaces
  BY DEF CE!TransferV2, CE!At, CPlaces, Locked
<1>2. polls[c] = 0 /\ lock = c
  BY <1>1, CrosAt DEF Unpolled, Locked
<1>3. /\ s' = [s EXCEPT ![c] = s[c]] /\ got' = [got EXCEPT ![c] = got[c]]
      /\ polls' = [polls EXCEPT ![c] = polls[c]] /\ ret' = [ret EXCEPT ![c] = ret[c]]
  BY <1>1, CrosAt DEF CE!TransferV2
<1>4. CMove(c, "read", s[c], ret[c], got[c], polls[c])
  BY <1>1, <1>2, <1>3, CrosAt DEF CMove, CE!TransferV2, CE!dev, Locked
<1> QED
  BY <1>4, CrosMoves

\* A transfer is over, with or without an answer.
LEMMA CrosAfterTransfer ==
  ASSUME CInv, NEW c \in Threads, pc[c] \in {"send", "xfer", "read"},
         NEW res \in {"ok", "busy", "refused"}, NEW r \in {"ok", "error"},
         CE!AfterTransfer(c, res, r),
         NEW g \in Nat \cup {-1}, got' = [got EXCEPT ![c] = g], g <= room[c],
         UNCHANGED <<u, room, polls, ucmd, ec, pkt, proto, maxReq, maxResp, maxPass,
                     dinSize, doutSize, lost, din, dout, lock>>,
         busy' \in {busy, c}
  PROVE  CInv'
<1> DEFINE h == WithRes(s[c], res)
           w == IF res = "busy" THEN "poll" ELSE "unlock"
<1>1. CE!Go(c, w) /\ w \in CPlaces /\ w \in {"poll", "unlock"} /\ ret' = [ret EXCEPT ![c] = r]
  BY DEF CE!AfterTransfer, CPlaces, Locked
<1>2. s[c] \in Command /\ polls[c] = 0 /\ lock = c
  BY CrosAt DEF Unpolled, Locked
<1>3. h \in Command /\ h.in = s[c].in /\ h.out = s[c].out
  BY <1>2, WithResIs
<1>4. s' = [s EXCEPT ![c] = h]
  BY DEF CE!AfterTransfer, WithRes
<1>5. polls' = [polls EXCEPT ![c] = polls[c]]
  BY CrosAt
<1> HIDE DEF h, w
<1>6. CMove(c, w, h, r, g, polls[c])
  <2>1. h.in <= room[c] /\ h.out <= room[c] /\ polls[c] \in 0 .. Retries /\ ~(polls[c] > 0)
    BY <1>2, <1>3, CrosAt
  <2>2. w \in CPlaces \ {"idle", "refetch", "query_pd", "realloc", "xfer"} /\ w \in Locked
    BY <1>1 DEF Locked
  <2>3. w \notin Unpolled /\ w # "give" /\ w # "read"
    BY <1>1 DEF Unpolled
  <2> QED
    BY <1>1, <1>2, <1>3, <1>4, <1>5, <2>1, <2>2, <2>3 DEF CMove
<1> QED
  BY <1>6, CrosMoves

LEMMA CrosReadAnswer ==
  ASSUME CInv, NEW c \in Threads, CE!ReadAnswer(c) PROVE CInv'
<1>1. pc[c] = "read" /\ UNCHANGED <<u, room, polls, ucmd, ec, pkt, proto, maxReq, maxResp, maxPass,
                     dinSize, doutSize, lost, din, dout, lock, busy>>
  BY DEF CE!ReadAnswer, CE!At, CE!dev
<1>2. PICK n \in Answers :
        IF CE!TooLong(c, n) THEN CE!AfterTransfer(c, "ok", "error") /\ UNCHANGED got
        ELSE /\ got' = [got EXCEPT ![c] = n]
             /\ \E r \in {"ok", "error"} : CE!AfterTransfer(c, "ok", r)
  BY DEF CE!ReadAnswer
<1>3. CASE CE!TooLong(c, n)
  <2>1. CE!AfterTransfer(c, "ok", "error") /\ got' = [got EXCEPT ![c] = got[c]]
    BY <1>1, <1>2, <1>3, CrosAt
  <2> QED
    BY <1>1, <2>1, CrosAt, CrosAfterTransfer
<1>4. CASE ~CE!TooLong(c, n)
  <2>1. PICK r \in {"ok", "error"} : CE!AfterTransfer(c, "ok", r)
    BY <1>2, <1>4
  <2>2. got' = [got EXCEPT ![c] = n] /\ n \in Nat
    BY <1>2, <1>4, CrosFacts
  <2>3. n <= room[c]
    <3>1. s[c].in \in Nat /\ room[c] \in Nat /\ s[c].in <= room[c]
      BY <1>1, CrosAt, CommandFields
    <3> QED
      BY <1>4, <2>2, <3>1 DEF CE!TooLong
  <2> QED
    BY <1>1, <2>1, <2>2, <2>3, CrosAfterTransfer
<1> QED
  BY <1>3, <1>4

LEMMA CrosInProgress ==
  ASSUME CInv, NEW c \in Threads, CE!InProgress(c) PROVE CInv'
<1>1. /\ pc[c] = "read" /\ busy' = c /\ CE!AfterTransfer(c, "busy", "error")
      /\ UNCHANGED <<u, room, got, polls, ucmd, ec, pkt, proto, maxReq, maxResp, maxPass,
                     dinSize, doutSize, lost, din, dout, lock>>
  BY DEF CE!InProgress, CE!At, CE!dev
<1>2. got' = [got EXCEPT ![c] = got[c]]
  BY <1>1, CrosAt
<1> QED
  BY <1>1, <1>2, CrosAt, CrosAfterTransfer

LEMMA CrosTransferFails ==
  ASSUME CInv, NEW c \in Threads, CE!TransferFails(c) PROVE CInv'
<1>1. /\ pc[c] \in {"send", "xfer"} /\ CE!AfterTransfer(c, s[c].res, "error")
      /\ UNCHANGED <<u, room, got, polls, ucmd, ec, pkt, proto, maxReq, maxResp, maxPass,
                     dinSize, doutSize, lost, din, dout, lock, busy>>
  BY DEF CE!TransferFails, CE!At, CE!dev
<1>2. got' = [got EXCEPT ![c] = got[c]] /\ s[c] \in Command
  BY <1>1, CrosAt
<1>3. s[c].res \in {"ok", "busy", "refused"}
  BY <1>2, CommandFields
<1> QED
  BY <1>1, <1>2, <1>3, CrosAt, CrosAfterTransfer

\* A step of the status loop: the result is one of the last query.
LEMMA CrosPolled ==
  ASSUME CInv, NEW c \in Threads, pc[c] = "poll", NEW w \in {"poll", "unlock"}, CE!Go(c, w),
         NEW h \in Command, s' = [s EXCEPT ![c] = h], h.in = s[c].in, h.out = s[c].out,
         NEW r \in {"none", "ok", "error"}, ret' = [ret EXCEPT ![c] = r],
         NEW n \in 0 .. Retries, polls' = [polls EXCEPT ![c] = n],
         UNCHANGED <<u, room, got, ucmd, ec, pkt, proto, maxReq, maxResp, maxPass,
                     dinSize, doutSize, lost, din, dout, lock, busy>>,
         w = "unlock" /\ r = "ok" /\ busy = c /\ h.res = "ok" => n = Retries
  PROVE  CInv'
<1>1. w \in CPlaces \ {"idle", "refetch", "query_pd", "realloc", "xfer"} /\ w \in Locked
      /\ w \notin Unpolled /\ w # "give" /\ w # "read"
  BY DEF CPlaces, Locked, Unpolled
<1>2. /\ got' = [got EXCEPT ![c] = got[c]] /\ got[c] <= room[c] /\ got[c] \in Nat \cup {-1}
      /\ h.in <= room[c] /\ h.out <= room[c] /\ lock = c
  BY CrosAt DEF Locked
<1>3. CMove(c, w, h, r, got[c], n)
  BY <1>1, <1>2 DEF CMove
<1> QED
  BY <1>3, CrosMoves

LEMMA CrosPoll ==
  ASSUME CInv, NEW c \in Threads, CE!Poll(c) \/ CE!PollRefused(c) PROVE CInv'
<1>0. /\ pc[c] = "poll" /\ polls[c] < Retries
      /\ UNCHANGED <<u, room, got, ucmd, ec, pkt, proto, maxReq, maxResp, maxPass,
                     dinSize, doutSize, lost, din, dout, lock, busy>>
  BY DEF CE!Poll, CE!PollRefused, CE!At, CE!RoundsLeft, CE!dev
<1>1. s[c] \in Command /\ polls[c] \in 0 .. Retries /\ polls = [polls EXCEPT ![c] = polls[c]]
      /\ c # "nobody"
  BY <1>0, CrosAt
<1>2. CASE CE!Poll(c)
  <2> DEFINE h == WithRes(s[c], "ok")
             w == IF busy = "nobody" THEN "unlock" ELSE "poll"
             n == polls[c] + 1
  <2>1. h \in Command /\ h.in = s[c].in /\ h.out = s[c].out
    BY <1>1, WithResIs
  <2>2. s' = [s EXCEPT ![c] = h] /\ ret' = [ret EXCEPT ![c] = "ok"] /\ CE!Go(c, w)
        /\ polls' = [polls EXCEPT ![c] = n]
    BY <1>2 DEF CE!Poll, WithRes, CE!Nobody
  <2>3. n \in 0 .. Retries
    BY <1>0, <1>1, CrosFacts
  <2>4. w \in {"poll", "unlock"} /\ (w = "unlock" => busy # c)
    BY <1>1
  <2> HIDE DEF h, w, n
  <2> QED
    BY <1>0, <2>1, <2>2, <2>3, <2>4, CrosPolled
<1>3. CASE CE!PollRefused(c)
  <2> DEFINE h == WithRes(s[c], "refused")
  <2>1. h \in Command /\ h.in = s[c].in /\ h.out = s[c].out /\ h.res = "refused"
    BY <1>1, WithResIs
  <2>2. s' = [s EXCEPT ![c] = h] /\ ret' = [ret EXCEPT ![c] = "ok"] /\ CE!Go(c, "unlock")
        /\ polls' = [polls EXCEPT ![c] = polls[c]]
    BY <1>1, <1>3 DEF CE!PollRefused, WithRes
  <2> HIDE DEF h
  <2> QED
    BY <1>0, <1>1, <2>1, <2>2, CrosPolled
<1> QED
  BY <1>2, <1>3

LEMMA CrosPollEnds ==
  ASSUME CInv, NEW c \in Threads, CE!PollFails(c) \/ CE!PollEnds(c) PROVE CInv'
<1>0. /\ pc[c] = "poll" /\ CE!Go(c, "unlock")
      /\ UNCHANGED <<u, room, got, ucmd, ec, pkt, proto, maxReq, maxResp, maxPass,
                     dinSize, doutSize, lost, din, dout, lock, busy>>
  BY DEF CE!PollFails, CE!PollEnds, CE!At, CE!dev
<1>1. /\ s[c] \in Command /\ polls[c] \in 0 .. Retries /\ ret[c] \in {"none", "ok", "error"}
      /\ polls' = [polls EXCEPT ![c] = polls[c]] /\ s' = [s EXCEPT ![c] = s[c]]
  BY <1>0, CrosAt DEF CE!PollFails, CE!PollEnds
<1>2. CASE CE!PollFails(c)
  <2>1. ret' = [ret EXCEPT ![c] = "error"]
    BY <1>2 DEF CE!PollFails
  <2> QED
    BY <1>0, <1>1, <2>1, CrosPolled
<1>3. CASE CE!PollEnds(c)
  <2>1. ret' = [ret EXCEPT ![c] = ret[c]]
    BY <1>0, <1>3, CrosAt DEF CE!PollEnds
  <2>2. polls[c] = Retries
    BY <1>1, <1>3, CrosFacts DEF CE!PollEnds, CE!RoundsLeft
  <2> QED
    BY <1>0, <1>1, <2>1, <2>2, CrosPolled
<1> QED
  BY <1>2, <1>3

LEMMA CrosRelease ==
  ASSUME CInv, NEW c \in Threads, CE!Release(c) PROVE CInv'
<1>0. /\ pc[c] = "unlock" /\ lock' = "nobody" /\ lock = c
      /\ UNCHANGED <<ucmd, ec, pkt, proto, maxReq, maxResp, maxPass,
                     dinSize, doutSize, lost, din, dout, busy>>
  BY CrosAt DEF CE!Release, CE!At, CE!Unlock, CE!Nobody, CE!dev, Locked
<1>1. CASE ret[c] = "ok" /\ CE!Go(c, "give") /\ UNCHANGED <<u, s, room, got, polls, ret>>
  <2>1. /\ s' = [s EXCEPT ![c] = s[c]] /\ got' = [got EXCEPT ![c] = got[c]]
        /\ polls' = [polls EXCEPT ![c] = polls[c]] /\ ret' = [ret EXCEPT ![c] = ret[c]]
        /\ s[c] \in Command /\ s[c].in <= room[c] /\ s[c].out <= room[c] /\ got[c] <= room[c]
        /\ got[c] \in Nat \cup {-1} /\ polls[c] \in 0 .. Retries /\ c # "nobody"
    BY <1>0, <1>1, CrosAt
  <2>2. busy = c /\ polls[c] > 0 /\ s[c].res = "ok" => polls[c] = Retries
    BY <1>0, <1>1 DEF CInv, CLate
  <2>3. "give" \in CPlaces \ {"idle", "refetch", "query_pd", "realloc", "xfer"}
        /\ "give" \notin Locked /\ "give" \notin Unpolled
    BY DEF CPlaces, Locked, Unpolled
  <2>4. CMove(c, "give", s[c], ret[c], got[c], polls[c])
    BY <1>0, <1>1, <2>1, <2>2, <2>3 DEF CMove
  <2> QED
    BY <2>4, CrosMoves
<1>2. CASE CE!Leave(c)
  <2>1. ucmd' \in Command
    BY <1>0 DEF CInv, CType
  <2> QED
    BY <1>0, <1>2, <2>1, CrosEnds DEF Locked
<1> QED
  BY <1>1, <1>2 DEF CE!Release

LEMMA CrosXcmdRefetch ==
  ASSUME CInv, NEW c \in Threads, CE!XcmdRefetch(c) PROVE CInv'
<1>0. /\ pc[c] = "refetch" /\ u[c] = ucmd /\ CE!Go(c, "lock")
      /\ UNCHANGED <<ucmd, ec, pkt, proto, maxReq, maxResp, maxPass,
                     dinSize, doutSize, lost, din, dout, busy, lock, u, room, got, polls, ret>>
  BY DEF CE!XcmdRefetch, CE!At, CE!SameCommand, CE!dev
<1>1. PICK pd \in BOOLEAN : s' = [s EXCEPT ![c] = [ucmd EXCEPT !.pass = @ \/ pd]]
  BY DEF CE!XcmdRefetch
<1> DEFINE p == ucmd.pass \/ pd
           h == WithPass(ucmd, p)
<1>2. ucmd \in Command /\ ucmd.in <= room[c] /\ ucmd.out <= room[c]
  BY <1>0 DEF CInv, CMine
<1>3. p \in BOOLEAN
  OBVIOUS
<1>4. s' = [s EXCEPT ![c] = h]
  BY <1>1 DEF WithPass
<1> HIDE DEF p
<1>5. h \in Command /\ h.in = ucmd.in /\ h.out = ucmd.out
  BY <1>2, <1>3, WithPassIs
<1> HIDE DEF h
<1>6. /\ got' = [got EXCEPT ![c] = got[c]] /\ got[c] <= room[c] /\ got[c] \in Nat \cup {-1}
      /\ polls' = [polls EXCEPT ![c] = polls[c]] /\ ret' = [ret EXCEPT ![c] = ret[c]]
      /\ polls[c] = 0 /\ polls[c] \in 0 .. Retries /\ ret[c] \in {"none", "ok", "error"}
  <2>1. CType /\ CMine(c)
    BY DEF CInv
  <2> QED
    BY <1>0, <2>1 DEF CType, CMine, Unpolled
<1>7. /\ "lock" \in CPlaces \ {"idle", "refetch", "query_pd", "realloc", "xfer"}
      /\ "lock" \notin Locked /\ pc[c] \notin Locked
  BY <1>0 DEF CPlaces, Locked
<1>8. lock # c
  BY <1>7 DEF CInv, CLock
<1>9. CMove(c, "lock", h, ret[c], got[c], polls[c])
  BY <1>0, <1>2, <1>4, <1>5, <1>6, <1>7, <1>8 DEF CMove
<1> QED
  BY <1>9, CrosMoves

\* The start of a call, with room for what it sends and receives.
LEMMA CrosStart ==
  ASSUME CInv, NEW c \in Threads, pc[c] = "idle", NEW w \in {"refetch", "lock"}, CE!Go(c, w),
         NEW h \in Command, NEW n \in Nat, h.in <= n, h.out <= n,
         room' = [room EXCEPT ![c] = n],
         \/ w = "refetch" /\ u' = [u EXCEPT ![c] = h] /\ UNCHANGED s
         \/ w = "lock" /\ s' = [s EXCEPT ![c] = h] /\ UNCHANGED u,
         UNCHANGED <<ucmd, ec, pkt, proto, maxReq, maxResp, maxPass,
                     dinSize, doutSize, lost, din, dout, busy, lock, got, polls, ret>>
  PROVE  CInv'
<1>1. /\ s \in [Threads -> Command \cup {CE!NoCmd}] /\ u \in [Threads -> Command \cup {CE!NoCmd}]
      /\ room \in [Threads -> Nat] /\ CMine(c) /\ CLock(c)
  BY DEF CInv, CType
<1>2. w \in CPlaces /\ w \notin Locked /\ w \notin {"idle", "give", "unlock", "query_pd", "realloc", "xfer", "read"}
  BY DEF CPlaces, Locked
<1>3. /\ s' \in [Threads -> Command \cup {CE!NoCmd}] /\ u' \in [Threads -> Command \cup {CE!NoCmd}]
      /\ room' \in [Threads -> Nat] /\ room'[c] = n
      /\ \A d \in Threads : d # c => u'[d] = u[d] /\ s'[d] = s[d] /\ room'[d] = room[d]
  BY <1>1
<1>4. pc' \in [Threads -> CPlaces] /\ pc'[c] = w /\ CFrame(c)
  BY <1>2, <1>3, CrosGo DEF CFrame
<1>5. CType'
  BY <1>3, <1>4 DEF CInv, CType
<1>6. CLock(c)'
  BY <1>1, <1>2, <1>4 DEF CLock, Locked
<1>7. CMine(c)'
  <2>1. s[c] = CE!NoCmd /\ got[c] = -1 /\ polls[c] = 0
    BY <1>1 DEF CMine, Unpolled
  <2>2. CASE w = "refetch"
    <3>1. s'[c] = CE!NoCmd /\ s'[c].out = -1 /\ u'[c] = h
      BY <1>1, <2>1, <2>2, NoCmdIs
    <3> QED
      BY <1>3, <1>4, <2>1, <2>2, <3>1 DEF CMine
  <2>3. CASE w = "lock"
    <3>1. s'[c] = h
      BY <1>1, <2>3
    <3> QED
      BY <1>3, <1>4, <2>1, <2>3, <3>1 DEF CMine
  <2> QED
    BY <2>2, <2>3
<1>8. CLate(c)'
  BY <1>2, <1>4 DEF CLate
<1>9. CSizes' /\ \A d \in Threads : CFits(d)'
  BY <1>2, <1>4, CrosDevice
<1> QED
  BY <1>4, <1>5, <1>6, <1>7, <1>8, <1>9, CrosTogether

LEMMA CrosXcmdFetch ==
  ASSUME CInv, NEW c \in Threads, CE!XcmdFetch(c) PROVE CInv'
<1> DEFINE n == CE!Larger(ucmd.out, ucmd.in)
<1>1. ucmd \in Command
  BY DEF CInv, CType
<1>2. n \in Nat /\ ucmd.in <= n /\ ucmd.out <= n
  BY <1>1, CommandFields DEF CE!Larger
<1>3. /\ pc[c] = "idle" /\ CE!Go(c, "refetch") /\ room' = [room EXCEPT ![c] = n]
      /\ u' = [u EXCEPT ![c] = ucmd] /\ UNCHANGED s
      /\ UNCHANGED <<ucmd, ec, pkt, proto, maxReq, maxResp, maxPass,
                     dinSize, doutSize, lost, din, dout, busy, lock, got, polls, ret>>
  BY DEF CE!XcmdFetch, CE!At, CE!dev
<1> HIDE DEF n
<1> QED
  BY <1>1, <1>2, <1>3, CrosStart

LEMMA CrosReadVersion ==
  ASSUME CInv, NEW c \in Threads, CE!ReadVersion(c) PROVE CInv'
<1>1. PICK r \in {"ok", "busy"} :
        s' = [s EXCEPT ![c] = [out |-> 0, in |-> InfoSize, pass |-> FALSE, res |-> r]]
  BY DEF CE!ReadVersion
<1> DEFINE h == [out |-> 0, in |-> InfoSize, pass |-> FALSE, res |-> r]
<1>2. h \in Command /\ h.in <= InfoSize /\ h.out <= InfoSize /\ InfoSize \in Nat
  BY CrosFacts DEF Command
<1>3. /\ pc[c] = "idle" /\ CE!Go(c, "lock") /\ room' = [room EXCEPT ![c] = InfoSize]
      /\ s' = [s EXCEPT ![c] = h] /\ UNCHANGED u
      /\ UNCHANGED <<ucmd, ec, pkt, proto, maxReq, maxResp, maxPass,
                     dinSize, doutSize, lost, din, dout, busy, lock, got, polls, ret>>
  BY <1>1 DEF CE!ReadVersion, CE!At, CE!dev
<1> HIDE DEF h
<1> QED
  BY <1>2, <1>3, CrosStart

\* The types of the device.
CDevice == /\ proto \in {0, 2, 3} /\ pkt \in BOOLEAN
           /\ maxReq \in Nat /\ maxResp \in Nat /\ maxPass \in Nat /\ dinSize \in Nat /\ doutSize \in Nat
           /\ din \in [size : Int, of : Threads \cup {"nobody"}]
           /\ dout \in [size : Int, of : Threads \cup {"nobody"}]

LEMMA CrosDeviceIs == ASSUME CInv PROVE CDevice
BY DEF CInv, CType, CDevice

\* A step of the holder before its answer is there, that changes the device.
LEMMA CrosHolds ==
  ASSUME CInv, NEW c \in Threads, pc[c] \in Locked \cap Unpolled, NEW w \in Locked \cap Unpolled,
         CE!Go(c, w),
         ret' = ret \/ ret' = [ret EXCEPT ![c] = "error"],
         UNCHANGED <<ucmd, ec, lock, busy, u, s, room, got, polls>>,
         CDevice', CSizes', CFits(c)'
  PROVE  CInv'
<1>0. w \in CPlaces /\ w \notin {"idle", "refetch", "unlock", "give"}
  BY DEF CPlaces, Locked, Unpolled
<1>1. /\ ret' \in [Threads -> {"none", "ok", "error"}]
      /\ \A d \in Threads : d # c => ret'[d] = ret[d]
  BY DEF CInv, CType
<1>2. pc' \in [Threads -> CPlaces] /\ pc'[c] = w /\ CFrame(c)
  BY <1>0, <1>1, CrosGo DEF CFrame
<1>3. CType'
  BY <1>1, <1>2 DEF CInv, CType, CDevice
<1>4. CLock(c)'
  BY <1>2, CrosAlone DEF CLock, Locked
<1>5. CMine(c)'
  BY <1>0, <1>2 DEF CInv, CMine, Locked, Command
<1>6. CLate(c)'
  BY <1>0, <1>2 DEF CLate
<1>7. \A d \in Threads : CFits(d)'
  BY <1>2, CrosHolder
<1> QED
  BY <1>2, <1>3, <1>4, <1>5, <1>6, <1>7, CrosTogether

\* While the holder is elsewhere, nobody changes the sizes.
LEMMA NotResizing ==
  ASSUME CInv, NEW c \in Threads, pc[c] \in Locked \ {"query_pd", "realloc"}
  PROVE  ~Resizing /\ (~lost => dinSize = din.size /\ doutSize = dout.size)
<1>1. \A d \in Threads : pc[d] \notin {"query_pd", "realloc"}
  BY DEF CInv, CLock, Locked
<1> QED
  BY <1>1 DEF CInv, CSizes, Resizing

LEMMA CrosQueryV3 ==
  ASSUME CInv, NEW c \in Threads, CE!QueryV3(c) PROVE CInv'
<1>0. /\ pc[c] = "query" /\ CE!Go(c, "query_pd") /\ ret' = ret
      /\ UNCHANGED <<ucmd, ec, pkt, maxPass, lost, din, dout, lock, busy, u, s, room, got, polls>>
      /\ CE!Fits(InfoSize, 0, dinSize, doutSize) /\ CE!SizesOf(ec.req, ec.resp) /\ proto' = ec.proto
  BY DEF CE!QueryV3, CE!At
<1>1. ec \in Ecs
  BY DEF CInv, CType
<1>2. CDevice'
  BY <1>0, <1>1, CrosFacts, CrosDeviceIs DEF CDevice, CE!SizesOf
<1>3. pc'[c] = "query_pd"
  BY <1>0, CrosGo DEF CPlaces, Locked
<1>4. CSizes'
  BY <1>3 DEF CSizes, Resizing
<1>5. CFits(c)'
  <2>1. ~lost => dinSize = din.size /\ doutSize = dout.size
    BY <1>0, NotResizing DEF Locked
  <2>2. ~lost => CE!Fits(InfoSize, 0, din.size, dout.size)
    BY <1>0, <2>1
  <2> QED
    BY <1>0, <1>3, <2>2 DEF CFits, CE!Fits
<1> QED
  BY <1>0, <1>2, <1>4, <1>5, CrosHolds DEF Locked, Unpolled

LEMMA CrosQueryV3Fails ==
  ASSUME CInv, NEW c \in Threads, CE!QueryV3Fails(c) PROVE CInv'
<1>0. /\ pc[c] = "query" /\ CE!Go(c, "query_v2") /\ ret' = ret /\ proto' = 2
      /\ UNCHANGED <<ucmd, ec, pkt, maxReq, maxResp, maxPass, dinSize, doutSize, lost, din, dout, lock, busy, u, s, room, got, polls>>
  BY DEF CE!QueryV3Fails, CE!At
<1>1. CDevice'
  BY <1>0, CrosDeviceIs DEF CDevice
<1>2. pc'[c] = "query_v2"
  BY <1>0, CrosGo DEF CPlaces, Locked
<1>3. CSizes'
  BY <1>0, NotResizing DEF CSizes, Locked
<1>4. CFits(c)'
  BY <1>2 DEF CFits
<1> QED
  BY <1>0, <1>1, <1>3, <1>4, CrosHolds DEF Locked, Unpolled

LEMMA CrosToRealloc ==
  ASSUME CInv, NEW c \in Threads, CE!QueryPd(c) \/ CE!QueryV2(c) PROVE CInv'
<1>0. /\ pc[c] \in {"query_pd", "query_v2"} /\ CE!Go(c, "realloc")
      /\ ret' = ret \/ ret' = [ret EXCEPT ![c] = "error"]
      /\ UNCHANGED <<ucmd, ec, proto, lost, din, dout, lock, busy, u, s, room, got, polls>>
  BY DEF CE!QueryPd, CE!QueryV2, CE!At
<1>1. ec \in Ecs
  BY DEF CInv, CType
<1>2. CDevice'
  <2>1. CASE CE!QueryPd(c)
    <3>1. maxPass' \in Nat
      BY <1>1, <2>1, CrosFacts DEF CE!QueryPd
    <3> QED
      BY <2>1, <3>1, CrosDeviceIs DEF CDevice, CE!QueryPd
  <2>2. CASE CE!QueryV2(c)
    <3>1. /\ maxReq' = Proto2Max /\ maxResp' = Proto2Max /\ maxPass' = 0 /\ pkt' = FALSE
          /\ dinSize' = Proto2Max + ReqI2c + RespI2c /\ doutSize' = Proto2Max + ReqI2c + RespI2c
      BY <2>2 DEF CE!QueryV2
    <3>2. dinSize' \in Nat /\ doutSize' \in Nat /\ Proto2Max \in Nat /\ 0 \in Nat
      BY <3>1, CrosFacts
    <3> QED
      BY <1>0, <3>1, <3>2, CrosDeviceIs DEF CDevice
  <2> QED
    BY <2>1, <2>2
<1>3. pc'[c] = "realloc"
  BY <1>0, CrosGo DEF CPlaces, Locked
<1>4. CSizes'
  BY <1>3 DEF CSizes, Resizing
<1>5. CFits(c)'
  BY <1>3 DEF CFits
<1> QED
  BY <1>0, <1>2, <1>4, <1>5, CrosHolds DEF Locked, Unpolled

\* Buffers of new sizes, empty or not, while nobody uses them.
LEMMA BufferIs ==
  ASSUME NEW n \in Int
  PROVE  /\ CE!Buffer(n) \in [size : Int, of : Threads \cup {"nobody"}] /\ CE!Buffer(n).size = n
         /\ CE!NoBuffer \in [size : Int, of : Threads \cup {"nobody"}]
BY DEF CE!Buffer, CE!NoBuffer, CE!Nobody

\* The holder gives up its call, with the device changed.
LEMMA CrosAborts ==
  ASSUME CInv, NEW c \in Threads, CE!Leave(c), pc[c] \in Locked, lock' = "nobody",
         UNCHANGED <<ucmd, ec, busy>>, CDevice', CSizes'
  PROVE  CInv'
<1>1. CType'
  BY CrosLeave DEF CInv, CType, CDevice
<1>2. CLock(c)'
  BY CrosLeave, ThreadsAssumption DEF CLock, Locked
<1>3. lock = c
  BY DEF CInv, CLock
<1>4. CFits(c)'
  BY CrosLeave DEF CFits
<1>5. \A d \in Threads : CFits(d)'
  BY <1>4, CrosLeave, CrosHolder
<1> QED
  BY <1>1, <1>2, <1>3, <1>5, CrosLeave, CrosTogether

LEMMA CrosQueryFails ==
  ASSUME CInv, NEW c \in Threads, CE!QueryFails(c) PROVE CInv'
<1>0. /\ pc[c] = "query_v2" /\ proto' = 0 /\ lock' = "nobody" /\ CE!Leave(c)
      /\ UNCHANGED <<ucmd, ec, pkt, maxReq, maxResp, maxPass, dinSize, doutSize, lost, din, dout, busy>>
  BY DEF CE!QueryFails, CE!At, CE!Unlock, CE!Nobody
<1>1. CDevice'
  BY <1>0, CrosDeviceIs DEF CDevice
<1>2. CSizes'
  BY <1>0, NotResizing DEF CSizes, Locked
<1> QED
  BY <1>0, <1>1, <1>2, CrosAborts DEF Locked

LEMMA CrosRealloc ==
  ASSUME CInv, NEW c \in Threads, CE!Realloc(c) PROVE CInv'
<1>0. /\ pc[c] = "realloc" /\ din' = CE!Buffer(dinSize) /\ dout' = CE!Buffer(doutSize)
      /\ UNCHANGED <<ucmd, ec, proto, pkt, maxReq, maxResp, maxPass, dinSize, doutSize, lost, busy>>
  BY DEF CE!Realloc, CE!At, CE!dev
<1>1. CDevice
  BY CrosDeviceIs
<1>2. CDevice' /\ din'.size = dinSize' /\ dout'.size = doutSize'
  BY <1>0, <1>1, BufferIs DEF CDevice
<1>3. CSizes'
  BY <1>2 DEF CSizes
<1>4. CASE CE!Go(c, "sizes") /\ UNCHANGED <<lock, u, s, room, got, polls, ret>>
  <2>1. pc'[c] = "sizes"
    BY <1>4, CrosGo DEF CPlaces, Locked
  <2>2. CFits(c)'
    BY <2>1 DEF CFits
  <2> QED
    BY <1>0, <1>2, <1>3, <1>4, <2>2, CrosHolds DEF Locked, Unpolled
<1>5. CASE CE!Unlock(c) /\ CE!Leave(c)
  BY <1>0, <1>2, <1>3, <1>5, CrosAborts DEF Locked, CE!Unlock, CE!Nobody
<1> QED
  BY <1>4, <1>5 DEF CE!Realloc

LEMMA CrosReallocFails ==
  ASSUME CInv, NEW c \in Threads, CE!ReallocFails(c) PROVE CInv'
<1>0. /\ pc[c] = "realloc" /\ din' = CE!NoBuffer /\ dout' = CE!NoBuffer /\ lost' = TRUE
      /\ lock' = "nobody" /\ CE!Leave(c)
      /\ UNCHANGED <<ucmd, ec, proto, pkt, maxReq, maxResp, maxPass, dinSize, doutSize, busy>>
  BY DEF CE!ReallocFails, CE!At, CE!Unlock, CE!Nobody
<1>1. CDevice'
  BY <1>0, CrosDeviceIs, BufferIs DEF CDevice
<1>2. CSizes'
  BY <1>0 DEF CSizes
<1> QED
  BY <1>0, <1>1, <1>2, CrosAborts DEF Locked

OfCaller(b, c) == [b EXCEPT !.of = c]

LEMMA OfCallerIs ==
  ASSUME NEW b \in [size : Int, of : Threads \cup {"nobody"}], NEW c \in Threads \cup {"nobody"}
  PROVE  /\ OfCaller(b, c) \in [size : Int, of : Threads \cup {"nobody"}]
         /\ OfCaller(b, c).size = b.size /\ OfCaller(b, c).of = c
BY DEF OfCaller

LEMMA CrosPrepare ==
  ASSUME CInv, NEW c \in Threads, CE!Prepare(c) PROVE CInv'
<1>0. /\ pc[c] = "send" /\ CE!Go(c, "xfer") /\ ret' = ret /\ dout' = OfCaller(dout, c)
      /\ UNCHANGED <<ucmd, ec, proto, pkt, maxReq, maxResp, maxPass, dinSize, doutSize, lost, din,
                     lock, busy, u, s, room, got, polls>>
      /\ ~lost /\ CE!Fits(s[c].in, s[c].out, dinSize, doutSize)
  BY DEF CE!Prepare, CE!At, CE!dev, OfCaller
<1>1. CDevice
  BY CrosDeviceIs
<1>2. CDevice' /\ dout'.size = dout.size /\ dout'.of = c
  BY <1>0, <1>1, OfCallerIs DEF CDevice
<1>3. dinSize = din.size /\ doutSize = dout.size
  BY <1>0, NotResizing DEF Locked
<1>4. CSizes'
  BY <1>0, <1>2, <1>3 DEF CSizes
<1>5. pc'[c] = "xfer"
  BY <1>0, CrosGo DEF CPlaces, Locked
<1>6. CFits(c)'
  BY <1>0, <1>2, <1>3, <1>5 DEF CFits, CE!Fits
<1> QED
  BY <1>0, <1>2, <1>4, <1>6, CrosHolds DEF Locked, Unpolled

LEMMA CrosTransfer ==
  ASSUME CInv, NEW c \in Threads, CE!Transfer(c) PROVE CInv'
<1>0. /\ pc[c] = "xfer" /\ CE!Go(c, "read") /\ ret' = ret /\ din' = OfCaller(din, dout.of)
      /\ UNCHANGED <<ucmd, ec, proto, pkt, maxReq, maxResp, maxPass, dinSize, doutSize, lost, dout,
                     lock, busy, u, s, room, got, polls>>
  BY DEF CE!Transfer, CE!At, CE!dev, OfCaller
<1>1. CDevice /\ dout.of = c
  BY <1>0, CrosDeviceIs DEF CInv, CFits
<1>2. CDevice' /\ din'.size = din.size /\ din'.of = c
  BY <1>0, <1>1, OfCallerIs DEF CDevice
<1>3. ~lost => dinSize = din.size /\ doutSize = dout.size
  BY <1>0, NotResizing DEF Locked
<1>4. CSizes'
  BY <1>0, <1>2, <1>3 DEF CSizes
<1>5. pc'[c] = "read"
  BY <1>0, CrosGo DEF CPlaces, Locked
<1>6. CFits(c)'
  BY <1>2, <1>5 DEF CFits
<1> QED
  BY <1>0, <1>2, <1>4, <1>6, CrosHolds DEF Locked, Unpolled

LEMMA CrosBug ==
  ASSUME CInv, NEW c \in Threads, CE!Bug(c) PROVE CInv'
BY DEF CE!Bug, CE!dev, CInv, CType, CSizes, Resizing, CLock, CMine, CLate, CFits, CE!Fits, Locked, Unpolled,
       Command

LEMMA CInvStep ==
  ASSUME CInv, CE!Next PROVE CInv'
BY CrosUserWrites, CrosXcmdFetch, CrosReadVersion, CrosXcmdRefetch, CrosXcmdRefused, CrosLock,
   CrosQueryV3, CrosQueryV3Fails, CrosToRealloc, CrosQueryFails, CrosRealloc, CrosReallocFails,
   CrosCheckSizes, CrosRefuse, CrosPrepare, CrosTransfer, CrosTransferV2, CrosReadAnswer,
   CrosInProgress, CrosTransferFails, CrosPoll, CrosPollEnds, CrosRelease, CrosGive, CrosBug
DEF CE!Next, CE!Step, CE!Query, CE!Send

LEMMA CInvInit ==
  ASSUME CE!Init PROVE CInv
<1>1. CType
  <2>1. ucmd \in Command /\ ec \in Ecs
    BY CrosFacts DEF CE!Init
  <2>2. dinSize \in Nat /\ doutSize \in Nat
    BY CrosFacts DEF CE!Init
  <2>3. /\ din \in [size : Int, of : Threads \cup {"nobody"}]
        /\ dout \in [size : Int, of : Threads \cup {"nobody"}]
    BY <2>2, BufferIs DEF CE!Init
  <2>4. Retries \in Nat
    BY CrosFacts
  <2> QED
    BY <2>1, <2>2, <2>3, <2>4 DEF CE!Init, CType, CPlaces, CE!Nobody
<1>2. CSizes
  <2>1. dinSize \in Int /\ doutSize \in Int
    BY <1>1 DEF CType
  <2> QED
    BY <2>1, BufferIs DEF CE!Init, CSizes
<1>3. ASSUME NEW c \in Threads PROVE CLock(c) /\ CMine(c) /\ CLate(c) /\ CFits(c)
  <2>1. /\ pc[c] = "idle" /\ lock # c /\ s[c] = CE!NoCmd /\ s[c].out = -1 /\ got[c] = -1
        /\ room[c] = 0 /\ polls[c] = 0
    BY ThreadsAssumption, NoCmdIs DEF CE!Init, CE!Nobody
  <2> QED
    BY <2>1 DEF CLock, CMine, CLate, CFits, Locked
<1> QED
  BY <1>1, <1>2, <1>3 DEF CInv

LEMMA CSafe ==
  ASSUME CInv
  PROVE  CE!TypeOK /\ CE!AnswerIsOwn /\ CE!PacketsFit /\ CE!GivenUpLate
<1>1. CE!TypeOK
  BY DEF CInv, CType, CE!TypeOK, CE!Nobody, Command
<1>2. CE!AnswerIsOwn
  BY DEF CInv, CMine, CFits, CE!AnswerIsOwn
<1>3. CE!PacketsFit
  <2> SUFFICES ASSUME ~lost, NEW c \in Threads
      PROVE  /\ pc[c] = "xfer" => CE!Fits(s[c].in, s[c].out, din.size, dout.size)
             /\ pc[c] \in {"query", "query_pd"} /\ CE!Fits(InfoSize, 0, dinSize, doutSize)
                  => CE!Fits(InfoSize, 0, din.size, dout.size)
    BY DEF CE!PacketsFit
  <2>1. CFits(c)
    BY DEF CInv
  <2>2. pc[c] = "query" => dinSize = din.size /\ doutSize = dout.size
    BY NotResizing DEF Locked
  <2> QED
    BY <2>1, <2>2 DEF CFits
<1>4. CE!GivenUpLate
  BY DEF CInv, CLate, CE!GivenUpLate
<1> QED
  BY <1>1, <1>2, <1>3, <1>4

-----------------------------------------------------------------------------
(***************************************************************************)
(* All of them.                                                            *)
(***************************************************************************)
DInv == /\ sys = "fhandle" => FType /\ FShape /\ FBal /\ FH!RoundTrip
        /\ sys = "sclp" => SInv
        /\ sys = "rawsrb" => RInv
        /\ sys = "cros" => CInv

LEMMA DInvInit ==
  ASSUME Init PROVE DInv
<1>1. CASE sys = "fhandle" /\ FH!Init
  <2>1. FH!RoundTrip
    BY <1>1 DEF FH!Init, FH!RoundTrip
  <2> QED
    BY <1>1, <2>1, FTypeInit, FBalInit DEF DInv
<1>2. CASE sys = "sclp" /\ SC!Init
  BY <1>2, SInvInit DEF DInv
<1>3. CASE sys = "rawsrb" /\ RS!Init
  BY <1>3, RInvInit DEF DInv
<1>4. CASE sys = "cros" /\ CE!Init
  BY <1>4, CInvInit DEF DInv
<1> QED
  BY <1>1, <1>2, <1>3, <1>4 DEF Init

LEMMA RListStays ==
  ASSUME RInv, UNCHANGED <<host64, at, size, cmd, sg, psg, byte_count, data, given>> PROVE RList'
<1>1. Misread' = Misread
  BY DEF Misread, RS!Is64, RS!Size64
<1> QED
  BY <1>1 DEF RInv, RList, Buf, Line, RS!IsSum, RS!Sends

LEMMA DInvStays ==
  ASSUME DInv, UNCHANGED vars PROVE DInv'
<1> USE DEF vars, fvars, svars, rvars, cvars
<1>1. sys' = "fhandle" => (FType /\ FShape /\ FBal /\ FH!RoundTrip)'
  BY DEF DInv, FType, FShape, FLocal, FBal, FReserved, FH!Balanced, FH!Holding, FH!OpenFiles,
         FH!RoundTrip, FH!Decodes, FH!SizeOk, FH!Words, FH!Handle, FH!Header, FH!NoHeader,
         FH!NoHandle, FPlaces, FResults, FH!EncodeFh
<1>2. sys' = "sclp" => SInv'
  BY DEF DInv, SInv, SType, SPages, SLength, PlacesIn, SC!LengthOk
<1>3. sys' = "rawsrb" => RInv'
  <2> SUFFICES ASSUME RInv PROVE RInv'
    BY DEF DInv
  <2>0. UNCHANGED <<rvars, calls, writes>>
    OBVIOUS
  <2>1. RType' /\ RPool' /\ ROut'
    BY <2>0 DEF RInv, RType, RPool, ROut, RPlaces, RS!Requests, RS!Directions
  <2>2. Misread' = Misread
    BY <2>0 DEF Misread, RS!Is64, RS!Size64
  <2>3. RHeap'
    BY <2>0, <2>2 DEF RInv, RHeap, Bufs, Buf, RS!Copy, RS!List
  <2>4. RList'
    <3>1. UNCHANGED <<host64, at, size, cmd, sg, psg, byte_count, data, given>>
      BY <2>0
    <3> QED
      BY <3>1, RListStays
  <2>5. RBack'
    BY <2>0 DEF RInv, RBack, RS!DataGivenBack, Filled, RS!Receives
  <2> QED
    BY <2>1, <2>3, <2>4, <2>5 DEF RInv
<1>4. sys' = "cros" => CInv'
  BY DEF DInv, CInv, CType, CSizes, Resizing, CLock, CMine, CLate, CFits, CE!Fits, Locked, Unpolled,
         Command, CE!NoCmd, CPlaces
<1> QED
  BY <1>1, <1>2, <1>3, <1>4 DEF DInv

LEMMA DInvStep ==
  ASSUME DInv, [Next]_vars PROVE DInv'
<1>1. CASE sys = "fhandle" /\ FH!Next /\ sys' = sys
  BY <1>1, FStepType, FBalStep, FRoundTripStep DEF DInv
<1>2. CASE sys = "sclp" /\ SC!Next /\ sys' = sys
  BY <1>2, SInvStep DEF DInv
<1>3. CASE sys = "rawsrb" /\ RS!Next /\ sys' = sys
  BY <1>3, RInvStep DEF DInv
<1>4. CASE sys = "cros" /\ CE!Next /\ sys' = sys
  BY <1>4, CInvStep DEF DInv
<1> QED
  BY <1>1, <1>2, <1>3, <1>4, DInvStays DEF Next

LEMMA FSafe ==
  ASSUME FType, FBal PROVE FH!TypeOK /\ FH!Balanced
<1>1. mnts \in Nat /\ dents \in Nat
  <2>1. /\ mnts = Cardinality(PlacesIn(Threads, pc, HoldsMnt)) + Cardinality(FilesOpen)
        /\ dents = Cardinality(PlacesIn(Threads, pc, HoldsDent)) + Cardinality(FilesOpen)
    BY FBalanced DEF FBal
  <2> QED
    BY <2>1, FCounts
<1> QED
  BY <1>1 DEF FType, FPlaces, FBal, FH!TypeOK

LEMMA SSafe ==
  ASSUME SInv PROVE SC!TypeOK /\ SC!PagesAccounted /\ SC!WithinPage
<1>0. SType /\ SPages
  BY DEF SInv
<1>1. {t \in Threads : pc[t] # "idle"} = PlacesIn(Threads, pc, Busy)
  BY <1>0 DEF SType, PlacesIn, Busy
<1>2. \A S : SC!Cardinality(S) = Cardinality(S)
  BY DEF SC!Cardinality, Cardinality
<1>3. SC!PagesAccounted
  BY <1>0, <1>1, <1>2 DEF SPages, SC!PagesAccounted
<1>4. refused \in 0 .. CallBounds["sclp"]
  BY <1>0, SCount, BoundsAssumption DEF SType, SPages, Systems
<1>5. SC!TypeOK
  BY <1>0, <1>4 DEF SType, Busy, SC!TypeOK
<1>6. SC!WithinPage
  BY DEF SInv, SLength, SC!WithinPage
<1> QED
  BY <1>3, <1>5, <1>6

\* The inductive invariant of each handler, whichever the behaviour is of.
THEOREM Invariance == Spec => []DInv
<1>1. Init => DInv
  BY DInvInit
<1>2. DInv /\ [Next]_vars => DInv'
  BY DInvStep
<1> QED
  BY <1>1, <1>2, PTL DEF Spec

\* Every way out of name_to_handle_at, open_by_handle_at, sclp_ctl_ioctl_sccb and
\* aac_send_raw_srb gives back the references, copies, descriptors, pages, buffers
\* and fibs it has taken, but for the page of a refused length.
THEOREM EveryWayOutGivesBack == Spec => []Balanced
<1>1. DInv => Balanced
  BY FSafe, SSafe, RSafe DEF DInv, Balanced
<1> QED
  BY <1>1, Invariance, PTL

\* The SCLP block is copied within its page unless its length was altered after
\* the check; the adapter works on the list of the program's own raw SRB, and the
\* program gets back what the adapter wrote.
THEOREM WhatIsCopiedFits == Spec => []CopiesFit
<1>1. DInv => CopiesFit
  BY SSafe, RSafe DEF DInv, CopiesFit
<1> QED
  BY <1>1, Invariance, PTL

\* What a caller of the EC reads is the answer to its own command and fits, the
\* packets fit the buffers there are, and a command the EC is still at is given up
\* only after the last status query.
THEOREM CommandsAreExact == Spec => []CommandsExact
<1>1. DInv => CommandsExact
  BY CSafe DEF DInv, CommandsExact
<1> QED
  BY <1>1, Invariance, PTL

\* A handle of name_to_handle_at that was not written since opens the file it was
\* made for, and after EOVERFLOW the header asks for enough room.
THEOREM HandlesDoServe == Spec => HandlesServe
<1>1. DInv => (sys = "fhandle" => FH!RoundTrip)
  BY DEF DInv
<1>2. DInv /\ [Next]_vars => [sys = "fhandle" => FH!RetryStep]_vars
  <2> SUFFICES ASSUME DInv, Next, sys = "fhandle" PROVE FH!RetryStep
    OBVIOUS
  <2>1. FH!Next
    BY DEF Next
  <2> QED
    BY <2>1, FRetryStep DEF DInv
<1> QED
  BY <1>1, <1>2, Invariance, PTL DEF Spec, HandlesServe

-----------------------------------------------------------------------------
RefPhase == [t \in Threads |-> IF sys = "fhandle" THEN FH!Phase(t) ELSE "idle"]
RefHeader == [t \in Threads |-> IF sys = "fhandle" THEN FH!ActsOn(t) ELSE FH!NoHeader]

LEMMA RefIs ==
  ASSUME sys = "fhandle", NEW t \in Threads
  PROVE  RefPhase[t] = PhaseAt(t) /\ RefHeader[t] = HeaderAt(t)
BY DEF RefPhase, RefHeader, PhaseAt, HeaderAt

LEMMA RefIsPrime ==
  ASSUME sys' = "fhandle", NEW t \in Threads
  PROVE  RefPhase'[t] = PhaseAt(t)' /\ RefHeader'[t] = HeaderAt(t)'
<1>1. RefPhase' = [d \in Threads |-> IF sys' = "fhandle" THEN PhaseAt(d)' ELSE "idle"]
  BY DEF RefPhase, PhaseAt
<1>2. RefHeader' = [d \in Threads |-> IF sys' = "fhandle" THEN HeaderAt(d)' ELSE FH!NoHeader]
  BY DEF RefHeader, HeaderAt, FH!NoHeader
<1> QED
  BY <1>1, <1>2

LEMMA RefFuns ==
  /\ RefPhase = [t \in Threads |-> RefPhase[t]] /\ RefHeader = [t \in Threads |-> RefHeader[t]]
  /\ RefPhase' = [t \in Threads |-> RefPhase'[t]] /\ RefHeader' = [t \in Threads |-> RefHeader'[t]]
BY DEF RefPhase, RefHeader

\* A change of one caller, as CheckedFetch writes it.
LEMMA RefExcept ==
  ASSUME NEW f, NEW g, f = [t \in Threads |-> f[t]], g = [t \in Threads |-> g[t]],
         NEW c \in Threads, \A t \in Threads : t # c => g[t] = f[t]
  PROVE  g = [f EXCEPT ![c] = g[c]]
OBVIOUS

RefCheck(t) == /\ RefPhase[t] = "idle"
               /\ RefPhase' = [RefPhase EXCEPT ![t] = "checked"]
               /\ \E h \in {h \in FH!Header : FH!SizeOk(h)} : RefHeader' = [RefHeader EXCEPT ![t] = h]
RefAct(t) == /\ RefPhase[t] = "checked" /\ RefPhase' = [RefPhase EXCEPT ![t] = "acts"]
             /\ RefHeader' = RefHeader
RefLeave(t) == /\ RefPhase[t] # "idle" /\ RefPhase' = [RefPhase EXCEPT ![t] = "idle"]
               /\ RefHeader' = [RefHeader EXCEPT ![t] = FH!NoHeader]

LEMMA RefStep ==
  ASSUME sys = "fhandle", sys' = "fhandle", FType, FShape, FH!Next
  PROVE  \/ RefPhase' = RefPhase /\ RefHeader' = RefHeader
         \/ \E t \in Threads : RefCheck(t) \/ RefAct(t) \/ RefLeave(t)
<1>1. ASSUME NEW d \in Threads, FSame(d)
      PROVE  RefPhase'[d] = RefPhase[d] /\ RefHeader'[d] = RefHeader[d]
  BY <1>1, RefIs, RefIsPrime DEF FSame
<1>2. ASSUME \A d \in Threads : FSame(d)
      PROVE  RefPhase' = RefPhase /\ RefHeader' = RefHeader
  <2>1. \A d \in Threads : RefPhase'[d] = RefPhase[d] /\ RefHeader'[d] = RefHeader[d]
    BY <1>1, <1>2
  <2> QED
    BY <2>1, RefFuns
<1>3. ASSUME NEW t \in Threads, \A d \in Threads : d # t => FSame(d),
             FSame(t) \/ FCheck(t) \/ FAct(t) \/ FLeave(t)
      PROVE  \/ RefPhase' = RefPhase /\ RefHeader' = RefHeader
             \/ RefCheck(t) \/ RefAct(t) \/ RefLeave(t)
  <2>1. CASE FSame(t)
    BY <1>2, <1>3, <2>1
  <2>2. \A d \in Threads : d # t => RefPhase'[d] = RefPhase[d] /\ RefHeader'[d] = RefHeader[d]
    BY <1>1, <1>3
  <2>3. /\ RefPhase' = [RefPhase EXCEPT ![t] = RefPhase'[t]]
        /\ RefHeader' = [RefHeader EXCEPT ![t] = RefHeader'[t]]
    BY <2>2, RefFuns, RefExcept
  <2>4. CASE FCheck(t)
    BY <2>3, <2>4, RefIs, RefIsPrime DEF FCheck, RefCheck
  <2>5. CASE FAct(t)
    <3>1. RefHeader'[t] = RefHeader[t]
      BY <2>5, RefIs, RefIsPrime DEF FAct
    <3>2. \A d \in Threads : RefHeader'[d] = RefHeader[d]
      BY <2>2, <3>1
    <3>3. RefHeader' = RefHeader
      BY <3>2, RefFuns
    <3> QED
      BY <2>3, <2>5, <3>3, RefIs, RefIsPrime DEF FAct, RefAct
  <2>6. CASE FLeave(t)
    BY <2>3, <2>6, RefIs, RefIsPrime DEF FLeave, RefLeave
  <2> QED
    BY <1>3, <2>1, <2>4, <2>5, <2>6
<1> QED
  BY <1>2, <1>3, FPhaseStep

LEMMA RefStays ==
  ASSUME sys' = sys, sys # "fhandle" \/ (UNCHANGED fvars /\ UNCHANGED pc)
  PROVE  RefPhase' = RefPhase /\ RefHeader' = RefHeader
BY DEF RefPhase, RefHeader, FH!Phase, FH!ActsOn, FH!NoHeader, fvars

LEMMA CheckedStep ==
  ASSUME DInv, [Next]_vars PROVE [Checked!Next]_Checked!vars
<1>1. \/ RefPhase' = RefPhase /\ RefHeader' = RefHeader
      \/ \E t \in Threads : RefCheck(t) \/ RefAct(t) \/ RefLeave(t)
  <2>1. CASE sys = "fhandle" /\ FH!Next /\ sys' = sys
    BY <2>1, RefStep DEF DInv
  <2>2. CASE UNCHANGED vars
    BY <2>2, RefStays DEF vars, fvars
  <2>3. CASE sys \in {"sclp", "rawsrb", "cros"} /\ sys' = sys
    <3>1. sys' = sys /\ sys # "fhandle"
      BY <2>3
    <3> QED
      BY <3>1, RefStays
  <2> QED
    BY <2>1, <2>2, <2>3 DEF Next
<1>2. CASE RefPhase' = RefPhase /\ RefHeader' = RefHeader
  BY <1>2 DEF Checked!vars, RefPhase, RefHeader
<1>3. ASSUME NEW t \in Threads, RefCheck(t) \/ RefAct(t) \/ RefLeave(t) PROVE Checked!Next
  <2>1. RefCheck(t) => Checked!Check(t)
    BY DEF RefCheck, Checked!Check, RefPhase, RefHeader
  <2>2. RefAct(t) => Checked!Act(t)
    BY DEF RefAct, Checked!Act, RefPhase, RefHeader
  <2>3. RefLeave(t) => Checked!Leave(t)
    BY DEF RefLeave, Checked!Leave, RefPhase, RefHeader
  <2> QED
    BY <1>3, <2>1, <2>2, <2>3 DEF Checked!Next
<1> QED
  BY <1>1, <1>2, <1>3

\* The patched handle_to_path implements CheckedFetch: the header a call acts on
\* is the one it has accepted, whatever is written to user memory meanwhile.
THEOREM ActsOnWhatItChecked == Spec => ActsOnChecked
<1>1. Init => Checked!Init
  <2> SUFFICES ASSUME Init PROVE Checked!Init
    OBVIOUS
  <2>1. \A t \in Threads : sys = "fhandle" => PhaseAt(t) = "idle" /\ HeaderAt(t) = FH!NoHeader
    <3>1. sys = "fhandle" => \A t \in Threads : pc[t] = "idle"
      BY DEF Init, FH!Init
    <3> QED
      BY <3>1, PhaseFacts
  <2> QED
    BY <2>1 DEF Checked!Init, PhaseAt, HeaderAt
<1>2. DInv /\ [Next]_vars => [Checked!Next]_Checked!vars
  BY CheckedStep
<1> QED
  BY <1>1, <1>2, Invariance, PTL DEF Spec, ActsOnChecked, Checked!Spec
=============================================================================
