--------------------------- MODULE SendFibProofs ----------------------------
(***************************************************************************)
(* Proofs about ioctl_send_fib and the pool of fibs, for any number of     *)
(* callers and fibs, any sizes, any contents of user memory, and any       *)
(* number of calls and of resets.                                          *)
(***************************************************************************)
EXTENDS SendFib, FiniteSetTheorems, TLAPS

TypeInv ==
  /\ inst \in Instances
  /\ pool \subseteq Fibs /\ adapter \subseteq Fibs
  /\ done \in [Fibs -> 0 .. 2]
  /\ event_wait \in [Fibs -> Nat]
  /\ va \in [Fibs -> Buffers]
  /\ mem \in [Buffers -> Header \cup {NoHdr}]
  /\ management_fib_count \in Int
  /\ pc \in [Callers -> Steps]
  /\ fibptr \in [Callers -> Fibs \cup {NoFib}]
  /\ kfib \in [Callers -> Buffers \cup {NoFib}]
  /\ hw_fib \in [Callers -> Buffers \cup {NoFib}]
  /\ hd \in [Callers -> Header \cup {NoHdr}]
  /\ size \in [Callers -> Nat]
  /\ retval \in [Callers -> Errors]
  /\ torn \subseteq Fibs /\ tainted \subseteq Fibs /\ overtaken \subseteq Fibs

\* The locals of a call: outside the ioctl they are gone; an error code is set
\* on the way to cleanup and not before; the larger buffer is one that was
\* needed.  A pointer points to the fib's own buffer or to one of a call, and
\* a header is there.
Local(c) ==
  /\ pc[c] = "idle" => fibptr[c] = NoFib /\ kfib[c] = NoFib /\ hw_fib[c] = NoFib
  /\ pc[c] # "idle" => /\ fibptr[c] \in Fibs
                       /\ kfib[c] \in {fibptr[c]} \cup Callers
                       /\ mem[kfib[c]] \in Header
  /\ pc[c] \notin {"idle", "cleanup"} => retval[c] = "none"
  /\ pc[c] \in {"fetch1", "save", "size"} => hw_fib[c] = NoFib
  /\ hw_fib[c] # NoFib => /\ hw_fib[c] \in {fibptr[c]} \cup Callers
                          /\ mem[hw_fib[c]] \in Header
                          /\ size[c] > MaxFibSize

Pointer(f) ==
  /\ va[f] \in {f} \cup Callers
  /\ mem[va[f]] \in Header /\ mem[f] \in Header

ShapeInv == (\A c \in Callers : Local(c)) /\ (\A f \in Fibs : Pointer(f))

\* Where a fib is: on the free list; with the call that owns it, and then with
\* the adapter too while an answer is due; or left to the adapter.
Place(f) ==
  /\ f \in pool => f \notin adapter /\ done[f] # 2 /\ \A c \in Callers : ~Owns(c, f)
  /\ done[f] = 2 => f \notin pool /\ f \in adapter /\ \A c \in Callers : ~Owns(c, f)
  /\ f \notin pool /\ done[f] # 2 => \E c \in Callers : Owns(c, f)
  /\ \A c, d \in Callers : Owns(c, f) /\ Owns(d, f) => c = d
  /\ \A c \in Callers : Owns(c, f) =>
       /\ pc[c] \in {"wait", "woken"} => done[f] = IF f \in adapter THEN 0 ELSE 1
       /\ pc[c] \in {"count", "deliver"} => done[f] = 0
       /\ pc[c] \notin {"wait", "woken"} => f \notin adapter

PlaceInv == \A f \in Fibs \ overtaken : Place(f)

\* The call has given up its wait and has not returned.
GaveUp(c, f) ==
  fibptr[c] = f /\ retval[c] = "ERESTARTSYS" /\ pc[c] = "cleanup" /\ hw_fib[c] # NoFib

\* Whose buffer a fib points to: its own, or that of a call that has it.  What
\* a call puts back is the fib's own buffer, or that of a call that gave up.
Highjack(f) ==
  /\ va[f] = f \/ \E c \in Callers : va[f] = c /\ fibptr[c] = f /\ hw_fib[c] # NoFib
  /\ \A c \in Callers : fibptr[c] = f /\ hw_fib[c] # NoFib =>
       hw_fib[c] = f \/ \E d \in Callers : hw_fib[c] = d /\ GaveUp(d, f)
  /\ \A c \in Callers : Owns(c, f) => /\ kfib[c] = va[f]
                                      /\ hw_fib[c] # NoFib => va[f] = c

HighjackInv == \A f \in Fibs \ (overtaken \cup torn) : Highjack(f)

\* Nobody else points to a larger buffer of the fib.
Private(f) ==
  \A c \in Callers : fibptr[c] = f /\ hw_fib[c] # NoFib =>
    /\ \A g \in Fibs : g # f => va[g] # c
    /\ \A d \in Callers : fibptr[d] # f => kfib[d] # c /\ hw_fib[d] # c

Clean == Fibs \ (torn \cup tainted \cup overtaken)

PrivateInv == \A f \in Clean : Private(f)

\* What is known of sizes along the way of the call that owns the fib.
Sized(c, f) ==
  /\ pc[c] = "size" => hd[c] = mem[va[f]]
  /\ pc[c] \in {"fetch2", "compare"} => hd[c] \in Header /\ size[c] = SizeOf(hd[c])
  /\ pc[c] \in {"break", "send"} => size[c] = SizeOf(mem[va[f]])
  /\ pc[c] \in {"count", "deliver", "wait", "woken"} =>
       mem[va[f]].Size <= size[c] /\ mem[va[f]].SenderSize <= size[c]
  /\ pc[c] \in {"fetch2", "compare", "break", "send", "count", "deliver", "wait", "woken"} =>
       size[c] <= Capacity(va[f]) /\ size[c] < U16

SizeInv == \A f \in Clean : \A c \in Callers : Owns(c, f) => Sized(c, f)

IInv ==
  TypeInv /\ ShapeInv /\ PlaceInv /\ HighjackInv /\ PrivateInv /\ SizeInv /\ ManagementCountExact

-----------------------------------------------------------------------------
(***************************************************************************)
(* Headers                                                                 *)
(***************************************************************************)
\* What the code does to a header gives a header again; only aac_fib_send
\* changes a size in it.
LEMMA HeaderXfer ==
  ASSUME NEW h \in Header, NEW x \in SUBSET Xfer
  PROVE  LET k == [h EXCEPT !.xfer = x] IN
         k \in Header /\ k.Size = h.Size /\ k.SenderSize = h.SenderSize
  BY DEF Header

LEMMA HeaderOps ==
  ASSUME NEW h \in Header
  PROVE  /\ [h EXCEPT !.xfer = {}] \in Header
         /\ CompleteHeader(h) \in Header
         /\ Processed(h) \in Header
         /\ Processed(h).Size = h.Size /\ Processed(h).SenderSize = h.SenderSize
         /\ CompleteHeader(Processed(h)) \in Header
         /\ h # NoHdr
         /\ h.Size \in Nat /\ h.SenderSize \in Nat
  <1>1. \A k \in Header : [k EXCEPT !.xfer = {}] \in Header
    BY HeaderXfer
  <1>2. h.xfer \cup {"AdapterProcessed"} \in SUBSET Xfer
    BY DEF Header, Xfer
  <1>3. /\ Processed(h) \in Header
        /\ Processed(h).Size = h.Size /\ Processed(h).SenderSize = h.SenderSize
    BY <1>2, HeaderXfer DEF Processed
  <1>4. \A k \in Header : CompleteHeader(k) \in Header
    BY <1>1 DEF CompleteHeader
  <1>5. h # NoHdr
    BY SendFibAssumption
  <1>6. h.Size \in 0 .. U16 - 1 /\ h.SenderSize \in 0 .. U16 - 1
    BY DEF Header
  <1>7. h.Size \in Nat /\ h.SenderSize \in Nat
    BY <1>6, SendFibAssumption
  <1> QED BY <1>1, <1>3, <1>4, <1>5, <1>7

LEMMA ToAdapterType ==
  ASSUME NEW h \in Header
  PROVE  /\ ToAdapter(h) \in Header
         /\ ToAdapter(h).Size = (HdrSize + h.Size) % U16
         /\ ToAdapter(h).SenderSize = h.SenderSize
  <1>1. h.xfer \cup {"SentFromHost"} \in SUBSET Xfer /\ h.Size \in Nat
    BY SendFibAssumption DEF Header, Xfer
  <1>2. (HdrSize + h.Size) % U16 \in 0 .. U16 - 1
    BY <1>1, SendFibAssumption
  <1> QED BY <1>1, <1>2 DEF ToAdapter, Header

LEMMA SizeOfType ==
  ASSUME NEW h \in Header
  PROVE  SizeOf(h) \in Nat /\ h.Size + HdrSize <= SizeOf(h) /\ h.SenderSize <= SizeOf(h)
  <1>1. h.Size \in Nat /\ h.SenderSize \in Nat /\ HdrSize \in Nat
    BY HeaderOps, SendFibAssumption
  <1> QED BY <1>1 DEF SizeOf

LEMMA SetupIsHeader == SetupHeader \in Header
  BY SendFibAssumption DEF SetupHeader, Header

LEMMA InstFacts ==
  ASSUME TypeInv
  PROVE  inst.headers \subseteq Header
  BY SendFibAssumption DEF TypeInv

\* A fib, a caller and the null pointer are different things.
LEMMA Names ==
  /\ NoFib \notin Fibs /\ NoFib \notin Callers /\ NoFib \notin Buffers
  /\ \A f \in Fibs : f \notin Callers /\ f \in Buffers
  /\ \A c \in Callers : c \notin Fibs /\ c \in Buffers
  BY SendFibAssumption DEF Buffers

-----------------------------------------------------------------------------
(***************************************************************************)
(* What the steps write to buffers.                                        *)
(***************************************************************************)
\* mem' is mem but for a header written to b.
Wrote(b) == \E h \in Header : mem' = [mem EXCEPT ![b] = h]

\* The steps of one caller.
CallerStep(c) == Progress(c) \/ ((Start(c) \/ Signal(c)) /\ UNCHANGED ghosts)

\* A call writes to the buffer it points to, to that of its fib, to that of the
\* fib it allocates, or to its new larger buffer, and to no other.
LEMMA CallerWrites ==
  ASSUME TypeInv, ShapeInv, NEW c \in Callers, CallerStep(c)
  PROVE  \/ mem' = mem
         \/ pc[c] # "idle" /\ retval[c] = "none"
            /\ fibptr'[c] = fibptr[c] /\ va' = va /\ (Wrote(kfib[c]) \/ Wrote(va[fibptr[c]]))
         \/ \E f \in pool : Alloc(c, f) /\ Wrote(va[f])
         \/ SizeNeedsBuffer(c) /\ Wrote(c)
  <1>1. pc[c] # "idle" => /\ kfib[c] \in Buffers /\ mem[kfib[c]] \in Header /\ fibptr[c] \in Fibs
                          /\ mem[va[fibptr[c]]] \in Header
    BY Names DEF TypeInv, ShapeInv, Local, Pointer
  <1>2. pc[c] \notin {"idle", "cleanup"} => retval[c] = "none"
    BY DEF ShapeInv, Local
  <1>3. ASSUME NEW h \in inst.headers, FetchHeader(c, h) \/ FetchMessage(c, h)
        PROVE  pc[c] \notin {"idle", "cleanup"} /\ fibptr' = fibptr /\ va' = va /\ Wrote(kfib[c])
    BY <1>3, InstFacts DEF FetchHeader, FetchMessage, Goto, Write, Wrote, ptrs, shared
  <1>4. CASE TakeABreak(c)
    BY <1>1, <1>2, <1>4, HeaderOps DEF TakeABreak, Goto, Write, Wrote, ptrs, shared
  <1>5. CASE SendTooLong(c)
    BY <1>1, <1>2, <1>5, ToAdapterType DEF SendTooLong, Goto, Fail, Hw, WriteHw, Write, Wrote, ptrs, shared
  <1>6. CASE SendPrepare(c)
    BY <1>1, <1>2, <1>6, ToAdapterType DEF SendPrepare, Goto, Hw, WriteHw, Write, Wrote, ptrs
  <1>7. CASE Complete(c)
    BY <1>1, <1>2, <1>7, HeaderOps DEF Complete, Goto, Hw, WriteHw, Write, Wrote, ptrs, shared
  <1>8. CASE SizeNeedsBuffer(c)
    BY <1>1, <1>8 DEF SizeNeedsBuffer, Goto, Write, Wrote
  <1>9. ASSUME NEW f \in Fibs, Alloc(c, f)
        PROVE  f \in pool /\ Wrote(va[f])
    <2>1. mem[va[f]] \in Header
      BY DEF ShapeInv, Pointer
    <2> QED BY <1>9, <2>1, HeaderOps DEF Alloc, Write, Wrote
  <1>10. \/ mem' = mem
         \/ \E h \in inst.headers : FetchHeader(c, h) \/ FetchMessage(c, h)
         \/ TakeABreak(c) \/ SendTooLong(c) \/ SendPrepare(c) \/ Complete(c)
         \/ SizeNeedsBuffer(c) \/ \E f \in Fibs : Alloc(c, f)
    BY DEF CallerStep, Progress, Start, Reject, Signal, FetchHeaderFaults, FetchMessageFaults,
           SaveHeader, SaveHeaderFails, SizeFits, SizeRefused, CompareSame, CompareDiffers,
           SendNotOwned, CountFull, Count, Deliver, DeliverFails, Down, Abort, Answered,
           CompleteFails, CopyOut, Cleanup, RestoreBuffer, ghosts
  <1>11. CASE \E h \in inst.headers : FetchHeader(c, h) \/ FetchMessage(c, h)
    BY <1>2, <1>3, <1>11
  <1>12. CASE \E f \in Fibs : Alloc(c, f)
    BY <1>9, <1>12
  <1> QED BY <1>4, <1>5, <1>6, <1>7, <1>8, <1>10, <1>11, <1>12

\* A buffer with a header in it keeps one, whatever happens.
LEMMA MemStep ==
  ASSUME TypeInv, ShapeInv, Next
  PROVE  /\ mem' \in [Buffers -> Header \cup {NoHdr}]
         /\ \A b \in Buffers : mem[b] \in Header => mem'[b] \in Header
  <1>1. mem \in [Buffers -> Header \cup {NoHdr}]
    BY DEF TypeInv
  <1>2. ASSUME NEW b, Wrote(b)
        PROVE  /\ mem' \in [Buffers -> Header \cup {NoHdr}]
               /\ \A a \in Buffers : mem[a] \in Header => mem'[a] \in Header
    BY <1>1, <1>2 DEF Wrote
  <1>3. ASSUME NEW c \in Callers, CallerStep(c)
        PROVE  mem' = mem \/ \E b : Wrote(b)
    BY <1>3, CallerWrites
  <1>4. ASSUME NEW f \in Fibs, Answer(f)
        PROVE  Wrote(va[f])
    <2>1. mem[va[f]] \in Header
      BY DEF ShapeInv, Pointer
    <2> QED BY <1>4, <2>1, HeaderOps DEF Answer, AnswerWaiter, AnswerAborted, Write, Wrote
  <1>5. CASE ResetBegins
    BY <1>1, <1>5 DEF ResetBegins
  <1>6. CASE ResetEnds
    BY <1>1, <1>6, SetupIsHeader DEF ResetEnds
  <1>7. CASE \E c \in Callers : CallerStep(c)
    BY <1>1, <1>2, <1>3, <1>7
  <1>8. CASE \E f \in Fibs : Answer(f)
    BY <1>2, <1>4, <1>8
  <1> QED BY <1>5, <1>6, <1>7, <1>8 DEF Next, CallerStep

-----------------------------------------------------------------------------
(***************************************************************************)
(* The locals of the callers.                                              *)
(***************************************************************************)
\* A caller's step leaves the locals of the others alone.
LEMMA Frame ==
  ASSUME TypeInv, NEW c \in Callers, CallerStep(c), NEW d \in Callers, d # c
  PROVE  /\ pc'[d] = pc[d] /\ fibptr'[d] = fibptr[d] /\ kfib'[d] = kfib[d]
         /\ hw_fib'[d] = hw_fib[d] /\ hd'[d] = hd[d] /\ size'[d] = size[d]
         /\ retval'[d] = retval[d]
  <1> USE DEF TypeInv, Goto, Fail, Forget, ptrs
  <1>1. CASE Start(c) \/ Signal(c)
    BY <1>1 DEF Start, Reject, Alloc, Signal
  <1>2. CASE \E h \in inst.headers : FetchHeader(c, h) \/ FetchMessage(c, h)
    BY <1>2 DEF FetchHeader, FetchMessage
  <1>3. CASE FetchHeaderFaults(c) \/ FetchMessageFaults(c) \/ SaveHeader(c) \/ SaveHeaderFails(c)
    BY <1>3 DEF FetchHeaderFaults, FetchMessageFaults, SaveHeader, SaveHeaderFails
  <1>4. CASE SizeFits(c) \/ SizeNeedsBuffer(c) \/ SizeRefused(c)
    BY <1>4 DEF SizeFits, SizeNeedsBuffer, SizeRefused
  <1>5. CASE CompareSame(c) \/ CompareDiffers(c) \/ TakeABreak(c)
    BY <1>5 DEF CompareSame, CompareDiffers, TakeABreak
  <1>6. CASE SendNotOwned(c) \/ SendTooLong(c) \/ SendPrepare(c)
    BY <1>6 DEF SendNotOwned, SendTooLong, SendPrepare
  <1>7. CASE CountFull(c) \/ Count(c) \/ Deliver(c) \/ DeliverFails(c)
    BY <1>7 DEF CountFull, Count, Deliver, DeliverFails
  <1>8. CASE Down(c) \/ Abort(c) \/ Answered(c)
    BY <1>8 DEF Down, Abort, Answered
  <1>9. CASE Complete(c) \/ CompleteFails(c) \/ CopyOut(c) \/ Cleanup(c)
    BY <1>9 DEF Complete, CompleteFails, CopyOut, Cleanup
  <1> QED BY <1>1, <1>2, <1>3, <1>4, <1>5, <1>6, <1>7, <1>8, <1>9 DEF CallerStep, Progress

\* A caller's own locals.
LEMMA LocalStep ==
  ASSUME TypeInv, ShapeInv, NEW c \in Callers, CallerStep(c), Next
  PROVE  Local(c)'
  <1>1. /\ Local(c) /\ mem' \in [Buffers -> Header \cup {NoHdr}]
        /\ \A b \in Buffers : mem[b] \in Header => mem'[b] \in Header
    BY MemStep DEF ShapeInv
  <1>2. kfib[c] # NoFib => kfib[c] \in Buffers
    BY DEF TypeInv
  <1>3. hw_fib[c] # NoFib => hw_fib[c] \in Buffers
    BY DEF TypeInv
  <1>4. pc[c] # "idle" => kfib[c] \in Buffers /\ fibptr[c] # NoFib /\ kfib[c] # NoFib
    BY <1>1, <1>2, Names DEF Local
  <1> USE <1>1, <1>2, <1>3, <1>4 DEF TypeInv, Local, Goto, Fail, ptrs
  <1>5. CASE Reject(c) \/ Signal(c)
    BY <1>5 DEF Reject, Signal
  <1>6. ASSUME NEW f \in Fibs, Alloc(c, f)
        PROVE  Local(c)'
    <2>1. va[f] \in Buffers /\ va[f] \in {f} \cup Callers /\ mem[va[f]] \in Header
      BY DEF ShapeInv, Pointer
    <2> QED BY <1>6, <2>1 DEF Alloc
  <1>7. CASE \E h \in inst.headers : FetchHeader(c, h) \/ FetchMessage(c, h)
    BY <1>7 DEF FetchHeader, FetchMessage
  <1>8. CASE FetchHeaderFaults(c)
    BY <1>8 DEF FetchHeaderFaults, Forget
  <1>9. CASE FetchMessageFaults(c) \/ SaveHeader(c) \/ SaveHeaderFails(c)
    BY <1>9 DEF FetchMessageFaults, SaveHeader, SaveHeaderFails
  <1>10. CASE SizeFits(c) \/ SizeRefused(c)
    <2>1. SizeOf(mem[kfib[c]]) \in Nat
      BY <1>10, SizeOfType DEF SizeFits, SizeRefused
    <2> QED BY <1>10, <2>1 DEF SizeFits, SizeRefused
  <1>11. CASE SizeNeedsBuffer(c)
    <2>1. /\ fibptr[c] \in Fibs /\ va[fibptr[c]] \in Buffers /\ mem[va[fibptr[c]]] \in Header
          /\ va[fibptr[c]] \in {fibptr[c]} \cup Callers
      BY <1>11 DEF ShapeInv, Pointer, SizeNeedsBuffer
    <2>2. mem'[c] \in Header /\ c \in Buffers /\ c # NoFib
      BY <1>11, Names DEF SizeNeedsBuffer, Write
    <2> QED BY <1>11, <2>1, <2>2 DEF SizeNeedsBuffer
  <1>12. CASE CompareSame(c) \/ CompareDiffers(c) \/ TakeABreak(c)
    BY <1>12 DEF CompareSame, CompareDiffers, TakeABreak
  <1>13. CASE SendNotOwned(c) \/ SendTooLong(c) \/ SendPrepare(c)
    BY <1>13 DEF SendNotOwned, SendTooLong, SendPrepare
  <1>14. CASE CountFull(c) \/ Count(c) \/ Deliver(c) \/ DeliverFails(c)
    BY <1>14 DEF CountFull, Count, Deliver, DeliverFails
  <1>15. CASE Down(c) \/ Abort(c) \/ Answered(c)
    BY <1>15 DEF Down, Abort, Answered
  <1>16. CASE Complete(c) \/ CompleteFails(c) \/ CopyOut(c)
    BY <1>16 DEF Complete, CompleteFails, CopyOut
  <1>17. CASE Cleanup(c)
    BY <1>17 DEF Cleanup, Forget
  <1> HIDE <1>1, <1>2, <1>3, <1>4 DEF TypeInv, Local, Goto, Fail, ptrs
  <1> QED BY <1>5, <1>6, <1>7, <1>8, <1>9, <1>10, <1>11, <1>12, <1>13, <1>14, <1>15, <1>16,
             <1>17 DEF CallerStep, Progress, Start

\* The locals and the pointers keep their shape.
LEMMA ShapeStep ==
  ASSUME TypeInv, ShapeInv, Next
  PROVE  ShapeInv'
  <1>1. /\ mem' \in [Buffers -> Header \cup {NoHdr}]
        /\ \A b \in Buffers : mem[b] \in Header => mem'[b] \in Header
    BY MemStep
  <1>2. ASSUME NEW d \in Callers, pc'[d] = pc[d], fibptr'[d] = fibptr[d], kfib'[d] = kfib[d],
               hw_fib'[d] = hw_fib[d], size'[d] = size[d], retval'[d] = retval[d]
        PROVE  Local(d)'
    <2>1. Local(d)
      BY DEF ShapeInv
    <2>2. pc[d] # "idle" => kfib[d] \in Buffers
      BY <2>1, Names DEF Local
    <2>3. hw_fib[d] # NoFib => hw_fib[d] \in Buffers
      BY DEF TypeInv
    <2> QED BY <1>1, <1>2, <2>1, <2>2, <2>3 DEF Local
  <1>3. ASSUME NEW f \in Fibs, va'[f] = va[f]
        PROVE  Pointer(f)'
    BY <1>1, <1>3, Names DEF ShapeInv, Pointer, TypeInv
  <1>4. ASSUME NEW c \in Callers, CallerStep(c)
        PROVE  ShapeInv'
    <2>1. ASSUME NEW d \in Callers
          PROVE  Local(d)'
      <3>1. CASE d = c
        BY <1>4, <3>1, LocalStep
      <3>2. CASE d # c
        BY <1>2, <1>4, <3>2, Frame
      <3> QED BY <3>1, <3>2
    <2>2. Local(c) /\ va \in [Fibs -> Buffers]
      BY DEF ShapeInv, TypeInv
    <2>3. CASE SizeNeedsBuffer(c)
      <3>1. fibptr[c] \in Fibs /\ mem[kfib[c]] \in Header
        BY <2>2, <2>3 DEF SizeNeedsBuffer, Goto, Local
      <3>2. va' = [va EXCEPT ![fibptr[c]] = c] /\ mem'[c] \in Header
        BY <2>3, <3>1, Names DEF SizeNeedsBuffer, Write, TypeInv
      <3>3. mem'[fibptr[c]] \in Header
        BY <1>1, <3>1, Names DEF ShapeInv, Pointer
      <3>4. ASSUME NEW f \in Fibs
            PROVE  Pointer(f)'
        BY <1>3, <2>2, <3>1, <3>2, <3>3 DEF Pointer
      <3> QED BY <2>1, <3>4 DEF ShapeInv
    <2>4. CASE Cleanup(c)
      <3>1. fibptr[c] \in Fibs
        BY <2>2, <2>4 DEF Cleanup, Goto, Local
      <3>2. CASE hw_fib[c] = NoFib
        BY <1>3, <2>1, <2>4, <3>2 DEF Cleanup, RestoreBuffer, ShapeInv
      <3>3. CASE hw_fib[c] # NoFib
        <4>1. va' = [va EXCEPT ![fibptr[c]] = hw_fib[c]]
          BY <2>4, <3>3 DEF Cleanup, RestoreBuffer
        <4>2. hw_fib[c] \in {fibptr[c]} \cup Callers /\ hw_fib[c] \in Buffers /\ mem[hw_fib[c]] \in Header
          BY <2>2, <3>1, <3>3, Names DEF Local
        <4>3. mem'[hw_fib[c]] \in Header /\ mem'[fibptr[c]] \in Header
          BY <1>1, <3>1, <4>2, Names DEF ShapeInv, Pointer
        <4>4. ASSUME NEW f \in Fibs
              PROVE  Pointer(f)'
          BY <1>3, <2>2, <3>1, <4>1, <4>2, <4>3 DEF Pointer
        <4> QED BY <2>1, <4>4 DEF ShapeInv
      <3> QED BY <3>2, <3>3
    <2>5. SizeNeedsBuffer(c) \/ Cleanup(c) \/ va' = va
      BY <1>4 DEF CallerStep, Progress, Start, Reject, Alloc, Signal, FetchHeader, FetchMessage,
           FetchHeaderFaults, FetchMessageFaults,
           SaveHeader, SaveHeaderFails, SizeFits, SizeRefused, CompareSame, CompareDiffers, TakeABreak,
           SendNotOwned, SendTooLong, SendPrepare, CountFull, Count, Deliver, DeliverFails,
           Down, Abort, Answered, Complete, CompleteFails, CopyOut, shared
    <2> QED BY <1>3, <2>1, <2>3, <2>4, <2>5 DEF ShapeInv
  <1>5. CASE \E f \in Fibs : Answer(f)
    BY <1>2, <1>3, <1>5 DEF Answer, AnswerWaiter, AnswerAborted, ptrs, ShapeInv
  <1>6. CASE ResetBegins
    BY <1>2, <1>3, <1>6 DEF ResetBegins, ptrs, ShapeInv
  <1>7. CASE ResetEnds
    <2>1. \A f \in Fibs : Pointer(f)'
      BY <1>7, SetupIsHeader, Names DEF ResetEnds, Pointer
    <2>2. \A d \in Callers : Local(d)'
      BY <1>2, <1>7 DEF ResetEnds, ptrs
    <2> QED BY <2>1, <2>2 DEF ShapeInv
  <1> QED BY <1>4, <1>5, <1>6, <1>7 DEF Next, CallerStep

\* The types are kept.
LEMMA TypeStep ==
  ASSUME TypeInv, ShapeInv, Next
  PROVE  TypeInv'
  <1>1. mem' \in [Buffers -> Header \cup {NoHdr}]
    BY MemStep
  <1>2. ASSUME NEW c \in Callers, CallerStep(c)
        PROVE  TypeInv'
    <2>1. Local(c)
      BY DEF ShapeInv
    <2>2. pc[c] # "idle" => fibptr[c] \in Fibs /\ kfib[c] \in Buffers /\ mem[kfib[c]] \in Header
      BY <2>1, Names DEF Local
    <2> USE <1>1, <2>2 DEF TypeInv, Goto, Fail, Forget, Free, Steps, Errors, shared, ptrs, ghosts
    <2>3. CASE (Start(c) \/ Signal(c)) /\ UNCHANGED ghosts
      <3>1. CASE Reject(c) /\ UNCHANGED ghosts
        BY <3>1 DEF Reject
      <3>2. ASSUME NEW f \in Fibs, Alloc(c, f), UNCHANGED ghosts
            PROVE  TypeInv'
        BY <3>2 DEF Alloc
      <3>3. CASE Signal(c) /\ UNCHANGED ghosts
        BY <3>3 DEF Signal
      <3> QED BY <2>3, <3>1, <3>2, <3>3 DEF Start
    <2>4. CASE (\E h \in inst.headers : FetchHeader(c, h) \/ FetchMessage(c, h)) /\ UNCHANGED ghosts
      BY <2>4 DEF FetchHeader, FetchMessage
    <2>5. CASE (FetchHeaderFaults(c) \/ FetchMessageFaults(c)) /\ UNCHANGED ghosts
      BY <2>5 DEF FetchHeaderFaults, FetchMessageFaults
    <2>6. CASE (SaveHeader(c) \/ SaveHeaderFails(c)) /\ UNCHANGED ghosts
      BY <2>6 DEF SaveHeader, SaveHeaderFails
    <2>7. pc[c] # "idle" => SizeOf(mem[kfib[c]]) \in Nat
      BY SizeOfType
    <2>8. CASE (SizeFits(c) \/ SizeRefused(c)) /\ UNCHANGED ghosts
      BY <2>7, <2>8 DEF SizeFits, SizeRefused
    <2>9. CASE SizeNeedsBuffer(c) /\ UNCHANGED <<inst, in_reset, resets, torn, overtaken>>
      BY <2>7, <2>9, Names DEF SizeNeedsBuffer
    <2>10. CASE (CompareSame(c) \/ CompareDiffers(c) \/ TakeABreak(c)) /\ UNCHANGED ghosts
      BY <2>10 DEF CompareSame, CompareDiffers, TakeABreak
    <2>11. CASE (SendNotOwned(c) \/ SendTooLong(c) \/ SendPrepare(c)) /\ UNCHANGED ghosts
      BY <2>11 DEF SendNotOwned, SendTooLong, SendPrepare
    <2>12. CASE (CountFull(c) \/ Count(c) \/ Deliver(c) \/ DeliverFails(c)) /\ UNCHANGED ghosts
      BY <2>12 DEF CountFull, Count, Deliver, DeliverFails
    <2>13. CASE (Down(c) \/ Abort(c) \/ Answered(c)) /\ UNCHANGED ghosts
      BY <2>13 DEF Down, Abort, Answered
    <2>14. CASE (Complete(c) \/ CompleteFails(c) \/ CopyOut(c)) /\ UNCHANGED ghosts
      BY <2>14 DEF Complete, CompleteFails, CopyOut
    <2>15. CASE Cleanup(c) /\ UNCHANGED <<inst, in_reset, resets, tainted, overtaken>>
      BY <2>15 DEF Cleanup, RestoreBuffer
    <2> HIDE <1>1, <2>2 DEF TypeInv, Goto, Fail, Forget, Free, Steps, Errors, shared, ptrs, ghosts
    <2> QED BY <1>2, <2>3, <2>4, <2>5, <2>6, <2>8, <2>9, <2>10, <2>11, <2>12, <2>13, <2>14,
               <2>15 DEF CallerStep, Progress
  <1> USE <1>1 DEF TypeInv, ptrs, ghosts
  <1>3. CASE \E f \in Fibs : Answer(f)
    BY <1>3 DEF Answer, AnswerWaiter, AnswerAborted
  <1>4. CASE ResetBegins
    BY <1>4 DEF ResetBegins
  <1>5. CASE ResetEnds
    <2>1. \A c \in Callers : pc[c] # "idle" => fibptr[c] \in Fibs
      BY DEF ShapeInv, Local
    <2>2. overtaken' \subseteq Fibs
      BY <1>5, <2>1 DEF ResetEnds
    <2> QED BY <1>5, <2>2, Names DEF ResetEnds
  <1> HIDE <1>1 DEF TypeInv, ptrs, ghosts
  <1> QED BY <1>2, <1>3, <1>4, <1>5 DEF Next, CallerStep

-----------------------------------------------------------------------------
(***************************************************************************)
(* Where the fibs are.                                                     *)
(***************************************************************************)
\* A caller's step leaves the fibs it does not have alone.
LEMMA OtherFibs ==
  ASSUME TypeInv, ShapeInv, NEW c \in Callers, CallerStep(c),
         NEW f \in Fibs, fibptr[c] # f, fibptr'[c] # f
  PROVE  /\ f \in pool' <=> f \in pool
         /\ f \in adapter' <=> f \in adapter
         /\ done'[f] = done[f]
         /\ va'[f] = va[f]
  <1>1. Local(c)
    BY DEF ShapeInv
  <1>2. pc[c] # "idle" => fibptr[c] \in Fibs
    BY <1>1 DEF Local
  <1> USE <1>2 DEF TypeInv, Goto, Fail, Free, shared
  <1>3. CASE Reject(c) \/ Signal(c)
    BY <1>3 DEF Reject, Signal
  <1>4. ASSUME NEW g \in Fibs, Alloc(c, g)
        PROVE  /\ f \in pool' <=> f \in pool
               /\ f \in adapter' <=> f \in adapter
               /\ done'[f] = done[f]
               /\ va'[f] = va[f]
    <2>1. fibptr'[c] = g
      BY <1>4 DEF Alloc
    <2> QED BY <1>4, <2>1 DEF Alloc
  <1>5. CASE \E h \in inst.headers : FetchHeader(c, h) \/ FetchMessage(c, h)
    BY <1>5 DEF FetchHeader, FetchMessage
  <1>6. CASE FetchHeaderFaults(c) \/ FetchMessageFaults(c) \/ SaveHeader(c) \/ SaveHeaderFails(c)
    BY <1>6 DEF FetchHeaderFaults, FetchMessageFaults, SaveHeader, SaveHeaderFails
  <1>7. CASE SizeFits(c) \/ SizeNeedsBuffer(c) \/ SizeRefused(c)
    BY <1>7 DEF SizeFits, SizeNeedsBuffer, SizeRefused
  <1>8. CASE CompareSame(c) \/ CompareDiffers(c) \/ TakeABreak(c)
    BY <1>8 DEF CompareSame, CompareDiffers, TakeABreak
  <1>9. CASE SendNotOwned(c) \/ SendTooLong(c) \/ SendPrepare(c)
    BY <1>9 DEF SendNotOwned, SendTooLong, SendPrepare
  <1>10. CASE CountFull(c) \/ Count(c) \/ Deliver(c) \/ DeliverFails(c)
    BY <1>10 DEF CountFull, Count, Deliver, DeliverFails
  <1>11. CASE Down(c) \/ Abort(c) \/ Answered(c)
    BY <1>11 DEF Down, Abort, Answered
  <1>12. CASE Complete(c) \/ CompleteFails(c) \/ CopyOut(c) \/ Cleanup(c)
    BY <1>12 DEF Complete, CompleteFails, CopyOut, Cleanup, RestoreBuffer
  <1> HIDE <1>2 DEF TypeInv, Goto, Fail, Free, shared
  <1> QED BY <1>3, <1>4, <1>5, <1>6, <1>7, <1>8, <1>9, <1>10, <1>11, <1>12
          DEF CallerStep, Progress, Start

\* The ghosts: a caller marks no fib overtaken, and unmarks none.
LEMMA CallerGhosts ==
  ASSUME NEW c \in Callers, CallerStep(c)
  PROVE  /\ overtaken' = overtaken /\ inst' = inst
         /\ torn \subseteq torn' /\ tainted \subseteq tainted'
  BY DEF CallerStep, Progress, ghosts, Cleanup, RestoreBuffer, SizeNeedsBuffer

\* A caller's step keeps its own fib in one place.
LEMMA PlaceOwn ==
  ASSUME TypeInv, ShapeInv, NEW c \in Callers, CallerStep(c),
         NEW f \in Fibs, fibptr[c] = f \/ fibptr'[c] = f, Place(f)
  PROVE  Place(f)'
  <1>1. /\ pc[c] = "idle" => fibptr[c] = NoFib
        /\ pc[c] # "idle" => fibptr[c] \in Fibs
        /\ pc[c] \notin {"idle", "cleanup"} => retval[c] = "none"
        /\ NoFib \notin Fibs
    BY Names DEF ShapeInv, Local
  <1>2. \A d \in Callers : d # c =>
          fibptr'[d] = fibptr[d] /\ retval'[d] = retval[d] /\ pc'[d] = pc[d]
    BY Frame
  <1> USE <1>1, <1>2 DEF TypeInv, Place, Owns, Goto, Fail, Forget, shared, ptrs
  <1>3. CASE Reject(c) \/ Signal(c)
    BY <1>3 DEF Reject, Signal
  <1>4. ASSUME NEW g \in Fibs, Alloc(c, g)
        PROVE  Place(f)'
    <2>1. f = g /\ pc'[c] = "fetch1" /\ fibptr'[c] = f /\ retval'[c] = "none"
      BY <1>4 DEF Alloc
    <2>2. f \in pool /\ f \notin pool' /\ done' = done /\ adapter' = adapter
      BY <1>4, <2>1 DEF Alloc
    <2> QED BY <2>1, <2>2
  <1>5. CASE \E h \in inst.headers : FetchHeader(c, h) \/ FetchMessage(c, h)
    BY <1>5 DEF FetchHeader, FetchMessage
  <1>6. CASE FetchHeaderFaults(c)
    BY <1>6 DEF FetchHeaderFaults, Free
  <1>7. CASE FetchMessageFaults(c) \/ SaveHeader(c) \/ SaveHeaderFails(c)
    BY <1>7 DEF FetchMessageFaults, SaveHeader, SaveHeaderFails
  <1>8. CASE SizeFits(c) \/ SizeNeedsBuffer(c)
    BY <1>8 DEF SizeFits, SizeNeedsBuffer
  <1>9. CASE SizeRefused(c)
    BY <1>9 DEF SizeRefused
  <1>10. CASE CompareSame(c) \/ CompareDiffers(c) \/ TakeABreak(c)
    BY <1>10 DEF CompareSame, CompareDiffers, TakeABreak
  <1>11. CASE SendNotOwned(c) \/ SendTooLong(c)
    BY <1>11 DEF SendNotOwned, SendTooLong
  <1>12. CASE SendPrepare(c)
    BY <1>12 DEF SendPrepare
  <1>13. CASE CountFull(c) \/ Count(c) \/ DeliverFails(c)
    BY <1>13 DEF CountFull, Count, DeliverFails
  <1>14. CASE Deliver(c)
    BY <1>14 DEF Deliver
  <1>15. CASE Down(c) \/ Answered(c)
    BY <1>15 DEF Down, Answered
  <1>16. CASE Abort(c)
    BY <1>16 DEF Abort
  <1>17. CASE Complete(c) \/ CompleteFails(c) \/ CopyOut(c)
    BY <1>17 DEF Complete, CompleteFails, CopyOut
  <1>18. CASE Cleanup(c)
    BY <1>18 DEF Cleanup, Free
  <1> HIDE <1>1, <1>2 DEF TypeInv, Place, Owns, Goto, Fail, Forget, shared, ptrs
  <1> QED BY <1>3, <1>4, <1>5, <1>6, <1>7, <1>8, <1>9, <1>10, <1>11, <1>12, <1>13, <1>14, <1>15,
             <1>16, <1>17, <1>18 DEF CallerStep, Progress, Start

\* Every fib stays in one place; a reset that finds a call with a fib marks it.
LEMMA PlaceStep ==
  ASSUME TypeInv, ShapeInv, PlaceInv, Next
  PROVE  PlaceInv'
  <1>1. ASSUME NEW c \in Callers, CallerStep(c), NEW f \in Fibs \ overtaken'
        PROVE  Place(f)'
    <2>1. Place(f)
      BY <1>1, CallerGhosts DEF PlaceInv
    <2>2. CASE fibptr[c] = f \/ fibptr'[c] = f
      BY <1>1, <2>1, <2>2, PlaceOwn
    <2>3. CASE fibptr[c] # f /\ fibptr'[c] # f
      <3>1. /\ f \in pool' <=> f \in pool
            /\ f \in adapter' <=> f \in adapter
            /\ done'[f] = done[f]
        BY <1>1, <2>3, OtherFibs
      <3>2. \A d \in Callers : d # c =>
              fibptr'[d] = fibptr[d] /\ retval'[d] = retval[d] /\ pc'[d] = pc[d]
        BY <1>1, Frame
      <3> QED BY <2>1, <2>3, <3>1, <3>2 DEF Place, Owns
    <2> QED BY <2>2, <2>3
  <1>2. ASSUME NEW g \in Fibs, Answer(g), NEW f \in Fibs \ overtaken'
        PROVE  Place(f)'
    <2>1. Place(f)
      BY <1>2 DEF PlaceInv, Answer, ghosts
    <2>2. CASE AnswerWaiter(g)
      BY <2>1, <2>2 DEF AnswerWaiter, Place, Owns, TypeInv, ptrs
    <2>3. CASE AnswerAborted(g)
      BY <2>1, <2>3 DEF AnswerAborted, Place, Owns, TypeInv, ptrs
    <2> QED BY <1>2, <2>2, <2>3 DEF Answer
  <1>3. CASE ResetBegins
    BY <1>3 DEF ResetBegins, PlaceInv, Place, Owns, ptrs
  <1>4. CASE ResetEnds
    <2>1. ASSUME NEW f \in Fibs \ overtaken'
          PROVE  Place(f)'
      <3>1. \A c \in Callers : fibptr[c] # f
        BY <1>4, <2>1, Names DEF ResetEnds, ShapeInv, Local
      <3> QED BY <1>4, <3>1 DEF ResetEnds, Place, Owns, ptrs
    <2> QED BY <2>1 DEF PlaceInv
  <1> QED BY <1>1, <1>2, <1>3, <1>4 DEF Next, CallerStep, PlaceInv

-----------------------------------------------------------------------------
(***************************************************************************)
(* Which buffer a fib points to.                                           *)
(***************************************************************************)
\* The pointers change on the way in, when a larger buffer is needed, and on
\* the way out.
LEMMA PointerSteps ==
  ASSUME TypeInv, ShapeInv, NEW c \in Callers, CallerStep(c)
  PROVE  \/ \E f \in Fibs : Alloc(c, f)
         \/ FetchHeaderFaults(c) \/ SizeNeedsBuffer(c) \/ Cleanup(c)
         \/ /\ UNCHANGED <<va, fibptr, kfib, hw_fib, torn, tainted>>
            /\ pc[c] # "cleanup"
  <1> USE DEF Goto, Fail, shared, ptrs, ghosts
  <1>1. CASE Reject(c) /\ UNCHANGED ghosts
    BY <1>1 DEF Reject
  <1>2. CASE Signal(c) /\ UNCHANGED ghosts
    BY <1>2 DEF Signal
  <1>3. CASE (\E h \in inst.headers : FetchHeader(c, h) \/ FetchMessage(c, h)) /\ UNCHANGED ghosts
    BY <1>3 DEF FetchHeader, FetchMessage
  <1>4. CASE (FetchMessageFaults(c) \/ SaveHeader(c) \/ SaveHeaderFails(c)) /\ UNCHANGED ghosts
    BY <1>4 DEF FetchMessageFaults, SaveHeader, SaveHeaderFails
  <1>5. CASE (SizeFits(c) \/ SizeRefused(c)) /\ UNCHANGED ghosts
    BY <1>5 DEF SizeFits, SizeRefused
  <1>6. CASE (CompareSame(c) \/ CompareDiffers(c) \/ TakeABreak(c)) /\ UNCHANGED ghosts
    BY <1>6 DEF CompareSame, CompareDiffers, TakeABreak
  <1>7. CASE (SendNotOwned(c) \/ SendTooLong(c) \/ SendPrepare(c)) /\ UNCHANGED ghosts
    BY <1>7 DEF SendNotOwned, SendTooLong, SendPrepare
  <1>8. CASE (CountFull(c) \/ Count(c) \/ Deliver(c) \/ DeliverFails(c)) /\ UNCHANGED ghosts
    BY <1>8 DEF CountFull, Count, Deliver, DeliverFails
  <1>9. CASE (Down(c) \/ Abort(c) \/ Answered(c)) /\ UNCHANGED ghosts
    BY <1>9 DEF Down, Abort, Answered
  <1>10. CASE (Complete(c) \/ CompleteFails(c) \/ CopyOut(c)) /\ UNCHANGED ghosts
    BY <1>10 DEF Complete, CompleteFails, CopyOut
  <1> HIDE DEF Goto, Fail, shared, ptrs, ghosts
  <1> QED BY <1>1, <1>2, <1>3, <1>4, <1>5, <1>6, <1>7, <1>8, <1>9, <1>10
          DEF CallerStep, Progress, Start

\* A caller's step on a fib it has.
LEMMA HighjackOwn ==
  ASSUME TypeInv, ShapeInv, NEW c \in Callers, CallerStep(c),
         NEW f \in Fibs, fibptr[c] = f \/ fibptr'[c] = f, f \notin torn',
         Place(f), Highjack(f)
  PROVE  Highjack(f)'
  <1>1. /\ pc[c] = "idle" => fibptr[c] = NoFib /\ hw_fib[c] = NoFib
        /\ pc[c] # "idle" => fibptr[c] \in Fibs
        /\ pc[c] \notin {"idle", "cleanup"} => retval[c] = "none"
        /\ pc[c] \in {"fetch1", "save", "size"} => hw_fib[c] = NoFib
    BY DEF ShapeInv, Local
  <1>2. \A d \in Callers : d # c =>
          /\ fibptr'[d] = fibptr[d] /\ retval'[d] = retval[d] /\ pc'[d] = pc[d]
          /\ kfib'[d] = kfib[d] /\ hw_fib'[d] = hw_fib[d]
    BY Frame
  <1>3. \A d \in Callers : fibptr[d] = f /\ retval[d] = "ERESTARTSYS" => pc[d] = "cleanup"
    BY Names DEF ShapeInv, Local
  <1>4. \A d, e \in Callers : Owns(d, f) /\ Owns(e, f) => d = e
    BY DEF Place
  <1> USE <1>1, <1>2, Names DEF TypeInv, Owns, GaveUp
  <1>5. ASSUME NEW g \in Fibs, Alloc(c, g)
        PROVE  Highjack(f)'
    <2>1. /\ f = g /\ fibptr'[c] = f /\ retval'[c] = "none" /\ kfib'[c] = va[f]
          /\ hw_fib'[c] = NoFib /\ va' = va /\ pc[c] = "idle"
      BY <1>5 DEF Alloc, Goto
    <2> QED BY <2>1 DEF Highjack
  <1>6. CASE FetchHeaderFaults(c)
    BY <1>6 DEF FetchHeaderFaults, Forget, Goto, Highjack
  <1>7. CASE SizeNeedsBuffer(c)
    <2>1. /\ fibptr[c] = f /\ fibptr' = fibptr /\ retval' = retval /\ retval[c] = "none"
          /\ hw_fib[c] = NoFib
      BY <1>7 DEF SizeNeedsBuffer, Goto
    <2>2. hw_fib'[c] = va[f] /\ va'[f] = c /\ kfib'[c] = c
      BY <1>7, <2>1 DEF SizeNeedsBuffer
    <2>3. va[f] = f \/ \E d \in Callers : va[f] = d /\ GaveUp(d, f)
      BY <1>3, <1>4, <2>1 DEF Highjack
    <2>4. \A d \in Callers : GaveUp(d, f) => GaveUp(d, f)'
      BY <2>1
    <2>5. ASSUME NEW d \in Callers, fibptr'[d] = f, hw_fib'[d] # NoFib
          PROVE  hw_fib'[d] = f \/ \E e \in Callers : hw_fib'[d] = e /\ GaveUp(e, f)'
      <3>1. CASE d = c
        BY <2>2, <2>3, <2>4, <3>1
      <3>2. CASE d # c
        <4>1. hw_fib[d] = f \/ \E e \in Callers : hw_fib[d] = e /\ GaveUp(e, f)
          BY <2>5, <3>2 DEF Highjack
        <4> QED BY <2>4, <3>2, <4>1
      <3> QED BY <3>1, <3>2
    <2>6. \A d \in Callers : Owns(d, f)' => d = c
      BY <1>4, <2>1
    <2>7. va'[f] = c /\ fibptr'[c] = f /\ hw_fib'[c] # NoFib
      BY <2>1, <2>2
    <2> QED BY <2>2, <2>5, <2>6, <2>7 DEF Highjack
  <1>8. CASE Cleanup(c)
    <2>1. fibptr[c] = f /\ pc'[c] = "idle" /\ fibptr'[c] = NoFib /\ retval' = retval
      BY <1>8 DEF Cleanup, Goto, Forget
    <2>2. CASE hw_fib[c] = NoFib
      <3>1. va' = va
        BY <1>8, <2>2 DEF Cleanup, RestoreBuffer
      <3> QED BY <2>1, <2>2, <3>1 DEF Highjack
    <2>3. CASE hw_fib[c] # NoFib
      <3>1. va'[f] = hw_fib[c] /\ retval[c] # "ERESTARTSYS"
        BY <1>8, <2>1, <2>3 DEF Cleanup, RestoreBuffer
      <3>2. Owns(c, f)
        BY <2>1, <3>1
      <3>3. \A d \in Callers : ~Owns(d, f)'
        BY <1>4, <2>1, <3>2
      <3>4. \A d \in Callers : GaveUp(d, f) => GaveUp(d, f)'
        BY <2>1, <3>1
      <3>5. va'[f] = f \/ \E d \in Callers : va'[f] = d /\ GaveUp(d, f)'
        BY <2>1, <2>3, <3>1, <3>4 DEF Highjack
      <3>6. ASSUME NEW d \in Callers, fibptr'[d] = f, hw_fib'[d] # NoFib
            PROVE  hw_fib'[d] = f \/ \E e \in Callers : hw_fib'[d] = e /\ GaveUp(e, f)'
        <4>1. d # c
          BY <2>1, <3>6
        <4>2. hw_fib[d] = f \/ \E e \in Callers : hw_fib[d] = e /\ GaveUp(e, f)
          BY <3>6, <4>1 DEF Highjack
        <4> QED BY <3>4, <4>1, <4>2
      <3> QED BY <3>3, <3>5, <3>6 DEF Highjack
    <2> QED BY <2>2, <2>3
  <1>9. CASE UNCHANGED <<va, fibptr, kfib, hw_fib>> /\ pc[c] # "cleanup"
    BY <1>9 DEF Highjack
  <1> HIDE <1>1, <1>2, Names DEF TypeInv, Owns, GaveUp
  <1> QED BY <1>5, <1>6, <1>7, <1>8, <1>9, PointerSteps

\* The fibs that are neither torn nor overtaken have their buffers.
LEMMA HighjackStep ==
  ASSUME TypeInv, ShapeInv, PlaceInv, HighjackInv, Next
  PROVE  HighjackInv'
  <1>1. ASSUME NEW c \in Callers, CallerStep(c), NEW f \in Fibs \ (overtaken' \cup torn')
        PROVE  Highjack(f)'
    <2>1. Place(f) /\ Highjack(f)
      BY <1>1, CallerGhosts DEF PlaceInv, HighjackInv
    <2>2. CASE fibptr[c] = f \/ fibptr'[c] = f
      BY <1>1, <2>1, <2>2, HighjackOwn
    <2>3. CASE fibptr[c] # f /\ fibptr'[c] # f
      <3>1. va'[f] = va[f]
        BY <1>1, <2>3, OtherFibs
      <3>2. \A d \in Callers : d # c =>
              /\ fibptr'[d] = fibptr[d] /\ retval'[d] = retval[d] /\ pc'[d] = pc[d]
              /\ kfib'[d] = kfib[d] /\ hw_fib'[d] = hw_fib[d]
        BY <1>1, Frame
      <3> QED BY <2>1, <2>3, <3>1, <3>2 DEF Highjack, Owns, GaveUp
    <2> QED BY <2>2, <2>3
  <1>2. CASE (\E f \in Fibs : Answer(f)) \/ ResetBegins
    BY <1>2 DEF Answer, AnswerWaiter, AnswerAborted, ResetBegins, ghosts, ptrs,
                HighjackInv, Highjack, Owns, GaveUp
  <1>3. CASE ResetEnds
    <2>1. ASSUME NEW f \in Fibs \ overtaken'
          PROVE  Highjack(f)'
      <3>1. \A c \in Callers : fibptr[c] # f
        BY <1>3, <2>1, Names DEF ResetEnds, ShapeInv, Local
      <3> QED BY <1>3, <3>1 DEF ResetEnds, Highjack, Owns, ptrs
    <2> QED BY <2>1 DEF HighjackInv
  <1> QED BY <1>1, <1>2, <1>3 DEF Next, CallerStep, HighjackInv

-----------------------------------------------------------------------------
(***************************************************************************)
(* Larger buffers are not shared, but for those of tainted fibs.           *)
(***************************************************************************)
\* A caller's step.
LEMMA PrivateCaller ==
  ASSUME TypeInv, ShapeInv, NEW c \in Callers, CallerStep(c),
         NEW f \in Fibs, f \notin tainted', Private(f)
  PROVE  Private(f)'
  <1>1. /\ pc[c] = "idle" => fibptr[c] = NoFib /\ kfib[c] = NoFib /\ hw_fib[c] = NoFib
        /\ pc[c] # "idle" => fibptr[c] \in Fibs
        /\ pc[c] \in {"fetch1", "save", "size"} => hw_fib[c] = NoFib
    BY DEF ShapeInv, Local
  <1>2. \A d \in Callers : d # c =>
          fibptr'[d] = fibptr[d] /\ kfib'[d] = kfib[d] /\ hw_fib'[d] = hw_fib[d]
    BY Frame
  <1> USE <1>1, <1>2, Names DEF TypeInv
  <1>3. ASSUME NEW g \in Fibs, Alloc(c, g)
        PROVE  Private(f)'
    <2>1. /\ fibptr'[c] = g /\ kfib'[c] = va[g] /\ hw_fib'[c] = NoFib /\ va' = va
          /\ fibptr[c] = NoFib
      BY <1>3 DEF Alloc, Goto
    <2> QED BY <2>1 DEF Private
  <1>4. CASE FetchHeaderFaults(c)
    BY <1>4 DEF FetchHeaderFaults, Forget, Goto, Private
  <1>5. CASE SizeNeedsBuffer(c)
    <2>1. /\ fibptr' = fibptr /\ fibptr[c] \in Fibs /\ hw_fib[c] = NoFib
          /\ kfib'[c] = c /\ hw_fib'[c] = va[fibptr[c]] /\ va' = [va EXCEPT ![fibptr[c]] = c]
      BY <1>5 DEF SizeNeedsBuffer, Goto
    <2>2. fibptr[c] = f => ~Dangling(c)
      BY <1>5 DEF SizeNeedsBuffer
    <2>3. ASSUME NEW e \in Callers, fibptr'[e] = f, hw_fib'[e] # NoFib
          PROVE  /\ \A g \in Fibs : g # f => va'[g] # e
                 /\ \A d \in Callers : fibptr'[d] # f => kfib'[d] # e /\ hw_fib'[d] # e
      <3>1. CASE e = c
        BY <2>1, <2>2, <2>3, <3>1 DEF Dangling
      <3>2. CASE e # c
        <4>1. /\ \A g \in Fibs : g # f => va[g] # e
              /\ \A d \in Callers : fibptr[d] # f => kfib[d] # e /\ hw_fib[d] # e
          BY <2>1, <2>3, <3>2 DEF Private
        <4> QED BY <2>1, <2>3, <3>2, <4>1
      <3> QED BY <3>1, <3>2
    <2> QED BY <2>3 DEF Private
  <1>6. CASE Cleanup(c)
    <2>1. fibptr[c] \in Fibs /\ fibptr'[c] = NoFib /\ kfib'[c] = NoFib /\ hw_fib'[c] = NoFib
      BY <1>6 DEF Cleanup, Goto, Forget
    <2>2. va' = va \/ (hw_fib[c] # NoFib /\ va' = [va EXCEPT ![fibptr[c]] = hw_fib[c]])
      BY <1>6 DEF Cleanup, RestoreBuffer
    <2>3. ASSUME NEW e \in Callers, fibptr'[e] = f, hw_fib'[e] # NoFib
          PROVE  /\ \A g \in Fibs : g # f => va'[g] # e
                 /\ \A d \in Callers : fibptr'[d] # f => kfib'[d] # e /\ hw_fib'[d] # e
      <3>1. e # c /\ fibptr[e] = f /\ hw_fib[e] # NoFib
        BY <2>1, <2>3
      <3>2. /\ \A g \in Fibs : g # f => va[g] # e
            /\ \A d \in Callers : fibptr[d] # f => kfib[d] # e /\ hw_fib[d] # e
        BY <3>1 DEF Private
      <3> QED BY <2>1, <2>2, <3>1, <3>2
    <2> QED BY <2>3 DEF Private
  <1>7. CASE UNCHANGED <<va, fibptr, kfib, hw_fib>>
    BY <1>7 DEF Private
  <1> HIDE <1>1, <1>2, Names DEF TypeInv
  <1> QED BY <1>3, <1>4, <1>5, <1>6, <1>7, PointerSteps

LEMMA PrivateStep ==
  ASSUME TypeInv, ShapeInv, PrivateInv, Next
  PROVE  PrivateInv'
  <1>1. ASSUME NEW c \in Callers, CallerStep(c), NEW f \in Clean'
        PROVE  Private(f)'
    <2>1. f \in Clean /\ f \in Fibs /\ f \notin tainted'
      BY <1>1, CallerGhosts DEF Clean
    <2> QED BY <1>1, <2>1, PrivateCaller DEF PrivateInv
  <1>2. CASE (\E f \in Fibs : Answer(f)) \/ ResetBegins
    BY <1>2 DEF Answer, AnswerWaiter, AnswerAborted, ResetBegins, ghosts, ptrs,
                PrivateInv, Private, Clean
  <1>3. CASE ResetEnds
    <2>1. ASSUME NEW f \in Clean'
          PROVE  Private(f)'
      <3>1. \A c \in Callers : fibptr[c] # f
        BY <1>3, <2>1, Names DEF ResetEnds, ShapeInv, Local, Clean
      <3> QED BY <1>3, <3>1 DEF ResetEnds, Private, ptrs
    <2> QED BY <2>1 DEF PrivateInv
  <1> QED BY <1>1, <1>2, <1>3 DEF Next, CallerStep, PrivateInv

\* So nobody who does not have a clean fib can write to the buffer it points to.
LEMMA Apart ==
  ASSUME TypeInv, ShapeInv, NEW f \in Fibs, Highjack(f), Private(f)
  PROVE  /\ \A g \in Fibs : g # f => va[g] # va[f]
         /\ \A d \in Callers : fibptr[d] # f => va[f] # d
         /\ \A d \in Callers : fibptr[d] # f /\ pc[d] # "idle" => kfib[d] # va[f]
  <1>1. /\ \A g \in Fibs : va[g] \in {g} \cup Callers
        /\ \A d \in Callers : pc[d] # "idle" => kfib[d] \in {fibptr[d]} \cup Callers
    BY DEF ShapeInv, Pointer, Local
  <1>2. CASE va[f] = f
    BY <1>1, <1>2, Names
  <1>3. ASSUME NEW e \in Callers, va[f] = e, fibptr[e] = f, hw_fib[e] # NoFib
        PROVE  /\ \A g \in Fibs : g # f => va[g] # va[f]
               /\ \A d \in Callers : fibptr[d] # f => va[f] # d
               /\ \A d \in Callers : fibptr[d] # f /\ pc[d] # "idle" => kfib[d] # va[f]
    BY <1>3 DEF Private
  <1> QED BY <1>2, <1>3 DEF Highjack

-----------------------------------------------------------------------------
(***************************************************************************)
(* The size the call has checked is the size of what the adapter gets.     *)
(***************************************************************************)
Measured == {"size", "fetch2", "compare", "break", "send", "count", "deliver", "wait", "woken"}

\* The owner's facts are about its locals, its buffer and that buffer's size.
LEMMA SizedFrame ==
  ASSUME NEW c \in Callers, NEW f \in Fibs, Sized(c, f),
         pc'[c] = pc[c], hd'[c] = hd[c], size'[c] = size[c],
         va'[f] = va[f], mem'[va[f]] = mem[va[f]],
         va[f] \in Fibs \/ size'[va[f]] = size[va[f]]
  PROVE  Sized(c, f)'
  BY DEF Sized, Capacity, SizeOf

\* The larger buffer of a fib is larger than the pool's.
LEMMA CapacityBound ==
  ASSUME TypeInv, ShapeInv, NEW f \in Fibs, Highjack(f)
  PROVE  \/ va[f] = f
         \/ \E e \in Callers : va[f] = e /\ fibptr[e] = f /\ hw_fib[e] # NoFib /\ size[e] > MaxFibSize
  BY DEF Highjack, ShapeInv, Local

\* A call's own steps, along its way.
LEMMA SizedOwn ==
  ASSUME TypeInv, ShapeInv, NEW c \in Callers, CallerStep(c),
         NEW f \in Fibs, Highjack(f), Owns(c, f)', Owns(c, f) => Sized(c, f)
  PROVE  Sized(c, f)'
  <1>1. /\ pc[c] = "idle" => fibptr[c] = NoFib
        /\ pc[c] # "idle" => fibptr[c] \in Fibs
        /\ pc[c] \notin {"idle", "cleanup"} => retval[c] = "none"
        /\ pc[c] \in {"fetch1", "save", "size"} => hw_fib[c] = NoFib
    BY DEF ShapeInv, Local
  <1>2. MaxFibSize \in Nat /\ SizeLimit \in Nat /\ U16 \in Nat /\ MaxFibSize < U16 /\ SizeLimit < U16
        /\ HdrSize \in Nat
    BY SendFibAssumption
  <1>3. ASSUME pc[c] \notin {"idle", "cleanup"}, fibptr' = fibptr
        PROVE  /\ fibptr[c] = f /\ Owns(c, f) /\ Sized(c, f) /\ kfib[c] = va[f]
               /\ va[f] \in Buffers /\ mem[va[f]] \in Header /\ size[c] \in Nat
    BY <1>1, <1>3 DEF Owns, Highjack, TypeInv, ShapeInv, Pointer
  <1>4. ASSUME pc'[c] \notin Measured
        PROVE  Sized(c, f)'
    BY <1>4 DEF Sized, Measured
  <1>5. ASSUME NEW h \in inst.headers, FetchMessage(c, h)
        PROVE  Sized(c, f)'
    <2>1. pc[c] = "fetch2" /\ pc'[c] = "compare" /\ fibptr' = fibptr /\ UNCHANGED <<va, hd, size>>
      BY <1>5 DEF FetchMessage, Goto, shared, ptrs, TypeInv
    <2> QED BY <1>3, <2>1 DEF Sized, Capacity, SizeOf
  <1>6. CASE SaveHeader(c)
    <2>1. pc[c] = "save" /\ pc'[c] = "size" /\ fibptr' = fibptr /\ UNCHANGED <<va, mem>>
      BY <1>6 DEF SaveHeader, Goto, shared, ptrs, TypeInv
    <2>2. hd'[c] = mem[va[f]]
      BY <1>3, <1>6, <2>1 DEF SaveHeader, TypeInv
    <2> QED BY <2>1, <2>2 DEF Sized
  <1>7. CASE SizeFits(c)
    <2> DEFINE n == SizeOf(mem[va[f]])
    <2>1. pc[c] = "size" /\ pc'[c] = "fetch2" /\ fibptr' = fibptr /\ UNCHANGED <<va, hd>>
      BY <1>7 DEF SizeFits, Goto, shared, ptrs, TypeInv
    <2>2. /\ n \in Nat /\ n <= MaxFibSize
          /\ size' = [size EXCEPT ![c] = n] /\ hd[c] = mem[va[f]] /\ hd[c] \in Header
      BY <1>3, <1>7, <2>1, SizeOfType DEF SizeFits, Sized
    <2>3. hw_fib[c] = NoFib
      BY <1>1, <2>1
    <2>4. n <= Capacity(va[f])'
      <3>1. CASE va[f] = f
        BY <2>1, <2>2, <3>1 DEF Capacity
      <3>2. ASSUME NEW e \in Callers, va[f] = e, hw_fib[e] # NoFib, size[e] > MaxFibSize
            PROVE  n <= Capacity(va[f])'
        <4>1. e # c /\ e \notin Fibs /\ size[e] \in Nat
          BY <2>3, <3>2, Names DEF TypeInv
        <4>2. va'[f] = e /\ size'[e] = size[e]
          BY <2>1, <2>2, <3>2, <4>1 DEF TypeInv
        <4>3. Capacity(va[f])' = size[e]
          BY <4>1, <4>2 DEF Capacity
        <4> QED BY <1>2, <2>2, <3>2, <4>1, <4>3
      <3> QED BY <3>1, <3>2, CapacityBound
    <2>5. size'[c] = n /\ hd'[c] = hd[c]
      BY <2>1, <2>2 DEF TypeInv
    <2>6. size'[c] = SizeOf(hd[c]) /\ n < U16
      BY <1>2, <2>2, <2>5
    <2>7. SizeOf(hd[c])' = SizeOf(hd[c])
      BY <2>5 DEF SizeOf
    <2> HIDE DEF n
    <2> QED BY <2>1, <2>2, <2>4, <2>5, <2>6, <2>7 DEF Sized
  <1>8. CASE SizeNeedsBuffer(c)
    <2> DEFINE n == SizeOf(mem[va[f]])
    <2>1. pc[c] = "size" /\ pc'[c] = "fetch2" /\ fibptr' = fibptr /\ hd' = hd
      BY <1>8 DEF SizeNeedsBuffer, Goto, TypeInv
    <2>2. /\ n \in Nat /\ n <= SizeLimit
          /\ size' = [size EXCEPT ![c] = n] /\ hd[c] = mem[va[f]] /\ hd[c] \in Header
      BY <1>3, <1>8, <2>1, SizeOfType DEF SizeNeedsBuffer, Sized
    <2>3. va'[f] = c /\ size'[c] = n /\ hd'[c] = hd[c]
      BY <1>3, <1>8, <2>1, <2>2 DEF SizeNeedsBuffer, TypeInv
    <2>4. Capacity(va[f])' = n
      BY <2>3, Names DEF Capacity
    <2>5. size'[c] = SizeOf(hd[c]) /\ n < U16 /\ n <= n
      BY <1>2, <2>2, <2>3
    <2>6. SizeOf(hd[c])' = SizeOf(hd[c])
      BY <2>3 DEF SizeOf
    <2> HIDE DEF n
    <2> QED BY <2>1, <2>2, <2>3, <2>4, <2>5, <2>6 DEF Sized
  <1>9. CASE CompareSame(c)
    <2>1. pc[c] = "compare" /\ pc'[c] \in {"break", "send"} /\ fibptr' = fibptr
          /\ UNCHANGED <<va, mem, size>> /\ mem[kfib[c]] = hd[c]
      BY <1>9 DEF CompareSame, shared, ptrs, TypeInv
    <2> QED BY <1>3, <2>1 DEF Sized, Capacity, SizeOf
  <1>10. CASE SendPrepare(c)
    <2> DEFINE h == mem[va[f]]
    <2>1. pc[c] = "send" /\ pc'[c] = "count" /\ fibptr' = fibptr /\ UNCHANGED <<va, size>>
      BY <1>10 DEF SendPrepare, Goto, ptrs, TypeInv
    <2>2. mem' = [mem EXCEPT ![va[f]] = ToAdapter(h)]
      BY <1>3, <1>10, <2>1 DEF SendPrepare, WriteHw, Write, Hw
    <2>3. h \in Header /\ h.Size \in Nat /\ h.SenderSize \in Nat
      BY <1>3, <2>1, HeaderOps
    <2>4. size[c] = SizeOf(h) /\ size[c] \in Nat /\ size[c] < U16 /\ size[c] <= Capacity(va[f])
      BY <1>3, <2>1 DEF Sized
    <2>5. h.Size + HdrSize <= size[c] /\ h.SenderSize <= size[c]
      BY <2>3, <2>4, SizeOfType
    <2>6. mem'[va[f]] = ToAdapter(h)
      BY <1>3, <2>1, <2>2 DEF TypeInv
    <2>7. ToAdapter(h).Size = (HdrSize + h.Size) % U16 /\ ToAdapter(h).SenderSize = h.SenderSize
      BY <2>3, ToAdapterType
    <2>8. (HdrSize + h.Size) % U16 = HdrSize + h.Size
      <3> HIDE DEF h
      <3>1. HdrSize + h.Size \in Nat /\ HdrSize + h.Size < U16
        BY <1>2, <2>3, <2>4, <2>5
      <3> QED BY <1>2, <3>1
    <2>9. mem'[va[f]].Size <= size[c] /\ mem'[va[f]].SenderSize <= size[c]
      <3> HIDE DEF h
      <3> QED BY <1>2, <2>3, <2>4, <2>5, <2>6, <2>7, <2>8
    <2> QED BY <2>1, <2>4, <2>9 DEF Sized, Capacity
  <1>11. CASE Count(c) \/ Deliver(c) \/ Down(c) \/ Signal(c)
    <2>1. /\ pc[c] \in {"count", "deliver", "wait"} /\ pc'[c] \in {"deliver", "wait", "woken"}
          /\ fibptr' = fibptr /\ UNCHANGED <<va, mem, size>>
      BY <1>11 DEF Count, Deliver, Down, Signal, Goto, shared, ptrs, TypeInv
    <2> QED BY <1>3, <2>1 DEF Sized, Capacity
  <1>12. \/ pc'[c] \notin Measured
         \/ Reject(c) \/ \E h \in inst.headers : FetchMessage(c, h)
         \/ SaveHeader(c) \/ SizeFits(c) \/ SizeNeedsBuffer(c) \/ CompareSame(c) \/ SendPrepare(c)
         \/ Count(c) \/ Deliver(c) \/ Down(c) \/ Signal(c)
    <2> USE DEF TypeInv, Measured, Goto, Fail
    <2>1. ASSUME NEW g \in Fibs, Alloc(c, g)
          PROVE  pc'[c] \notin Measured
      BY <2>1 DEF Alloc
    <2>2. ASSUME NEW h \in inst.headers, FetchHeader(c, h)
          PROVE  pc'[c] \notin Measured
      BY <2>2 DEF FetchHeader
    <2>3. CASE FetchHeaderFaults(c) \/ FetchMessageFaults(c) \/ SaveHeaderFails(c) \/ SizeRefused(c)
      BY <2>3 DEF FetchHeaderFaults, FetchMessageFaults, SaveHeaderFails, SizeRefused
    <2>4. CASE CompareDiffers(c) \/ TakeABreak(c) \/ SendNotOwned(c) \/ SendTooLong(c)
      BY <2>4 DEF CompareDiffers, TakeABreak, SendNotOwned, SendTooLong
    <2>5. CASE CountFull(c) \/ DeliverFails(c) \/ Abort(c) \/ Answered(c)
      BY <2>5 DEF CountFull, DeliverFails, Abort, Answered
    <2>6. CASE Complete(c) \/ CompleteFails(c) \/ CopyOut(c) \/ Cleanup(c)
      BY <2>6 DEF Complete, CompleteFails, CopyOut, Cleanup
    <2> HIDE DEF TypeInv, Measured, Goto, Fail
    <2> QED BY <2>1, <2>2, <2>3, <2>4, <2>5, <2>6 DEF CallerStep, Progress, Start
  <1>13. CASE Reject(c)
    <2>1. pc[c] = "idle" /\ pc'[c] = "idle"
      BY <1>13 DEF Reject
    <2> QED BY <1>4, <2>1 DEF Measured
  <1> QED BY <1>4, <1>5, <1>6, <1>7, <1>8, <1>9, <1>10, <1>11, <1>12, <1>13

\* A caller's step, whoever owns the fib.
LEMMA SizeCaller ==
  ASSUME TypeInv, ShapeInv, NEW c \in Callers, CallerStep(c),
         NEW f \in Fibs, Place(f), Highjack(f), Private(f), f \notin torn',
         NEW o \in Callers, Owns(o, f)', Owns(o, f) => Sized(o, f)
  PROVE  Sized(o, f)'
  <1>1. CASE o = c
    BY <1>1, SizedOwn
  <1>2. CASE o # c
    <2>1. /\ pc'[o] = pc[o] /\ fibptr'[o] = fibptr[o] /\ hd'[o] = hd[o] /\ size'[o] = size[o]
          /\ retval'[o] = retval[o]
      BY <1>2, Frame
    <2>2. Owns(o, f) /\ Sized(o, f)
      BY <2>1 DEF Owns
    <2>3. \A d \in Callers : d # c => size'[d] = size[d]
      BY Frame
    <2>4. va[f] \in Fibs \/ (va[f] \in Callers /\ fibptr[va[f]] = f /\ hw_fib[va[f]] # NoFib)
      BY DEF Highjack
    <2>5. CASE fibptr[c] # f /\ fibptr'[c] # f
      <3>1. va'[f] = va[f]
        BY <2>5, OtherFibs
      <3>2. va[f] \in Fibs \/ size'[va[f]] = size[va[f]]
        BY <2>3, <2>4, <2>5
      <3>3. ASSUME NEW b, b # va[f], Wrote(b)
            PROVE  mem'[va[f]] = mem[va[f]]
        BY <3>3 DEF Wrote, TypeInv
      <3>4. pc[c] # "idle" => fibptr[c] \in Fibs
        BY DEF ShapeInv, Local
      <3>5. /\ \A g \in Fibs : g # f => va[g] # va[f]
            /\ va[f] # c
            /\ pc[c] # "idle" => kfib[c] # va[f] /\ va[fibptr[c]] # va[f]
        BY <2>5, <3>4, Apart
      <3>6. mem'[va[f]] = mem[va[f]]
        <4>1. ASSUME NEW g \in pool, Alloc(c, g), Wrote(va[g])
              PROVE  mem'[va[f]] = mem[va[f]]
          <5>1. g \in Fibs /\ fibptr'[c] = g
            BY <4>1 DEF Alloc, TypeInv
          <5> QED BY <2>5, <3>3, <3>5, <4>1, <5>1
        <4> QED BY <3>3, <3>5, <4>1, CallerWrites
      <3> QED BY <2>1, <2>2, <3>1, <3>2, <3>6, SizedFrame
    <2>6. CASE fibptr[c] = f \/ fibptr'[c] = f
      <3>1. ~Owns(c, f) /\ f \notin pool
        BY <1>2, <2>2 DEF Place
      <3>2. /\ pc[c] = "idle" => fibptr[c] = NoFib
            /\ pc[c] \notin {"idle", "cleanup"} => retval[c] = "none"
        BY DEF ShapeInv, Local
      <3>3. \A g \in Fibs : Alloc(c, g) => g \in pool /\ fibptr'[c] = g
        BY DEF Alloc, TypeInv
      <3>4. fibptr[c] = f
        <4>1. CASE \E g \in Fibs : Alloc(c, g)
          BY <2>6, <3>1, <3>3, <4>1
        <4>2. CASE FetchHeaderFaults(c) \/ Cleanup(c)
          BY <2>6, <4>2, Names DEF FetchHeaderFaults, Cleanup, Forget, TypeInv
        <4>3. CASE SizeNeedsBuffer(c) \/ fibptr' = fibptr
          BY <2>6, <4>3 DEF SizeNeedsBuffer
        <4> QED BY <4>1, <4>2, <4>3, PointerSteps
      <3>5. pc[c] = "cleanup" /\ retval[c] = "ERESTARTSYS"
        BY <3>1, <3>2, <3>4, Names DEF Owns
      <3>6. Cleanup(c)
        BY <3>3, <3>5, PointerSteps DEF FetchHeaderFaults, SizeNeedsBuffer, Alloc, Goto
      <3>7. hw_fib[c] = NoFib /\ va' = va /\ mem' = mem
        BY <3>4, <3>5, <3>6 DEF Cleanup, RestoreBuffer
      <3>8. va[f] \in Fibs \/ size'[va[f]] = size[va[f]]
        BY <2>3, <2>4, <3>7
      <3> QED BY <2>1, <2>2, <3>7, <3>8, SizedFrame
    <2> QED BY <2>5, <2>6
  <1> QED BY <1>1, <1>2

LEMMA SizeStep ==
  ASSUME TypeInv, ShapeInv, PlaceInv, HighjackInv, PrivateInv, SizeInv, Next
  PROVE  SizeInv'
  <1>1. ASSUME NEW f \in Clean
        PROVE  /\ f \in Fibs /\ Place(f) /\ Highjack(f) /\ Private(f)
               /\ \A o \in Callers : Owns(o, f) => Sized(o, f)
    BY DEF Clean, PlaceInv, HighjackInv, PrivateInv, SizeInv
  <1>2. ASSUME NEW c \in Callers, CallerStep(c), NEW f \in Clean', NEW o \in Callers, Owns(o, f)'
        PROVE  Sized(o, f)'
    <2>1. f \in Clean /\ f \notin torn'
      BY <1>2, CallerGhosts DEF Clean
    <2> QED BY <1>1, <1>2, <2>1, SizeCaller
  <1>3. ASSUME NEW g \in Fibs, Answer(g), NEW f \in Clean', NEW o \in Callers, Owns(o, f)'
        PROVE  Sized(o, f)'
    <2>1. f \in Clean
      BY <1>3 DEF Answer, ghosts, Clean
    <2>2. UNCHANGED <<va, pc, hd, size, retval, fibptr>>
      BY <1>3 DEF Answer, AnswerWaiter, AnswerAborted, ptrs
    <2>3. Owns(o, f) /\ Sized(o, f) /\ f \in Fibs /\ va[f] \in Buffers /\ mem[va[f]] \in Header
      BY <1>1, <1>3, <2>1, <2>2 DEF Owns, TypeInv, ShapeInv, Pointer
    <2>4. CASE g # f
      <3>1. va[g] # va[f]
        BY <1>1, <2>1, <2>4, Apart
      <3>2. mem'[va[f]] = mem[va[f]]
        BY <1>3, <2>3, <3>1 DEF Answer, AnswerWaiter, AnswerAborted, Write, TypeInv
      <3> QED BY <2>2, <2>3, <3>2, SizedFrame
    <2>5. CASE g = f
      <3>1. done[f] # 2
        BY <1>1, <2>1, <2>3 DEF Place
      <3>2. f \in adapter /\ mem' = [mem EXCEPT ![va[f]] = Processed(mem[va[f]])]
        BY <1>3, <2>5, <3>1 DEF Answer, AnswerWaiter, AnswerAborted, Write
      <3>3. pc[o] \in {"wait", "woken"}
        BY <1>1, <2>1, <2>3, <3>2 DEF Place
      <3>4. /\ mem'[va[f]].Size = mem[va[f]].Size
            /\ mem'[va[f]].SenderSize = mem[va[f]].SenderSize
        BY <2>3, <3>2, HeaderOps DEF TypeInv
      <3> QED BY <2>2, <2>3, <3>3, <3>4 DEF Sized, Capacity
    <2> QED BY <2>4, <2>5
  <1>4. CASE ResetBegins
    BY <1>4 DEF ResetBegins, ptrs, SizeInv, Sized, Owns, Clean, Capacity, SizeOf
  <1>5. CASE ResetEnds
    <2>1. ASSUME NEW f \in Clean', NEW o \in Callers, Owns(o, f)'
          PROVE  FALSE
      <3>1. \A c \in Callers : fibptr[c] # f
        BY <1>5, <2>1, Names DEF ResetEnds, ShapeInv, Local, Clean
      <3> QED BY <1>5, <2>1, <3>1 DEF ResetEnds, Owns, ptrs
    <2> QED BY <2>1 DEF SizeInv
  <1> QED BY <1>2, <1>3, <1>4, <1>5 DEF Next, CallerStep, SizeInv

-----------------------------------------------------------------------------
(***************************************************************************)
(* The count of management fibs.                                           *)
(***************************************************************************)
Delivering(p) == {c \in Callers : p[c] = "deliver"}

\* One caller that moves changes the number of deliverers by its own share.
LEMMA DeliverMoves ==
  ASSUME NEW p, NEW q, NEW c \in Callers, \A d \in Callers : d # c => q[d] = p[d]
  PROVE  /\ Cardinality(Delivering(p)) \in Nat
         /\ Cardinality(Delivering(q)) =
              Cardinality(Delivering(p)) - (IF p[c] = "deliver" THEN 1 ELSE 0)
                                         + (IF q[c] = "deliver" THEN 1 ELSE 0)
  <1> DEFINE S == Delivering(p)
             R == S \ {c}
  <1>1. IsFiniteSet(S) /\ (c \in S <=> p[c] = "deliver")
    BY SendFibAssumption, FS_Subset DEF Delivering
  <1>2. IsFiniteSet(R) /\ Cardinality(R) = (IF c \in S THEN Cardinality(S) - 1 ELSE Cardinality(S))
    BY <1>1, FS_RemoveElement
  <1>3. Cardinality(S) \in Nat /\ Cardinality(R) \in Nat
    BY <1>1, <1>2, FS_CardinalityType
  <1>4. CASE q[c] = "deliver"
    <2>1. Delivering(q) = R \cup {c}
      BY <1>4 DEF Delivering
    <2>2. Cardinality(R \cup {c}) = Cardinality(R) + 1
      BY <1>2, FS_AddElement
    <2> HIDE DEF S, R
    <2> QED BY <1>1, <1>2, <1>3, <1>4, <2>1, <2>2 DEF S
  <1>5. CASE q[c] # "deliver"
    <2>1. Delivering(q) = R
      BY <1>5 DEF Delivering
    <2> HIDE DEF S, R
    <2> QED BY <1>1, <1>2, <1>3, <1>5, <2>1 DEF S
  <1> QED BY <1>4, <1>5

\* The adapter is given a fib, or answers one.
LEMMA AdapterCounts ==
  ASSUME TypeInv, NEW f \in Fibs
  PROVE  /\ Cardinality(adapter) \in Nat
         /\ f \notin adapter => Cardinality(adapter \cup {f}) = Cardinality(adapter) + 1
         /\ f \in adapter => Cardinality(adapter \ {f}) = Cardinality(adapter) - 1
  <1>1. IsFiniteSet(adapter)
    BY SendFibAssumption, FS_Subset DEF TypeInv
  <1> QED BY <1>1, FS_CardinalityType, FS_AddElement, FS_RemoveElement

Counted == management_fib_count = Cardinality(adapter) + Cardinality(Delivering(pc))

LEMMA CountStep ==
  ASSUME TypeInv, ShapeInv, PlaceInv, ManagementCountExact, Next
  PROVE  ManagementCountExact'
  <1>1. /\ ManagementCountExact <=> (overtaken = {} => Counted)
        /\ ManagementCountExact' <=> (overtaken' = {} => Counted')
    BY DEF ManagementCountExact, Counted, Delivering
  <1>2. ASSUME NEW c \in Callers, CallerStep(c), overtaken' = {}
        PROVE  Counted'
    <2>1. overtaken = {} /\ Counted
      BY <1>1, <1>2, CallerGhosts
    <2>2. /\ Cardinality(Delivering(pc)) \in Nat
          /\ Cardinality(Delivering(pc')) =
               Cardinality(Delivering(pc)) - (IF pc[c] = "deliver" THEN 1 ELSE 0)
                                           + (IF pc'[c] = "deliver" THEN 1 ELSE 0)
      <3>1. \A d \in Callers : d # c => pc'[d] = pc[d]
        BY <1>2, Frame
      <3> QED BY <3>1, DeliverMoves, Zenon
    <2>3. Counted' <=> management_fib_count' = Cardinality(adapter') + Cardinality(Delivering(pc'))
      BY DEF Counted, Delivering
    <2>4. management_fib_count = Cardinality(adapter) + Cardinality(Delivering(pc))
      BY <2>1 DEF Counted
    <2>5. CASE Count(c)
      <3>1. /\ pc[c] = "count" /\ pc'[c] = "deliver" /\ adapter' = adapter
            /\ management_fib_count' = management_fib_count + 1
        BY <2>5 DEF Count, Goto, TypeInv
      <3>2. Cardinality(Delivering(pc')) = Cardinality(Delivering(pc)) + 1
        BY <2>2, <3>1
      <3>3. Cardinality(adapter) \in Nat
        BY SendFibAssumption, FS_Subset, FS_CardinalityType DEF TypeInv
      <3> QED BY <2>2, <2>3, <2>4, <3>1, <3>2, <3>3
    <2>6. CASE Deliver(c)
      <3>1. /\ pc[c] = "deliver" /\ pc'[c] = "wait" /\ adapter' = adapter \cup {fibptr[c]}
            /\ management_fib_count' = management_fib_count
        BY <2>6 DEF Deliver, Goto, TypeInv
      <3>2. Cardinality(Delivering(pc')) = Cardinality(Delivering(pc)) - 1
        BY <2>2, <3>1
      <3>3. fibptr[c] \in Fibs /\ Owns(c, fibptr[c])
        BY <3>1 DEF ShapeInv, Local, Owns
      <3>4. fibptr[c] \notin adapter
        BY <2>1, <3>1, <3>3 DEF PlaceInv, Place
      <3>5. Cardinality(adapter) \in Nat /\ Cardinality(adapter') = Cardinality(adapter) + 1
        BY <3>1, <3>3, <3>4, AdapterCounts
      <3> QED BY <2>2, <2>3, <2>4, <3>1, <3>2, <3>5
    <2>7. CASE DeliverFails(c)
      <3>1. /\ pc[c] = "deliver" /\ pc'[c] = "cleanup" /\ adapter' = adapter
            /\ management_fib_count' = management_fib_count - 1
        BY <2>7 DEF DeliverFails, Fail, Goto, TypeInv
      <3>2. Cardinality(Delivering(pc')) = Cardinality(Delivering(pc)) - 1
        BY <2>2, <3>1
      <3>3. Cardinality(adapter) \in Nat
        BY SendFibAssumption, FS_Subset, FS_CardinalityType DEF TypeInv
      <3> QED BY <2>2, <2>3, <2>4, <3>1, <3>2, <3>3
    <2>8. \/ Count(c) \/ Deliver(c) \/ DeliverFails(c)
          \/ /\ UNCHANGED <<adapter, management_fib_count>>
             /\ pc[c] # "deliver" /\ pc'[c] # "deliver"
      <3> USE DEF TypeInv, Goto, Fail, shared
      <3>1. CASE Start(c) \/ Signal(c)
        BY <3>1 DEF Start, Reject, Alloc, Signal
      <3>2. CASE \E h \in inst.headers : FetchHeader(c, h) \/ FetchMessage(c, h)
        BY <3>2 DEF FetchHeader, FetchMessage
      <3>3. CASE FetchHeaderFaults(c) \/ FetchMessageFaults(c) \/ SaveHeader(c) \/ SaveHeaderFails(c)
        BY <3>3 DEF FetchHeaderFaults, FetchMessageFaults, SaveHeader, SaveHeaderFails
      <3>4. CASE SizeFits(c) \/ SizeNeedsBuffer(c) \/ SizeRefused(c)
        BY <3>4 DEF SizeFits, SizeNeedsBuffer, SizeRefused
      <3>5. CASE CompareSame(c) \/ CompareDiffers(c) \/ TakeABreak(c)
        BY <3>5 DEF CompareSame, CompareDiffers, TakeABreak
      <3>6. CASE SendNotOwned(c) \/ SendTooLong(c) \/ SendPrepare(c) \/ CountFull(c)
        BY <3>6 DEF SendNotOwned, SendTooLong, SendPrepare, CountFull
      <3>7. CASE Down(c) \/ Abort(c) \/ Answered(c)
        BY <3>7 DEF Down, Abort, Answered
      <3>8. CASE Complete(c) \/ CompleteFails(c) \/ CopyOut(c) \/ Cleanup(c)
        BY <3>8 DEF Complete, CompleteFails, CopyOut, Cleanup
      <3> HIDE DEF TypeInv, Goto, Fail, shared
      <3> QED BY <1>2, <3>1, <3>2, <3>3, <3>4, <3>5, <3>6, <3>7, <3>8 DEF CallerStep, Progress
    <2>9. CASE UNCHANGED <<adapter, management_fib_count>> /\ pc[c] # "deliver" /\ pc'[c] # "deliver"
      BY <2>2, <2>3, <2>4, <2>9
    <2> QED BY <2>5, <2>6, <2>7, <2>8, <2>9
  <1>3. ASSUME NEW f \in Fibs, Answer(f), overtaken' = {}
        PROVE  Counted'
    <2>1. overtaken = {} /\ Counted
      BY <1>1, <1>3 DEF Answer, ghosts
    <2>2. /\ f \in adapter /\ adapter' = adapter \ {f} /\ pc' = pc
          /\ management_fib_count' = management_fib_count - 1
      BY <1>3 DEF Answer, AnswerWaiter, AnswerAborted
    <2>3. Cardinality(adapter) \in Nat /\ Cardinality(adapter') = Cardinality(adapter) - 1
      BY <2>2, AdapterCounts
    <2>4. Cardinality(Delivering(pc)) \in Nat
      BY SendFibAssumption, FS_Subset, FS_CardinalityType DEF Delivering
    <2>5. Delivering(pc)' = Delivering(pc)
      BY <2>2 DEF Delivering
    <2> QED BY <2>1, <2>2, <2>3, <2>4, <2>5 DEF Counted
  <1>4. CASE ResetBegins
    BY <1>4 DEF ResetBegins, ManagementCountExact
  <1>5. ASSUME ResetEnds, overtaken' = {}
        PROVE  Counted'
    <2>1. \A c \in Callers : pc[c] = "idle"
      BY <1>5 DEF ResetEnds
    <2>2. Delivering(pc)' = {} /\ adapter' = {} /\ management_fib_count' = 0
      BY <1>5, <2>1 DEF ResetEnds, Delivering
    <2>3. Cardinality({}) = 0
      BY FS_EmptySet
    <2> QED BY <2>2, <2>3 DEF Counted
  <1> QED BY <1>1, <1>2, <1>3, <1>4, <1>5 DEF Next, CallerStep

-----------------------------------------------------------------------------
(***************************************************************************)
(* The theorems.                                                           *)
(***************************************************************************)
\* The driver starts with every fib on the free list.
LEMMA InitIInv == Init => IInv
  <1> SUFFICES ASSUME Init PROVE IInv
    OBVIOUS
  <1>1. TypeInv
    BY SetupIsHeader, Names DEF Init, TypeInv, Steps, Errors
  <1>2. ShapeInv
    BY SetupIsHeader, Names DEF Init, ShapeInv, Local, Pointer
  <1>3. \A c \in Callers : fibptr[c] = NoFib
    BY DEF Init
  <1>4. PlaceInv /\ HighjackInv /\ PrivateInv /\ SizeInv
    BY <1>3, Names DEF Init, PlaceInv, Place, HighjackInv, Highjack, PrivateInv, Private, SizeInv,
                       Clean, Owns
  <1>5. ManagementCountExact
    <2>1. {c \in Callers : pc[c] = "deliver"} = {} /\ adapter = {} /\ management_fib_count = 0
      BY DEF Init
    <2> QED BY <2>1, FS_EmptySet DEF ManagementCountExact
  <1> QED BY <1>1, <1>2, <1>4, <1>5 DEF IInv

\* Every step keeps the invariant.
LEMMA NextIInv == IInv /\ [Next]_vars => IInv'
  <1> SUFFICES ASSUME IInv, [Next]_vars PROVE IInv'
    OBVIOUS
  <1>1. CASE Next
    BY <1>1, TypeStep, ShapeStep, PlaceStep, HighjackStep, PrivateStep, SizeStep, CountStep DEF IInv
  <1>2. CASE UNCHANGED vars
    BY <1>2 DEF IInv, vars, shared, ptrs, ghosts, TypeInv, ShapeInv, Local, Pointer, PlaceInv, Place,
                HighjackInv, Highjack, GaveUp, PrivateInv, Private, SizeInv, Sized, Clean, Owns,
                Capacity, SizeOf, ManagementCountExact
  <1> QED BY <1>1, <1>2

\* It says that the fibs are whole ...
LEMMA IInvWhole == IInv => FibsWhole
  <1> SUFFICES ASSUME IInv PROVE FibsWhole
    OBVIOUS
  <1> USE DEF IInv
  <1>1. TypeOK
    <2>1. \A c \in Callers : pc[c] # "idle" => fibptr[c] \in Fibs /\ mem[kfib[c]] # NoHdr
      BY SendFibAssumption DEF ShapeInv, Local
    <2> QED BY <2>1 DEF TypeInv, TypeOK
  <1>2. ASSUME NEW f \in Fibs \ overtaken
        PROVE  LET owners == {c \in Callers : Owns(c, f)}
                   orphan == f \in adapter /\ done[f] = 2
               IN  /\ f \in pool => owners = {} /\ ~orphan
                   /\ orphan => owners = {}
                   /\ f \notin pool /\ ~orphan => Cardinality(owners) = 1
    <2> DEFINE owners == {c \in Callers : Owns(c, f)}
    <2>1. Place(f)
      BY DEF PlaceInv
    <2>2. ASSUME f \notin pool, done[f] # 2
          PROVE  Cardinality(owners) = 1
      <3>1. PICK c \in Callers : Owns(c, f)
        BY <2>1, <2>2 DEF Place
      <3>2. owners = {c}
        BY <2>1, <3>1 DEF Place
      <3> QED BY <3>2, FS_Singleton
    <2> QED BY <2>1, <2>2 DEF Place
  <1>3. FibOwnership
    BY <1>2 DEF FibOwnership
  <1>4. ASSUME NEW f \in pool \ overtaken, f \notin torn
        PROVE  va[f] = f \/ \E c \in Callers : va[f] = c /\ retval[c] = "ERESTARTSYS" /\ pc[c] = "cleanup"
    <2>1. f \in Fibs /\ Place(f) /\ Highjack(f)
      BY <1>4 DEF TypeInv, PlaceInv, HighjackInv
    <2>2. ASSUME NEW c \in Callers, fibptr[c] = f
          PROVE  retval[c] = "ERESTARTSYS" /\ pc[c] = "cleanup"
      BY <1>4, <2>1, <2>2, Names DEF Place, Owns, ShapeInv, Local
    <2> QED BY <2>1, <2>2 DEF Highjack
  <1>5. BufferRestored
    BY <1>4 DEF BufferRestored
  <1> QED BY <1>1, <1>3, <1>5 DEF FibsWhole

\* ... and that what the adapter works on fits.
LEMMA IInvFits == IInv => NoOverrun
  <1> SUFFICES ASSUME IInv, NEW f \in adapter \ (torn \cup tainted \cup overtaken), done[f] # 2
               PROVE  /\ mem[va[f]].Size <= Capacity(va[f])
                      /\ mem[va[f]].SenderSize <= Capacity(va[f])
    BY DEF NoOverrun
  <1> USE DEF IInv
  <1>1. f \in Fibs /\ f \in Clean
    BY DEF TypeInv, Clean
  <1>2. Place(f) /\ Highjack(f)
    BY <1>1 DEF PlaceInv, HighjackInv, Clean
  <1>3. PICK c \in Callers : Owns(c, f)
    BY <1>2 DEF Place
  <1>4. pc[c] \in {"wait", "woken"}
    BY <1>2, <1>3 DEF Place
  <1>5. /\ mem[va[f]].Size <= size[c] /\ mem[va[f]].SenderSize <= size[c]
        /\ size[c] <= Capacity(va[f])
    BY <1>1, <1>3, <1>4 DEF SizeInv, Sized
  <1>6. mem[va[f]].Size \in Nat /\ mem[va[f]].SenderSize \in Nat
    BY <1>1, HeaderOps DEF ShapeInv, Pointer
  <1>7. size[c] \in Nat /\ Capacity(va[f]) \in Nat
    BY <1>1, SendFibAssumption DEF TypeInv, Capacity, Buffers
  <1> QED BY <1>5, <1>6, <1>7

\* The inductive invariant: whatever calls, signals, answers and resets do,
\* every fib has one place, a known buffer and, until its buffer is freed under
\* it or a reset takes it, a message that fits.
THEOREM Invariance == Spec => []IInv
  <1>1. Init => IInv
    BY InitIInv
  <1>2. IInv /\ [Next]_vars => IInv'
    BY NextIInv
  <1> QED BY <1>1, <1>2, PTL DEF Spec

\* ioctl_send_fib, aac_fib_send, the interrupt and _aac_reset_adapter lose no
\* fib, give none two owners and leave no wrong pointer or count behind, but
\* for the fibs a reset or a freed buffer has damaged.
THEOREM FibsCorrect == Spec => []FibsWhole
  <1>1. IInv => FibsWhole
    BY IInvWhole
  <1> QED BY <1>1, Invariance, PTL

\* The comparison that fix.cocci inserts is enough: what the adapter is given
\* fits the buffer the first fetch's size led to.
THEOREM FetchesAgree == Spec => []NoOverrun
  <1>1. IInv => NoOverrun
    BY IInvFits
  <1> QED BY <1>1, Invariance, PTL

=============================================================================
