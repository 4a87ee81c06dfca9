------------------------------ MODULE SendFib -------------------------------
(***************************************************************************)
(* ioctl_send_fib of the aacraid driver as the fixer leaves it             *)
(* (auto_fix/patched_files/2-patched-commctrl.c), with the part of         *)
(* commsup.c it calls: the pool of fibs, aac_fib_send, aac_fib_complete.   *)
(*                                                                         *)
(* Callers run the ioctl concurrently.  Each fetches its request from user *)
(* memory twice: the header, to learn the size, then the whole message.    *)
(* Another thread may write that memory at any time, so a fetch returns    *)
(* any header of the instance.  The adapter answers in any order, a signal *)
(* may end the wait for an answer, and the adapter may be reset under the  *)
(* calls.  The interrupt side is not part of the repository and is         *)
(* modelled from what aac_fib_send expects of it.  The adapter is not in   *)
(* sync_mode.                                                              *)
(***************************************************************************)
EXTENDS Integers, FiniteSets

CONSTANTS
  Callers,     \* threads that call the ioctl
  Fibs,        \* the fibs of the pool
  NoHdr,       \* no copy of a header
  NoFib,       \* a null pointer
  HdrSize,     \* sizeof(struct aac_fibhdr)
  MaxFibSize,  \* dev->max_fib_size
  SizeLimit,   \* 2048, the largest message the ioctl takes
  U16,         \* 2^16: header.Size is 16 bits wide
  Instances    \* what a behaviour may do: headers, the headers user memory may
               \* hold; signals, may a signal end a wait; resets, calls, bounds
               \* on the resets and on the calls; mgt, AAC_NUM_MGT_FIB

\* The bits of XferState the code looks at.
Xfer == {"HostOwned", "SentFromHost", "AdapterProcessed"}

\* brk: Command is TakeABreakPt; magic: StructType is one of the FIB_MAGICs.
Header == [Size : 0 .. U16 - 1, SenderSize : 0 .. U16 - 1,
           brk : {TRUE, FALSE}, magic : {TRUE, FALSE}, xfer : SUBSET Xfer]

ASSUME SendFibAssumption ==
  /\ HdrSize \in Nat /\ MaxFibSize \in Nat /\ SizeLimit \in Nat /\ U16 \in Nat
  /\ HdrSize <= MaxFibSize /\ MaxFibSize < U16 /\ SizeLimit < U16
  /\ \A k \in Instances : k.headers \subseteq Header /\ k.signals \in {TRUE, FALSE}
  /\ NoHdr \notin Header
  /\ NoFib \notin Fibs \cup Callers
  /\ Fibs \cap Callers = {}
  /\ IsFiniteSet(Fibs) /\ IsFiniteSet(Callers)

\* Each fib of the pool has a buffer, named after it; the larger buffer a
\* call allocates is named after the caller.
Buffers == Fibs \cup Callers

VARIABLES
  inst,        \* the instance
  pool,        \* fibs on dev->free_fib
  done,        \* fib.done
  event_wait,  \* count of the semaphore fib.event_wait
  va,          \* fib.hw_fib_va, a buffer
  mem,         \* the header each buffer holds
  adapter,     \* fibs the adapter has been given and has not answered
  management_fib_count,
  pc, fibptr, kfib, hw_fib, hd, size, retval,   \* of each caller
  in_reset,    \* dev->in_reset
  resets, calls,   \* resets and calls so far
  torn,        \* fibs whose larger buffer was freed after an aborted wait
  tainted,     \* fibs given a larger buffer that another call had freed too early
  overtaken    \* fibs that belonged to a call when a reset built the pool anew

shared == <<pool, done, event_wait, va, adapter, management_fib_count>>
ptrs == <<fibptr, kfib, hw_fib>>
ghosts == <<inst, in_reset, resets, torn, tainted, overtaken>>
vars == <<shared, mem, ptrs, pc, hd, size, retval, calls, ghosts>>

\* aac_fib_setup: XferState has every bit set until aac_fib_alloc clears it.
SetupHeader ==
  [Size |-> 0, SenderSize |-> MaxFibSize, brk |-> FALSE, magic |-> FALSE, xfer |-> Xfer]

Init ==
  /\ inst \in Instances
  /\ pool = Fibs
  /\ done = [f \in Fibs |-> 0]
  /\ event_wait = [f \in Fibs |-> 0]
  /\ va = [f \in Fibs |-> f]
  /\ mem = [b \in Buffers |-> IF b \in Fibs THEN SetupHeader ELSE NoHdr]
  /\ adapter = {}
  /\ management_fib_count = 0
  /\ pc = [c \in Callers |-> "idle"]
  /\ fibptr = [c \in Callers |-> NoFib]
  /\ kfib = [c \in Callers |-> NoFib]
  /\ hw_fib = [c \in Callers |-> NoFib]
  /\ hd = [c \in Callers |-> NoHdr]
  /\ size = [c \in Callers |-> 0]
  /\ retval = [c \in Callers |-> "none"]
  /\ in_reset = FALSE /\ resets = 0 /\ calls = 0
  /\ torn = {} /\ tainted = {} /\ overtaken = {}

-----------------------------------------------------------------------------
Capacity(b) == IF b \in Fibs THEN MaxFibSize ELSE size[b]

Write(b, h) == mem' = [mem EXCEPT ![b] = h]

\* aac_fib_send and aac_fib_complete use the buffer the fib points to.
Hw(c) == mem[va[fibptr[c]]]
WriteHw(c, h) == Write(va[fibptr[c]], h)

Goto(c, from, to) == pc[c] = from /\ pc' = [pc EXCEPT ![c] = to]

\* goto cleanup with an error code.
Fail(c, from, err) ==
  /\ Goto(c, from, "cleanup")
  /\ retval' = [retval EXCEPT ![c] = err]

\* aac_fib_free: a fib whose wait was aborted is left to the interrupt.
Free(f) == pool' = IF done[f] = 2 THEN pool ELSE pool \cup {f}

\* The call returns and its locals are gone.
Forget(c) ==
  /\ fibptr' = [fibptr EXCEPT ![c] = NoFib]
  /\ kfib' = [kfib EXCEPT ![c] = NoFib]
  /\ hw_fib' = [hw_fib EXCEPT ![c] = NoFib]
  /\ hd' = [hd EXCEPT ![c] = NoHdr]
  /\ size' = [size EXCEPT ![c] = 0]

-----------------------------------------------------------------------------
(***************************************************************************)
(* ioctl_send_fib up to the second fetch.                                  *)
(***************************************************************************)
NewCall == calls < inst.calls /\ calls' = calls + 1

\* in_reset is set, or the pool is empty.
Reject(c) ==
  /\ pc[c] = "idle" /\ NewCall
  /\ \/ in_reset /\ retval' = [retval EXCEPT ![c] = "EBUSY"]
     \/ ~in_reset /\ pool = {} /\ retval' = [retval EXCEPT ![c] = "ENOMEM"]
  /\ UNCHANGED <<shared, mem, ptrs, pc, hd, size>>

\* aac_fib_alloc clears XferState; done and event_wait are left alone.
Alloc(c, f) ==
  /\ Goto(c, "idle", "fetch1") /\ NewCall
  /\ ~in_reset
  /\ f \in pool
  /\ pool' = pool \ {f}
  /\ Write(va[f], [mem[va[f]] EXCEPT !.xfer = {}])
  /\ fibptr' = [fibptr EXCEPT ![c] = f]
  /\ kfib' = [kfib EXCEPT ![c] = va[f]]
  /\ retval' = [retval EXCEPT ![c] = "none"]
  /\ UNCHANGED <<done, event_wait, va, adapter, management_fib_count, hw_fib, hd, size>>

\* The first copy_from_user: the header, into the pool's buffer.
FetchHeader(c, h) ==
  /\ Goto(c, "fetch1", "save")
  /\ Write(kfib[c], h)
  /\ UNCHANGED <<shared, ptrs, hd, size, retval, calls>>

FetchHeaderFaults(c) ==
  /\ Goto(c, "fetch1", "idle")
  /\ retval' = [retval EXCEPT ![c] = "EFAULT"]
  /\ Free(fibptr[c])
  /\ Forget(c)
  /\ UNCHANGED <<done, event_wait, va, adapter, management_fib_count, mem, calls>>

\* Inserted by fix.cocci: keep a copy of the header.
SaveHeader(c) ==
  /\ Goto(c, "save", "size")
  /\ hd' = [hd EXCEPT ![c] = mem[kfib[c]]]
  /\ UNCHANGED <<shared, mem, ptrs, size, retval, calls>>

SaveHeaderFails(c) ==
  /\ Fail(c, "save", "EFAULT")
  /\ UNCHANGED <<shared, mem, ptrs, hd, size, calls>>

\* size: what the header announces.
SizeOf(h) == IF h.Size + HdrSize < h.SenderSize THEN h.SenderSize ELSE h.Size + HdrSize

SizeFits(c) ==
  LET n == SizeOf(mem[kfib[c]]) IN
  /\ Goto(c, "size", "fetch2")
  /\ n <= MaxFibSize
  /\ size' = [size EXCEPT ![c] = n]
  /\ UNCHANGED <<shared, mem, ptrs, hd, retval, calls>>

\* A fib or a call still points to the buffer.
Dangling(b) ==
  (\E f \in Fibs : va[f] = b) \/ (\E d \in Callers : b \in {kfib[d], hw_fib[d]})

\* A larger buffer takes the place of the pool's ("highjack").
SizeNeedsBuffer(c) ==
  LET n == SizeOf(mem[kfib[c]]) IN
  /\ Goto(c, "size", "fetch2")
  /\ n > MaxFibSize /\ n <= SizeLimit
  /\ size' = [size EXCEPT ![c] = n]
  /\ kfib' = [kfib EXCEPT ![c] = c]
  /\ hw_fib' = [hw_fib EXCEPT ![c] = va[fibptr[c]]]
  /\ va' = [va EXCEPT ![fibptr[c]] = c]
  /\ Write(c, mem[kfib[c]])
  /\ tainted' = IF Dangling(c) THEN tainted \cup {fibptr[c]} ELSE tainted
  /\ UNCHANGED <<pool, done, event_wait, adapter, management_fib_count,
                 fibptr, hd, retval, calls>>

\* Too large, or pci_alloc_consistent fails.
SizeRefused(c) ==
  LET n == SizeOf(mem[kfib[c]]) IN
  /\ Fail(c, "size", IF n > SizeLimit THEN "EINVAL" ELSE "ENOMEM")
  /\ n > MaxFibSize
  /\ size' = [size EXCEPT ![c] = n]
  /\ UNCHANGED <<shared, mem, ptrs, hd, calls>>

-----------------------------------------------------------------------------
(***************************************************************************)
(* The second fetch and the comparison fix.cocci inserted.                 *)
(***************************************************************************)
FetchMessage(c, h) ==
  /\ Goto(c, "fetch2", "compare")
  /\ Write(kfib[c], h)
  /\ UNCHANGED <<shared, ptrs, hd, size, retval, calls>>

FetchMessageFaults(c) ==
  /\ Fail(c, "fetch2", "EFAULT")
  /\ UNCHANGED <<shared, mem, ptrs, hd, size, calls>>

\* Mutant: the unpatched code, which does not compare.
CompareSameNot(c) ==
  /\ pc[c] = "compare"
  /\ pc' = [pc EXCEPT ![c] = IF mem[kfib[c]].brk THEN "break" ELSE "send"]
  /\ UNCHANGED <<shared, mem, ptrs, hd, size, retval, calls>>

CompareSame(c) ==
  /\ pc[c] = "compare"
  /\ mem[kfib[c]] = hd[c]
  /\ pc' = [pc EXCEPT ![c] = IF mem[kfib[c]].brk THEN "break" ELSE "send"]
  /\ UNCHANGED <<shared, mem, ptrs, hd, size, retval, calls>>

CompareDiffers(c) ==
  /\ Fail(c, "compare", "EFAULT")
  /\ mem[kfib[c]] # hd[c]
  /\ hd' = [hd EXCEPT ![c] = NoHdr]
  /\ UNCHANGED <<shared, mem, ptrs, size, calls>>

\* TakeABreakPt: nothing is sent.
TakeABreak(c) ==
  /\ Goto(c, "break", "copyout")
  /\ Write(kfib[c], [mem[kfib[c]] EXCEPT !.xfer = {}])
  /\ UNCHANGED <<shared, ptrs, hd, size, retval, calls>>

-----------------------------------------------------------------------------
(***************************************************************************)
(* aac_fib_send, called with wait = reply = 1.  dev->queues exists.        *)
(***************************************************************************)
\* The header as it goes to the adapter; Size now includes the header.
ToAdapter(h) ==
  [h EXCEPT !.xfer = @ \cup {"SentFromHost"}, !.Size = (HdrSize + h.Size) % U16]

SendNotOwned(c) ==
  /\ Fail(c, "send", "EBUSY")
  /\ "HostOwned" \notin Hw(c).xfer
  /\ UNCHANGED <<shared, mem, ptrs, hd, size, calls>>

SendTooLong(c) ==
  LET h == ToAdapter(Hw(c)) IN
  /\ Fail(c, "send", "EMSGSIZE")
  /\ "HostOwned" \in h.xfer
  /\ h.Size > h.SenderSize
  /\ WriteHw(c, h)
  /\ UNCHANGED <<shared, ptrs, hd, size, calls>>

\* Mutant: done keeps the value it had when the fib was last used.
SendPrepareKeepsDone(c) ==
  LET h == ToAdapter(Hw(c)) IN
  /\ Goto(c, "send", "count")
  /\ "HostOwned" \in h.xfer
  /\ h.Size <= h.SenderSize
  /\ WriteHw(c, h)
  /\ UNCHANGED <<shared, ptrs, hd, size, retval, calls>>

SendPrepare(c) ==
  LET h == ToAdapter(Hw(c)) IN
  /\ Goto(c, "send", "count")
  /\ "HostOwned" \in h.xfer
  /\ h.Size <= h.SenderSize
  /\ WriteHw(c, h)
  /\ done' = [done EXCEPT ![fibptr[c]] = 0]
  /\ UNCHANGED <<pool, event_wait, va, adapter, management_fib_count,
                 ptrs, hd, size, retval, calls>>

\* Under manage_lock.
CountFull(c) ==
  /\ Fail(c, "count", "EBUSY")
  /\ management_fib_count >= inst.mgt
  /\ UNCHANGED <<shared, mem, ptrs, hd, size, calls>>

Count(c) ==
  /\ Goto(c, "count", "deliver")
  /\ management_fib_count < inst.mgt
  /\ management_fib_count' = management_fib_count + 1
  /\ UNCHANGED <<pool, done, event_wait, va, adapter, mem, ptrs, hd, size, retval, calls>>

\* aac_adapter_deliver.
Deliver(c) ==
  /\ Goto(c, "deliver", "wait")
  /\ adapter' = adapter \cup {fibptr[c]}
  /\ UNCHANGED <<pool, done, event_wait, va, management_fib_count,
                 mem, ptrs, hd, size, retval, calls>>

DeliverFails(c) ==
  /\ Fail(c, "deliver", "EBUSY")
  /\ management_fib_count' = management_fib_count - 1
  /\ UNCHANGED <<pool, done, event_wait, va, adapter, mem, ptrs, hd, size, calls>>

\* down_interruptible takes the semaphore ...
Down(c) ==
  /\ Goto(c, "wait", "woken")
  /\ event_wait[fibptr[c]] > 0
  /\ event_wait' = [event_wait EXCEPT ![fibptr[c]] = @ - 1]
  /\ UNCHANGED <<pool, done, va, adapter, management_fib_count,
                 mem, ptrs, hd, size, retval, calls>>

\* ... or, if it has to sleep, is ended by a signal.
Signal(c) ==
  /\ Goto(c, "wait", "woken")
  /\ inst.signals
  /\ event_wait[fibptr[c]] = 0
  /\ UNCHANGED <<shared, mem, ptrs, hd, size, retval, calls>>

\* Under event_lock: no answer yet, tell the interrupt.
Abort(c) ==
  /\ Fail(c, "woken", "ERESTARTSYS")
  /\ done[fibptr[c]] = 0
  /\ done' = [done EXCEPT ![fibptr[c]] = 2]
  /\ UNCHANGED <<pool, event_wait, va, adapter, management_fib_count,
                 mem, ptrs, hd, size, calls>>

Answered(c) ==
  /\ Goto(c, "woken", "complete")
  /\ done[fibptr[c]] # 0
  /\ UNCHANGED <<shared, mem, ptrs, hd, size, retval, calls>>

-----------------------------------------------------------------------------
(***************************************************************************)
(* aac_fib_complete, the answer to the user, cleanup.                      *)
(***************************************************************************)
\* What is left to do clears XferState; a bad StructType leaves it.
CompleteHeader(h) == IF h.magic THEN [h EXCEPT !.xfer = {}] ELSE h

Complete(c) ==
  LET h == Hw(c) IN
  /\ Goto(c, "complete", "copyout")
  /\ h.xfer = {} \/ h.magic
  /\ WriteHw(c, CompleteHeader(h))
  /\ UNCHANGED <<shared, ptrs, hd, size, retval, calls>>

CompleteFails(c) ==
  LET h == Hw(c) IN
  /\ Fail(c, "complete", "EINVAL")
  /\ h.xfer # {} /\ ~h.magic
  /\ UNCHANGED <<shared, mem, ptrs, hd, size, calls>>

CopyOut(c) ==
  /\ \E r \in {"0", "EFAULT"} : Fail(c, "copyout", r)
  /\ UNCHANGED <<shared, mem, ptrs, hd, size, calls>>

\* The larger buffer, if there is one, is freed and the pool's put back, whoever
\* has the fib by now.  What the freed buffer holds stays there: after an aborted
\* wait the adapter, or the next owner of the fib, may still use it.
RestoreBuffer(c) ==
  IF hw_fib[c] = NoFib
    THEN UNCHANGED <<va, mem, torn>>
    ELSE /\ va' = [va EXCEPT ![fibptr[c]] = hw_fib[c]]
         /\ torn' = IF retval[c] = "ERESTARTSYS" THEN torn \cup {fibptr[c]} ELSE torn
         /\ UNCHANGED mem

\* Mutant: a fib whose wait was aborted is freed as well.
CleanupAlwaysFrees(c) ==
  /\ Goto(c, "cleanup", "idle")
  /\ RestoreBuffer(c)
  /\ Free(fibptr[c])
  /\ Forget(c)
  /\ UNCHANGED <<done, event_wait, adapter, management_fib_count, retval, calls>>

Cleanup(c) ==
  /\ Goto(c, "cleanup", "idle")
  /\ RestoreBuffer(c)
  /\ IF retval[c] # "ERESTARTSYS" THEN Free(fibptr[c]) ELSE UNCHANGED pool
  /\ Forget(c)
  /\ UNCHANGED <<done, event_wait, adapter, management_fib_count, retval, calls>>

-----------------------------------------------------------------------------
(***************************************************************************)
(* The interrupt side (external): a fib is answered.  A waiter is woken;   *)
(* if it has given up, the fib is completed and freed in its place.        *)
(***************************************************************************)
Processed(h) == [h EXCEPT !.xfer = @ \cup {"AdapterProcessed"}]

AnswerWaiter(f) ==
  /\ f \in adapter /\ ~in_reset
  /\ done[f] # 2
  /\ adapter' = adapter \ {f}
  /\ management_fib_count' = management_fib_count - 1
  /\ Write(va[f], Processed(mem[va[f]]))
  /\ IF done[f] = 0
       THEN /\ done' = [done EXCEPT ![f] = 1]
            /\ event_wait' = [event_wait EXCEPT ![f] = @ + 1]
       ELSE UNCHANGED <<done, event_wait>>
  /\ UNCHANGED <<pool, va, ptrs, pc, hd, size, retval, calls>>

AnswerAborted(f) ==
  /\ f \in adapter /\ ~in_reset
  /\ done[f] = 2
  /\ adapter' = adapter \ {f}
  /\ management_fib_count' = management_fib_count - 1
  /\ done' = [done EXCEPT ![f] = 0]
  /\ Write(va[f], CompleteHeader(Processed(mem[va[f]])))
  /\ pool' = pool \cup {f}
  /\ UNCHANGED <<event_wait, va, ptrs, pc, hd, size, retval, calls>>

-----------------------------------------------------------------------------
(***************************************************************************)
(* A reset of the adapter: in_reset is set, the card is dead, and the      *)
(* waits for its answers are ended (the part of _aac_reset_adapter before  *)
(* it sleeps).  Then the pool, its buffers and the counts are built anew,  *)
(* whether the calls have left their fibs or not.                          *)
(***************************************************************************)
\* XferState of its buffer says that an answer is expected: it has been sent
\* and is not completed.  (aac_fib_setup also sets NoResponseExpected.)
AnswerExpected(f) == mem[va[f]] # SetupHeader /\ "SentFromHost" \in mem[va[f]].xfer

ResetBegins ==
  /\ ~in_reset /\ resets < inst.resets
  /\ resets' = resets + 1
  /\ in_reset' = TRUE
  /\ event_wait' = [f \in Fibs |-> event_wait[f] + IF AnswerExpected(f) THEN 1 ELSE 0]
  /\ UNCHANGED <<pool, done, va, adapter, management_fib_count, mem, ptrs, pc, hd,
                 size, retval, calls, inst, torn, tainted, overtaken>>

ResetEnds ==
  /\ in_reset
  /\ in_reset' = FALSE
  /\ pool' = Fibs
  /\ done' = [f \in Fibs |-> 0]
  /\ event_wait' = [f \in Fibs |-> 0]
  /\ va' = [f \in Fibs |-> f]
  /\ mem' = [b \in Buffers |-> IF b \in Fibs THEN SetupHeader ELSE mem[b]]
  /\ adapter' = {}
  /\ management_fib_count' = 0
  /\ overtaken' = overtaken \cup {fibptr[c] : c \in {d \in Callers : pc[d] # "idle"}}
  /\ UNCHANGED <<ptrs, pc, hd, size, retval, calls, inst, resets, torn, tainted>>

-----------------------------------------------------------------------------
Start(c) == Reject(c) \/ \E f \in Fibs : Alloc(c, f)

Progress(c) ==
  \/ /\ \/ \E h \in inst.headers : FetchHeader(c, h) \/ FetchMessage(c, h)
        \/ FetchHeaderFaults(c) \/ FetchMessageFaults(c)
        \/ SaveHeader(c) \/ SaveHeaderFails(c)
        \/ SizeFits(c) \/ SizeRefused(c)
        \/ CompareSame(c) \/ CompareDiffers(c) \/ TakeABreak(c)
        \/ SendNotOwned(c) \/ SendTooLong(c) \/ SendPrepare(c)
        \/ CountFull(c) \/ Count(c) \/ Deliver(c) \/ DeliverFails(c)
        \/ Down(c) \/ Abort(c) \/ Answered(c)
        \/ Complete(c) \/ CompleteFails(c) \/ CopyOut(c)
     /\ UNCHANGED ghosts
  \/ SizeNeedsBuffer(c) /\ UNCHANGED <<inst, in_reset, resets, torn, overtaken>>
  \/ Cleanup(c) /\ UNCHANGED <<inst, in_reset, resets, tainted, overtaken>>

Answer(f) == (AnswerWaiter(f) \/ AnswerAborted(f)) /\ UNCHANGED ghosts

Next ==
  \/ \E c \in Callers : Progress(c)
  \/ \E c \in Callers : (Start(c) \/ Signal(c)) /\ UNCHANGED ghosts
  \/ \E f \in Fibs : Answer(f)
  \/ ResetBegins \/ ResetEnds

\* The kernel schedules every thread, the adapter answers what it is given, and
\* a reset that has begun ends.
Spec ==
  /\ Init /\ [][Next]_vars
  /\ WF_vars(ResetEnds)
  /\ \A c \in Callers : WF_vars(Progress(c))
  /\ \A f \in Fibs : WF_vars(Answer(f))

-----------------------------------------------------------------------------
(***************************************************************************)
(* Properties                                                              *)
(***************************************************************************)
Errors == {"none", "0", "EBUSY", "ENOMEM", "EFAULT", "EINVAL", "EMSGSIZE", "ERESTARTSYS"}

Steps ==
  {"idle", "fetch1", "save", "size", "fetch2", "compare", "break", "send", "count",
   "deliver", "wait", "woken", "complete", "copyout", "cleanup"}

\* A caller is outside the ioctl, or it holds a fib and points to a buffer
\* with a header in it; a copy hd exists from the first fetch to the second.
TypeOK ==
  /\ pool \subseteq Fibs /\ adapter \subseteq Fibs
  /\ done \in [Fibs -> 0 .. 2]
  /\ event_wait \in [Fibs -> Nat]
  /\ va \in [Fibs -> Buffers]
  /\ mem \in [Buffers -> Header \cup {NoHdr}]
  /\ management_fib_count \in Int
  /\ pc \in [Callers -> Steps]
  /\ fibptr \in [Callers -> Fibs \cup {NoFib}]
  /\ kfib \in [Callers -> Buffers \cup {NoFib}]
  /\ hw_fib \in [Callers -> Buffers \cup {NoFib}]
  /\ hd \in [Callers -> Header \cup {NoHdr}]
  /\ size \in [Callers -> Nat]
  /\ retval \in [Callers -> Errors]
  /\ torn \subseteq Fibs /\ tainted \subseteq Fibs /\ overtaken \subseteq Fibs
  /\ \A c \in Callers : pc[c] # "idle" => fibptr[c] \in Fibs /\ mem[kfib[c]] # NoHdr

\* The message the adapter is working on fits in the buffer it was given:
\* what the second fetch brought in is what the size check looked at.  The fibs
\* that escape are those whose larger buffer was freed under the adapter after
\* an aborted wait, those that were then given that buffer while it was still
\* in use, and those that a reset took from a call; no others.
NoOverrun ==
  \A f \in adapter \ (torn \cup tainted \cup overtaken) :
    done[f] # 2 => /\ mem[va[f]].Size <= Capacity(va[f])
                   /\ mem[va[f]].SenderSize <= Capacity(va[f])

\* A caller owns its fib until its wait is aborted.
Owns(c, f) == fibptr[c] = f /\ retval[c] # "ERESTARTSYS"

\* No fib is lost, and none is in two places: it is on the free list, or one
\* call owns it, or its call was aborted and the adapter has it.  A reset that
\* finds calls under way gives their fibs a second owner; the damage does not
\* spread to other fibs.
FibOwnership ==
  \A f \in Fibs \ overtaken :
    LET owners == {c \in Callers : Owns(c, f)}
        orphan == f \in adapter /\ done[f] = 2
    IN  /\ f \in pool => owners = {} /\ ~orphan
        /\ orphan => owners = {}
        /\ f \notin pool /\ ~orphan => Cardinality(owners) = 1

\* A fib on the free list points to its own buffer: the highjacked pointer
\* was put back on every way out of the ioctl, but for a wait that was aborted
\* with a larger buffer.
BufferRestored ==
  \A f \in pool \ overtaken :
    va[f] = f \/ f \in torn
              \/ \E c \in Callers : va[f] = c /\ retval[c] = "ERESTARTSYS" /\ pc[c] = "cleanup"

\* management_fib_count is the number of fibs given to the adapter or about
\* to be: it is taken back on a failed delivery, and once per answer.  A reset
\* that overtakes no call keeps it so.
ManagementCountExact ==
  overtaken = {} =>
    management_fib_count =
      Cardinality(adapter) + Cardinality({c \in Callers : pc[c] = "deliver"})

\* Whatever callers, signals, the interrupt and a reset do, and but for the fibs
\* they have torn or overtaken: every fib has one place and its own buffer, and
\* the count of management fibs is that of the fibs under way.
FibsWhole == TypeOK /\ FibOwnership /\ BufferRestored /\ ManagementCountExact

\* A caller that waits is woken, however the fib was used before: every call
\* of the ioctl returns, unless a reset overtook it between the test of
\* in_reset and the delivery.
EveryCallReturns ==
  \A c \in Callers : pc[c] # "idle" ~> (pc[c] = "idle" \/ fibptr[c] \in overtaken)

=============================================================================
