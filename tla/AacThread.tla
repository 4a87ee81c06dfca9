------------------------------ MODULE AacThread ------------------------------
(***************************************************************************)
(* The thread of the aacraid driver that serves the events of the adapter, *)
(* the fib contexts by which programs read them, and the reset of the      *)
(* adapter (commsup.c: aac_command_thread, aac_check_health,               *)
(* aac_reset_adapter, aac_fib_adapter_complete; 2-patched-commctrl.c:      *)
(* open_, next_ and close_getadapter_fib).                                 *)
(*                                                                         *)
(* Actors are the threads 1 .. MaxThreads in the order kthread_run made    *)
(* them, the error handler 0 of the SCSI layer, the users, and the adapter.*)
(* An event is its number in script.  A user has at most one context; the  *)
(* panic notice check_health makes up is 0.  dev->queues and dev->fsa_dev  *)
(* come and go together.  fib_lock is held across steps only by a thread   *)
(* that waits for room in the response queue.                              *)
(***************************************************************************)
EXTENDS AacAif

CONSTANTS
  Users,
  Instances,   \* what to run: records of a script, the users and the resets
  Limit,       \* a context with more fibs than this counts as backlogged
  Extra,       \* how many more copies the thread allocates than contexts
  MaxThreads

ASSUME AacThreadAssumption == Limit \in Nat /\ Extra \in Nat /\ MaxThreads \in Nat \ {0}

ASSUME InstancesAssumption ==
  \A i \in Instances :
    /\ {"script", "failures", "resets"} \subseteq DOMAIN i
    /\ Len(i.script) \in Nat /\ i.failures \in Nat /\ i.resets \in Nat
    /\ i.devices \subseteq {"none", "online", "offline"}

VARIABLES
  inst,        \* the instance; how often the adapter may still fail, be found
               \* sick or be reset, and a context be opened
  hw,          \* the adapter: events sent, answers taken, its health
  hostq, respq,
  cmdq,        \* events the interrupt handler has queued for the thread
  lost,        \* ghost: events that a reset has dropped or nobody answers
  fsa, devices,
  fib_list, ctx,
  pc, ev, pool, halts,   \* of the threads and the error handler
  stop,        \* the threads kthread_stop has been called for
  dev,         \* thread, aif_thread, in_reset, queues
  two,         \* ghost: two threads have served events at one time
  user

hostVars == <<hw, hostq, respq, cmdq, lost>>
aifVars == <<fsa, devices>>
ctxVars == <<fib_list, ctx>>
vars == <<inst, hostVars, aifVars, ctxVars, pc, ev, pool, halts, stop, dev, two, user>>

Eh == 0
Threads == 1 .. MaxThreads
Actors == {Eh} \cup Threads
Serving == {"top", "handle", "fan", "complete", "answer", "health", "break",
            "stop", "stopping", "restart", "init", "out"}
Resetting == {"stop", "stopping", "restart", "init", "out"}

NewContext == [fibs |-> <<>>, sem |-> 0, read |-> "recent", last |-> 0]

Init ==
  /\ inst \in Instances
  /\ hw = [sent |-> 0, done |-> 0, health |-> "ok"]
  /\ hostq = EmptyRing /\ respq = EmptyRing /\ cmdq = <<>> /\ lost = {}
  /\ \E d \in inst.devices : devices = [x \in Containers \cup Disks |-> d]
  /\ fsa = [c \in Containers |-> [NoConfig EXCEPT !.valid = devices[c] = "online"]]
  /\ fib_list = <<>> /\ ctx = [u \in Users |-> NewContext]
  /\ pc = [a \in Actors |-> IF a = Eh THEN "idle" ELSE IF a = 1 THEN "new" ELSE "none"]
  /\ ev = [a \in Actors |-> 0] /\ pool = [a \in Actors |-> 0] /\ halts = [a \in Actors |-> 0]
  /\ stop = {}
  /\ dev = [thread |-> 1, aif_thread |-> FALSE, in_reset |-> FALSE, queues |-> TRUE]
  /\ two = FALSE
  /\ user = [u \in Users |-> [pc |-> "idle", waits |-> 0]]

LockFree == \A a \in Actors : pc[a] \notin {"complete", "hung"}
Goto(a, where) == pc' = [pc EXCEPT ![a] = where]
Open == Range(fib_list)

-----------------------------------------------------------------------------
(***************************************************************************)
(* The adapter (external), and the interrupt that moves its events to the  *)
(* list of the thread.  It interrupts only while its interrupts are on.    *)
(***************************************************************************)
AdapterSends ==
  /\ hw.health = "ok" /\ dev.queues /\ ~dev.in_reset
  /\ hw.sent < Len(inst.script) /\ ~Full(hostq)
  /\ hw' = [hw EXCEPT !.sent = @ + 1]
  /\ hostq' = QueueGet(hostq, hw.sent + 1)
  /\ UNCHANGED <<inst, respq, cmdq, lost, aifVars, ctxVars, pc, ev, pool, halts, stop, dev, two, user>>

Interrupt ==
  /\ dev.queues /\ ~dev.in_reset /\ HasEntry(hostq)
  /\ cmdq' = Append(cmdq, ConsumerGet(hostq))
  /\ hostq' = ConsumerFree(hostq)
  /\ UNCHANGED <<inst, hw, respq, lost, aifVars, ctxVars, pc, ev, pool, halts, stop, dev, two, user>>

AdapterTakesAnswer ==
  /\ hw.health = "ok" /\ dev.queues /\ HasEntry(respq)
  /\ hw' = [hw EXCEPT !.done = @ + 1]
  /\ lost' = lost \cup {ConsumerGet(respq)}
  /\ respq' = ConsumerFree(respq)
  /\ UNCHANGED <<inst, hostq, cmdq, aifVars, ctxVars, pc, ev, pool, halts, stop, dev, two, user>>

AdapterFails ==
  /\ hw.health = "ok" /\ inst.failures > 0
  /\ inst' = [inst EXCEPT !.failures = @ - 1]
  /\ \E h \in {"panic", "dead"} : hw' = [hw EXCEPT !.health = h]
  /\ UNCHANGED <<hostq, respq, cmdq, lost, aifVars, ctxVars, pc, ev, pool, halts, stop, dev, two, user>>

\* AIF_SNIFF_TIMEOUT passes; two minutes pass without a read of a context.
TimePasses ==
  /\ \/ \E c \in Containers :
          /\ inst.aging /\ fsa[c].fresh
          /\ fsa' = [fsa EXCEPT ![c].fresh = FALSE] /\ UNCHANGED ctx
     \/ \E u \in Open :
          /\ ctx[u].read # "old" /\ Len(ctx[u].fibs) > Limit
          /\ ctx' = [ctx EXCEPT ![u].read = "old"] /\ UNCHANGED fsa
  /\ UNCHANGED <<inst, hostVars, devices, fib_list, pc, ev, pool, halts, stop, dev, two, user>>

-----------------------------------------------------------------------------
(***************************************************************************)
(* aac_command_thread.                                                     *)
(***************************************************************************)
\* kthread_run, and a kthread that is stopped before it has run.
KthreadRun(t) == pc' = [pc EXCEPT ![t] = "new"]
HasRun(t) == pc[t] \in {"exited", "oops", "hung"}

Start(t) ==
  /\ pc[t] = "new"
  /\ IF t \in stop \/ dev.aif_thread
     THEN Goto(t, "exited") /\ UNCHANGED <<dev, two>>
     ELSE /\ Goto(t, "top")
          /\ dev' = [dev EXCEPT !.aif_thread = TRUE]
          /\ two' = (two \/ \E o \in Threads : pc[o] \in Serving)
  /\ UNCHANGED <<inst, hostVars, aifVars, ctxVars, ev, pool, halts, stop, user>>

\* The use of dev->queues while it is gone.
Oops(t) ==
  /\ ~dev.queues
  /\ \/ pc[t] \in {"top", "answer"} /\ Goto(t, "oops")
     \/ pc[t] = "complete" /\ Goto(t, "hung")
  /\ UNCHANGED <<inst, hostVars, aifVars, ctxVars, ev, pool, halts, stop, dev, two, user>>

TakeEvent(t) ==
  /\ pc[t] = "top" /\ dev.queues
  /\ IF cmdq # <<>>
     THEN cmdq' = Tail(cmdq) /\ ev' = [ev EXCEPT ![t] = Head(cmdq)] /\ Goto(t, "handle")
     ELSE Goto(t, "health") /\ UNCHANGED <<cmdq, ev>>
  /\ UNCHANGED <<inst, hw, hostq, respq, lost, aifVars, ctxVars, pool, halts, stop, dev, two, user>>

\* aac_handle_aif; then time_now is taken and the copies are allocated.
Handle(t) ==
  LET e == inst.script[ev[t]]
  IN  /\ pc[t] = "handle"
      /\ IF e.cmd \in {"DriverNotify", "EventNotify", "JobProgress"} /\ dev.queues
         THEN \E probe \in [Containers -> BOOLEAN] :
                LET aif == HandleAif(fsa, devices, e, probe)
                IN  fsa' = aif.fsa /\ devices' = aif.devices
         ELSE UNCHANGED aifVars
      /\ IF e.cmd = "DriverNotify"
         THEN Goto(t, "answer") /\ UNCHANGED <<pool, ctx>>
         ELSE /\ Goto(t, "fan")
              /\ \E n \in 0 .. Len(fib_list) + Extra : pool' = [pool EXCEPT ![t] = n]
              /\ ctx' = [u \in Users |-> IF ctx[u].read = "later"
                                         THEN [ctx[u] EXCEPT !.read = "recent"] ELSE ctx[u]]
      /\ UNCHANGED <<inst, hostVars, fib_list, ev, halts, stop, dev, two, user>>

\* Mutant of the next: the reader is not woken when there are fibs already.
DeliveredQuietly(c, x) ==
  [c EXCEPT !.fibs = Append(@, x), !.sem = IF c.fibs = <<>> THEN @ + 1 ELSE @]

\* A copy for a context: the fib is queued and the semaphore is upped.
Delivered(c, x) == [c EXCEPT !.fibs = Append(@, x), !.sem = @ + 1]

\* aac_close_fib_context: the others stay, in their order; the k-th of them is
\* the one with k that are not behind it.
Without(list, gone) ==
  LET keep == {i \in DOMAIN list : list[i] \notin gone}
      nth(k) == CHOOSE i \in keep : Cardinality({j \in keep : j <= i}) = k
  IN  [k \in 1 .. Cardinality(keep) |-> list[nth(k)]]

Backlogged(u) == Len(ctx[u].fibs) > Limit

\* Which contexts are dropped.  time_now - time_last is unsigned, so a read
\* that ended after time_now was taken ("later") can look older than two minutes.
Stale(u, wrapped) == Backlogged(u) /\ (ctx[u].read = "old" \/ (wrapped /\ ctx[u].read = "later"))

\* A copy of the event for each context, as far as the copies go.
FanOut(t) ==
  /\ pc[t] = "fan" /\ LockFree
  /\ \E wrapped \in BOOLEAN :
       LET kept == Without(fib_list, {u \in Open : Stale(u, wrapped)})
           served == {kept[k] : k \in 1 .. (IF pool[t] < Len(kept) THEN pool[t] ELSE Len(kept))}
       IN  /\ fib_list' = kept
           /\ ctx' = [u \in Users |-> IF u \in served THEN Delivered(ctx[u], ev[t])
                                      ELSE IF u \in Open \ Range(kept) THEN NewContext ELSE ctx[u]]
  /\ Goto(t, "complete")
  /\ pool' = [pool EXCEPT ![t] = 0]
  /\ UNCHANGED <<inst, hostVars, aifVars, ev, halts, stop, dev, two, user>>

\* aac_queue_get tries again until there is an entry.
Room(q) == ~Full(q)

\* aac_fib_adapter_complete: a fib that is done, is no fib or has no room for
\* the answer is not sent back.
Complete(t) ==
  LET e == inst.script[ev[t]]
  IN  /\ pc[t] \in {"complete", "answer"} /\ dev.queues
      /\ IF e.hdr = "good"
         THEN Room(respq) /\ respq' = QueueGet(respq, ev[t]) /\ UNCHANGED lost
         ELSE lost' = lost \cup {ev[t]} /\ UNCHANGED respq
      /\ ev' = [ev EXCEPT ![t] = 0]
      /\ Goto(t, "top")
      /\ UNCHANGED <<inst, hw, hostq, cmdq, aifVars, ctxVars, pool, halts, stop, dev, two, user>>

\* Mutant of the next: the test of kthread_should_stop is the wrong way round.
SleepUntilStopped(t) ==
  /\ pc[t] = "health"
  /\ Goto(t, IF t \in stop THEN "top" ELSE "break")
  /\ UNCHANGED <<inst, hostVars, aifVars, ctxVars, ev, pool, halts, stop, dev, two, user>>

\* No check is due, or it finds nothing (the lock is not to be had, there is a
\* reset already, the adapter is well); then the thread sleeps.
Sleep(t) ==
  /\ pc[t] = "health"
  /\ Goto(t, IF t \in stop THEN "break" ELSE "top")
  /\ UNCHANGED <<inst, hostVars, aifVars, ctxVars, ev, pool, halts, stop, dev, two, user>>

\* Mutant of the next: the reset that is under way is not looked at.
MayResetAlways == LockFree

\* aac_check_health and aac_reset_adapter take a reset for themselves.
MayReset == LockFree /\ ~dev.in_reset

\* aac_check_health finds the adapter sick: all contexts are told, if there is
\* memory for it, and the adapter is reset unless it is dead.
CheckHealth(t) ==
  /\ pc[t] = "health" /\ MayReset /\ hw.health # "ok" /\ inst.checks > 0
  /\ inst' = [inst EXCEPT !.checks = @ - 1]
  /\ LET kept == Without(fib_list, {u \in Open : Stale(u, FALSE)})
     IN  \E served \in {Range(kept), {}} :
           /\ fib_list' = kept
           /\ ctx' = [u \in Users |-> IF u \in served THEN Delivered(ctx[u], 0)
                                      ELSE IF u \in Open \ Range(kept) THEN NewContext ELSE ctx[u]]
  /\ dev' = [dev EXCEPT !.in_reset = TRUE]
  /\ Goto(t, IF hw.health = "dead" THEN "out" ELSE IF t = dev.thread THEN "restart" ELSE "stop")
  /\ UNCHANGED <<hostVars, aifVars, ev, pool, halts, stop, two, user>>

Break(t) ==
  /\ pc[t] = "break"
  /\ dev' = [dev EXCEPT !.aif_thread = FALSE]
  /\ Goto(t, "exited")
  /\ UNCHANGED <<inst, hostVars, aifVars, ctxVars, ev, pool, halts, stop, two, user>>

-----------------------------------------------------------------------------
(***************************************************************************)
(* aac_reset_adapter by the error handler, and _aac_reset_adapter.         *)
(***************************************************************************)
ResetAdapter ==
  /\ pc[Eh] = "idle" /\ inst.resets > 0 /\ MayReset
  /\ inst' = [inst EXCEPT !.resets = @ - 1]
  /\ dev' = [dev EXCEPT !.in_reset = TRUE]
  /\ Goto(Eh, "stop")
  /\ UNCHANGED <<hostVars, aifVars, ctxVars, ev, pool, halts, stop, two, user>>

\* kthread_stop of the thread, unless it is the thread that resets.
StopThread(a) ==
  /\ pc[a] = "stop"
  /\ stop' = stop \cup {dev.thread}
  /\ halts' = [halts EXCEPT ![a] = dev.thread]
  /\ Goto(a, "stopping")
  /\ UNCHANGED <<inst, hostVars, aifVars, ctxVars, ev, pool, dev, two, user>>

ThreadStopped(a) ==
  /\ pc[a] = "stopping" /\ HasRun(halts[a])
  /\ Goto(a, "restart")
  /\ UNCHANGED <<inst, hostVars, aifVars, ctxVars, ev, pool, halts, stop, dev, two, user>>

\* The adapter is restarted or the reset fails; then the queues, the events
\* in them and what was sniffed are gone.
Restart(a) ==
  /\ pc[a] = "restart"
  /\ \/ Goto(a, "out") /\ UNCHANGED <<hostVars, fsa, dev>>
     \/ /\ Goto(a, "init")
        /\ hw' = [hw EXCEPT !.health = "ok"]
        /\ lost' = lost \cup Range(Contents(hostq)) \cup Range(cmdq) \cup Range(Contents(respq))
        /\ hostq' = EmptyRing /\ respq' = EmptyRing /\ cmdq' = <<>>
        /\ fsa' = [c \in Containers |-> [NoConfig EXCEPT !.valid = fsa[c].valid]]
        /\ dev' = [dev EXCEPT !.queues = FALSE]
  /\ UNCHANGED <<inst, devices, ctxVars, ev, pool, halts, stop, two, user>>

\* The adapter comes back, and a thread that was stopped is started again.
Reinit(a) ==
  /\ pc[a] = "init"
  /\ \/ Goto(a, "out") /\ UNCHANGED dev
     \/ /\ halts[a] = 0
        /\ Goto(a, "out")
        /\ dev' = [dev EXCEPT !.queues = TRUE]
     \/ /\ halts[a] # 0 /\ dev.thread < MaxThreads
        /\ pc' = [pc EXCEPT ![a] = "out", ![dev.thread + 1] = "new"]
        /\ dev' = [dev EXCEPT !.queues = TRUE, !.thread = @ + 1]
  /\ UNCHANGED <<inst, hostVars, aifVars, ctxVars, ev, pool, halts, stop, two, user>>

\* The first of the two places that check the health leaves when there are no
\* queues any more, the second one does not.
ResetOut(a) ==
  /\ pc[a] = "out"
  /\ dev' = [dev EXCEPT !.in_reset = FALSE]
  /\ halts' = [halts EXCEPT ![a] = 0]
  /\ \/ a = Eh /\ Goto(a, "idle")
     \/ a # Eh /\ Goto(a, IF a \in stop THEN "break" ELSE "top")
     \/ a # Eh /\ ~dev.queues /\ Goto(a, "break")
  /\ UNCHANGED <<inst, hostVars, aifVars, ctxVars, ev, pool, stop, two, user>>

-----------------------------------------------------------------------------
(***************************************************************************)
(* The contexts: open_getadapter_fib, next_getadapter_fib and              *)
(* close_getadapter_fib.                                                   *)
(***************************************************************************)
UserGoto(u, where) == user' = [user EXCEPT ![u].pc = where]

OpenContext(u) ==
  /\ inst.opens > 0 /\ u \in inst.users /\ user[u].pc = "idle" /\ u \notin Open /\ LockFree
  /\ inst' = [inst EXCEPT !.opens = @ - 1]
  /\ fib_list' = Append(fib_list, u)
  /\ ctx' = [ctx EXCEPT ![u] = NewContext]
  /\ UNCHANGED <<hostVars, aifVars, pc, ev, pool, halts, stop, dev, two, user>>

\* A fib is pulled off; the time of the read is set unless the copy to the
\* program fails.  That may be after a thread has looked at the time.
Pull(u) ==
  /\ \E read \in {"later", ctx[u].read} :
       ctx' = [ctx EXCEPT ![u].fibs = Tail(@), ![u].read = read,
                          ![u].last = IF Head(ctx[u].fibs) = 0 THEN @ ELSE Head(ctx[u].fibs)]
  /\ UserGoto(u, "idle")

NextFib(u) ==
  /\ user[u].pc \in {"idle", "retry"} /\ u \in Open /\ LockFree
  /\ IF ctx[u].fibs # <<>> THEN Pull(u) ELSE UserGoto(u, "empty") /\ UNCHANGED ctx
  /\ UNCHANGED <<inst, hostVars, aifVars, fib_list, pc, ev, pool, halts, stop, dev, two>>

\* "If someone killed the AIF aacraid thread, restart it"
NoFib(u) ==
  /\ user[u].pc = "empty" /\ u \in Open
  /\ \/ /\ dev.aif_thread \/ dev.in_reset \/ ~dev.queues
        /\ UserGoto(u, "wait") /\ UNCHANGED stop
     \/ /\ ~dev.aif_thread /\ ~dev.in_reset /\ dev.queues
        /\ dev.thread + Cardinality({v \in Users : user[v].pc = "stopping"}) < MaxThreads
        /\ stop' = stop \cup {dev.thread}
        /\ user' = [user EXCEPT ![u] = [pc |-> "stopping", waits |-> dev.thread]]
  /\ UNCHANGED <<inst, hostVars, aifVars, ctxVars, pc, ev, pool, halts, dev, two>>

RestartThread(u) ==
  /\ user[u].pc = "stopping" /\ HasRun(user[u].waits) /\ dev.thread < MaxThreads
  /\ KthreadRun(dev.thread + 1)
  /\ dev' = [dev EXCEPT !.aif_thread = FALSE, !.thread = @ + 1]
  /\ user' = [user EXCEPT ![u] = [pc |-> "wait", waits |-> 0]]
  /\ UNCHANGED <<inst, hostVars, aifVars, ctxVars, ev, pool, halts, stop, two>>

Down(u) ==
  /\ user[u].pc = "wait" /\ u \in Open /\ ctx[u].sem > 0
  /\ ctx' = [ctx EXCEPT ![u].sem = @ - 1]
  /\ UserGoto(u, "retry")
  /\ UNCHANGED <<inst, hostVars, aifVars, fib_list, pc, ev, pool, halts, stop, dev, two>>

\* -EAGAIN for a caller that does not wait, -ERESTARTSYS after a signal.
GiveUp(u) ==
  /\ user[u].pc = "wait" /\ u \in Open
  /\ ctx' = [ctx EXCEPT ![u].read = "later"]
  /\ UserGoto(u, "idle")
  /\ UNCHANGED <<inst, hostVars, aifVars, fib_list, pc, ev, pool, halts, stop, dev, two>>

\* The list is searched without the lock.
FindContext(u) ==
  /\ user[u].pc = "idle" /\ u \in Open
  /\ UserGoto(u, "closing")
  /\ UNCHANGED <<inst, hostVars, aifVars, ctxVars, pc, ev, pool, halts, stop, dev, two>>

CloseContext(u) ==
  /\ user[u].pc = "closing" /\ u \in Open /\ LockFree
  /\ fib_list' = Without(fib_list, {u})
  /\ ctx' = [ctx EXCEPT ![u] = NewContext]
  /\ UserGoto(u, "idle")
  /\ UNCHANGED <<inst, hostVars, aifVars, pc, ev, pool, halts, stop, dev, two>>

\* The context was freed under the call: it ends with an error or never.
UseFreed(u) ==
  /\ user[u].pc \in {"retry", "empty", "wait", "closing"} /\ u \notin Open
  /\ \E where \in {"idle", "stuck"} : UserGoto(u, where)
  /\ UNCHANGED <<inst, hostVars, aifVars, ctxVars, pc, ev, pool, halts, stop, dev, two>>

-----------------------------------------------------------------------------
ResetStep(a) ==
  \/ StopThread(a) \/ ThreadStopped(a) \/ Restart(a) \/ Reinit(a) \/ ResetOut(a)

ThreadStep(t) ==
  \/ Start(t) \/ Oops(t) \/ TakeEvent(t) \/ Handle(t) \/ FanOut(t) \/ Complete(t)
  \/ Sleep(t) \/ CheckHealth(t) \/ Break(t) \/ ResetStep(t)

UserStep(u) ==
  \/ (user[u].pc = "retry" /\ NextFib(u)) \/ NoFib(u) \/ RestartThread(u) \/ Down(u) \/ CloseContext(u)
  \/ UseFreed(u)

UserCall(u) ==
  \/ OpenContext(u) \/ (user[u].pc = "idle" /\ NextFib(u)) \/ GiveUp(u) \/ FindContext(u)

Next ==
  \/ AdapterSends \/ Interrupt \/ AdapterTakesAnswer \/ AdapterFails \/ TimePasses \/ ResetAdapter
  \/ ResetStep(Eh)
  \/ \E t \in Threads : ThreadStep(t)
  \/ \E u \in Users : UserStep(u) \/ UserCall(u)

\* The threads and the calls that have begun are scheduled; the adapter sends
\* what it has and takes its answers while it is well.
Fairness ==
  /\ WF_vars(AdapterSends) /\ WF_vars(Interrupt) /\ WF_vars(AdapterTakesAnswer)
  /\ WF_vars(ResetStep(Eh))
  /\ \A t \in Threads : WF_vars(ThreadStep(t))
  /\ \A u \in Users : WF_vars(UserStep(u))

Spec == Init /\ [][Next]_vars /\ Fairness

-----------------------------------------------------------------------------
TypeOK ==
  /\ inst.failures \in Nat /\ inst.resets \in Nat
  /\ hw \in [sent : 0 .. Len(inst.script), done : 0 .. Len(inst.script),
             health : {"ok", "panic", "dead"}]
  /\ hostq.producer \in 1 .. Ring /\ hostq.consumer \in 1 .. Ring
  /\ respq.producer \in 1 .. Ring /\ respq.consumer \in 1 .. Ring
  /\ devices \in [Containers \cup Disks -> {"none", "online", "offline"}]
  /\ Open \subseteq Users /\ Len(fib_list) = Cardinality(Open)
  /\ \A u \in Users : ctx[u].sem \in Nat /\ ctx[u].read \in {"recent", "later", "old"}
  /\ pc \in [Actors -> Serving \cup {"none", "new", "exited", "oops", "hung", "idle"}]
  /\ ev \in [Actors -> 0 .. hw.sent] /\ halts \in [Actors -> 0 .. MaxThreads]
  /\ stop \subseteq Threads /\ dev.thread \in Threads

\* Every event the adapter has sent is in one place: in a ring, in the list of
\* the thread, in the hands of one thread, or answered or given up, whatever the
\* rings' indices, the threads and the resets do.
InOnePlace ==
  LET hands == {ev[t] : t \in Threads} \ {0}
      queued == Contents(hostq) \o cmdq \o Contents(respq)
  IN  /\ Range(queued) \cup hands \cup lost = 1 .. hw.sent
      /\ Len(queued) + Cardinality(hands) + Cardinality(lost) = hw.sent
      /\ \A s, t \in Threads : ev[s] = ev[t] /\ ev[s] # 0 => s = t

\* A program reads the events in the order of the adapter and none of them
\* twice, as long as there has been one thread only.
InOrder ==
  two \/ \A u \in Open :
    LET fibs == ctx[u].fibs
    IN  \A i \in DOMAIN fibs :
          fibs[i] # 0 => fibs[i] > ctx[u].last /\ \A j \in 1 .. i - 1 : fibs[i] > fibs[j]

\* No wake-up is lost: there are at least as many ups of a context's semaphore
\* as fibs in it, but for the one that its reader has just taken.
SemCovers ==
  \A u \in Open : Len(ctx[u].fibs) <= ctx[u].sem + (IF user[u].pc = "retry" THEN 1 ELSE 0)

\* Events are kept on their way from the adapter to the programs: none is lost,
\* doubled or out of order, and the semaphores tell of all of them.
EventsKept == TypeOK /\ InOnePlace /\ InOrder /\ SemCovers

\* in_reset guards the reset: whoever frees and makes the queues does it alone,
\* be it the error handler or a thread that found the adapter sick.
OneReset ==
  LET resetting == {a \in Actors : pc[a] \in Resetting}
  IN  Cardinality(resetting) <= 1 /\ (dev.in_reset <=> resetting # {})

\* A change of a container that has been announced and confirmed is carried
\* out before the handler returns; and a container whose probe failed has no
\* device that is online.
ArraysAreSettled ==
  \A c \in Containers :
    /\ fsa[c].waiting = "nothing" => fsa[c].needed = "NOTHING"
    /\ devices[c] = "online" => fsa[c].valid

\* A program that waits in its context is woken when an event is there.
ReaderWakes ==
  \A u \in Users :
    (user[u].pc = "wait" /\ u \in Open /\ ctx[u].fibs # <<>>) ~> (user[u].pc # "wait")

\* As long as the adapter is well and is not reset, it gets an answer to all
\* it sends, programs that restart the thread or close their contexts or not.
AllAnswered ==
  (inst.failures = 0 /\ inst.resets = 0)
     => (<>[](Cardinality(lost) = Len(inst.script)))

\* All are served: programs that wait are woken, the adapter is answered.
AllServed == ReaderWakes /\ AllAnswered
=============================================================================
