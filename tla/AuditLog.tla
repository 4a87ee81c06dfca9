------------------------------ MODULE AuditLog ------------------------------
(***************************************************************************)
(* The way of an audit record from the task that logs it to the audit      *)
(* daemon (cocci/testdir/truecases/audit.c): audit_log_start,              *)
(* audit_log_end, the two queues, the kauditd thread, and the registration *)
(* of a daemon, which all of them read without a lock.                     *)
(*                                                                         *)
(* Every task may log; a daemon is a task that may also register, leave or *)
(* die.  netlink and the scheduler are external: a send to a live daemon    *)
(* may fail for a while, one to a dead daemon is refused, and a sleeper    *)
(* whose time is up wakes.  jiffies are abstracted to "the time of this    *)
(* call is up"; printk_ratelimit, kmalloc and the rate window may go       *)
(* either way.  Left out: the free list of audit_buffers, which saves a    *)
(* kmalloc, the multicast copies, and AUDIT_EOE, which is never printed.   *)
(***************************************************************************)
EXTENDS Integers, Sequences, FiniteSets

CONSTANTS
  Tasks, Daemons,   \* tasks that log; those of them that are audit daemons
  NoTask,           \* 0, no pid
  Settings,         \* the settings the system may have been given
  Reserve,          \* 5 in audit_log_start
  Retries           \* AUDITD_RETRIES

\* audit_backlog_limit (0 for none), audit_rate_limit # 0, audit_failure,
\* audit_default, audit_enabled # AUDIT_OFF.
Setting == [limit : Nat, rate : BOOLEAN, failure : {"silent", "printk", "panic"},
            default : BOOLEAN, enabled : BOOLEAN]

ASSUME AuditLogAssumption ==
  /\ Daemons \subseteq Tasks /\ NoTask \notin Tasks /\ IsFiniteSet(Tasks)
  /\ \A s \in Settings : s \in Setting
  /\ Reserve \in Nat /\ Retries \in Nat \ {0}

VARIABLES
  conf,                 \* the settings
  audit_pid, portid,    \* the registered daemon and its port
  sock,                 \* audit_sock is not NULL
  queue, hold,          \* audit_skb_queue, audit_skb_hold_queue
  waiters,              \* sleepers on audit_backlog_wait, in order
  waitOn,               \* audit_backlog_wait_time is not 0
  pc, loc,              \* of each task, loc while it logs
  kpc, kskb, kfrom, attempts,   \* of kauditd
  mutex,                \* holder of audit_cmd_mutex
  alive, net,           \* live daemons; the state of their network namespace
  live,                 \* skbs allocated and not freed
  silent,               \* has a record disappeared without account
  panicked

reg == <<audit_pid, portid, sock>>
kauditd == <<kpc, kskb, kfrom, attempts>>
world == <<mutex, alive, net>>
ghost == <<live, silent>>
backlog == <<waiters, waitOn>>
vars == <<conf, reg, queue, hold, backlog, pc, loc, kauditd, world, ghost, panicked>>

\* What a task that logs leaves alone.
others == <<conf, reg, kauditd, world>>

\* A record is what has been done about it: nothing yet, or printed, counted
\* in audit_lost, or sent in vain while the daemon was leaving.
Record == {"new", "old"}
NoRec == "none"

\* The locals of a call of audit_log_start: whether it may sleep, its reserve,
\* whether its wait time is up, and where the caller goes on.
NoCall == [wait |-> FALSE, reserve |-> 0, late |-> FALSE, ret |-> "idle"]

\* A daemon may have registered before anything was logged.
Init ==
  /\ conf \in Settings
  /\ audit_pid \in Daemons \cup {NoTask} /\ portid = audit_pid /\ sock = (audit_pid # NoTask)
  /\ queue = <<>> /\ hold = <<>> /\ waiters = <<>> /\ waitOn = TRUE
  /\ pc = [t \in Tasks |-> "idle"] /\ loc = [t \in Tasks |-> NoCall]
  /\ kpc = "flush" /\ kskb = NoRec /\ kfrom = "queue" /\ attempts = 0
  /\ mutex = NoTask /\ alive = Daemons /\ net = "up"
  /\ live = 0 /\ silent = FALSE /\ panicked = FALSE

-----------------------------------------------------------------------------
Goto(t, from, to) == pc[t] = from /\ pc' = [pc EXCEPT ![t] = to]

\* The call of audit_log_start and audit_log_end is over.
Return(t, from) == Goto(t, from, loc[t].ret) /\ loc' = [loc EXCEPT ![t] = NoCall]

\* audit_log_lost counts a record; audit_panic, which it ends in, is never
\* throttled with AUDIT_FAIL_PANIC.
AuditLogLost == panicked' = (conf.failure = "panic" /\ audit_pid # NoTask)

\* A record of that account is freed.
Free(r) == live' = live - 1 /\ silent' = (silent \/ r = "new")

\* audit_rate_check: without a limit it always agrees.  The count of messages
\* and the second it covers are abstracted to a choice.
AuditRateCheck(ok) == ok \/ conf.rate

\* wake_up on exclusive waiters: the first one goes on.  A wait that lasted
\* all its time ends the loop of audit_log_start.
Woken(t) == IF loc[t].late THEN "lose" ELSE "check"

WakeUp(at) ==
  IF waiters = <<>> THEN pc' = at /\ UNCHANGED waiters
  ELSE pc' = [at EXCEPT ![waiters[1]] = Woken(waiters[1])] /\ waiters' = Tail(waiters)

\* audit_hold_skb: kept for the next daemon, or freed.
AuditHoldSkb(r) ==
  IF conf.default /\ (conf.limit = 0 \/ Len(hold) < conf.limit)
  THEN hold' = Append(hold, r) /\ UNCHANGED ghost
  ELSE UNCHANGED hold /\ Free(r)

\* audit_printk_skb up to audit_hold_skb: the record is printed, or counted.
AuditPrintkSkb == UNCHANGED panicked \/ AuditLogLost

-----------------------------------------------------------------------------
(***************************************************************************)
(* audit_log_start.  w: may the caller sleep (__GFP_DIRECT_RECLAIM).  The  *)
(* daemon itself never waits for itself; a caller that does not wait may   *)
(* go Reserve over the limit.                                              *)
(***************************************************************************)
Call(t, from, then, w) ==
  /\ Goto(t, from, "check")
  /\ loc' = [loc EXCEPT ![t] =
               [wait |-> w /\ audit_pid # t, late |-> FALSE, ret |-> then,
                reserve |-> IF w /\ audit_pid # t THEN 0 ELSE Reserve]]

Log(t, w) ==
  /\ Call(t, "idle", "idle", w)
  /\ UNCHANGED <<conf, reg, queue, hold, backlog, kauditd, world, ghost, panicked>>

\* Mutant: a caller that may not wait is not held to the limit.
OverForWaiters(t) == conf.limit # 0 /\ loc[t].wait /\ Len(queue) > conf.limit

Over(t) == conf.limit # 0 /\ Len(queue) > conf.limit + loc[t].reserve

\* The queue is short enough: audit_buffer_alloc, and a caller without
\* reserve turns waiting on again.
Admit(t) ==
  /\ ~Over(t)
  /\ waitOn' = (waitOn \/ loc[t].reserve = 0)
  /\ \/ Goto(t, "check", "end") /\ live' = live + 1 /\ UNCHANGED <<loc, panicked>>
     \/ Return(t, "check") /\ AuditLogLost /\ UNCHANGED live        \* out of memory
  /\ UNCHANGED <<others, queue, hold, waiters, silent>>

\* wait_for_auditd: the caller sleeps while the queue is over the limit,
\* which it is here, its reserve being 0.
WaitForAuditd(t) ==
  /\ Over(t) /\ loc[t].wait /\ waitOn /\ ~loc[t].late
  /\ Goto(t, "check", "sleep")
  /\ waiters' = Append(waiters, t)
  /\ UNCHANGED <<others, queue, hold, waitOn, loc, ghost, panicked>>

\* remove_wait_queue: the sleeper at place i leaves.
Without(s, i) == [j \in 1 .. Len(s) - 1 |-> s[IF j < i THEN j ELSE j + 1]]

\* Time passes: the caller's wait, counted from its call, is up.
TimeUp(t) ==
  /\ pc[t] \in {"check", "sleep"} /\ loc[t].wait /\ ~loc[t].late
  /\ loc' = [loc EXCEPT ![t].late = TRUE]
  /\ IF pc[t] = "sleep"
       THEN /\ pc' = [pc EXCEPT ![t] = "lose"]
            /\ \E i \in DOMAIN waiters : waiters[i] = t /\ waiters' = Without(waiters, i)
       ELSE UNCHANGED <<pc, waiters>>
  /\ UNCHANGED <<others, queue, hold, waitOn, ghost, panicked>>

\* The caller may not wait, or has waited long enough: the record is lost,
\* nobody waits any more, and the next sleeper is woken to find that out.
GiveUp(t) ==
  /\ \/ pc[t] = "lose"
     \/ pc[t] = "check" /\ Over(t) /\ ~(loc[t].wait /\ waitOn /\ ~loc[t].late)
  /\ AuditLogLost
  /\ waitOn' = FALSE
  /\ WakeUp([pc EXCEPT ![t] = loc[t].ret])
  /\ loc' = [loc EXCEPT ![t] = NoCall]
  /\ UNCHANGED <<others, queue, hold, ghost>>

-----------------------------------------------------------------------------
(***************************************************************************)
(* audit_log_end: audit_pid is read before the record is queued.           *)
(***************************************************************************)
EndRateLimited(t) ==
  /\ pc[t] = "end" /\ AuditRateCheck(FALSE)
  /\ AuditLogLost /\ Free("old") /\ Return(t, "end")
  /\ UNCHANGED <<others, queue, hold, waiters, waitOn>>

EndDirect(t) ==
  /\ AuditRateCheck(TRUE)
  /\ Goto(t, "end", IF audit_pid # NoTask THEN "queue" ELSE "printk")
  /\ UNCHANGED <<others, queue, hold, waiters, waitOn, loc, ghost, panicked>>

EndQueue(t) ==
  /\ queue' = Append(queue, "new") /\ Return(t, "queue")
  /\ UNCHANGED <<others, hold, backlog, ghost, panicked>>

EndPrintk(t) ==
  /\ Return(t, "printk") /\ AuditPrintkSkb /\ AuditHoldSkb("old")
  /\ UNCHANGED <<others, queue, backlog>>

-----------------------------------------------------------------------------
(***************************************************************************)
(* kauditd.                                                                *)
(***************************************************************************)
KGoto(from, to) == kpc = from /\ kpc' = to

KUnchanged == UNCHANGED <<conf, portid, waitOn, loc, world>>

\* flush_hold_queue at its start, and after each record of its loop.
FlushHoldQueue ==
  /\ kpc \in {"flush", "reflush"}
  /\ IF hold # <<>> /\ (kpc = "reflush" \/ (conf.default /\ audit_pid # NoTask))
     THEN kskb' = hold[1] /\ hold' = Tail(hold) /\ kpc' = "flushing" /\ kfrom' = "hold"
     ELSE kpc' = "dequeue" /\ UNCHANGED <<kskb, hold, kfrom>>
  /\ UNCHANGED <<audit_pid, sock, queue, waiters, pc, attempts, ghost, panicked>>
  /\ KUnchanged

\* The loop goes on while there is a daemon; the record it holds is dropped
\* when the daemon has gone.
Flushing ==
  /\ kpc = "flushing"
  /\ IF audit_pid # NoTask THEN kpc' = "send" /\ UNCHANGED <<kskb, ghost>>
     ELSE kpc' = "dequeue" /\ kskb' = NoRec /\ Free(kskb)
  /\ UNCHANGED <<audit_pid, sock, queue, hold, waiters, pc, kfrom, attempts, panicked>>
  /\ KUnchanged

\* The main loop takes a record and wakes a sleeper.
Dequeue ==
  /\ KGoto("dequeue", "choose") /\ queue # <<>>
  /\ kskb' = queue[1] /\ queue' = Tail(queue) /\ kfrom' = "queue"
  /\ IF conf.limit = 0 \/ Len(queue') <= conf.limit THEN WakeUp(pc) ELSE UNCHANGED <<waiters, pc>>
  /\ UNCHANGED <<audit_pid, sock, hold, attempts, ghost, panicked>>
  /\ KUnchanged

\* Mutant: kauditd is only woken when there is a daemon.
KauditdWaitForDaemon ==
  /\ \/ KGoto("dequeue", "wait") /\ queue = <<>>
     \/ KGoto("wait", "flush") /\ queue # <<>> /\ audit_pid # NoTask
  /\ UNCHANGED <<audit_pid, sock, queue, hold, waiters, pc, kskb, kfrom, attempts, ghost, panicked>>
  /\ KUnchanged

\* With an empty queue kauditd waits for one, and flushes when it is there.
KauditdWait ==
  /\ \/ KGoto("dequeue", "wait") /\ queue = <<>>
     \/ KGoto("wait", "flush") /\ queue # <<>>
  /\ UNCHANGED <<audit_pid, sock, queue, hold, waiters, pc, kskb, kfrom, attempts, ghost, panicked>>
  /\ KUnchanged

\* Mutant: without a daemon the record is not printed.
ChooseHoldsOnly ==
  /\ \/ KGoto("choose", "send") /\ audit_pid # NoTask
     \/ KGoto("choose", "hold") /\ audit_pid = NoTask
  /\ UNCHANGED <<audit_pid, sock, queue, hold, waiters, pc, kskb, kfrom, attempts, ghost, panicked>>
  /\ KUnchanged

Choose ==
  /\ \/ KGoto("choose", "send") /\ audit_pid # NoTask /\ UNCHANGED <<kskb, panicked>>
     \/ KGoto("choose", "hold") /\ audit_pid = NoTask /\ AuditPrintkSkb /\ kskb' = "old"
  /\ UNCHANGED <<audit_pid, sock, queue, hold, waiters, pc, kfrom, attempts, ghost>>
  /\ KUnchanged

\* Where kauditd goes when it is done with a record.
NextRecord == IF kfrom = "hold" THEN "reflush" ELSE "flush"

\* netlink_unicast answers: sent, refused (the daemon is dead), or a failure
\* that may pass.  Without a socket it dereferences NULL.
Unicast == IF ~sock THEN {"oops"} ELSE IF portid \in alive THEN {"sent", "again"} ELSE {"refused"}

KauditdSendSkb ==
  /\ kpc = "send"
  /\ \E err \in Unicast :
       \/ /\ err = "sent" /\ kpc' = NextRecord /\ kskb' = NoRec /\ attempts' = 0
          /\ live' = live - 1 /\ UNCHANGED <<silent, panicked>>
       \/ err = "oops" /\ kpc' = "oops" /\ UNCHANGED <<kskb, attempts, ghost, panicked>>
       \/ /\ err \in {"refused", "again"} /\ audit_pid = NoTask /\ kpc' = "hold"
          /\ kskb' = "old"                                   \* the daemon is leaving
          /\ UNCHANGED <<attempts, ghost, panicked>>
       \/ /\ err = "again" /\ audit_pid # NoTask /\ attempts + 1 < Retries
          /\ kpc' = "resched" /\ attempts' = attempts + 1
          /\ UNCHANGED <<kskb, ghost, panicked>>
       \/ /\ audit_pid # NoTask /\ (err = "refused" \/ (err = "again" /\ attempts + 1 >= Retries))
          /\ kpc' = "reset_pid" /\ kskb' = "old" /\ AuditLogLost
          /\ UNCHANGED <<attempts, ghost>>
  /\ UNCHANGED <<audit_pid, sock, queue, hold, waiters, pc, kfrom>>
  /\ KUnchanged

\* schedule() between two attempts: kauditd is on no wait queue, so it goes
\* on only when something else (a freeze) happens to wake it.
Rescheduled ==
  /\ KGoto("resched", "send")
  /\ UNCHANGED <<audit_pid, sock, queue, hold, waiters, pc, kskb, kfrom, attempts, ghost, panicked>>
  /\ KUnchanged

\* audit_pid = 0; audit_sock = NULL, whoever is registered by now.
ResetDaemon ==
  /\ \/ KGoto("reset_pid", "reset_sock") /\ audit_pid' = NoTask /\ UNCHANGED sock
     \/ KGoto("reset_sock", "hold") /\ sock' = FALSE /\ UNCHANGED audit_pid
  /\ UNCHANGED <<queue, hold, waiters, pc, kskb, kfrom, attempts, ghost, panicked>>
  /\ KUnchanged

KauditdHold ==
  /\ KGoto("hold", NextRecord) /\ kskb' = NoRec /\ attempts' = 0
  /\ AuditHoldSkb(kskb)
  /\ UNCHANGED <<audit_pid, sock, queue, waiters, pc, kfrom, panicked>>
  /\ KUnchanged

-----------------------------------------------------------------------------
(***************************************************************************)
(* AUDIT_SET of audit_pid, under audit_cmd_mutex: d registers itself, or   *)
(* leaves (only the registered daemon may).  audit_replace asks whether    *)
(* the daemon registered before is still there.  The change is logged      *)
(* first, a refusal even when auditing is off; the log call may sleep.     *)
(***************************************************************************)
LogChange(d, then) ==
  IF conf.enabled \/ then = "unlock" THEN Call(d, "idle", then, TRUE)
  ELSE Goto(d, "idle", then) /\ UNCHANGED loc

Register(d) ==
  /\ d \in alive /\ mutex = NoTask /\ mutex' = d
  /\ IF audit_pid = NoTask THEN LogChange(d, "set_pid")
     ELSE \E err \in Unicast :                                \* audit_replace
            \/ err = "refused" /\ LogChange(d, "set_pid")
            \/ err \in {"sent", "again"} /\ LogChange(d, "unlock")
            \/ err = "oops" /\ Goto(d, "idle", "oops") /\ UNCHANGED loc
  /\ UNCHANGED <<conf, reg, queue, hold, backlog, kauditd, alive, net, ghost, panicked>>

Unregister(d) ==
  /\ d \in alive /\ mutex = NoTask /\ mutex' = d
  /\ LogChange(d, IF audit_pid = d THEN "clear_pid" ELSE "unlock")
  /\ UNCHANGED <<conf, reg, queue, hold, backlog, kauditd, alive, net, ghost, panicked>>

\* The assignments: the pid first, then the port and the socket.
SetDaemon(d) ==
  /\ \/ /\ \/ Goto(d, "set_pid", "set_sock") /\ audit_pid' = d
           \/ Goto(d, "clear_pid", "set_sock") /\ audit_pid' = NoTask
        /\ UNCHANGED <<portid, sock, mutex>>
     \/ /\ Goto(d, "set_sock", "idle") /\ mutex' = NoTask
        /\ portid' = d /\ sock' = TRUE /\ UNCHANGED audit_pid
     \/ Goto(d, "unlock", "idle") /\ mutex' = NoTask /\ UNCHANGED reg
  /\ UNCHANGED <<conf, queue, hold, backlog, loc, kauditd, alive, net, ghost, panicked>>

\* A daemon dies between two calls, or is started again.
DaemonDies(d) ==
  /\ d \in alive /\ pc[d] = "idle" /\ alive' = alive \ {d}
  /\ UNCHANGED <<conf, reg, queue, hold, backlog, pc, loc, kauditd, mutex, net, ghost, panicked>>

DaemonStarts(d) ==
  /\ d \notin alive /\ net = "up" /\ alive' = alive \cup {d}
  /\ UNCHANGED <<conf, reg, queue, hold, backlog, pc, loc, kauditd, mutex, net, ghost, panicked>>

\* audit_net_exit: the namespace of the daemons goes away, after them.
AuditNetExit ==
  /\ net = "up" /\ alive = {} /\ net' = "gone"
  /\ audit_pid' = IF sock THEN NoTask ELSE audit_pid
  /\ sock' = FALSE
  /\ UNCHANGED <<conf, portid, queue, hold, backlog, pc, loc, kauditd, mutex, alive, ghost, panicked>>

-----------------------------------------------------------------------------
AuditLogEnd(t) == EndRateLimited(t) \/ EndDirect(t) \/ EndQueue(t) \/ EndPrintk(t)

AuditLogStart(t) == Admit(t) \/ WaitForAuditd(t) \/ GiveUp(t)

Kauditd ==
  \/ FlushHoldQueue \/ Flushing \/ Dequeue \/ KauditdWait \/ Choose \/ KauditdSendSkb
  \/ ResetDaemon \/ KauditdHold

TaskStep(t) == AuditLogStart(t) \/ AuditLogEnd(t) \/ (t \in Daemons /\ SetDaemon(t))

Next ==
  /\ ~panicked
  /\ \/ Kauditd
     \/ Rescheduled
     \/ AuditNetExit
     \/ \E t \in Tasks :
          \/ TaskStep(t)
          \/ TimeUp(t)
          \/ t \notin Daemons /\ \E w \in BOOLEAN : Log(t, w)
     \/ \E d \in Daemons : Register(d) \/ Unregister(d) \/ DaemonDies(d) \/ DaemonStarts(d)

\* A task that runs takes its steps, time passes, and kauditd runs when it is
\* runnable.  Nothing is assumed of daemons, nor of what wakes kauditd from
\* the schedule() between two attempts.
Fairness ==
  /\ WF_vars(~panicked /\ Kauditd)
  /\ \A t \in Tasks : WF_vars(~panicked /\ TaskStep(t)) /\ WF_vars(~panicked /\ TimeUp(t))

Spec == Init /\ [][Next]_vars /\ Fairness

-----------------------------------------------------------------------------
RangeOf(s) == {s[i] : i \in DOMAIN s}

TypeOK ==
  /\ conf \in Settings /\ reg \in (Daemons \cup {NoTask}) \X (Daemons \cup {NoTask}) \X BOOLEAN
  /\ queue \in Seq(Record) /\ hold \in Seq(Record) /\ waiters \in Seq(Tasks)
  /\ waitOn \in BOOLEAN
  /\ \A t \in Tasks : /\ loc[t].reserve \in {0, Reserve}
                      /\ (pc[t] = "sleep") = (t \in RangeOf(waiters))
  /\ kskb \in Record \cup {NoRec} /\ attempts \in 0 .. Retries
  /\ mutex \in Daemons \cup {NoTask} /\ alive \subseteq Daemons
  /\ live \in Nat /\ silent \in BOOLEAN

(***************************************************************************)
(* No record disappears without a trace ("We already called                *)
(* audit_log_lost() if it didn't go out normally", flush_hold_queue): one  *)
(* that is freed was sent to the daemon, or printed, or counted in         *)
(* audit_lost.  With one exception: a daemon that leaves while kauditd is  *)
(* sending takes the account of that record with it (kauditd_send_skb      *)
(* finds audit_pid 0 after the error and only holds it).                   *)
(***************************************************************************)
NoSilentLoss == ~silent

(***************************************************************************)
(* Every skb has one owner until it is freed: none is leaked on a path     *)
(* that gives up, none is freed and kept in a queue.                       *)
(***************************************************************************)
OneOwner ==
  live = Cardinality({t \in Tasks : pc[t] \in {"end", "queue", "printk"}})
         + Len(queue) + Len(hold) + (IF kskb # NoRec THEN 1 ELSE 0)

(***************************************************************************)
(* Every record is accounted for, on every path of it from audit_log_start *)
(* to the daemon, the hold queue or printk.                                *)
(***************************************************************************)
RecordsAccounted == TypeOK /\ NoSilentLoss /\ OneOwner

(***************************************************************************)
(* The backlog is bounded although audit_log_start only tests it and       *)
(* audit_log_end adds to it later: the limit, the reserve, and one record  *)
(* of every task.                                                          *)
(***************************************************************************)
BacklogBound ==
  conf.limit # 0 =>
    Len(queue) + Cardinality({t \in Tasks : pc[t] \in {"end", "queue"}})
      <= conf.limit + Reserve + Cardinality(Tasks)

(***************************************************************************)
(* audit_log_start returns: whatever kauditd and the daemon do, nobody     *)
(* sleeps longer than its wait time, in however many naps.                 *)
(***************************************************************************)
EveryCallReturns ==
  \A t \in Tasks : (pc[t] = "check") ~> (pc[t] \notin {"check", "sleep", "lose"} \/ panicked)

(***************************************************************************)
(* While records are queued kauditd takes the next one, daemon or no       *)
(* daemon: no wake-up is lost and the flush of the hold queue ends.        *)
(* Except for the schedule() between two attempts, and when a daemon keeps *)
(* registering and leaving: the flush then goes on for ever.               *)
(***************************************************************************)
QueueDrains ==
  (queue # <<>>) ~> (kpc \in {"choose", "resched", "oops"} \/ mutex # NoTask \/ panicked)

(***************************************************************************)
(* Nobody is stuck: neither the tasks that wait for room in the backlog    *)
(* nor the records in the queue.                                           *)
(***************************************************************************)
NobodyStuck == EveryCallReturns /\ QueueDrains
=============================================================================
