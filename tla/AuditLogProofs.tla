--------------------------- MODULE AuditLogProofs ---------------------------
(***************************************************************************)
(* Proofs about audit_log_start, audit_log_end and kauditd, for any number *)
(* of tasks and daemons, any limits and any reserve.                       *)
(***************************************************************************)
EXTENDS AuditLog, SequenceTheorems, FiniteSetTheorems, TLAPS

Pcs == {"idle", "check", "sleep", "lose", "end", "queue", "printk",
        "set_pid", "clear_pid", "set_sock", "unlock", "oops"}

Loc == [wait : BOOLEAN, reserve : {0, Reserve}, late : BOOLEAN,
        ret : {"idle", "set_pid", "clear_pid", "unlock"}]

TypeInv ==
  /\ conf \in Settings
  /\ audit_pid \in Daemons \cup {NoTask} /\ portid \in Daemons \cup {NoTask} /\ sock \in BOOLEAN
  /\ queue \in Seq(Record) /\ hold \in Seq(Record) /\ waiters \in Seq(Tasks)
  /\ waitOn \in BOOLEAN
  /\ pc \in [Tasks -> Pcs] /\ loc \in [Tasks -> Loc]
  /\ kskb \in Record \cup {NoRec} /\ attempts \in 0 .. Retries
  /\ mutex \in Daemons \cup {NoTask} /\ alive \subseteq Daemons
  /\ live \in Int /\ silent \in BOOLEAN

\* The sleepers stand in the wait queue, each once.
Waiting(p, w) ==
  /\ \A t \in Tasks : p[t] = "sleep" <=> \E i \in 1 .. Len(w) : w[i] = t
  /\ \A i, j \in 1 .. Len(w) : w[i] = w[j] => i = j

WaitInv == Waiting(pc, waiters)

\* What kauditd has in its hands at each place, and that a record is accounted
\* for before it is held or dropped.
KauditdInv ==
  /\ kpc \in {"flush", "reflush", "dequeue", "wait"} => kskb = NoRec
  /\ kpc \in {"flushing", "hold", "reset_pid", "reset_sock"} => kskb = "old"
  /\ kpc \in {"choose", "send", "resched", "oops"} => kskb \in Record
  /\ kpc \in {"flush", "reflush", "dequeue", "wait", "flushing", "hold", "reset_pid",
              "reset_sock", "choose", "send", "resched", "oops"}
  /\ \A i \in 1 .. Len(hold) : hold[i] = "old"
  /\ ~silent

IInv == TypeInv /\ WaitInv /\ KauditdInv /\ OneOwner /\ BacklogBound

-----------------------------------------------------------------------------
\* How many tasks are at one of the places W.
CountOf(p, W) == Cardinality({u \in Tasks : p[u] \in W})

\* With a record in their hands; with one that is going to be queued.
Owning == {"end", "queue", "printk"}
Queuing == {"end", "queue"}

\* The number of tasks at a place is a number, at most that of all tasks, and
\* less while one of them is elsewhere.
LEMMA CountBound ==
  ASSUME NEW p, NEW W
  PROVE  /\ CountOf(p, W) \in Nat /\ Cardinality(Tasks) \in Nat
         /\ CountOf(p, W) <= Cardinality(Tasks)
         /\ \A t \in Tasks : p[t] \notin W => CountOf(p, W) + 1 <= Cardinality(Tasks)
  <1> DEFINE S == {u \in Tasks : p[u] \in W}
  <1>1. IsFiniteSet(Tasks)
    BY AuditLogAssumption
  <1>2. IsFiniteSet(S) /\ Cardinality(S) <= Cardinality(Tasks)
    BY <1>1, FS_Subset
  <1>3. Cardinality(S) \in Nat /\ Cardinality(Tasks) \in Nat
    BY <1>1, <1>2, FS_CardinalityType
  <1>4. ASSUME NEW t \in Tasks, p[t] \notin W
        PROVE  Cardinality(S) + 1 <= Cardinality(Tasks)
    <2>1. t \notin S
      BY <1>4
    <2>2. IsFiniteSet(S \cup {t}) /\ Cardinality(S \cup {t}) = Cardinality(S) + 1
      BY <1>2, <2>1, FS_AddElement
    <2>3. S \cup {t} \in SUBSET Tasks
      OBVIOUS
    <2>4. Cardinality(S \cup {t}) <= Cardinality(Tasks)
      BY <1>1, <2>3, FS_Subset
    <2> QED BY <2>2, <2>4
  <1> QED BY <1>2, <1>3, <1>4 DEF CountOf

\* One task that moves changes the count by what it itself contributes.
LEMMA CountMoves ==
  ASSUME NEW p, NEW q, NEW W, NEW t \in Tasks, \A u \in Tasks : u # t => q[u] = p[u]
  PROVE  CountOf(q, W) =
           CountOf(p, W) - (IF p[t] \in W THEN 1 ELSE 0) + (IF q[t] \in W THEN 1 ELSE 0)
  <1> DEFINE S == {u \in Tasks : p[u] \in W}
             R == S \ {t}
  <1>1. IsFiniteSet(Tasks)
    BY AuditLogAssumption
  <1>2. IsFiniteSet(S)
    BY <1>1, FS_Subset
  <1>3. IsFiniteSet(R) /\ Cardinality(R) = Cardinality(S) - (IF p[t] \in W THEN 1 ELSE 0)
    <2>1. IsFiniteSet(R) /\ Cardinality(R) = IF t \in S THEN Cardinality(S) - 1 ELSE Cardinality(S)
      BY <1>2, FS_RemoveElement
    <2>2. Cardinality(S) \in Nat
      BY <1>2, FS_CardinalityType
    <2> QED BY <2>1, <2>2
  <1>4. Cardinality(R) \in Nat
    BY <1>3, FS_CardinalityType
  <1>5. CountOf(q, W) = Cardinality(R) + (IF q[t] \in W THEN 1 ELSE 0)
    <2>1. CASE q[t] \in W
      <3>1. {u \in Tasks : q[u] \in W} = R \cup {t}
        BY <2>1
      <3>2. Cardinality(R \cup {t}) = Cardinality(R) + 1
        BY <1>3, FS_AddElement
      <3>3. CountOf(q, W) = Cardinality(R) + 1
        BY <3>1, <3>2 DEF CountOf
      <3> QED BY <2>1, <3>3
    <2>2. CASE q[t] \notin W
      <3>1. {u \in Tasks : q[u] \in W} = R
        BY <2>2
      <3>2. CountOf(q, W) = Cardinality(R)
        BY <3>1 DEF CountOf
      <3> QED BY <1>4, <2>2, <3>2
    <2> QED BY <2>1, <2>2
  <1>6. CountOf(p, W) = Cardinality(S)
    BY DEF CountOf
  <1> QED BY <1>3, <1>5, <1>6

-----------------------------------------------------------------------------
\* The wait queue and the places of the tasks stay in step when somebody who
\* is not on the queue moves.
LEMMA WaitMoves ==
  ASSUME NEW p \in [Tasks -> Pcs], NEW w \in Seq(Tasks), Waiting(p, w),
         NEW t \in Tasks, p[t] # "sleep", NEW to, to # "sleep"
  PROVE  Waiting([p EXCEPT ![t] = to], w)
  BY DEF Waiting

\* The first of the queue is woken.
LEMMA WaitWakes ==
  ASSUME NEW p \in [Tasks -> Pcs], NEW w \in Seq(Tasks), Waiting(p, w), w # <<>>,
         NEW to, to # "sleep"
  PROVE  /\ w[1] \in Tasks /\ p[w[1]] = "sleep" /\ Tail(w) \in Seq(Tasks)
         /\ Waiting([p EXCEPT ![w[1]] = to], Tail(w))
  <1> DEFINE q == [p EXCEPT ![w[1]] = to]
  <1>1. Len(w) \in Nat /\ 1 \in 1 .. Len(w) /\ w[1] \in Tasks
    OBVIOUS
  <1>2. Tail(w) \in Seq(Tasks) /\ Len(Tail(w)) = Len(w) - 1
    OBVIOUS
  <1>3. \A i \in 1 .. Len(w) - 1 : Tail(w)[i] = w[i + 1]
    OBVIOUS
  <1>4. p[w[1]] = "sleep"
    BY <1>1 DEF Waiting
  <1>5. ASSUME NEW t \in Tasks
        PROVE  q[t] = "sleep" <=> \E i \in 1 .. Len(Tail(w)) : Tail(w)[i] = t
    <2>1. CASE t = w[1]
      <3>1. q[t] # "sleep"
        BY <2>1
      <3>2. ASSUME NEW i \in 1 .. Len(Tail(w)), Tail(w)[i] = t
            PROVE  FALSE
        <4>1. i + 1 \in 1 .. Len(w) /\ w[i + 1] = w[1]
          BY <1>1, <1>2, <1>3, <2>1, <3>2
        <4>2. i + 1 = 1
          BY <1>1, <4>1 DEF Waiting
        <4> QED BY <4>2, <1>2
      <3> QED BY <3>1, <3>2
    <2>2. CASE t # w[1]
      <3>1. q[t] = "sleep" <=> \E i \in 1 .. Len(w) : w[i] = t
        BY <2>2 DEF Waiting
      <3>2. ASSUME NEW i \in 1 .. Len(w), w[i] = t
            PROVE  \E j \in 1 .. Len(Tail(w)) : Tail(w)[j] = t
        <4>1. i - 1 \in 1 .. Len(Tail(w)) /\ Tail(w)[i - 1] = t
          BY <1>1, <1>2, <1>3, <2>2, <3>2
        <4> QED BY <4>1
      <3>3. ASSUME NEW j \in 1 .. Len(Tail(w)), Tail(w)[j] = t
            PROVE  \E i \in 1 .. Len(w) : w[i] = t
        <4>1. j + 1 \in 1 .. Len(w) /\ w[j + 1] = t
          BY <1>1, <1>2, <1>3, <3>3
        <4> QED BY <4>1
      <3> QED BY <3>1, <3>2, <3>3
    <2> QED BY <2>1, <2>2
  <1>6. ASSUME NEW i \in 1 .. Len(Tail(w)), NEW j \in 1 .. Len(Tail(w)), Tail(w)[i] = Tail(w)[j]
        PROVE  i = j
    <2>1. /\ i + 1 \in 1 .. Len(w) /\ j + 1 \in 1 .. Len(w)
          /\ w[i + 1] = w[j + 1]
      BY <1>1, <1>2, <1>3, <1>6
    <2>2. i + 1 = j + 1
      BY <2>1 DEF Waiting
    <2> QED BY <2>2, <1>2
  <1> QED BY <1>1, <1>2, <1>4, <1>5, <1>6 DEF Waiting

\* Somebody falls asleep.
LEMMA WaitSleeps ==
  ASSUME NEW p \in [Tasks -> Pcs], NEW w \in Seq(Tasks), Waiting(p, w),
         NEW t \in Tasks, p[t] # "sleep"
  PROVE  Waiting([p EXCEPT ![t] = "sleep"], Append(w, t))
  <1> DEFINE q == [p EXCEPT ![t] = "sleep"]
             v == Append(w, t)
  <1>1. /\ Len(w) \in Nat /\ Len(v) = Len(w) + 1 /\ v[Len(w) + 1] = t
        /\ \A i \in 1 .. Len(w) : v[i] = w[i]
    OBVIOUS
  <1>2. ASSUME NEW u \in Tasks
        PROVE  q[u] = "sleep" <=> \E i \in 1 .. Len(v) : v[i] = u
    <2>1. CASE u = t
      <3>1. q[u] = "sleep" /\ Len(w) + 1 \in 1 .. Len(v) /\ v[Len(w) + 1] = u
        BY <1>1, <2>1
      <3> QED BY <3>1
    <2>2. CASE u # t
      <3>1. q[u] = "sleep" <=> \E i \in 1 .. Len(w) : w[i] = u
        BY <2>2 DEF Waiting
      <3>2. \A i \in 1 .. Len(v) : v[i] = u => i \in 1 .. Len(w) /\ w[i] = u
        BY <1>1, <2>2
      <3>3. \A i \in 1 .. Len(w) : i \in 1 .. Len(v) /\ v[i] = w[i]
        BY <1>1
      <3> QED BY <3>1, <3>2, <3>3
    <2> QED BY <2>1, <2>2
  <1>3. \A i \in 1 .. Len(w) : w[i] # t
    BY DEF Waiting
  <1>4. ASSUME NEW i \in 1 .. Len(v), NEW j \in 1 .. Len(v), v[i] = v[j]
        PROVE  i = j
    <2>1. CASE i \in 1 .. Len(w) /\ j \in 1 .. Len(w)
      BY <1>1, <1>4, <2>1 DEF Waiting
    <2>2. CASE ~(i \in 1 .. Len(w) /\ j \in 1 .. Len(w))
      BY <1>1, <1>3, <1>4, <2>2
    <2> QED BY <2>1, <2>2
  <1> QED BY <1>2, <1>4 DEF Waiting

\* Somebody leaves the queue, wherever it stands in it.
LEMMA WaitLeaves ==
  ASSUME NEW p \in [Tasks -> Pcs], NEW w \in Seq(Tasks), Waiting(p, w),
         NEW k \in 1 .. Len(w), NEW to, to # "sleep"
  PROVE  /\ Without(w, k) \in Seq(Tasks)
         /\ Waiting([p EXCEPT ![w[k]] = to], Without(w, k))
  <1> DEFINE q == [p EXCEPT ![w[k]] = to]
             v == Without(w, k)
             At(j) == IF j < k THEN j ELSE j + 1
  <1>1. Len(w) \in Nat /\ w[k] \in Tasks /\ Len(w) - 1 \in Nat
    OBVIOUS
  <1>2. \A j \in 1 .. Len(w) - 1 : At(j) \in 1 .. Len(w) /\ At(j) # k
    BY <1>1
  <1>3. \A j \in 1 .. Len(w) - 1 : v[j] = w[At(j)] /\ w[At(j)] \in Tasks
    BY <1>1, <1>2 DEF Without
  <1>4. v \in Seq(Tasks) /\ Len(v) = Len(w) - 1
    <2>1. v \in [1 .. Len(w) - 1 -> Tasks]
      BY <1>1, <1>3 DEF Without
    <2> QED BY <1>1, <2>1
  <1>5. ASSUME NEW u \in Tasks
        PROVE  q[u] = "sleep" <=> \E j \in 1 .. Len(v) : v[j] = u
    <2>1. CASE u = w[k]
      <3>1. q[u] # "sleep"
        BY <2>1
      <3>2. ASSUME NEW j \in 1 .. Len(v), v[j] = u
            PROVE  FALSE
        <4>1. At(j) \in 1 .. Len(w) /\ At(j) # k /\ w[At(j)] = w[k]
          BY <1>2, <1>3, <1>4, <2>1, <3>2
        <4> HIDE DEF At
        <4> QED BY <4>1 DEF Waiting
      <3> QED BY <3>1, <3>2
    <2>2. CASE u # w[k]
      <3>1. q[u] = "sleep" <=> \E i \in 1 .. Len(w) : w[i] = u
        BY <2>2 DEF Waiting
      <3>2. ASSUME NEW i \in 1 .. Len(w), w[i] = u
            PROVE  \E j \in 1 .. Len(v) : v[j] = u
        <4>1. CASE i < k
          <5>1. i \in 1 .. Len(v) /\ At(i) = i
            BY <1>1, <1>4, <4>1
          <5> QED BY <1>3, <1>4, <3>2, <5>1
        <4>2. CASE i > k
          <5>1. i - 1 \in 1 .. Len(v) /\ At(i - 1) = i
            BY <1>1, <1>4, <4>2
          <5> QED BY <1>3, <1>4, <3>2, <5>1
        <4> QED BY <2>2, <3>2, <4>1, <4>2
      <3>3. ASSUME NEW j \in 1 .. Len(v), v[j] = u
            PROVE  \E i \in 1 .. Len(w) : w[i] = u
        <4>1. At(j) \in 1 .. Len(w) /\ w[At(j)] = u
          BY <1>2, <1>3, <1>4, <3>3
        <4> QED BY <4>1
      <3> QED BY <3>1, <3>2, <3>3
    <2> QED BY <2>1, <2>2
  <1>6. ASSUME NEW i \in 1 .. Len(v), NEW j \in 1 .. Len(v), v[i] = v[j]
        PROVE  i = j
    <2>1. At(i) \in 1 .. Len(w) /\ At(j) \in 1 .. Len(w) /\ w[At(i)] = w[At(j)]
      BY <1>2, <1>3, <1>4, <1>6
    <2>2. At(i) = At(j)
      <3> HIDE DEF At
      <3> QED BY <2>1 DEF Waiting
    <2> QED BY <2>2, <1>4
  <1> QED BY <1>4, <1>5, <1>6 DEF Waiting

\* wake_up keeps the queue and the places in step, and touches no task with a
\* record in its hands.
LEMMA Wakes ==
  ASSUME TypeInv, NEW p \in [Tasks -> Pcs], Waiting(p, waiters), WakeUp(p)
  PROVE  /\ pc' \in [Tasks -> Pcs] /\ waiters' \in Seq(Tasks) /\ Waiting(pc', waiters')
         /\ CountOf(pc', Owning) = CountOf(p, Owning)
         /\ CountOf(pc', Queuing) = CountOf(p, Queuing)
  <1> USE DEF TypeInv
  <1>1. CASE waiters = <<>>
    BY <1>1 DEF WakeUp
  <1>2. CASE waiters # <<>>
    <2> DEFINE first == waiters[1]
               to == Woken(first)
    <2>1. pc' = [p EXCEPT ![first] = to] /\ waiters' = Tail(waiters)
      BY <1>2 DEF WakeUp
    <2>2. to \in {"lose", "check"} /\ to # "sleep"
      BY DEF Woken
    <2>3. /\ first \in Tasks /\ p[first] = "sleep" /\ Tail(waiters) \in Seq(Tasks)
          /\ Waiting([p EXCEPT ![first] = to], Tail(waiters))
      BY <1>2, <2>2, WaitWakes
    <2>4. /\ CountOf(pc', Owning) = CountOf(p, Owning) - 0 + 0
          /\ CountOf(pc', Queuing) = CountOf(p, Queuing) - 0 + 0
      <3>1. p[first] \notin Owning /\ p[first] \notin Queuing /\ to \notin Owning /\ to \notin Queuing
        BY <2>2, <2>3 DEF Owning, Queuing
      <3>2. pc'[first] = to /\ \A u \in Tasks : u # first => pc'[u] = p[u]
        BY <2>1, <2>3
      <3>3. ASSUME NEW W, p[first] \notin W, to \notin W
            PROVE  CountOf(pc', W) = CountOf(p, W) - 0 + 0
        <4>1. first \in Tasks
          BY <2>3
        <4>2. CountOf(pc', W) = CountOf(p, W) - (IF p[first] \in W THEN 1 ELSE 0)
                                              + (IF pc'[first] \in W THEN 1 ELSE 0)
          <5> HIDE DEF first, to, TypeInv
          <5> QED BY <3>2, <4>1, CountMoves, Zenon
        <4> QED BY <3>2, <3>3, <4>2
      <3> QED BY <3>1, <3>3
    <2>5. CountOf(p, Owning) \in Nat /\ CountOf(p, Queuing) \in Nat
      BY CountBound
    <2>6. pc' \in [Tasks -> Pcs]
      BY <2>1, <2>2 DEF Pcs
    <2> QED BY <2>1, <2>3, <2>4, <2>5, <2>6
  <1> QED BY <1>1, <1>2

\* A call in progress keeps its locals, and its return goes to a place.
LEMMA LocFacts ==
  ASSUME TypeInv
  PROVE  /\ NoCall \in Loc /\ Reserve \in Nat /\ conf.limit \in Nat /\ Retries \in Nat \ {0}
         /\ \A t \in Tasks : /\ loc[t] \in Loc /\ loc[t].reserve \in {0, Reserve}
                             /\ loc[t].ret \in {"idle", "set_pid", "clear_pid", "unlock"}
                             /\ loc[t].ret \in Pcs
  <1>1. conf \in Setting
    BY AuditLogAssumption DEF TypeInv
  <1> QED BY <1>1, AuditLogAssumption DEF TypeInv, Loc, NoCall, Pcs, Setting

\* audit_log_start is called with good locals.
LEMMA CallType ==
  ASSUME TypeInv, NEW t \in Tasks, NEW from, NEW then \in {"idle", "set_pid", "clear_pid", "unlock"},
         NEW w \in BOOLEAN, Call(t, from, then, w)
  PROVE  pc' \in [Tasks -> Pcs] /\ loc' \in [Tasks -> Loc]
  <1>1. pc' \in [Tasks -> Pcs]
    BY DEF Call, Goto, TypeInv, Pcs
  <1>2. [wait |-> w /\ audit_pid # t, late |-> FALSE, ret |-> then,
         reserve |-> IF w /\ audit_pid # t THEN 0 ELSE Reserve] \in Loc
    BY DEF Loc
  <1>3. loc' \in [Tasks -> Loc]
    BY <1>2 DEF Call, TypeInv
  <1> QED BY <1>1, <1>3

\* A record that is held is in the hold queue, or gone.
LEMMA Holds ==
  ASSUME NEW r, AuditHoldSkb(r)
  PROVE  \/ hold' = Append(hold, r) /\ live' = live /\ silent' = silent
         \/ hold' = hold /\ live' = live - 1 /\ silent' = (silent \/ r = "new")
  BY Zenon DEF AuditHoldSkb, Free, ghost

\* Holding a record keeps the types.
LEMMA HoldType ==
  ASSUME TypeInv, NEW r \in Record, AuditHoldSkb(r)
  PROVE  hold' \in Seq(Record) /\ live' \in Int /\ silent' \in BOOLEAN
  <1>1. CASE hold' = Append(hold, r) /\ live' = live /\ silent' = silent
    BY <1>1 DEF TypeInv
  <1>2. CASE hold' = hold /\ live' = live - 1 /\ silent' = (silent \/ r = "new")
    <2>1. silent' \in BOOLEAN
      BY <1>2
    <2>2. hold' \in Seq(Record) /\ live' \in Int
      BY <1>2 DEF TypeInv
    <2> QED BY <2>1, <2>2
  <1> QED BY <1>1, <1>2, Holds

\* The types are kept.
LEMMA TypeStep ==
  ASSUME TypeInv, WaitInv, KauditdInv, Next
  PROVE  TypeInv'
  <1> USE LocFacts DEF TypeInv
  <1>1. ASSUME NEW t \in Tasks, Admit(t)
        PROVE  TypeInv'
    <2>1. pc' \in [Tasks -> Pcs] /\ loc' \in [Tasks -> Loc] /\ live' \in Int
      <3>1. CASE Goto(t, "check", "end") /\ live' = live + 1 /\ UNCHANGED <<loc, panicked>>
        BY <3>1 DEF Goto, Pcs
      <3>2. CASE Return(t, "check") /\ AuditLogLost /\ UNCHANGED live
        BY <3>2 DEF Goto, Return
      <3> QED BY <1>1, <3>1, <3>2 DEF Admit
    <2>2. waitOn' \in BOOLEAN
      BY <1>1 DEF Admit
    <2> QED BY <1>1, <2>1, <2>2 DEF Admit, others, world, backlog, ghost, reg, kauditd
  <1>2. ASSUME NEW t \in Tasks, WaitForAuditd(t)
        PROVE  TypeInv'
    BY <1>2 DEF WaitForAuditd, Goto, Pcs, others, world, backlog, ghost, reg, kauditd
  <1>3. ASSUME NEW t \in Tasks, EndRateLimited(t)
        PROVE  TypeInv'
    BY <1>3 DEF EndRateLimited, Free, Return, Goto, Pcs, others, world, backlog, ghost, reg, kauditd
  <1>4. ASSUME NEW t \in Tasks, EndDirect(t)
        PROVE  TypeInv'
    BY <1>4 DEF EndDirect, Goto, Pcs, others, world, backlog, ghost, reg, kauditd
  <1>5. ASSUME NEW t \in Tasks, EndQueue(t)
        PROVE  TypeInv'
    BY <1>5 DEF EndQueue, Return, Goto, Record, Pcs, others, world, backlog, ghost, reg, kauditd
  <1>6. ASSUME NEW t \in Tasks, EndPrintk(t)
        PROVE  TypeInv'
    <2>1. pc' \in [Tasks -> Pcs] /\ loc' \in [Tasks -> Loc]
      BY <1>6 DEF EndPrintk, Return, Goto
    <2>2. hold' \in Seq(Record) /\ live' \in Int /\ silent' \in BOOLEAN
      BY <1>6, HoldType DEF EndPrintk, Record
    <2> QED BY <1>6, <2>1, <2>2 DEF EndPrintk, others, world, backlog, ghost, reg, kauditd
  <1>7. ASSUME NEW t \in Daemons, SetDaemon(t)
        PROVE  TypeInv'
    BY <1>7, AuditLogAssumption DEF SetDaemon, Goto, Pcs, others, world, backlog, ghost, reg, kauditd
  <1>8. ASSUME NEW t \in Tasks, TimeUp(t)
        PROVE  TypeInv'
    <2>1. loc' \in [Tasks -> Loc]
      BY <1>8 DEF TimeUp, Loc
    <2>2. pc' \in [Tasks -> Pcs] /\ waiters' \in Seq(Tasks)
      <3>1. CASE pc[t] = "sleep"
        <4>1. PICK i \in DOMAIN waiters : waiters[i] = t /\ waiters' = Without(waiters, i)
          BY <1>8, <3>1 DEF TimeUp
        <4>2. i \in 1 .. Len(waiters)
          BY <4>1
        <4>3. Waiting(pc, waiters) /\ "lose" # "sleep"
          BY DEF WaitInv
        <4>4. Without(waiters, i) \in Seq(Tasks)
          BY <4>2, <4>3, WaitLeaves
        <4> QED BY <1>8, <3>1, <4>1, <4>4 DEF TimeUp, Pcs
      <3>2. CASE pc[t] # "sleep"
        BY <1>8, <3>2 DEF TimeUp
      <3> QED BY <3>1, <3>2
    <2> QED BY <1>8, <2>1, <2>2 DEF TimeUp, others, world, backlog, ghost, reg, kauditd
  <1>9. ASSUME NEW t \in Tasks, GiveUp(t)
        PROVE  TypeInv'
    <2> DEFINE p == [pc EXCEPT ![t] = loc[t].ret]
    <2>1. p \in [Tasks -> Pcs] /\ WakeUp(p) /\ Waiting(p, waiters)
      <3>1. pc[t] # "sleep" /\ loc[t].ret # "sleep"
        BY <1>9 DEF GiveUp
      <3> QED BY <1>9, <3>1, WaitMoves DEF GiveUp, WaitInv
    <2>2. pc' \in [Tasks -> Pcs] /\ waiters' \in Seq(Tasks)
      BY <2>1, Wakes
    <2> QED BY <1>9, <2>2 DEF GiveUp, others, world, backlog, ghost, reg, kauditd
  <1>10. ASSUME NEW t \in Tasks, NEW w \in BOOLEAN, Log(t, w)
        PROVE  TypeInv'
    <2>1. pc' \in [Tasks -> Pcs] /\ loc' \in [Tasks -> Loc]
      BY <1>10, CallType DEF Log
    <2> QED BY <1>10, <2>1 DEF Log, others, world, backlog, ghost, reg, kauditd
  <1>11. ASSUME NEW d \in Daemons, Register(d)
        PROVE  TypeInv'
    <2>1. d \in Tasks
      BY AuditLogAssumption
    <2>2. ASSUME NEW then \in {"set_pid", "clear_pid", "unlock"}, LogChange(d, then)
          PROVE  pc' \in [Tasks -> Pcs] /\ loc' \in [Tasks -> Loc]
      <3>1. CASE Call(d, "idle", then, TRUE)
        BY <2>1, <3>1, CallType
      <3>2. CASE Goto(d, "idle", then) /\ UNCHANGED loc
        BY <2>1, <3>2 DEF Goto, Pcs
      <3> QED BY <2>2, <3>1, <3>2 DEF LogChange
    <2>3. pc' \in [Tasks -> Pcs] /\ loc' \in [Tasks -> Loc]
      BY <1>11, <2>1, <2>2 DEF Register, Goto, Pcs
    <2> QED BY <1>11, <2>3 DEF Register, others, world, backlog, ghost, reg, kauditd
  <1>12. ASSUME NEW d \in Daemons, Unregister(d)
        PROVE  TypeInv'
    <2>1. d \in Tasks
      BY AuditLogAssumption
    <2>2. ASSUME NEW then \in {"set_pid", "clear_pid", "unlock"}, LogChange(d, then)
          PROVE  pc' \in [Tasks -> Pcs] /\ loc' \in [Tasks -> Loc]
      <3>1. CASE Call(d, "idle", then, TRUE)
        BY <2>1, <3>1, CallType
      <3>2. CASE Goto(d, "idle", then) /\ UNCHANGED loc
        BY <2>1, <3>2 DEF Goto, Pcs
      <3> QED BY <2>2, <3>1, <3>2 DEF LogChange
    <2>3. pc' \in [Tasks -> Pcs] /\ loc' \in [Tasks -> Loc]
      BY <1>12, <2>1, <2>2 DEF Unregister, Goto, Pcs
    <2> QED BY <1>12, <2>3 DEF Unregister, others, world, backlog, ghost, reg, kauditd
  <1>13. ASSUME NEW d \in Daemons, DaemonDies(d)
        PROVE  TypeInv'
    BY <1>13 DEF DaemonDies, others, world, backlog, ghost, reg, kauditd
  <1>14. ASSUME NEW d \in Daemons, DaemonStarts(d)
        PROVE  TypeInv'
    BY <1>14 DEF DaemonStarts, others, world, backlog, ghost, reg, kauditd
  <1>15. CASE FlushHoldQueue
    <2>1. hold # <<>> => hold[1] \in Record /\ Tail(hold) \in Seq(Record)
      OBVIOUS
    <2>2. hold' \in Seq(Record) /\ kskb' \in Record \cup {NoRec}
      BY <1>15, <2>1 DEF FlushHoldQueue
    <2> QED BY <1>15, <2>2 DEF FlushHoldQueue, KUnchanged, others, world, backlog, ghost, reg, kauditd
  <1>16. CASE Flushing
    <2>1. live' \in Int /\ kskb' \in Record \cup {NoRec}
      BY <1>16 DEF Flushing, Free, ghost
    <2>2. silent' \in BOOLEAN
      BY <1>16 DEF Flushing, Free, ghost
    <2> QED BY <1>16, <2>1, <2>2 DEF Flushing, KUnchanged, others, world, backlog, ghost, reg, kauditd
  <1>17. CASE KauditdWait
    BY <1>17 DEF KauditdWait, KGoto, KUnchanged, others, world, backlog, ghost, reg, kauditd
  <1>18. CASE Choose
    BY <1>18 DEF Choose, KGoto, Record, KUnchanged, others, world, backlog, ghost, reg, kauditd
  <1>19. CASE KauditdSendSkb
    BY <1>19 DEF KauditdSendSkb, Unicast, NoRec, Record, KUnchanged, others, world, backlog, ghost, reg, kauditd
  <1>20. CASE Rescheduled
    BY <1>20 DEF Rescheduled, KGoto, KUnchanged, others, world, backlog, ghost, reg, kauditd
  <1>21. CASE ResetDaemon
    BY <1>21 DEF ResetDaemon, KGoto, KUnchanged, others, world, backlog, ghost, reg, kauditd
  <1>22. ASSUME KauditdHold, KauditdInv
        PROVE  TypeInv'
    <2>1. kskb = "old" /\ kskb \in Record
      BY <1>22 DEF KauditdHold, KauditdInv, KGoto, Record
    <2>2. hold' \in Seq(Record) /\ live' \in Int /\ silent' \in BOOLEAN
      BY <1>22, <2>1, HoldType DEF KauditdHold
    <2> QED BY <1>22, <2>2 DEF KauditdHold, KUnchanged, others, world, backlog, ghost, reg, kauditd
  <1>23. CASE AuditNetExit
    BY <1>23 DEF AuditNetExit, KUnchanged, others, world, backlog, ghost, reg, kauditd
  <1>24. CASE Dequeue
    <2>1. pc' \in [Tasks -> Pcs] /\ waiters' \in Seq(Tasks)
      BY <1>24, Wakes DEF Dequeue, WaitInv
    <2> QED BY <1>24, <2>1 DEF Dequeue, KUnchanged, others, world, backlog, ghost, reg, kauditd
  <1> QED BY <1>1, <1>2, <1>3, <1>4, <1>5, <1>6, <1>7, <1>8, <1>9, <1>10, <1>11, <1>12, <1>13, <1>14, <1>15, <1>16, <1>17, <1>18, <1>19, <1>20, <1>21, <1>22, <1>23, <1>24
       DEF Next, Kauditd, TaskStep, AuditLogStart, AuditLogEnd

-----------------------------------------------------------------------------
\* A task that goes from one place to another.
LEMMA GotoFacts ==
  ASSUME TypeInv, WaitInv, NEW t \in Tasks, NEW from, NEW to, Goto(t, from, to)
  PROVE  /\ pc[t] = from /\ pc'[t] = to /\ \A u \in Tasks : u # t => pc'[u] = pc[u]
         /\ \A W : CountOf(pc', W) = CountOf(pc, W) - (IF from \in W THEN 1 ELSE 0)
                                                   + (IF to \in W THEN 1 ELSE 0)
         /\ from # "sleep" /\ to # "sleep" => Waiting(pc', waiters)
  <1>1. pc \in [Tasks -> Pcs] /\ waiters \in Seq(Tasks) /\ Waiting(pc, waiters)
    BY DEF TypeInv, WaitInv
  <1>2. pc[t] = from /\ pc' = [pc EXCEPT ![t] = to]
    BY DEF Goto
  <1>3. pc[t] = from /\ pc'[t] = to /\ \A u \in Tasks : u # t => pc'[u] = pc[u]
    BY <1>1, <1>2
  <1>4. ASSUME NEW W
        PROVE  CountOf(pc', W) = CountOf(pc, W) - (IF from \in W THEN 1 ELSE 0)
                                               + (IF to \in W THEN 1 ELSE 0)
    <2>1. CountOf(pc', W) = CountOf(pc, W) - (IF pc[t] \in W THEN 1 ELSE 0)
                                          + (IF pc'[t] \in W THEN 1 ELSE 0)
      BY <1>3, CountMoves, Zenon
    <2> QED BY <1>3, <2>1
  <1>5. ASSUME from # "sleep", to # "sleep"
        PROVE  Waiting(pc', waiters)
    BY <1>1, <1>2, <1>5, WaitMoves
  <1> QED BY <1>3, <1>4, <1>5

\* The first step of a daemon's registration or leave.
LEMMA RegisterFacts ==
  ASSUME TypeInv, NEW d \in Daemons, Register(d) \/ Unregister(d)
  PROVE  /\ d \in Tasks
         /\ \E to \in {"check", "set_pid", "clear_pid", "unlock", "oops"} : Goto(d, "idle", to)
         /\ UNCHANGED <<conf, queue, hold, waiters, kauditd, live, silent>>
  <1>1. d \in Tasks
    BY AuditLogAssumption
  <1>2. ASSUME NEW then \in {"set_pid", "clear_pid", "unlock"}, LogChange(d, then)
        PROVE  \E to \in {"check", "set_pid", "clear_pid", "unlock", "oops"} : Goto(d, "idle", to)
    BY <1>2 DEF LogChange, Call
  <1>3. \E to \in {"check", "set_pid", "clear_pid", "unlock", "oops"} : Goto(d, "idle", to)
    BY <1>2 DEF Register, Unregister
  <1> QED BY <1>1, <1>3 DEF Register, Unregister, backlog, ghost

\* Giving up wakes the next sleeper; the task itself was awake and goes where
\* its caller goes on, without a record.
LEMMA GiveUpFacts ==
  ASSUME TypeInv, WaitInv, NEW t \in Tasks, GiveUp(t)
  PROVE  /\ Waiting(pc', waiters')
         /\ CountOf(pc', Owning) = CountOf(pc, Owning)
         /\ CountOf(pc', Queuing) = CountOf(pc, Queuing)
  <1> DEFINE p == [pc EXCEPT ![t] = loc[t].ret]
  <1>1. pc[t] \in {"lose", "check"} /\ loc[t].ret \in {"idle", "set_pid", "clear_pid", "unlock"}
    BY LocFacts DEF GiveUp
  <1>2. pc \in [Tasks -> Pcs] /\ waiters \in Seq(Tasks) /\ Waiting(pc, waiters)
    BY DEF TypeInv, WaitInv
  <1>3. p \in [Tasks -> Pcs] /\ WakeUp(p)
    BY <1>1, <1>2 DEF GiveUp, Pcs
  <1>4. Waiting(p, waiters)
    BY <1>1, <1>2, WaitMoves
  <1>5. /\ Waiting(pc', waiters')
        /\ CountOf(pc', Owning) = CountOf(p, Owning)
        /\ CountOf(pc', Queuing) = CountOf(p, Queuing)
    BY <1>3, <1>4, Wakes
  <1>6. ASSUME NEW W, pc[t] \notin W, loc[t].ret \notin W
        PROVE  CountOf(p, W) = CountOf(pc, W)
    <2>1. p[t] = loc[t].ret /\ \A u \in Tasks : u # t => p[u] = pc[u]
      BY <1>2
    <2>2. CountOf(p, W) = CountOf(pc, W) - (IF pc[t] \in W THEN 1 ELSE 0)
                                        + (IF p[t] \in W THEN 1 ELSE 0)
      <3> HIDE DEF p
      <3> QED BY <2>1, CountMoves, Zenon
    <2>3. CountOf(pc, W) \in Nat
      BY CountBound
    <2>4. CountOf(p, W) = CountOf(pc, W) - 0 + 0
      BY <1>6, <2>1, <2>2
    <2> QED BY <2>3, <2>4
  <1>7. /\ pc[t] \notin Owning /\ loc[t].ret \notin Owning
        /\ pc[t] \notin Queuing /\ loc[t].ret \notin Queuing
    BY <1>1 DEF Owning, Queuing
  <1>8. CountOf(p, Owning) = CountOf(pc, Owning) /\ CountOf(p, Queuing) = CountOf(pc, Queuing)
    BY <1>6, <1>7
  <1> QED BY <1>5, <1>8

\* A task whose time is up is awake, and at no place with a record.
LEMMA TimeUpFacts ==
  ASSUME TypeInv, WaitInv, NEW t \in Tasks, TimeUp(t)
  PROVE  /\ Waiting(pc', waiters')
         /\ CountOf(pc', Owning) = CountOf(pc, Owning)
         /\ CountOf(pc', Queuing) = CountOf(pc, Queuing)
  <1>1. pc \in [Tasks -> Pcs] /\ waiters \in Seq(Tasks) /\ Waiting(pc, waiters)
    BY DEF TypeInv, WaitInv
  <1>2. CASE pc[t] = "sleep"
    <2>1. PICK i \in DOMAIN waiters : waiters[i] = t /\ waiters' = Without(waiters, i)
      BY <1>2 DEF TimeUp
    <2>2. i \in 1 .. Len(waiters)
      BY <1>1, <2>1
    <2>3. Goto(t, "sleep", "lose")
      BY <1>2 DEF TimeUp, Goto
    <2>4. Waiting([pc EXCEPT ![waiters[i]] = "lose"], Without(waiters, i))
      BY <1>1, <2>2, WaitLeaves
    <2>5. Waiting(pc', waiters')
      BY <2>1, <2>3, <2>4 DEF Goto
    <2>6. \A W : CountOf(pc', W) = CountOf(pc, W) - (IF "sleep" \in W THEN 1 ELSE 0)
                                                  + (IF "lose" \in W THEN 1 ELSE 0)
      BY <2>3, GotoFacts
    <2>7. CountOf(pc, Owning) \in Nat /\ CountOf(pc, Queuing) \in Nat
      BY CountBound
    <2>8. /\ CountOf(pc', Owning) = CountOf(pc, Owning) - 0 + 0
          /\ CountOf(pc', Queuing) = CountOf(pc, Queuing) - 0 + 0
      BY <2>6 DEF Owning, Queuing
    <2> QED BY <2>5, <2>7, <2>8
  <1>3. CASE pc[t] # "sleep"
    BY <1>1, <1>3 DEF TimeUp
  <1> QED BY <1>2, <1>3

\* The wait queue and the places stay in step.
LEMMA WaitStep ==
  ASSUME TypeInv, WaitInv, Next
  PROVE  WaitInv'
  <1>1. CASE UNCHANGED <<pc, waiters>>
    BY <1>1 DEF WaitInv
  <1>2. ASSUME NEW t \in Tasks, NEW from, NEW to, Goto(t, from, to),
               from # "sleep", to # "sleep", UNCHANGED waiters
        PROVE  WaitInv'
    <2>1. Waiting(pc', waiters)
      BY <1>2, GotoFacts
    <2> QED BY <1>2, <2>1 DEF WaitInv
  <1>3. \A t \in Tasks : loc[t].ret # "sleep"
    BY LocFacts
  <1>4. ASSUME NEW t \in Tasks, NEW from, Return(t, from), from # "sleep", UNCHANGED waiters
        PROVE  WaitInv'
    BY <1>2, <1>3, <1>4 DEF Return
  <1>5. ASSUME NEW t \in Tasks, Admit(t)
        PROVE  WaitInv'
    BY <1>2, <1>4, <1>5 DEF Admit
  <1>6. ASSUME NEW t \in Tasks, WaitForAuditd(t)
        PROVE  WaitInv'
    <2>1. pc \in [Tasks -> Pcs] /\ waiters \in Seq(Tasks) /\ Waiting(pc, waiters) /\ pc[t] = "check"
      BY <1>6 DEF TypeInv, WaitInv, WaitForAuditd, Goto
    <2>2. Waiting([pc EXCEPT ![t] = "sleep"], Append(waiters, t))
      BY <2>1, WaitSleeps
    <2> QED BY <1>6, <2>2 DEF WaitInv, WaitForAuditd, Goto
  <1>7. ASSUME NEW t \in Tasks, GiveUp(t)
        PROVE  WaitInv'
    BY <1>7, GiveUpFacts DEF WaitInv
  <1>8. ASSUME NEW t \in Tasks, TimeUp(t)
        PROVE  WaitInv'
    BY <1>8, TimeUpFacts DEF WaitInv
  <1>9. ASSUME NEW t \in Tasks, AuditLogEnd(t)
        PROVE  WaitInv'
    <2>1. CASE EndRateLimited(t)
      BY <1>4, <2>1 DEF EndRateLimited
    <2>2. CASE EndDirect(t)
      BY <1>2, <2>2 DEF EndDirect
    <2>3. CASE EndQueue(t)
      BY <1>4, <2>3 DEF EndQueue, backlog
    <2>4. CASE EndPrintk(t)
      BY <1>4, <2>4 DEF EndPrintk, backlog
    <2> QED BY <1>9, <2>1, <2>2, <2>3, <2>4 DEF AuditLogEnd
  <1>10. ASSUME NEW d \in Daemons, SetDaemon(d)
         PROVE  WaitInv'
    <2>1. d \in Tasks
      BY AuditLogAssumption
    <2> QED BY <1>2, <1>10, <2>1 DEF SetDaemon, backlog
  <1>11. ASSUME NEW t \in Tasks, NEW w \in BOOLEAN, Log(t, w)
         PROVE  WaitInv'
    BY <1>2, <1>11 DEF Log, Call, backlog
  <1>12. ASSUME NEW d \in Daemons, Register(d) \/ Unregister(d)
         PROVE  WaitInv'
    BY <1>2, <1>12, RegisterFacts
  <1>13. ASSUME NEW d \in Daemons, DaemonDies(d) \/ DaemonStarts(d)
         PROVE  WaitInv'
    BY <1>1, <1>13 DEF DaemonDies, DaemonStarts, backlog
  <1>14. CASE Dequeue
    BY <1>1, <1>14, Wakes DEF Dequeue, WaitInv, TypeInv
  <1>15. CASE \/ FlushHoldQueue \/ Flushing \/ KauditdWait \/ Choose \/ KauditdSendSkb
              \/ ResetDaemon \/ KauditdHold \/ Rescheduled \/ AuditNetExit
    BY <1>1, <1>15 DEF FlushHoldQueue, Flushing, KauditdWait, Choose, KauditdSendSkb,
       ResetDaemon, KauditdHold, Rescheduled, AuditNetExit, backlog
  <1> QED BY <1>5, <1>6, <1>7, <1>8, <1>9, <1>10, <1>11, <1>12, <1>13, <1>14, <1>15
       DEF Next, Kauditd, TaskStep, AuditLogStart

\* What is in the hold queue has been accounted for when a record that has is
\* added to it, and nothing is lost when it is dropped instead.
LEMMA HoldsOld ==
  ASSUME TypeInv, KauditdInv, AuditHoldSkb("old")
  PROVE  /\ \A i \in 1 .. Len(hold') : hold'[i] = "old"
         /\ ~silent'
  <1>1. ~silent /\ (\A i \in 1 .. Len(hold) : hold[i] = "old") /\ hold \in Seq(Record)
    BY DEF KauditdInv, TypeInv
  <1>2. CASE hold' = Append(hold, "old") /\ live' = live /\ silent' = silent
    BY <1>1, <1>2
  <1>3. CASE hold' = hold /\ live' = live - 1 /\ silent' = (silent \/ "old" = "new")
    <2>1. ~silent'
      BY <1>1, <1>3
    <2> QED BY <1>1, <1>3, <2>1
  <1> QED BY <1>2, <1>3, Holds

\* kauditd never loses track of the record it has, and drops only one that is
\* accounted for.
LEMMA KauditdStep ==
  ASSUME TypeInv, KauditdInv, Next
  PROVE  KauditdInv'
  <1>1. CASE UNCHANGED <<kpc, kskb, hold, silent>>
    BY <1>1 DEF KauditdInv
  <1>2. ASSUME NEW t \in Tasks, AuditLogStart(t) \/ TimeUp(t)
        PROVE  KauditdInv'
    BY <1>1, <1>2 DEF AuditLogStart, Admit, WaitForAuditd, GiveUp, TimeUp, others, kauditd, ghost
  <1>3. ASSUME NEW t \in Tasks, AuditLogEnd(t)
        PROVE  KauditdInv'
    <2>1. CASE EndRateLimited(t)
      <3>1. UNCHANGED <<kpc, kskb, hold>> /\ silent' = (silent \/ "old" = "new")
        BY <2>1 DEF EndRateLimited, Free, others, kauditd
      <3>2. ~silent'
        BY <3>1 DEF KauditdInv
      <3> QED BY <3>1, <3>2 DEF KauditdInv
    <2>2. CASE EndDirect(t) \/ EndQueue(t)
      BY <1>1, <2>2 DEF EndDirect, EndQueue, others, kauditd, ghost
    <2>3. CASE EndPrintk(t)
      <3>1. UNCHANGED <<kpc, kskb>> /\ AuditHoldSkb("old")
        BY <2>3 DEF EndPrintk, others, kauditd
      <3>2. (\A i \in 1 .. Len(hold') : hold'[i] = "old") /\ ~silent'
        BY <3>1, HoldsOld
      <3> QED BY <3>1, <3>2 DEF KauditdInv
    <2> QED BY <1>3, <2>1, <2>2, <2>3 DEF AuditLogEnd
  <1>4. ASSUME NEW d \in Daemons,
               SetDaemon(d) \/ Register(d) \/ Unregister(d) \/ DaemonDies(d) \/ DaemonStarts(d)
        PROVE  KauditdInv'
    BY <1>1, <1>4 DEF SetDaemon, Register, Unregister, DaemonDies, DaemonStarts, kauditd, ghost
  <1>5. ASSUME NEW t \in Tasks, NEW w \in BOOLEAN, Log(t, w)
        PROVE  KauditdInv'
    BY <1>1, <1>5 DEF Log, kauditd, ghost
  <1>6. CASE AuditNetExit
    BY <1>1, <1>6 DEF AuditNetExit, kauditd, ghost
  <1>7. CASE FlushHoldQueue
    <2>1. ~silent /\ silent' = silent /\ kskb = NoRec
      BY <1>7 DEF FlushHoldQueue, KauditdInv, ghost
    <2>2. CASE /\ hold # <<>> /\ kskb' = hold[1] /\ hold' = Tail(hold) /\ kpc' = "flushing"
      <3>1. hold \in Seq(Record) /\ \A i \in 1 .. Len(hold) : hold[i] = "old"
        BY DEF TypeInv, KauditdInv
      <3>2. hold[1] = "old" /\ \A i \in 1 .. Len(Tail(hold)) : Tail(hold)[i] = "old"
        BY <2>2, <3>1
      <3> QED BY <2>1, <2>2, <3>2 DEF KauditdInv
    <2>3. CASE kpc' = "dequeue" /\ UNCHANGED <<kskb, hold>>
      BY <2>1, <2>3 DEF KauditdInv
    <2> QED BY <1>7, <2>2, <2>3 DEF FlushHoldQueue
  <1>8. CASE Flushing
    <2>1. kskb = "old" /\ ~silent /\ UNCHANGED hold
      BY <1>8 DEF Flushing, KauditdInv
    <2>2. CASE kpc' = "send" /\ UNCHANGED <<kskb, ghost>>
      BY <2>1, <2>2 DEF KauditdInv, ghost, Record
    <2>3. CASE kpc' = "dequeue" /\ kskb' = NoRec /\ Free(kskb)
      <3>1. ~silent'
        BY <2>1, <2>3 DEF Free
      <3> QED BY <2>1, <2>3, <3>1 DEF KauditdInv
    <2> QED BY <1>8, <2>2, <2>3 DEF Flushing
  <1>9. CASE Dequeue
    <2>1. queue \in Seq(Record) /\ queue # <<>>
      BY <1>9 DEF Dequeue, TypeInv
    <2>2. queue[1] \in Record
      BY <2>1
    <2>3. kpc' = "choose" /\ kskb' = queue[1] /\ UNCHANGED <<hold, silent>>
      BY <1>9 DEF Dequeue, KGoto, ghost
    <2> QED BY <2>2, <2>3 DEF KauditdInv
  <1>10. CASE KauditdWait
    BY <1>10 DEF KauditdWait, KGoto, KauditdInv, ghost
  <1>11. CASE Choose
    BY <1>11 DEF Choose, KGoto, KauditdInv, ghost, Record
  <1>12. CASE KauditdSendSkb
    <2>1. kskb \in Record /\ UNCHANGED <<hold, silent>>
      BY <1>12 DEF KauditdSendSkb, KauditdInv, ghost
    <2>2. \/ kpc' = NextRecord /\ kskb' = NoRec
          \/ kpc' \in {"hold", "reset_pid"} /\ kskb' = "old"
          \/ kpc' \in {"oops", "resched"} /\ UNCHANGED kskb
      BY <1>12 DEF KauditdSendSkb
    <2> QED BY <2>1, <2>2 DEF KauditdInv, NextRecord
  <1>13. CASE Rescheduled
    BY <1>13 DEF Rescheduled, KGoto, KauditdInv, ghost
  <1>14. CASE ResetDaemon
    BY <1>14 DEF ResetDaemon, KGoto, KauditdInv, ghost
  <1>15. CASE KauditdHold
    <2>1. kskb = "old" /\ AuditHoldSkb("old")
      BY <1>15 DEF KauditdHold, KGoto, KauditdInv
    <2>2. (\A i \in 1 .. Len(hold') : hold'[i] = "old") /\ ~silent'
      BY <2>1, HoldsOld
    <2>3. kpc' \in {"reflush", "flush"} /\ kskb' = NoRec
      BY <1>15 DEF KauditdHold, KGoto, NextRecord
    <2> QED BY <2>2, <2>3 DEF KauditdInv
  <1> QED BY <1>2, <1>3, <1>4, <1>5, <1>6, <1>7, <1>8, <1>9, <1>10, <1>11, <1>12, <1>13,
             <1>14, <1>15
       DEF Next, Kauditd, TaskStep

-----------------------------------------------------------------------------
\* 1 for a record in kauditd's hands.
InHand(k) == IF k # NoRec THEN 1 ELSE 0

\* The skbs, counted: by the tasks that have one, in the queues, with kauditd.
Owned(p, q, h, k) == CountOf(p, Owning) + Len(q) + Len(h) + InHand(k)

\* OneOwner says that this is the number of skbs that are not freed.
LEMMA OneOwnerCounts ==
  /\ OneOwner <=> live = Owned(pc, queue, hold, kskb)
  /\ OneOwner' <=> live' = Owned(pc', queue', hold', kskb')
  BY Zenon DEF OneOwner, Owned, CountOf, Owning, InHand

\* The numbers that are added up.
LEMMA Lengths ==
  ASSUME TypeInv
  PROVE  /\ Len(queue) \in Nat /\ Len(hold) \in Nat /\ live \in Int
         /\ CountOf(pc, Owning) \in Nat /\ CountOf(pc, Queuing) \in Nat
         /\ \A r \in Record : /\ Len(Append(queue, r)) = Len(queue) + 1
                              /\ Len(Append(hold, r)) = Len(hold) + 1
         /\ queue # <<>> => Len(Tail(queue)) = Len(queue) - 1
         /\ hold # <<>> => Len(Tail(hold)) = Len(hold) - 1
  <1>1. CountOf(pc, Owning) \in Nat /\ CountOf(pc, Queuing) \in Nat
    BY CountBound
  <1>2. queue \in Seq(Record) /\ hold \in Seq(Record) /\ live \in Int
    BY DEF TypeInv
  <1> QED BY <1>1, <1>2

\* Nothing is leaked and nothing freed twice: every step that frees, allocates
\* or moves an skb keeps the count.
LEMMA OwnerStep ==
  ASSUME TypeInv, WaitInv, KauditdInv, OneOwner, Next
  PROVE  OneOwner'
  <1> SUFFICES live' = Owned(pc', queue', hold', kskb')
    BY OneOwnerCounts
  <1>0. live = Owned(pc, queue, hold, kskb)
    BY OneOwnerCounts
  <1>1. CASE CountOf(pc', Owning) = CountOf(pc, Owning) /\ UNCHANGED <<queue, hold, kskb, live>>
    BY <1>0, <1>1 DEF Owned
  <1>2. ASSUME NEW t \in Tasks, NEW from, NEW to, Goto(t, from, to)
        PROVE  CountOf(pc', Owning) = CountOf(pc, Owning) - (IF from \in Owning THEN 1 ELSE 0)
                                                          + (IF to \in Owning THEN 1 ELSE 0)
    BY <1>2, GotoFacts
  <1>3. ASSUME NEW t \in Tasks, NEW from, NEW to, Goto(t, from, to),
               (from \in Owning) = (to \in Owning)
        PROVE  CountOf(pc', Owning) = CountOf(pc, Owning)
    BY <1>2, <1>3, Lengths
  <1>4. \A t \in Tasks : loc[t].ret \notin Owning
    BY LocFacts DEF Owning
  <1>5. ASSUME NEW t \in Tasks, AuditLogStart(t)
        PROVE  live' = Owned(pc', queue', hold', kskb')
    <2>1. CASE Admit(t)
      <3>1. UNCHANGED <<queue, hold, kskb>>
        BY <2>1 DEF Admit, others, kauditd
      <3>2. CASE Goto(t, "check", "end") /\ live' = live + 1
        <4>1. CountOf(pc', Owning) = CountOf(pc, Owning) - 0 + 1
          BY <1>2, <3>2 DEF Owning
        <4>2. InHand(kskb) \in Nat
          BY DEF InHand
        <4> QED BY <1>0, <3>1, <3>2, <4>1, <4>2, Lengths DEF Owned
      <3>3. CASE Return(t, "check") /\ UNCHANGED live
        <4>1. CountOf(pc', Owning) = CountOf(pc, Owning)
          BY <1>3, <1>4, <3>3 DEF Return, Owning
        <4> QED BY <1>1, <3>1, <3>3, <4>1
      <3> QED BY <2>1, <3>2, <3>3 DEF Admit
    <2>2. CASE WaitForAuditd(t)
      <3>1. CountOf(pc', Owning) = CountOf(pc, Owning)
        BY <1>3, <2>2 DEF WaitForAuditd, Owning
      <3> QED BY <1>1, <2>2, <3>1 DEF WaitForAuditd, others, kauditd, ghost
    <2>3. CASE GiveUp(t)
      <3>1. CountOf(pc', Owning) = CountOf(pc, Owning)
        BY <2>3, GiveUpFacts
      <3> QED BY <1>1, <2>3, <3>1 DEF GiveUp, others, kauditd, ghost
    <2> QED BY <1>5, <2>1, <2>2, <2>3 DEF AuditLogStart
  <1>6. ASSUME NEW t \in Tasks, TimeUp(t)
        PROVE  live' = Owned(pc', queue', hold', kskb')
    <2>1. CountOf(pc', Owning) = CountOf(pc, Owning)
      BY <1>6, TimeUpFacts
    <2> QED BY <1>1, <1>6, <2>1 DEF TimeUp, others, kauditd, ghost
  <1>7. ASSUME NEW t \in Tasks, AuditLogEnd(t)
        PROVE  live' = Owned(pc', queue', hold', kskb')
    <2>0. InHand(kskb) \in Nat
      BY DEF InHand
    <2>1. ASSUME NEW from \in Owning, Return(t, from)
          PROVE  CountOf(pc', Owning) = CountOf(pc, Owning) - 1 + 0
      BY <1>2, <1>4, <2>1 DEF Return
    <2>2. CASE EndRateLimited(t)
      <3>1. CountOf(pc', Owning) = CountOf(pc, Owning) - 1 + 0
        BY <2>1, <2>2 DEF EndRateLimited, Owning
      <3>2. live' = live - 1 /\ UNCHANGED <<queue, hold, kskb>>
        BY <2>2 DEF EndRateLimited, Free, others, kauditd
      <3> QED BY <1>0, <2>0, <3>1, <3>2, Lengths DEF Owned
    <2>3. CASE EndDirect(t)
      <3>1. CountOf(pc', Owning) = CountOf(pc, Owning)
        BY <1>3, <2>3 DEF EndDirect, Owning
      <3> QED BY <1>1, <2>3, <3>1 DEF EndDirect, others, kauditd, ghost
    <2>4. CASE EndQueue(t)
      <3>1. CountOf(pc', Owning) = CountOf(pc, Owning) - 1 + 0
        BY <2>1, <2>4 DEF EndQueue, Owning
      <3>2. Len(queue') = Len(queue) + 1 /\ UNCHANGED <<hold, kskb, live>>
        BY <2>4, Lengths DEF EndQueue, others, kauditd, ghost, Record
      <3> QED BY <1>0, <2>0, <3>1, <3>2, Lengths DEF Owned
    <2>5. CASE EndPrintk(t)
      <3>1. CountOf(pc', Owning) = CountOf(pc, Owning) - 1 + 0
        BY <2>1, <2>5 DEF EndPrintk, Owning
      <3>2. UNCHANGED <<queue, kskb>>
        BY <2>5 DEF EndPrintk, others, kauditd
      <3>3. \/ hold' = Append(hold, "old") /\ live' = live
            \/ hold' = hold /\ live' = live - 1
        BY <2>5, Holds DEF EndPrintk
      <3>4. CASE hold' = Append(hold, "old") /\ live' = live
        <4>1. Len(hold') = Len(hold) + 1
          BY <3>4, Lengths DEF Record
        <4> QED BY <1>0, <2>0, <3>1, <3>2, <3>4, <4>1, Lengths DEF Owned
      <3>5. CASE hold' = hold /\ live' = live - 1
        BY <1>0, <2>0, <3>1, <3>2, <3>5, Lengths DEF Owned
      <3> QED BY <3>3, <3>4, <3>5
    <2> QED BY <1>7, <2>2, <2>3, <2>4, <2>5 DEF AuditLogEnd
  <1>8. ASSUME NEW d \in Daemons, SetDaemon(d)
        PROVE  live' = Owned(pc', queue', hold', kskb')
    <2>1. d \in Tasks
      BY AuditLogAssumption
    <2>2. CountOf(pc', Owning) = CountOf(pc, Owning)
      BY <1>3, <1>8, <2>1 DEF SetDaemon, Owning
    <2> QED BY <1>1, <1>8, <2>2 DEF SetDaemon, kauditd, ghost
  <1>9. ASSUME NEW d \in Daemons, Register(d) \/ Unregister(d)
        PROVE  live' = Owned(pc', queue', hold', kskb')
    <2>1. CountOf(pc', Owning) = CountOf(pc, Owning)
      BY <1>3, <1>9, RegisterFacts DEF Owning
    <2> QED BY <1>1, <1>9, <2>1, RegisterFacts DEF kauditd
  <1>10. ASSUME NEW d \in Daemons, DaemonDies(d) \/ DaemonStarts(d)
         PROVE  live' = Owned(pc', queue', hold', kskb')
    BY <1>1, <1>10 DEF DaemonDies, DaemonStarts, kauditd, ghost
  <1>11. ASSUME NEW t \in Tasks, NEW w \in BOOLEAN, Log(t, w)
         PROVE  live' = Owned(pc', queue', hold', kskb')
    <2>1. CountOf(pc', Owning) = CountOf(pc, Owning)
      BY <1>3, <1>11 DEF Log, Call, Owning
    <2> QED BY <1>1, <1>11, <2>1 DEF Log, kauditd, ghost
  <1>12. CASE KauditdWait \/ Rescheduled \/ ResetDaemon \/ AuditNetExit
    BY <1>1, <1>12 DEF KauditdWait, Rescheduled, ResetDaemon, AuditNetExit, kauditd, ghost
  <1>13. CASE FlushHoldQueue
    <2>1. UNCHANGED <<pc, queue, live>> /\ kskb = NoRec
      BY <1>13 DEF FlushHoldQueue, ghost, KauditdInv
    <2>2. CASE hold # <<>> /\ kskb' = hold[1] /\ hold' = Tail(hold)
      <3>1. hold[1] # NoRec
        BY <2>2 DEF TypeInv, Record, NoRec
      <3>2. InHand(kskb) = 0 /\ InHand(kskb') = 1
        BY <2>1, <2>2, <3>1 DEF InHand
      <3> QED BY <1>0, <2>1, <2>2, <3>2, Lengths DEF Owned
    <2>3. CASE UNCHANGED <<kskb, hold>>
      BY <1>1, <2>1, <2>3
    <2> QED BY <1>13, <2>2, <2>3 DEF FlushHoldQueue
  <1>14. CASE Flushing
    <2>1. UNCHANGED <<pc, queue, hold>> /\ kskb = "old"
      BY <1>14 DEF Flushing, KauditdInv
    <2>2. CASE UNCHANGED <<kskb, ghost>>
      BY <1>1, <2>1, <2>2 DEF ghost
    <2>3. CASE kskb' = NoRec /\ live' = live - 1
      <3>1. InHand(kskb) = 1 /\ InHand(kskb') = 0
        BY <2>1, <2>3 DEF InHand, NoRec
      <3> QED BY <1>0, <2>1, <2>3, <3>1, Lengths DEF Owned
    <2> QED BY <1>14, <2>2, <2>3 DEF Flushing, Free
  <1>15. CASE Dequeue
    <2>1. /\ kskb = NoRec /\ kskb' = queue[1] /\ queue # <<>> /\ queue' = Tail(queue)
          /\ UNCHANGED <<hold, live>>
      BY <1>15 DEF Dequeue, KGoto, KauditdInv, ghost
    <2>2. queue[1] # NoRec
      BY <2>1 DEF TypeInv, Record, NoRec
    <2>3. InHand(kskb) = 0 /\ InHand(kskb') = 1
      BY <2>1, <2>2 DEF InHand
    <2>4. CountOf(pc', Owning) = CountOf(pc, Owning)
      BY <1>15, Wakes DEF Dequeue, WaitInv, TypeInv
    <2> QED BY <1>0, <2>1, <2>3, <2>4, Lengths DEF Owned
  <1>16. CASE Choose
    <2>1. UNCHANGED <<pc, queue, hold, live>> /\ kskb \in Record /\ kskb' \in Record
      BY <1>16 DEF Choose, KGoto, KauditdInv, ghost, Record
    <2>2. InHand(kskb) = 1 /\ InHand(kskb') = 1
      BY <2>1 DEF InHand, Record, NoRec
    <2> QED BY <1>0, <2>1, <2>2 DEF Owned
  <1>17. CASE KauditdSendSkb
    <2>1. UNCHANGED <<pc, queue, hold>> /\ kskb \in Record
      BY <1>17 DEF KauditdSendSkb, KauditdInv
    <2>2. InHand(kskb) = 1 /\ InHand(NoRec) = 0 /\ InHand("old") = 1
      BY <2>1 DEF InHand, Record, NoRec
    <2>3. \/ kskb' = NoRec /\ live' = live - 1
          \/ kskb' = "old" /\ UNCHANGED live
          \/ UNCHANGED <<kskb, live>>
      BY <1>17 DEF KauditdSendSkb, ghost
    <2> QED BY <1>0, <2>1, <2>2, <2>3, Lengths DEF Owned
  <1>18. CASE KauditdHold
    <2>1. UNCHANGED <<pc, queue>> /\ kskb = "old" /\ kskb' = NoRec /\ AuditHoldSkb("old")
      BY <1>18 DEF KauditdHold, KGoto, KauditdInv
    <2>2. InHand(kskb) = 1 /\ InHand(kskb') = 0
      BY <2>1 DEF InHand, NoRec
    <2>3. \/ hold' = Append(hold, "old") /\ live' = live
          \/ hold' = hold /\ live' = live - 1
      BY <2>1, Holds
    <2>4. CASE hold' = Append(hold, "old") /\ live' = live
      <3>1. Len(hold') = Len(hold) + 1
        BY <2>4, Lengths DEF Record
      <3> QED BY <1>0, <2>1, <2>2, <2>4, <3>1, Lengths DEF Owned
    <2>5. CASE hold' = hold /\ live' = live - 1
      BY <1>0, <2>1, <2>2, <2>5, Lengths DEF Owned
    <2> QED BY <2>3, <2>4, <2>5
  <1> QED BY <1>5, <1>6, <1>7, <1>8, <1>9, <1>10, <1>11, <1>12, <1>13, <1>14, <1>15, <1>16,
             <1>17, <1>18
       DEF Next, Kauditd, TaskStep

-----------------------------------------------------------------------------
\* BacklogBound counts the tasks that are going to queue a record.
LEMMA BacklogCounts ==
  /\ BacklogBound <=>
       (conf.limit # 0 => Len(queue) + CountOf(pc, Queuing)
                            <= conf.limit + Reserve + Cardinality(Tasks))
  /\ BacklogBound' <=>
       (conf'.limit # 0 => Len(queue') + CountOf(pc', Queuing)
                             <= conf'.limit + Reserve + Cardinality(Tasks))
  BY Zenon DEF BacklogBound, CountOf, Queuing

\* The bound is kept: only audit_log_start makes one more task that will queue,
\* and then the queue is at most Reserve over the limit and that task is not
\* yet counted.
LEMMA BacklogStep ==
  ASSUME TypeInv, WaitInv, BacklogBound, Next
  PROVE  BacklogBound'
  <1> DEFINE Bound == conf.limit + Reserve + Cardinality(Tasks)
  <1>0. conf' = conf
    BY DEF Next, Kauditd, TaskStep, AuditLogStart, AuditLogEnd, Admit, WaitForAuditd, GiveUp,
       EndRateLimited, EndDirect, EndQueue, EndPrintk, SetDaemon, TimeUp, Log, Register,
       Unregister, DaemonDies, DaemonStarts, Rescheduled, AuditNetExit, FlushHoldQueue, Flushing,
       Dequeue, KauditdWait, Choose, KauditdSendSkb, ResetDaemon, KauditdHold, KUnchanged, others
  <1> SUFFICES ASSUME conf.limit # 0
               PROVE  Len(queue') + CountOf(pc', Queuing) <= Bound
    BY <1>0, BacklogCounts
  <1>1. Len(queue) + CountOf(pc, Queuing) <= Bound
    BY BacklogCounts
  <1>2. Bound \in Nat /\ conf.limit \in Nat /\ Reserve \in Nat /\ Cardinality(Tasks) \in Nat
    BY LocFacts, CountBound
  <1> HIDE DEF Bound
  <1>3. CASE CountOf(pc', Queuing) = CountOf(pc, Queuing) /\ UNCHANGED queue
    BY <1>1, <1>3
  <1>4. ASSUME NEW t \in Tasks, NEW from, NEW to, Goto(t, from, to)
        PROVE  CountOf(pc', Queuing) = CountOf(pc, Queuing) - (IF from \in Queuing THEN 1 ELSE 0)
                                                            + (IF to \in Queuing THEN 1 ELSE 0)
    BY <1>4, GotoFacts
  <1>5. ASSUME NEW t \in Tasks, NEW from, NEW to, Goto(t, from, to), to \notin Queuing,
               UNCHANGED queue
        PROVE  Len(queue') + CountOf(pc', Queuing) <= Bound
    BY <1>1, <1>2, <1>4, <1>5, Lengths
  <1>6. \A t \in Tasks : loc[t].ret \notin Queuing
    BY LocFacts DEF Queuing
  <1>7. ASSUME NEW t \in Tasks, AuditLogStart(t)
        PROVE  Len(queue') + CountOf(pc', Queuing) <= Bound
    <2>1. CASE Admit(t)
      <3>1. CASE Goto(t, "check", "end")
        <4>1. CountOf(pc', Queuing) = CountOf(pc, Queuing) - 0 + 1
          BY <1>4, <3>1 DEF Queuing
        <4>2. pc[t] \notin Queuing
          BY <3>1 DEF Goto, Queuing
        <4>3. CountOf(pc, Queuing) + 1 <= Cardinality(Tasks)
          BY <4>2, CountBound
        <4>4. ~(Len(queue) > conf.limit + loc[t].reserve) /\ UNCHANGED queue
          BY <2>1 DEF Admit, Over
        <4>5. Len(queue) <= conf.limit + Reserve
          BY <1>2, <4>4, LocFacts, Lengths
        <4> QED BY <1>2, <4>1, <4>3, <4>4, <4>5, Lengths DEF Bound
      <3>2. CASE Return(t, "check")
        BY <1>5, <1>6, <2>1, <3>2 DEF Admit, Return
      <3> QED BY <2>1, <3>1, <3>2 DEF Admit
    <2>2. CASE WaitForAuditd(t)
      BY <1>5, <2>2 DEF WaitForAuditd, Queuing
    <2>3. CASE GiveUp(t)
      BY <1>3, <2>3, GiveUpFacts DEF GiveUp
    <2> QED BY <1>7, <2>1, <2>2, <2>3 DEF AuditLogStart
  <1>8. ASSUME NEW t \in Tasks, TimeUp(t)
        PROVE  Len(queue') + CountOf(pc', Queuing) <= Bound
    BY <1>3, <1>8, TimeUpFacts DEF TimeUp
  <1>9. ASSUME NEW t \in Tasks, AuditLogEnd(t)
        PROVE  Len(queue') + CountOf(pc', Queuing) <= Bound
    <2>1. CASE EndRateLimited(t)
      BY <1>5, <1>6, <2>1 DEF EndRateLimited, Return
    <2>2. CASE EndDirect(t)
      <3>1. PICK to \in {"queue", "printk"} : Goto(t, "end", to)
        BY <2>2 DEF EndDirect
      <3>2. CountOf(pc', Queuing) = CountOf(pc, Queuing) - 1 + (IF to \in Queuing THEN 1 ELSE 0)
        BY <1>4, <3>1 DEF Queuing
      <3> QED BY <1>1, <1>2, <2>2, <3>2, Lengths DEF EndDirect
    <2>3. CASE EndQueue(t)
      <3>1. CountOf(pc', Queuing) = CountOf(pc, Queuing) - 1 + 0
        BY <1>4, <1>6, <2>3 DEF EndQueue, Return, Queuing
      <3>2. Len(queue') = Len(queue) + 1
        BY <2>3, Lengths DEF EndQueue, Record
      <3> QED BY <1>1, <1>2, <3>1, <3>2, Lengths
    <2>4. CASE EndPrintk(t)
      BY <1>5, <1>6, <2>4 DEF EndPrintk, Return
    <2> QED BY <1>9, <2>1, <2>2, <2>3, <2>4 DEF AuditLogEnd
  <1>10. ASSUME NEW d \in Daemons, SetDaemon(d)
         PROVE  Len(queue') + CountOf(pc', Queuing) <= Bound
    <2>1. d \in Tasks
      BY AuditLogAssumption
    <2> QED BY <1>5, <1>10, <2>1 DEF SetDaemon, Queuing
  <1>11. ASSUME NEW d \in Daemons, Register(d) \/ Unregister(d)
         PROVE  Len(queue') + CountOf(pc', Queuing) <= Bound
    BY <1>5, <1>11, RegisterFacts DEF Queuing
  <1>12. ASSUME NEW d \in Daemons, DaemonDies(d) \/ DaemonStarts(d)
         PROVE  Len(queue') + CountOf(pc', Queuing) <= Bound
    BY <1>3, <1>12 DEF DaemonDies, DaemonStarts
  <1>13. ASSUME NEW t \in Tasks, NEW w \in BOOLEAN, Log(t, w)
         PROVE  Len(queue') + CountOf(pc', Queuing) <= Bound
    BY <1>5, <1>13 DEF Log, Call, Queuing
  <1>14. CASE Dequeue
    <2>1. CountOf(pc', Queuing) = CountOf(pc, Queuing)
      BY <1>14, Wakes DEF Dequeue, WaitInv, TypeInv
    <2>2. Len(queue') = Len(queue) - 1
      BY <1>14, Lengths DEF Dequeue
    <2> QED BY <1>1, <1>2, <2>1, <2>2, Lengths
  <1>15. CASE \/ FlushHoldQueue \/ Flushing \/ KauditdWait \/ Choose \/ KauditdSendSkb
              \/ ResetDaemon \/ KauditdHold \/ Rescheduled \/ AuditNetExit
    BY <1>3, <1>15 DEF FlushHoldQueue, Flushing, KauditdWait, Choose, KauditdSendSkb,
       ResetDaemon, KauditdHold, Rescheduled, AuditNetExit
  <1> QED BY <1>7, <1>8, <1>9, <1>10, <1>11, <1>12, <1>13, <1>14, <1>15
       DEF Next, Kauditd, TaskStep

-----------------------------------------------------------------------------
\* The inductive invariant holds at the start.
LEMMA InitIInv == Init => IInv
  <1> SUFFICES ASSUME Init PROVE IInv
    OBVIOUS
  <1>1. TypeInv
    <2>1. sock \in BOOLEAN
      BY DEF Init
    <2>2. NoCall \in Loc
      BY DEF NoCall, Loc
    <2>3. /\ pc \in [Tasks -> Pcs] /\ loc \in [Tasks -> Loc]
          /\ queue \in Seq(Record) /\ hold \in Seq(Record) /\ waiters \in Seq(Tasks)
      BY <2>2 DEF Init, Pcs
    <2>4. attempts \in 0 .. Retries /\ live \in Int
      BY AuditLogAssumption DEF Init
    <2> QED BY <2>1, <2>3, <2>4 DEF Init, TypeInv
  <1>2. WaitInv
    BY DEF Init, WaitInv, Waiting
  <1>3. KauditdInv
    BY DEF Init, KauditdInv
  <1>4. /\ CountOf(pc, Owning) = 0 /\ CountOf(pc, Queuing) = 0
    <2>1. /\ {u \in Tasks : pc[u] \in Owning} = {}
          /\ {u \in Tasks : pc[u] \in Queuing} = {}
      BY DEF Init, Owning, Queuing
    <2> QED BY <2>1, FS_EmptySet DEF CountOf
  <1>5. OneOwner
    <2>1. live = Owned(pc, queue, hold, kskb)
      BY <1>4 DEF Init, Owned, InHand
    <2> QED BY <2>1, OneOwnerCounts
  <1>6. BacklogBound
    <2>1. conf.limit \in Nat /\ Reserve \in Nat /\ Cardinality(Tasks) \in Nat
      BY <1>1, LocFacts, CountBound
    <2>2. Len(queue) = 0
      BY DEF Init
    <2> QED BY <1>4, <2>1, <2>2, BacklogCounts
  <1> QED BY <1>1, <1>2, <1>3, <1>5, <1>6 DEF IInv

\* Every step, and every stuttering step, keeps the inductive invariant.
LEMMA NextIInv == IInv /\ [Next]_vars => IInv'
  <1> SUFFICES ASSUME IInv, [Next]_vars PROVE IInv'
    OBVIOUS
  <1>1. CASE Next
    BY <1>1, TypeStep, WaitStep, KauditdStep, OwnerStep, BacklogStep DEF IInv
  <1>2. CASE UNCHANGED vars
    <2>1. TypeInv' /\ WaitInv' /\ KauditdInv'
      BY <1>2 DEF IInv, TypeInv, WaitInv, KauditdInv, vars, reg, backlog, kauditd, world, ghost
    <2>2. OneOwner' /\ BacklogBound'
      BY <1>2 DEF IInv, OneOwner, BacklogBound, vars, kauditd, ghost
    <2> QED BY <2>1, <2>2 DEF IInv
  <1> QED BY <1>1, <1>2

\* What the inductive invariant is for.
LEMMA IInvImplies == IInv => RecordsAccounted /\ BacklogBound
  <1> SUFFICES ASSUME IInv PROVE RecordsAccounted /\ BacklogBound
    OBVIOUS
  <1>1. TypeInv /\ WaitInv /\ OneOwner /\ ~silent
    BY DEF IInv, KauditdInv
  <1>2. live \in Nat
    <2>1. live = Owned(pc, queue, hold, kskb)
      BY <1>1, OneOwnerCounts
    <2>2. InHand(kskb) \in Nat
      BY DEF InHand
    <2> QED BY <1>1, <2>1, <2>2, Lengths DEF Owned
  <1>3. \A t \in Tasks : (pc[t] = "sleep") = (t \in RangeOf(waiters))
    <2>1. DOMAIN waiters = 1 .. Len(waiters)
      BY <1>1 DEF TypeInv
    <2> QED BY <1>1, <2>1 DEF WaitInv, Waiting, RangeOf
  <1>4. TypeOK
    BY <1>1, <1>2, <1>3, LocFacts DEF TypeOK, TypeInv, reg
  <1> QED BY <1>1, <1>4 DEF RecordsAccounted, NoSilentLoss, IInv

(***************************************************************************)
(* The inductive invariant holds in every behaviour.                       *)
(***************************************************************************)
THEOREM Invariance == Spec => []IInv
  BY InitIInv, NextIInv, PTL DEF Spec

(***************************************************************************)
(* Every record is accounted for: no skb is leaked, freed twice or freed   *)
(* while it is in a queue, and none disappears that was not sent, printed  *)
(* or counted, however the steps of the tasks that log, of kauditd and of  *)
(* the daemons that come and go interleave.                                *)
(***************************************************************************)
THEOREM RecordsCorrect == Spec => []RecordsAccounted
  BY Invariance, IInvImplies, PTL

(***************************************************************************)
(* The backlog never exceeds the limit by more than the reserve and one    *)
(* record of every task, although audit_log_end queues without a test.     *)
(***************************************************************************)
THEOREM BacklogBounded == Spec => []BacklogBound
  BY Invariance, IInvImplies, PTL
=============================================================================
