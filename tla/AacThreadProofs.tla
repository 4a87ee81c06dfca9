-------------------------- MODULE AacThreadProofs ---------------------------
(***************************************************************************)
(* Proofs about the command thread of the aacraid driver, the reset of the *)
(* adapter and the way of its events to the programs, for any events, any  *)
(* number of threads and programs, and any number of failures and resets.  *)
(***************************************************************************)
EXTENDS AacThread, FiniteSetTheorems, TLAPS

Pcs == Serving \cup {"none", "new", "exited", "oops", "hung", "idle"}

Dev == [thread : Threads, aif_thread : BOOLEAN, in_reset : BOOLEAN, queues : BOOLEAN]

Entry == [needed : {"NOTHING", "ADD", "DELETE", "CHANGE"},
          waiting : {"nothing", "ConfigChange", "ContainerChange"},
          fresh : BOOLEAN, valid : BOOLEAN]

TypeInv ==
  /\ pc \in [Actors -> Pcs]
  /\ dev \in Dev
  /\ fsa \in [Containers -> Entry]
  /\ DOMAIN devices = Containers \cup Disks

\* Whoever resets the adapter is alone; a thread that has not been made yet is
\* nowhere, so making it takes no reset away from anybody.
ResetInv ==
  /\ \A a, b \in Actors : pc[a] \in Resetting /\ pc[b] \in Resetting => a = b
  /\ dev.in_reset <=> \E a \in Actors : pc[a] \in Resetting
  /\ \A t \in Threads : t > dev.thread => pc[t] = "none"

IInv == TypeInv /\ ResetInv /\ ArraysAreSettled

-----------------------------------------------------------------------------
\* The actors are numbered, the error handler before all threads.
LEMMA ActorFacts ==
  /\ MaxThreads \in Nat \ {0} /\ Threads \subseteq Actors /\ Threads \subseteq Nat
  /\ Eh \in Actors /\ Eh \notin Threads /\ 1 \in Threads
  BY AacThreadAssumption DEF Threads, Actors, Eh

\* A new thread gets the next number.
LEMMA NextThread ==
  ASSUME dev \in Dev, dev.thread < MaxThreads
  PROVE  /\ dev.thread + 1 \in Threads /\ dev.thread + 1 \in Actors
         /\ dev.thread + 1 > dev.thread
         /\ \A t \in Threads : t > dev.thread + 1 => t > dev.thread
  <1>1. dev.thread \in Threads
    BY DEF Dev
  <1> QED BY <1>1, ActorFacts DEF Threads

-----------------------------------------------------------------------------
(***************************************************************************)
(* The threads and the reset.                                              *)
(***************************************************************************)
\* What a step does to the places of the actors and to the device, as far as
\* resets go.
\* An actor moves, and its move is not into or out of a reset.
Moves(a) ==
  /\ \E to \in Pcs : /\ pc' = [pc EXCEPT ![a] = to]
                     /\ pc[a] \in Resetting <=> to \in Resetting
                     /\ a \in Threads => pc[a] # "none"
  /\ dev' \in Dev /\ dev'.thread = dev.thread /\ dev'.in_reset = dev.in_reset

\* It begins a reset, which nobody else does; or ends its own.
Begins(a) ==
  /\ \E to \in Resetting : pc' = [pc EXCEPT ![a] = to]
  /\ a \in Threads => pc[a] # "none"
  /\ ~dev.in_reset /\ dev' = [dev EXCEPT !.in_reset = TRUE]

Ends(a) ==
  /\ pc[a] \in Resetting
  /\ \E to \in Pcs \ Resetting : pc' = [pc EXCEPT ![a] = to]
  /\ dev' = [dev EXCEPT !.in_reset = FALSE]

\* A thread is made, by a program or by whoever resets.
Makes(p) ==
  /\ pc' = [p EXCEPT ![dev.thread + 1] = "new"]
  /\ dev.thread < MaxThreads
  /\ dev' \in Dev /\ dev'.thread = dev.thread + 1 /\ dev'.in_reset = dev.in_reset

ThreadMoves ==
  \/ UNCHANGED <<pc, dev>>
  \/ \E a \in Actors : Moves(a) \/ Begins(a) \/ Ends(a)
  \/ Makes(pc)
  \/ \E a \in Actors : pc[a] = "init" /\ Makes([pc EXCEPT ![a] = "out"])

\* Every step is one of these.
LEMMA StepMoves ==
  ASSUME TypeInv, Next
  PROVE  ThreadMoves
  <1> USE ActorFacts DEF TypeInv
  <1>1. dev \in Dev /\ dev.thread \in Threads
    BY DEF Dev
  <1>2. ASSUME NEW t \in Threads,
               Oops(t) \/ TakeEvent(t) \/ Handle(t) \/ FanOut(t) \/ Complete(t) \/ Sleep(t)
        PROVE  Moves(t)
    <2> USE DEF Goto, Moves, Pcs, Serving, Resetting
    <2>1. CASE Oops(t)
      BY <2>1 DEF Oops
    <2>2. CASE TakeEvent(t)
      BY <2>2 DEF TakeEvent
    <2>3. CASE Handle(t)
      <3>1. pc[t] = "handle" /\ UNCHANGED dev
            /\ (pc' = [pc EXCEPT ![t] = "answer"] \/ pc' = [pc EXCEPT ![t] = "fan"])
        BY <2>3 DEF Handle
      <3> QED BY <3>1
    <2>4. CASE FanOut(t)
      <3>1. pc[t] = "fan" /\ UNCHANGED dev /\ pc' = [pc EXCEPT ![t] = "complete"]
        BY <2>4 DEF FanOut
      <3> QED BY <3>1
    <2>5. CASE Complete(t)
      <3>1. pc[t] \in {"complete", "answer"} /\ UNCHANGED dev /\ pc' = [pc EXCEPT ![t] = "top"]
        BY <2>5 DEF Complete
      <3> QED BY <3>1
    <2>6. CASE Sleep(t)
      BY <2>6 DEF Sleep
    <2> QED BY <1>2, <2>1, <2>2, <2>3, <2>4, <2>5, <2>6
  <1>3. ASSUME NEW t \in Threads, Start(t) \/ Break(t)
        PROVE  Moves(t)
    <2>1. \/ pc[t] = "new" /\ pc' = [pc EXCEPT ![t] = "exited"] /\ dev' = dev
          \/ pc[t] = "new" /\ pc' = [pc EXCEPT ![t] = "top"] /\ dev' = [dev EXCEPT !.aif_thread = TRUE]
          \/ /\ pc[t] = "break" /\ pc' = [pc EXCEPT ![t] = "exited"]
             /\ dev' = [dev EXCEPT !.aif_thread = FALSE]
      BY <1>3 DEF Start, Break, Goto
    <2>2. dev' \in Dev /\ dev'.thread = dev.thread /\ dev'.in_reset = dev.in_reset
      BY <2>1 DEF Dev
    <2> QED BY <2>1, <2>2 DEF Moves, Pcs, Serving, Resetting
  <1>4. ASSUME NEW t \in Threads, CheckHealth(t)
        PROVE  Begins(t)
    <2>1. /\ pc[t] = "health" /\ ~dev.in_reset /\ dev' = [dev EXCEPT !.in_reset = TRUE]
          /\ pc' = [pc EXCEPT ![t] = IF hw.health = "dead" THEN "out"
                                     ELSE IF t = dev.thread THEN "restart" ELSE "stop"]
      BY <1>4 DEF CheckHealth, MayReset, Goto
    <2> QED BY <2>1 DEF Begins, Resetting
  <1>5. CASE ResetAdapter
    BY <1>5 DEF ResetAdapter, MayReset, Goto, ThreadMoves, Begins, Resetting
  <1>6. ASSUME NEW a \in Actors, ResetStep(a)
        PROVE  ThreadMoves
    <2>1. CASE StopThread(a) \/ ThreadStopped(a)
      <3>1. Moves(a)
        BY <2>1 DEF StopThread, ThreadStopped, Goto, Moves, Pcs, Serving, Resetting
      <3> QED BY <3>1 DEF ThreadMoves
    <2>2. CASE Restart(a)
      <3>1. /\ pc[a] = "restart" /\ (pc' = [pc EXCEPT ![a] = "out"] \/ pc' = [pc EXCEPT ![a] = "init"])
            /\ dev' = dev \/ dev' = [dev EXCEPT !.queues = FALSE]
        BY <2>2 DEF Restart, Goto
      <3>2. dev' \in Dev /\ dev'.thread = dev.thread /\ dev'.in_reset = dev.in_reset
        BY <3>1 DEF Dev
      <3>3. Moves(a)
        BY <3>1, <3>2 DEF Moves, Pcs, Serving, Resetting
      <3> QED BY <3>3 DEF ThreadMoves
    <2>3. CASE Reinit(a)
      <3>1. CASE pc' = [pc EXCEPT ![a] = "out"] /\ (dev' = dev \/ dev' = [dev EXCEPT !.queues = TRUE])
        <4>1. dev' \in Dev /\ dev'.thread = dev.thread /\ dev'.in_reset = dev.in_reset
          BY <3>1 DEF Dev
        <4>2. Moves(a)
          BY <2>3, <3>1, <4>1 DEF Reinit, Moves, Pcs, Serving, Resetting
        <4> QED BY <4>2 DEF ThreadMoves
      <3>2. CASE /\ dev.thread < MaxThreads
                 /\ pc' = [pc EXCEPT ![a] = "out", ![dev.thread + 1] = "new"]
                 /\ dev' = [dev EXCEPT !.queues = TRUE, !.thread = @ + 1]
        <4>1. dev' \in Dev /\ dev'.thread = dev.thread + 1 /\ dev'.in_reset = dev.in_reset
          BY <3>2, NextThread DEF Dev
        <4>2. pc[a] = "init" /\ Makes([pc EXCEPT ![a] = "out"])
          BY <2>3, <3>2, <4>1 DEF Reinit, Makes
        <4> QED BY <4>2 DEF ThreadMoves
      <3> QED BY <2>3, <3>1, <3>2 DEF Reinit, Goto
    <2>4. CASE ResetOut(a)
      <3>1. Ends(a)
        BY <2>4 DEF ResetOut, Goto, Ends, Pcs, Serving, Resetting
      <3> QED BY <3>1 DEF ThreadMoves
    <2> QED BY <1>6, <2>1, <2>2, <2>3, <2>4 DEF ResetStep
  <1>7. ASSUME NEW u \in Users, UserStep(u) \/ UserCall(u)
        PROVE  ThreadMoves
    <2>1. CASE RestartThread(u)
      <3>1. /\ dev.thread < MaxThreads /\ pc' = [pc EXCEPT ![dev.thread + 1] = "new"]
            /\ dev' = [dev EXCEPT !.aif_thread = FALSE, !.thread = @ + 1]
        BY <2>1 DEF RestartThread, KthreadRun
      <3>2. dev' \in Dev /\ dev'.thread = dev.thread + 1 /\ dev'.in_reset = dev.in_reset
        BY <3>1, NextThread DEF Dev
      <3> QED BY <3>1, <3>2 DEF Makes, ThreadMoves
    <2>2. CASE \/ NextFib(u) \/ NoFib(u) \/ Down(u) \/ CloseContext(u) \/ UseFreed(u)
               \/ OpenContext(u) \/ GiveUp(u) \/ FindContext(u)
      BY <2>2 DEF NextFib, NoFib, Down, CloseContext, UseFreed, OpenContext, GiveUp, FindContext,
                  ThreadMoves
    <2> QED BY <1>7, <2>1, <2>2 DEF UserStep, UserCall
  <1>8. CASE AdapterSends \/ Interrupt \/ AdapterTakesAnswer \/ AdapterFails \/ TimePasses
    BY <1>8 DEF AdapterSends, Interrupt, AdapterTakesAnswer, AdapterFails, TimePasses, ThreadMoves
  <1>9. ASSUME NEW t \in Threads, ThreadStep(t)
        PROVE  ThreadMoves
    BY <1>2, <1>3, <1>4, <1>6, <1>9 DEF ThreadStep, ThreadMoves
  <1> HIDE DEF TypeInv
  <1> QED BY <1>5, <1>6, <1>7, <1>8, <1>9 DEF Next

\* They keep the reset to one actor.
LEMMA ResetStepInv ==
  ASSUME TypeInv, ResetInv, ThreadMoves
  PROVE  ResetInv' /\ pc' \in [Actors -> Pcs] /\ dev' \in Dev
  <1> USE ActorFacts DEF TypeInv
  <1>1. dev \in Dev /\ dev.thread \in Threads /\ dev.in_reset \in BOOLEAN
    BY DEF Dev
  <1>2. CASE UNCHANGED <<pc, dev>>
    BY <1>2 DEF ResetInv
  <1>3. ASSUME NEW a \in Actors, Moves(a)
        PROVE  ResetInv' /\ pc' \in [Actors -> Pcs] /\ dev' \in Dev
    BY <1>1, <1>3 DEF Moves, ResetInv
  <1>4. ASSUME NEW a \in Actors, Begins(a)
        PROVE  ResetInv' /\ pc' \in [Actors -> Pcs] /\ dev' \in Dev
    <2>1. dev' \in Dev /\ dev'.thread = dev.thread /\ dev'.in_reset = TRUE
      BY <1>1, <1>4 DEF Begins, Dev
    <2>2. pc' \in [Actors -> Pcs] /\ pc'[a] \in Resetting /\ \A b \in Actors : b # a => pc'[b] = pc[b]
      BY <1>4 DEF Begins, Resetting, Pcs, Serving
    <2>3. \A b \in Actors : pc[b] \notin Resetting
      BY <1>4 DEF Begins, ResetInv
    <2>4. a \in Threads => a <= dev.thread
      BY <1>1, <1>4 DEF Begins, ResetInv
    <2>5. ASSUME NEW t \in Threads, t > dev'.thread
          PROVE  pc'[t] = "none"
      <3>1. t > dev.thread
        BY <2>1, <2>5
      <3>2. t \in Nat /\ dev.thread \in Nat
        BY <1>1
      <3>3. ~(t <= dev.thread)
        BY <3>1, <3>2
      <3>4. t # a
        BY <3>3, <2>4
      <3>5. pc[t] = "none"
        BY <3>1 DEF ResetInv
      <3> QED BY <2>2, <3>4, <3>5
    <2> QED BY <2>1, <2>2, <2>3, <2>5 DEF ResetInv
  <1>5. ASSUME NEW a \in Actors, Ends(a)
        PROVE  ResetInv' /\ pc' \in [Actors -> Pcs] /\ dev' \in Dev
    <2>1. dev' \in Dev /\ dev'.thread = dev.thread /\ dev'.in_reset = FALSE
      BY <1>1, <1>5 DEF Ends, Dev
    <2>2. /\ pc' \in [Actors -> Pcs] /\ pc'[a] \notin Resetting
          /\ \A b \in Actors : b # a => pc'[b] = pc[b]
      BY <1>5 DEF Ends
    <2>3. \A b \in Actors : pc'[b] \notin Resetting
      BY <1>5, <2>2 DEF Ends, ResetInv
    <2>4. a \in Threads => a <= dev.thread
      BY <1>1, <1>5 DEF Ends, ResetInv, Resetting
    <2>5. ASSUME NEW t \in Threads, t > dev'.thread
          PROVE  pc'[t] = "none"
      <3>1. t > dev.thread
        BY <2>1, <2>5
      <3>2. t \in Nat /\ dev.thread \in Nat
        BY <1>1
      <3>3. ~(t <= dev.thread)
        BY <3>1, <3>2
      <3>4. t # a
        BY <3>3, <2>4
      <3>5. pc[t] = "none"
        BY <3>1 DEF ResetInv
      <3> QED BY <2>2, <3>4, <3>5
    <2> QED BY <2>1, <2>3, <2>2, <2>5 DEF ResetInv
  <1>6. ASSUME NEW p \in [Actors -> Pcs], Makes(p),
               \A b \in Actors : p[b] \in Resetting <=> pc[b] \in Resetting,
               \A t \in Threads : t > dev.thread => p[t] = "none"
        PROVE  ResetInv' /\ pc' \in [Actors -> Pcs] /\ dev' \in Dev
    <2> DEFINE n == dev.thread + 1
    <2>1. /\ n \in Threads /\ n \in Actors /\ n > dev.thread
          /\ \A t \in Threads : t > n => t > dev.thread /\ t # n
      BY <1>1, <1>6, NextThread DEF Makes
    <2>2. dev' \in Dev /\ dev'.thread = n /\ dev'.in_reset = dev.in_reset /\ pc' = [p EXCEPT ![n] = "new"]
      BY <1>6 DEF Makes
    <2>3. pc[n] = "none" /\ p[n] = "none"
      BY <1>6, <2>1 DEF ResetInv
    <2> HIDE DEF n
    <2>4. pc' \in [Actors -> Pcs]
      BY <1>6, <2>1, <2>2 DEF Pcs
    <2>5. \A b \in Actors : pc'[b] \in Resetting <=> pc[b] \in Resetting
      BY <1>6, <2>1, <2>2, <2>3 DEF Resetting
    <2>6. \A t \in Threads : t > n => pc'[t] = "none"
      BY <1>6, <2>1, <2>2
    <2> QED BY <2>2, <2>4, <2>5, <2>6 DEF ResetInv
  <1>7. CASE Makes(pc)
    BY <1>6, <1>7 DEF ResetInv
  <1>8. ASSUME NEW a \in Actors, pc[a] = "init", Makes([pc EXCEPT ![a] = "out"])
        PROVE  ResetInv' /\ pc' \in [Actors -> Pcs] /\ dev' \in Dev
    <2> DEFINE p == [pc EXCEPT ![a] = "out"]
    <2>1. p \in [Actors -> Pcs] /\ \A b \in Actors : p[b] \in Resetting <=> pc[b] \in Resetting
      BY <1>8 DEF Pcs, Serving, Resetting
    <2>2. \A t \in Threads : t > dev.thread => p[t] = "none"
      BY <1>8 DEF ResetInv
    <2> HIDE DEF p
    <2>3. Makes(p)
      BY <1>8 DEF p
    <2> QED BY <1>6, <2>1, <2>2, <2>3
  <1> QED BY <1>2, <1>3, <1>4, <1>5, <1>7, <1>8 DEF ThreadMoves

-----------------------------------------------------------------------------
(***************************************************************************)
(* The containers.                                                         *)
(***************************************************************************)
SettledEntry(f) == f.waiting = "nothing" => f.needed = "NOTHING"

\* Sniffing leaves a change that is waited for, or none.
LEMMA SniffedSettled ==
  ASSUME NEW f \in Entry, SettledEntry(f), NEW c, NEW e, NEW device
  PROVE  /\ Sniffed(f, c, e, device) \in Entry /\ Sniffed(f, c, e, device).valid = f.valid
         /\ SettledEntry(Sniffed(f, c, e, device))
  <1> DEFINE s == Sniffed(f, c, e, device)
  <1>1. \/ s = f
        \/ \E n \in {"ADD", "DELETE", "CHANGE"}, w \in {"ConfigChange", "ContainerChange"} :
             s = Expect(f, n, w)
    BY DEF Sniffed
  <1>2. ASSUME NEW n \in {"ADD", "DELETE", "CHANGE"}, NEW w \in {"ConfigChange", "ContainerChange"}
        PROVE  /\ Expect(f, n, w) \in Entry /\ Expect(f, n, w).valid = f.valid
               /\ SettledEntry(Expect(f, n, w))
    BY <1>2 DEF Expect, Entry, SettledEntry
  <1> HIDE DEF s
  <1>3. s \in Entry /\ s.valid = f.valid /\ SettledEntry(s)
    BY <1>1, <1>2
  <1> QED BY <1>3 DEF s

\* The event that was waited for makes the change ready, and it is not an event
\* of a physical device.
LEMMA AwaitedSettled ==
  ASSUME NEW f \in Entry, SettledEntry(f), NEW c, NEW e
  PROVE  /\ Awaited(f, c, e) \in Entry /\ Awaited(f, c, e).valid = f.valid
         /\ \/ SettledEntry(Awaited(f, c, e))
            \/ Ready(Awaited(f, c, e)) /\ e.what \notin Inserted \cup Removed
  <1> DEFINE g == Awaited(f, c, e)
  <1>1. CASE g = f
    BY <1>1
  <1>2. CASE g = [f EXCEPT !.waiting = "nothing"] /\ f.waiting = e.what /\ f.fresh
    <2>1. /\ g \in Entry /\ g.valid = f.valid /\ g.waiting = "nothing" /\ g.needed = f.needed
          /\ g.fresh
      BY <1>2 DEF Entry
    <2> HIDE DEF g
    <2>2. CASE f.needed = "NOTHING"
      <3>1. SettledEntry(g)
        BY <2>1, <2>2 DEF SettledEntry
      <3> QED BY <2>1, <3>1 DEF g
    <2>3. CASE f.needed # "NOTHING"
      <3>1. Ready(g)
        BY <2>1, <2>3 DEF Ready
      <3>2. f.waiting \in {"ConfigChange", "ContainerChange"}
        BY <2>3 DEF Entry, SettledEntry
      <3>3. e.what \notin Inserted \cup Removed
        BY <3>2, <1>2 DEF Inserted, Removed
      <3> QED BY <2>1, <3>1, <3>3 DEF g
    <2> QED BY <2>2, <2>3
  <1> QED BY <1>1, <1>2 DEF Awaited

\* A device that is online after a change was found valid by the probe.
LEMMA ReconfiguredValid ==
  ASSUME NEW device, NEW f \in Entry, NEW valid \in BOOLEAN, Ready(f),
         Reconfigured(device, f.needed, valid) = "online"
  PROVE  valid
  BY DEF Reconfigured, Ready, Entry

\* aac_handle_aif settles the containers again.
LEMMA HandleAifSettled ==
  ASSUME TypeInv, ArraysAreSettled, NEW e, NEW probe \in [Containers -> BOOLEAN],
         fsa' = HandleAif(fsa, devices, e, probe).fsa,
         devices' = HandleAif(fsa, devices, e, probe).devices
  PROVE  /\ fsa' \in [Containers -> Entry] /\ DOMAIN devices' = Containers \cup Disks
         /\ ArraysAreSettled'
  <1> DEFINE sniffed == [c \in Containers |-> Awaited(Sniffed(fsa[c], c, e, devices[c]), c, e)]
             disk == DiskNeeded(e) # "NOTHING"
             now == {c \in Containers : ~disk /\ Ready(sniffed[c])}
  <1>1. fsa' = [c \in Containers |->
                  IF c \in now THEN [sniffed[c] EXCEPT !.needed = "NOTHING", !.valid = probe[c]]
                  ELSE sniffed[c]]
    BY DEF HandleAif
  <1>2. devices' = [d \in Containers \cup Disks |->
                      IF d \in now THEN Reconfigured(devices[d], sniffed[d].needed, probe[d])
                      ELSE IF disk /\ d = e.target THEN Reconfigured(devices[d], DiskNeeded(e), TRUE)
                      ELSE devices[d]]
    BY DEF HandleAif
  <1>3. disk => e.target \in Disks /\ e.what \in Inserted \cup Removed
    BY DEF DiskNeeded
  <1>4. ASSUME NEW c \in Containers
        PROVE  /\ sniffed[c] \in Entry /\ sniffed[c].valid = fsa[c].valid
               /\ c \in now \/ SettledEntry(sniffed[c])
    <2>1. fsa[c] \in Entry /\ SettledEntry(fsa[c])
      BY DEF TypeInv, ArraysAreSettled, SettledEntry
    <2> DEFINE s == Sniffed(fsa[c], c, e, devices[c])
    <2>2. s \in Entry /\ s.valid = fsa[c].valid /\ SettledEntry(s)
      BY <2>1, SniffedSettled, Zenon
    <2> HIDE DEF s
    <2>3. /\ Awaited(s, c, e) \in Entry /\ Awaited(s, c, e).valid = s.valid
          /\ \/ SettledEntry(Awaited(s, c, e))
             \/ Ready(Awaited(s, c, e)) /\ e.what \notin Inserted \cup Removed
      BY <2>2, AwaitedSettled, Zenon
    <2>4. sniffed[c] = Awaited(s, c, e)
      BY DEF s
    <2> HIDE DEF sniffed
    <2> QED BY <1>3, <2>2, <2>3, <2>4
  <1>5. ASSUME NEW c \in Containers
        PROVE  /\ fsa'[c] \in Entry /\ SettledEntry(fsa'[c])
               /\ devices'[c] = "online" => fsa'[c].valid
    <2> HIDE DEF sniffed, disk
    <2>1. CASE c \in now
      <3>1. fsa'[c] = [sniffed[c] EXCEPT !.needed = "NOTHING", !.valid = probe[c]]
        BY <1>1, <2>1
      <3>2. fsa'[c] \in Entry /\ fsa'[c].needed = "NOTHING" /\ fsa'[c].valid = probe[c]
        <4> DEFINE s == sniffed[c]
        <4>1. s \in Entry /\ probe[c] \in BOOLEAN /\ fsa'[c] = [s EXCEPT !.needed = "NOTHING", !.valid = probe[c]]
          BY <1>4, <3>1
        <4> HIDE DEF s
        <4> QED BY <4>1 DEF Entry
      <3>3. devices'[c] = Reconfigured(devices[c], sniffed[c].needed, probe[c])
        BY <1>2, <2>1
      <3>4. devices'[c] = "online" => probe[c]
        <4>1. sniffed[c] \in Entry /\ Ready(sniffed[c]) /\ probe[c] \in BOOLEAN
          BY <2>1, <1>4
        <4> QED BY <3>3, <4>1, ReconfiguredValid, Zenon
      <3>5. SettledEntry(fsa'[c])
        BY <3>2 DEF SettledEntry
      <3> QED BY <3>2, <3>4, <3>5
    <2>2. CASE c \notin now
      <3>1. fsa'[c] = sniffed[c]
        BY <1>1, <2>2
      <3>2. ~(disk /\ c = e.target)
        BY <1>3, AacAifAssumption
      <3>3. devices'[c] = devices[c]
        BY <1>2, <2>2, <3>2
      <3>4. devices[c] = "online" => fsa[c].valid
        BY DEF ArraysAreSettled
      <3>5. sniffed[c] \in Entry /\ sniffed[c].valid = fsa[c].valid /\ SettledEntry(sniffed[c])
        BY <1>4, <2>2
      <3> HIDE DEF now
      <3> QED BY <3>1, <3>3, <3>4, <3>5
    <2> QED BY <2>1, <2>2
  <1>6. DOMAIN devices' = Containers \cup Disks
    BY <1>2
  <1>7. fsa' \in [Containers -> Entry]
    <2> HIDE DEF sniffed, now, disk
    <2> QED BY <1>1, <1>5
  <1>8. ArraysAreSettled'
    BY <1>5 DEF ArraysAreSettled, SettledEntry
  <1> QED BY <1>6, <1>7, <1>8

\* No other step changes more than what waits in vain.
LEMMA StepSettled ==
  ASSUME TypeInv, ArraysAreSettled, Next
  PROVE  /\ fsa' \in [Containers -> Entry] /\ DOMAIN devices' = Containers \cup Disks
         /\ ArraysAreSettled'
  <1> DEFINE Settled == /\ fsa' \in [Containers -> Entry] /\ DOMAIN devices' = Containers \cup Disks
                        /\ ArraysAreSettled'
  <1>1. ASSUME UNCHANGED <<fsa, devices>>
        PROVE  Settled
    BY <1>1 DEF TypeInv, ArraysAreSettled
  <1>2. ASSUME NEW t \in Threads, Handle(t)
        PROVE  Settled
    <2> DEFINE e == inst.script[ev[t]]
    <2>1. CASE UNCHANGED <<fsa, devices>>
      BY <1>1, <2>1
    <2>2. ASSUME NEW probe \in [Containers -> BOOLEAN],
                 fsa' = HandleAif(fsa, devices, e, probe).fsa,
                 devices' = HandleAif(fsa, devices, e, probe).devices
          PROVE  Settled
      <3> HIDE DEF e
      <3> QED BY <2>2, HandleAifSettled, Zenon
    <2> QED BY <1>2, <2>1, <2>2 DEF Handle, aifVars
  <1>3. ASSUME TimePasses
        PROVE  Settled
    <2>1. CASE UNCHANGED <<fsa, devices>>
      BY <1>1, <2>1
    <2>2. ASSUME NEW c \in Containers, fsa' = [fsa EXCEPT ![c].fresh = FALSE], devices' = devices
          PROVE  Settled
      <3>1. fsa[c] \in Entry
        BY DEF TypeInv
      <3>2. \A d \in Containers : d # c => fsa'[d] = fsa[d]
        BY <2>2 DEF TypeInv
      <3>3. fsa'[c] = [fsa[c] EXCEPT !.fresh = FALSE]
        BY <2>2 DEF TypeInv
      <3>4. /\ fsa'[c] \in Entry /\ fsa'[c].needed = fsa[c].needed
            /\ fsa'[c].waiting = fsa[c].waiting /\ fsa'[c].valid = fsa[c].valid
        BY <3>1, <3>3 DEF Entry
      <3>5. fsa' \in [Containers -> Entry]
        BY <2>2, <3>2, <3>4 DEF TypeInv
      <3>6. ArraysAreSettled'
        BY <2>2, <3>2, <3>4 DEF ArraysAreSettled
      <3> QED BY <2>2, <3>5, <3>6 DEF TypeInv
    <2> QED BY <1>3, <2>1, <2>2 DEF TimePasses
  <1>4. ASSUME NEW a \in Actors, Restart(a)
        PROVE  Settled
    <2>1. CASE UNCHANGED <<fsa, devices>>
      BY <1>1, <2>1
    <2>2. CASE /\ fsa' = [c \in Containers |-> [NoConfig EXCEPT !.valid = fsa[c].valid]]
               /\ devices' = devices
      <3>1. ASSUME NEW c \in Containers
            PROVE  fsa'[c] \in Entry /\ fsa'[c].needed = "NOTHING" /\ fsa'[c].valid = fsa[c].valid
        BY <2>2 DEF TypeInv, Entry, NoConfig
      <3>2. fsa' \in [Containers -> Entry]
        BY <2>2, <3>1
      <3>3. ArraysAreSettled'
        BY <2>2, <3>1 DEF ArraysAreSettled
      <3> QED BY <2>2, <3>2, <3>3 DEF TypeInv
    <2> QED BY <1>4, <2>1, <2>2 DEF Restart
  <1> HIDE DEF Settled
  <1>5. ASSUME NEW a \in Actors, ResetStep(a)
        PROVE  Settled
    <2>1. CASE StopThread(a) \/ ThreadStopped(a) \/ Reinit(a) \/ ResetOut(a)
      BY <1>1, <2>1 DEF StopThread, ThreadStopped, Reinit, ResetOut, aifVars
    <2> QED BY <1>4, <1>5, <2>1 DEF ResetStep
  <1>6. ASSUME NEW t \in Threads, ThreadStep(t)
        PROVE  Settled
    <2>1. CASE \/ Start(t) \/ Oops(t) \/ TakeEvent(t) \/ FanOut(t) \/ Complete(t)
               \/ Sleep(t) \/ CheckHealth(t) \/ Break(t)
      BY <1>1, <2>1 DEF Start, Oops, TakeEvent, FanOut, Complete, Sleep, CheckHealth, Break, aifVars
    <2> QED BY <1>2, <1>5, <1>6, <2>1, ActorFacts DEF ThreadStep
  <1>7. ASSUME NEW u \in Users, UserStep(u) \/ UserCall(u)
        PROVE  Settled
    <2>1. UNCHANGED <<fsa, devices>>
      BY <1>7 DEF UserStep, UserCall, NextFib, NoFib, RestartThread, Down, CloseContext, UseFreed,
                  OpenContext, GiveUp, FindContext, aifVars
    <2> QED BY <1>1, <2>1
  <1>8. ASSUME AdapterSends \/ Interrupt \/ AdapterTakesAnswer \/ AdapterFails \/ ResetAdapter
        PROVE  Settled
    <2>1. UNCHANGED <<fsa, devices>>
      BY <1>8 DEF AdapterSends, Interrupt, AdapterTakesAnswer, AdapterFails, ResetAdapter, aifVars
    <2> QED BY <1>1, <2>1
  <1>9. ASSUME ResetStep(Eh)
        PROVE  Settled
    <2>1. Eh \in Actors
      BY ActorFacts
    <2> QED BY <1>5, <1>9, <2>1
  <1>10. Settled
    BY <1>3, <1>6, <1>7, <1>8, <1>9 DEF Next
  <1> QED BY <1>10 DEF Settled

-----------------------------------------------------------------------------
\* The beginning: one thread, no reset, no change announced.
LEMMA InitIInv ==
  ASSUME Init
  PROVE  IInv
  <1> USE ActorFacts
  <1>a. /\ pc = [a \in Actors |-> IF a = Eh THEN "idle" ELSE IF a = 1 THEN "new" ELSE "none"]
        /\ dev = [thread |-> 1, aif_thread |-> FALSE, in_reset |-> FALSE, queues |-> TRUE]
    BY Zenon DEF Init
  <1>1. pc \in [Actors -> Pcs] /\ dev \in Dev
    BY <1>a DEF Pcs, Serving, Dev
  <1>2. ResetInv
    <2>1. \A a \in Actors : pc[a] \notin Resetting
      BY <1>a DEF Resetting
    <2>2. dev.in_reset = FALSE /\ dev.thread = 1
      BY <1>a
    <2>3. \A t \in Threads : t > 1 => pc[t] = "none"
      BY <1>a
    <2> QED BY <2>1, <2>2, <2>3 DEF ResetInv
  <1>3. DOMAIN devices = Containers \cup Disks
    BY DEF Init
  <1>4. ASSUME NEW c \in Containers
        PROVE  /\ fsa[c] \in Entry /\ fsa[c].needed = "NOTHING"
               /\ devices[c] = "online" => fsa[c].valid
    <2>1. fsa[c] = [NoConfig EXCEPT !.valid = devices[c] = "online"]
      BY DEF Init
    <2>2. /\ fsa[c] \in Entry /\ fsa[c].needed = "NOTHING"
          /\ fsa[c].valid = (devices[c] = "online")
      BY <2>1 DEF NoConfig, Entry
    <2> QED BY <2>2
  <1>5. fsa \in [Containers -> Entry]
    <2>1. fsa = [c \in Containers |-> fsa[c]]
      BY DEF Init
    <2> QED BY <2>1, <1>4
  <1>6. ArraysAreSettled
    BY <1>4 DEF ArraysAreSettled
  <1> QED BY <1>1, <1>2, <1>3, <1>5, <1>6 DEF IInv, TypeInv

\* Every step keeps the threads, the reset and the arrays as they should be.
LEMMA NextIInv ==
  ASSUME IInv, [Next]_vars
  PROVE  IInv'
  <1>1. CASE Next
    <2>1. ThreadMoves
      BY <1>1, StepMoves DEF IInv
    <2>2. ResetInv' /\ pc' \in [Actors -> Pcs] /\ dev' \in Dev
      BY <2>1, ResetStepInv DEF IInv
    <2>3. /\ fsa' \in [Containers -> Entry] /\ DOMAIN devices' = Containers \cup Disks
          /\ ArraysAreSettled'
      BY <1>1, StepSettled DEF IInv
    <2> QED BY <2>2, <2>3 DEF IInv, TypeInv
  <1>2. CASE UNCHANGED vars
    BY <1>2 DEF IInv, TypeInv, ResetInv, ArraysAreSettled, vars, aifVars
  <1> QED BY <1>1, <1>2

\* The inductive invariant of the command thread and the reset.
THEOREM Invariance == Spec => []IInv
  BY InitIInv, NextIInv, PTL DEF Spec

\* Resets that are alone are counted once.
LEMMA ResetInvIsOneReset ==
  ASSUME TypeInv, ResetInv
  PROVE  OneReset
  <1> DEFINE R == {a \in Actors : pc[a] \in Resetting}
  <1>1. dev.in_reset <=> R # {}
    BY DEF ResetInv
  <1>2. CASE R = {}
    BY <1>1, <1>2, FS_EmptySet DEF OneReset
  <1>3. CASE R # {}
    <2>1. PICK a \in R : TRUE
      BY <1>3
    <2>2. R = {a}
      BY <2>1 DEF ResetInv
    <2>3. Cardinality(R) = 1
      BY <2>2, FS_Singleton
    <2> QED BY <1>1, <2>3 DEF OneReset
  <1> QED BY <1>2, <1>3

\* Whoever frees and makes the queues of the adapter does it alone, the error
\* handler or one of any number of threads, and in_reset says so; threads that
\* are made during a reset take no part in it.
THEOREM ResetIsExclusive == Spec => []OneReset
  <1>1. IInv => OneReset
    BY ResetInvIsOneReset DEF IInv
  <1> QED BY <1>1, Invariance, PTL

\* aac_handle_aif leaves no change of a container undone that has been
\* announced and confirmed, and no device online whose container's probe failed,
\* whatever events come, in whatever order, and whenever the waits run out.
THEOREM ArraysCorrect == Spec => []ArraysAreSettled
  <1>1. IInv => ArraysAreSettled
    BY DEF IInv
  <1> QED BY <1>1, Invariance, PTL
-----------------------------------------------------------------------------
(***************************************************************************)
(* The rings.                                                              *)
(***************************************************************************)
RingOK(q) ==
  q \in [producer : 1 .. Ring, consumer : 1 .. Ring, ents : [0 .. Ring - 1 -> Nat]]

\* The number of entries, and the place of the k-th, without division.
Size(q) == IF q.producer >= q.consumer THEN q.producer - q.consumer
           ELSE q.producer - q.consumer + Ring
Place(q, k) == IF q.consumer + k - 1 < Ring THEN q.consumer + k - 1 ELSE q.consumer + k - 1 - Ring

\* What the ring's modulus does to indices that are off by less than a turn.
LEMMA ModSmall ==
  ASSUME NEW a \in Int, 0 - Ring < a, a < Ring + Ring
  PROVE  a % Ring = IF a < 0 THEN a + Ring ELSE IF a < Ring THEN a ELSE a - Ring
<1> DEFINE d == a \div Ring
           r == a % Ring
<1>1. Ring \in Int /\ Ring > 1
  BY AacAifAssumption
<1>2. d \in Int /\ r \in 0 .. Ring - 1 /\ a = Ring * d + r
  BY <1>1
<1> HIDE DEF d, r
<1>3. d >= 2 => Ring * d >= Ring * 2
  BY <1>1, <1>2
<1>4. d <= -2 => Ring * d <= Ring * (-2)
  BY <1>1, <1>2
<1>5. Ring * 2 = Ring + Ring /\ Ring * (-2) = 0 - (Ring + Ring)
  BY <1>1
<1>6. d \in {-1, 0, 1}
  BY <1>1, <1>2, <1>3, <1>4, <1>5
<1>7. Ring * (-1) = 0 - Ring /\ Ring * 0 = 0 /\ Ring * 1 = Ring
  BY <1>1
<1>8. r = IF a < 0 THEN a + Ring ELSE IF a < Ring THEN a ELSE a - Ring
  BY <1>1, <1>2, <1>6, <1>7
<1> QED BY <1>8 DEF r

\* What is in a ring, entry by entry.
LEMMA ContentsIs ==
  ASSUME NEW q, RingOK(q)
  PROVE  /\ Size(q) \in 0 .. Ring - 1
         /\ \A k \in 1 .. Size(q) : Place(q, k) \in 0 .. Ring - 1
         /\ Contents(q) = [k \in 1 .. Size(q) |-> q.ents[Place(q, k)]]
         /\ Contents(q) \in Seq(Nat) /\ Len(Contents(q)) = Size(q)
<1>1. Ring \in Int /\ Ring > 1 /\ q.producer \in 1 .. Ring /\ q.consumer \in 1 .. Ring
  BY AacAifAssumption DEF RingOK
<1>2. Size(q) \in 0 .. Ring - 1 /\ Size(q) \in Nat
  BY <1>1 DEF Size
<1>3. \A k \in 1 .. Size(q) : Place(q, k) \in 0 .. Ring - 1
  BY <1>1, <1>2 DEF Place
<1>4. (q.producer - q.consumer) % Ring = Size(q)
  <2>1. q.producer - q.consumer \in Int /\ 0 - Ring < q.producer - q.consumer
        /\ q.producer - q.consumer < Ring
    BY <1>1
  <2> QED BY <1>1, <2>1, ModSmall DEF Size
<1>5. ASSUME NEW k \in 1 .. Size(q)
      PROVE  (q.consumer + k - 1) % Ring = Place(q, k)
  <2>1. q.consumer + k - 1 \in Int /\ q.consumer + k - 1 >= 0 /\ q.consumer + k - 1 < Ring + Ring
    BY <1>1, <1>2
  <2> QED BY <1>1, <2>1, ModSmall DEF Place
<1>6. Contents(q) = [k \in 1 .. Size(q) |-> q.ents[Place(q, k)]]
  BY <1>4, <1>5 DEF Contents
<1>7. \A k \in 1 .. Size(q) : q.ents[Place(q, k)] \in Nat
  BY <1>3 DEF RingOK
<1>8. Contents(q) \in [1 .. Size(q) -> Nat]
  BY <1>6, <1>7
<1>9. Contents(q) \in Seq(Nat) /\ Len(Contents(q)) = Size(q)
  BY <1>2, <1>8
<1> QED BY <1>2, <1>3, <1>6, <1>9

\* A ring whose indices are equal is empty.
LEMMA RingEmpty == RingOK(EmptyRing) /\ Contents(EmptyRing) = <<>>
<1>1. Ring \in Nat /\ Ring > 1
  BY AacAifAssumption
<1>2. RingOK(EmptyRing)
  BY <1>1 DEF RingOK, EmptyRing
<1>3. Size(EmptyRing) = 0
  BY <1>1 DEF Size, EmptyRing
<1>4. Contents(EmptyRing) \in Seq(Nat) /\ Len(Contents(EmptyRing)) = 0
  BY <1>2, <1>3, ContentsIs
<1> QED BY <1>2, <1>4

\* Sequences by their elements.
LEMMA SeqEqual ==
  ASSUME NEW S, NEW s \in Seq(S), NEW t \in Seq(S), Len(s) = Len(t), \A k \in 1 .. Len(s) : s[k] = t[k]
  PROVE  s = t
<1>1. s = [k \in 1 .. Len(s) |-> s[k]] /\ t = [k \in 1 .. Len(t) |-> t[k]]
  OBVIOUS
<1> QED BY <1>1

\* A list that is longer by one entry.
LEMMA AppendIs ==
  ASSUME NEW S, NEW s \in Seq(S), NEW r \in Seq(S), NEW x \in S, Len(r) = Len(s) + 1,
         \A k \in 1 .. Len(s) + 1 : r[k] = IF k = Len(s) + 1 THEN x ELSE s[k]
  PROVE  r = Append(s, x)
<1>1. Append(s, x) \in Seq(S) /\ Len(Append(s, x)) = Len(s) + 1
  OBVIOUS
<1>2. \A k \in 1 .. Len(s) + 1 : Append(s, x)[k] = IF k = Len(s) + 1 THEN x ELSE s[k]
  OBVIOUS
<1>3. \A k \in 1 .. Len(r) : r[k] = Append(s, x)[k]
  BY <1>2
<1> QED BY <1>1, <1>3, SeqEqual

\* A list without its first entry.
LEMMA TailIs ==
  ASSUME NEW S, NEW s \in Seq(S), NEW r \in Seq(S), s # <<>>, Len(r) = Len(s) - 1,
         \A k \in 1 .. Len(s) - 1 : r[k] = s[k + 1]
  PROVE  r = Tail(s)
<1>1. Tail(s) \in Seq(S) /\ Len(Tail(s)) = Len(s) - 1
  OBVIOUS
<1>2. \A k \in 1 .. Len(r) : r[k] = Tail(s)[k]
  OBVIOUS
<1> QED BY <1>1, <1>2, SeqEqual

\* The number of entries of a ring after one more, the producer's index wrapping or not.
LEMMA PutSize ==
  ASSUME NEW r \in Int, r > 1, NEW p \in 1 .. r, NEW c \in 1 .. r, NEW i \in Int, NEW s, NEW n,
         i = (IF p = r THEN 0 ELSE p), i + 1 # c,
         n = IF i + 1 >= c THEN i + 1 - c ELSE i + 1 - c + r,
         s = IF p >= c THEN p - c ELSE p - c + r
  PROVE  n = s + 1 /\ s \in 0 .. r - 1
<1>1. CASE p = r
  BY <1>1
<1>2. CASE p # r
  BY <1>2
<1> QED BY <1>1, <1>2

\* The slot behind the others is not one of theirs.
LEMMA FreeSlot ==
  ASSUME NEW r \in Int, r > 1, NEW p \in 1 .. r, NEW c \in 1 .. r, NEW i \in Int, NEW s, NEW l, NEW k \in Int,
         i = (IF p = r THEN 0 ELSE p), i + 1 # c,
         s = IF p >= c THEN p - c ELSE p - c + r, 1 <= k, k <= s,
         l = IF c + k - 1 < r THEN c + k - 1 ELSE c + k - 1 - r
  PROVE  l # i
<1>1. CASE p = r
  BY <1>1
<1>2. CASE p # r
  BY <1>2
<1> QED BY <1>1, <1>2

\* aac_queue_get puts an entry behind the others if there is room.
LEMMA RingPut ==
  ASSUME NEW q, RingOK(q), ~Full(q), NEW x \in Nat
  PROVE  RingOK(QueueGet(q, x)) /\ Contents(QueueGet(q, x)) = Append(Contents(q), x)
<1> DEFINE g == QueueGet(q, x)
           i == IndexOf(q.producer)
<1>1. Ring \in Int /\ Ring > 1 /\ q.producer \in 1 .. Ring /\ q.consumer \in 1 .. Ring
      /\ q.ents \in [0 .. Ring - 1 -> Nat]
  BY AacAifAssumption DEF RingOK
<1>2. i \in 0 .. Ring - 1 /\ i = (IF q.producer = Ring THEN 0 ELSE q.producer) /\ i + 1 # q.consumer
  BY <1>1 DEF IndexOf, Full
<1>3. i + 1 \in 1 .. Ring /\ [q.ents EXCEPT ![i] = x] \in [0 .. Ring - 1 -> Nat]
  BY <1>1, <1>2
<1> HIDE DEF i
<1>4. RingOK(g) /\ g.producer = i + 1 /\ g.consumer = q.consumer /\ g.ents = [q.ents EXCEPT ![i] = x]
  <2>1. i = IndexOf(q.producer)
    BY DEF i
  <2>2. g.producer = i + 1 /\ g.consumer = q.consumer /\ g.ents = [q.ents EXCEPT ![i] = x]
    BY <2>1 DEF RingOK, QueueGet
  <2>3. g = [[q EXCEPT !.ents = [q.ents EXCEPT ![i] = x]] EXCEPT !.producer = i + 1]
    BY <2>1 DEF RingOK, QueueGet
  <2>4. RingOK(g)
    BY <1>3, <2>3 DEF RingOK
  <2> QED BY <2>2, <2>4
<1> HIDE DEF g
<1>5. Size(g) = Size(q) + 1 /\ Size(q) \in 0 .. Ring - 1
  <2>1. Size(g) = IF i + 1 >= q.consumer THEN i + 1 - q.consumer ELSE i + 1 - q.consumer + Ring
    <3>1. g.producer = i + 1 /\ g.consumer = q.consumer
      BY <1>4
    <3>2. Size(g) = IF g.producer >= g.consumer THEN g.producer - g.consumer
                    ELSE g.producer - g.consumer + Ring
      BY DEF Size
    <3> DEFINE p == g.producer
               c == g.consumer
    <3> HIDE DEF p, c
    <3>3. Size(g) = (IF p >= c THEN p - c ELSE p - c + Ring) /\ p = i + 1 /\ c = q.consumer
      BY <3>1, <3>2 DEF p, c
    <3>4. i \in Int /\ q.consumer \in Int /\ Ring \in Int
      BY <1>1, <1>2
    <3> QED BY <3>3, <3>4
  <2>2. Size(q) = IF q.producer >= q.consumer THEN q.producer - q.consumer
                  ELSE q.producer - q.consumer + Ring
    BY DEF Size
  <2>3. /\ Ring \in Int /\ Ring > 1 /\ q.producer \in 1 .. Ring /\ q.consumer \in 1 .. Ring
        /\ i \in Int /\ i = (IF q.producer = Ring THEN 0 ELSE q.producer) /\ i + 1 # q.consumer
    BY <1>1, <1>2
  <2> DEFINE n == Size(g)
             s == Size(q)
             p == q.producer
             c == q.consumer
  <2> HIDE DEF n, s, p, c
  <2>4. n = s + 1 /\ s \in 0 .. Ring - 1
    BY <2>1, <2>2, <2>3, PutSize DEF n, s, p, c
  <2> QED BY <2>4 DEF n, s
<1>6. Place(g, Size(q) + 1) = i
  BY <1>1, <1>2, <1>4 DEF Size, Place
<1>7. \A k \in 1 .. Size(q) : Place(g, k) = Place(q, k) /\ Place(q, k) \in 0 .. Ring - 1
  BY <1>4, ContentsIs DEF Place
<1>8. \A k \in 1 .. Size(q) : Place(q, k) # i
  <2>1. TAKE k \in 1 .. Size(q)
  <2>0. /\ Ring \in Int /\ Ring > 1 /\ q.producer \in 1 .. Ring /\ q.consumer \in 1 .. Ring
        /\ i \in Int /\ i = (IF q.producer = Ring THEN 0 ELSE q.producer) /\ i + 1 # q.consumer
    BY <1>1, <1>2
  <2>2. /\ Place(q, k) = IF q.consumer + k - 1 < Ring THEN q.consumer + k - 1
                         ELSE q.consumer + k - 1 - Ring
        /\ Size(q) = IF q.producer >= q.consumer THEN q.producer - q.consumer
                     ELSE q.producer - q.consumer + Ring
    BY DEF Place, Size
  <2>3. k \in Int /\ 1 <= k /\ k <= Size(q)
    BY <1>5
  <2> DEFINE l == Place(q, k)
             s == Size(q)
             p == q.producer
             c == q.consumer
  <2> HIDE DEF l, s, p, c
  <2>4. l # i
    BY <2>0, <2>2, <2>3, FreeSlot DEF l, s, p, c
  <2> QED BY <2>4 DEF l
<1>9. Contents(q) \in Seq(Nat) /\ Len(Contents(q)) = Size(q)
      /\ Contents(q) = [k \in 1 .. Size(q) |-> q.ents[Place(q, k)]]
  BY ContentsIs
<1>10. Contents(g) \in Seq(Nat) /\ Len(Contents(g)) = Size(q) + 1
       /\ Contents(g) = [k \in 1 .. Size(q) + 1 |-> g.ents[Place(g, k)]]
  BY <1>4, <1>5, ContentsIs
<1>11. g.ents[i] = x
  BY <1>1, <1>2, <1>4
<1>12. \A k \in 1 .. Size(q) : g.ents[Place(g, k)] = q.ents[Place(q, k)]
  BY <1>1, <1>2, <1>4, <1>7, <1>8
<1>13. \A k \in 1 .. Size(q) + 1 :
         Contents(g)[k] = IF k = Size(q) + 1 THEN x ELSE Contents(q)[k]
  BY <1>5, <1>6, <1>9, <1>10, <1>11, <1>12
<1>14. Contents(g) = Append(Contents(q), x)
  <2> DEFINE s == Contents(q)
             r == Contents(g)
             n == Size(q)
  <2>1. s \in Seq(Nat) /\ r \in Seq(Nat) /\ Len(s) = n /\ Len(r) = n + 1 /\ n \in Nat
    BY <1>5, <1>9, <1>10
  <2>2. \A k \in 1 .. n + 1 : r[k] = IF k = n + 1 THEN x ELSE s[k]
    BY <1>13
  <2> HIDE DEF s, r, n
  <2>3. r = Append(s, x)
    BY <2>1, <2>2, AppendIs
  <2> QED BY <2>3 DEF s, r
<1> QED BY <1>4, <1>14 DEF g

\* aac_consumer_get and aac_consumer_free take the first entry off.
LEMMA RingTake ==
  ASSUME NEW q, RingOK(q), HasEntry(q)
  PROVE  /\ RingOK(ConsumerFree(q)) /\ Contents(q) # <<>>
         /\ Head(Contents(q)) = ConsumerGet(q) /\ Contents(ConsumerFree(q)) = Tail(Contents(q))
<1> DEFINE g == ConsumerFree(q)
           c == IF q.consumer >= Ring THEN 1 ELSE q.consumer + 1
<1>1. Ring \in Int /\ Ring > 1 /\ q.producer \in 1 .. Ring /\ q.consumer \in 1 .. Ring
      /\ q.producer # q.consumer
  BY AacAifAssumption DEF RingOK, HasEntry
<1>2. g = [producer |-> q.producer, consumer |-> c, ents |-> q.ents]
  BY DEF ConsumerFree, RingOK
<1>3. c \in 1 .. Ring /\ c = IF q.consumer = Ring THEN 1 ELSE q.consumer + 1
  BY <1>1
<1> HIDE DEF g, c
<1>4. RingOK(g) /\ g.producer = q.producer /\ g.consumer = c /\ g.ents = q.ents
  BY <1>2, <1>3 DEF RingOK
<1>5. Size(g) = Size(q) - 1 /\ Size(q) \in 1 .. Ring - 1
  BY <1>1, <1>3, <1>4 DEF Size
<1>6. \A k \in 1 .. Size(g) : Place(g, k) = Place(q, k + 1)
  BY <1>1, <1>3, <1>4, <1>5 DEF Place
<1>7. Place(q, 1) = IndexOf(q.consumer)
  BY <1>1 DEF Place, IndexOf
<1>8. Contents(q) \in Seq(Nat) /\ Len(Contents(q)) = Size(q)
      /\ Contents(q) = [k \in 1 .. Size(q) |-> q.ents[Place(q, k)]]
  BY ContentsIs
<1>9. Contents(g) \in Seq(Nat) /\ Len(Contents(g)) = Size(g)
      /\ Contents(g) = [k \in 1 .. Size(g) |-> q.ents[Place(g, k)]]
  BY <1>4, ContentsIs
<1>10. Contents(q) # <<>> /\ Head(Contents(q)) = ConsumerGet(q)
  BY <1>5, <1>7, <1>8 DEF ConsumerGet
<1>11. Contents(g) = Tail(Contents(q))
  <2> DEFINE s == Contents(q)
             r == Contents(g)
             n == Size(q)
  <2>1. s \in Seq(Nat) /\ r \in Seq(Nat) /\ Len(s) = n /\ Len(r) = n - 1 /\ n \in Nat /\ s # <<>>
    BY <1>5, <1>8, <1>9, <1>10
  <2>2. \A k \in 1 .. n - 1 : k + 1 \in 1 .. n /\ r[k] = s[k + 1]
    <3>1. TAKE k \in 1 .. n - 1
    <3>2. k + 1 \in 1 .. n /\ k \in 1 .. Size(g)
      BY <1>5
    <3>3. Place(g, k) = Place(q, k + 1)
      BY <1>6, <3>2
    <3>4. r[k] = q.ents[Place(g, k)]
      BY <1>9, <3>2
    <3>5. s[k + 1] = q.ents[Place(q, k + 1)]
      BY <1>8, <3>2
    <3> QED BY <3>2, <3>3, <3>4, <3>5
  <2> HIDE DEF s, r, n
  <2>3. r = Tail(s)
    BY <2>1, <2>2, TailIs
  <2> QED BY <2>3 DEF s, r
<1> QED BY <1>4, <1>10, <1>11 DEF g

-----------------------------------------------------------------------------
(***************************************************************************)
(* The list of contexts.                                                   *)
(***************************************************************************)
NoDup(list) == \A i, j \in DOMAIN list : list[i] = list[j] => i = j

\* Closing contexts leaves the others of the list, each once.
LEMMA WithoutList ==
  ASSUME NEW list \in Seq(Users), NoDup(list), NEW gone
  PROVE  /\ Without(list, gone) \in Seq(Users) /\ NoDup(Without(list, gone))
         /\ Range(Without(list, gone)) = Range(list) \ gone
<1> DEFINE keep == {i \in DOMAIN list : list[i] \notin gone}
           upto(i) == {j \in keep : j <= i}
           n == Cardinality(keep)
           rank == [i \in keep |-> Cardinality(upto(i))]
           nth(k) == CHOOSE i \in keep : Cardinality({j \in keep : j <= i}) = k
           w == Without(list, gone)
<1>1. DOMAIN list = 1 .. Len(list) /\ Len(list) \in Nat
  OBVIOUS
<1>2. keep \subseteq 1 .. Len(list) /\ keep \subseteq Nat /\ IsFiniteSet(keep) /\ n \in Nat
  <2>1. keep \in SUBSET (1 .. Len(list))
    BY <1>1
  <2>2. IsFiniteSet(1 .. Len(list))
    BY <1>1, FS_Interval
  <2>3. IsFiniteSet(keep)
    BY <2>1, <2>2, FS_Subset
  <2> QED BY <1>1, <2>1, <2>3, FS_CardinalityType
<1>3. w = [k \in 1 .. n |-> list[nth(k)]]
  BY DEF Without
<1> HIDE DEF keep, w, nth
<1>4. ASSUME NEW i \in keep
      PROVE  IsFiniteSet(upto(i)) /\ rank[i] \in 1 .. n
  <2>1. upto(i) \in SUBSET keep /\ i \in upto(i)
    BY <1>2
  <2>2. IsFiniteSet(upto(i)) /\ Cardinality(upto(i)) <= n
    BY <1>2, <2>1, FS_Subset
  <2>3. Cardinality(upto(i)) \in Nat /\ Cardinality(upto(i)) # 0
    BY <2>1, <2>2, FS_CardinalityType, FS_EmptySet
  <2> QED BY <1>2, <2>2, <2>3
<1>5. ASSUME NEW i \in keep, NEW j \in keep, i < j
      PROVE  rank[i] # rank[j]
  <2>0. i \in Nat /\ j \in Nat /\ \A k \in keep : k \in Nat
    BY <1>2
  <2>1. upto(i) \in SUBSET upto(j) /\ j \in upto(j) /\ j \notin upto(i)
    <3>1. \A k \in keep : k <= i => k <= j
      BY <1>5, <2>0
    <3>2. j <= j /\ ~(j <= i)
      BY <1>5, <2>0
    <3> QED BY <3>1, <3>2
  <2> QED BY <1>4, <2>1, FS_Subset
<1>6. rank \in Injection(keep, 1 .. n)
  <2>1. rank \in [keep -> 1 .. n]
    BY <1>4
  <2>2. \A i, j \in keep : rank[i] = rank[j] => i = j
    <3>1. TAKE i, j \in keep
    <3>2. i = j \/ i < j \/ j < i
      <4>1. i \in Nat /\ j \in Nat
        BY <1>2
      <4> QED BY <4>1
    <3> HIDE DEF rank
    <3> QED BY <1>5, <3>2
  <2> HIDE DEF rank
  <2> QED BY <2>1, <2>2 DEF Injection, IsInjective
<1>7. rank \in Surjection(keep, 1 .. n)
  <2>1. IsFiniteSet(1 .. n) /\ Cardinality(1 .. n) = n
    BY <1>2, FS_Interval
  <2> HIDE DEF rank
  <2> QED BY <1>2, <1>6, <2>1, FS_Injection
<1>8. ASSUME NEW k \in 1 .. n
      PROVE  nth(k) \in keep /\ rank[nth(k)] = k
  <2>1. \E i \in keep : rank[i] = k
    BY <1>7 DEF Surjection
  <2>2. \E i \in keep : Cardinality({j \in keep : j <= i}) = k
    BY <2>1
  <2>3. nth(k) \in keep /\ Cardinality({j \in keep : j <= nth(k)}) = k
    BY <2>2 DEF nth
  <2> QED BY <2>3
<1>9. \A i \in keep : nth(rank[i]) = i
  <2>1. TAKE i \in keep
  <2>2. rank[i] \in 1 .. n
    BY <1>4
  <2>3. nth(rank[i]) \in keep /\ rank[nth(rank[i])] = rank[i]
    BY <1>8, <2>2
  <2> HIDE DEF rank
  <2> QED BY <1>6, <2>3 DEF Injection, IsInjective
<1> HIDE DEF rank, n
<1>10. \A k \in 1 .. n : list[nth(k)] \in Users /\ list[nth(k)] \in Range(list) \ gone
  BY <1>1, <1>2, <1>8 DEF keep, Range
<1>11. w \in [1 .. n -> Users] /\ w \in Seq(Users) /\ DOMAIN w = 1 .. n
  BY <1>2, <1>3, <1>10
<1>12. NoDup(w)
  <2>1. ASSUME NEW k \in 1 .. n, NEW m \in 1 .. n, w[k] = w[m]
        PROVE  k = m
    <3>1. list[nth(k)] = list[nth(m)] /\ nth(k) \in DOMAIN list /\ nth(m) \in DOMAIN list
      BY <1>3, <1>8, <2>1 DEF keep
    <3>2. nth(k) = nth(m)
      BY <3>1 DEF NoDup
    <3> QED BY <1>8, <3>2
  <2> QED BY <1>11, <2>1 DEF NoDup
<1>13. Range(w) = Range(list) \ gone
  <2>1. Range(w) \subseteq Range(list) \ gone
    BY <1>3, <1>10, <1>11 DEF Range
  <2>2. ASSUME NEW u \in Range(list) \ gone
        PROVE  u \in Range(w)
    <3>1. PICK i \in DOMAIN list : u = list[i]
      BY DEF Range
    <3>2. i \in keep
      BY <3>1 DEF keep
    <3>3. rank[i] \in 1 .. n /\ nth(rank[i]) = i
      BY <1>4, <1>9, <3>2
    <3>4. w[rank[i]] = u
      BY <1>3, <3>1, <3>3
    <3> QED BY <1>11, <3>3, <3>4 DEF Range
  <2> QED BY <2>1, <2>2
<1> QED BY <1>11, <1>12, <1>13 DEF w

\* A list without repetition is as long as it has members.
LEMMA ListCount ==
  ASSUME NEW S, NEW list \in Seq(S), NoDup(list)
  PROVE  IsFiniteSet(Range(list)) /\ Len(list) = Cardinality(Range(list))
<1>1. DOMAIN list = 1 .. Len(list) /\ Len(list) \in Nat
  OBVIOUS
<1>2. IsFiniteSet(1 .. Len(list)) /\ Cardinality(1 .. Len(list)) = Len(list)
  <2> DEFINE n == Len(list)
  <2>1. 1 \in Int /\ n \in Int /\ n \in Nat
    BY <1>1
  <2> HIDE DEF n
  <2>2. IsFiniteSet(1 .. n) /\ Cardinality(1 .. n) = IF 1 > n THEN 0 ELSE n - 1 + 1
    BY <2>1, FS_Interval
  <2>3. IsFiniteSet(1 .. n) /\ Cardinality(1 .. n) = n
    BY <2>1, <2>2
  <2> QED BY <2>3 DEF n
<1>3. list \in Bijection(1 .. Len(list), Range(list))
  BY <1>1 DEF NoDup, Bijection, Injection, Surjection, IsInjective, Range
<1> QED BY <1>2, <1>3, FS_Bijection DEF ExistsBijection

-----------------------------------------------------------------------------
(***************************************************************************)
(* Where the events are.                                                   *)
(***************************************************************************)
LEMMA RangeAppend ==
  ASSUME NEW S, NEW s \in Seq(S), NEW x \in S
  PROVE  Append(s, x) \in Seq(S) /\ Range(Append(s, x)) = Range(s) \cup {x}
<1>1. /\ DOMAIN s = 1 .. Len(s) /\ Len(s) \in Nat
      /\ DOMAIN Append(s, x) = 1 .. Len(s) + 1 /\ Append(s, x)[Len(s) + 1] = x
      /\ \A i \in 1 .. Len(s) : Append(s, x)[i] = s[i]
  OBVIOUS
<1>2. Range(Append(s, x)) \subseteq Range(s) \cup {x}
  BY <1>1 DEF Range
<1>3. Range(s) \cup {x} \subseteq Range(Append(s, x))
  <2>1. x \in Range(Append(s, x))
    BY <1>1 DEF Range
  <2>2. ASSUME NEW y \in Range(s) PROVE y \in Range(Append(s, x))
    <3>1. PICK i \in 1 .. Len(s) : y = s[i]
      BY <1>1 DEF Range
    <3>2. i \in 1 .. Len(s) + 1 /\ Append(s, x)[i] = y
      BY <1>1, <3>1
    <3> QED BY <1>1, <3>2 DEF Range
  <2> QED BY <2>1, <2>2
<1> QED BY <1>2, <1>3

\* A new member keeps a list without repetition.
LEMMA NoDupAppend ==
  ASSUME NEW S, NEW s \in Seq(S), NEW x \in S, NoDup(s), x \notin Range(s)
  PROVE  NoDup(Append(s, x))
<1>1. /\ DOMAIN s = 1 .. Len(s) /\ Len(s) \in Nat
      /\ DOMAIN Append(s, x) = 1 .. Len(s) + 1 /\ Append(s, x)[Len(s) + 1] = x
      /\ \A i \in 1 .. Len(s) : Append(s, x)[i] = s[i]
  OBVIOUS
<1>2. \A i \in 1 .. Len(s) : s[i] # x
  BY <1>1 DEF Range
<1>3. ASSUME NEW i \in 1 .. Len(s) + 1, NEW j \in 1 .. Len(s) + 1, Append(s, x)[i] = Append(s, x)[j]
      PROVE  i = j
  <2>1. /\ i \in 1 .. Len(s) \/ i = Len(s) + 1
        /\ j \in 1 .. Len(s) \/ j = Len(s) + 1
    BY <1>1
  <2> QED BY <1>1, <1>2, <1>3, <2>1 DEF NoDup
<1> QED BY <1>1, <1>3 DEF NoDup

\* The first of a list without repetition is taken.
LEMMA RangeTail ==
  ASSUME NEW S, NEW s \in Seq(S), s # <<>>, NoDup(s)
  PROVE  /\ Tail(s) \in Seq(S) /\ NoDup(Tail(s)) /\ Head(s) \in Range(s) /\ Head(s) \in S
         /\ Range(Tail(s)) = Range(s) \ {Head(s)}
<1>1. /\ DOMAIN s = 1 .. Len(s) /\ Len(s) \in Nat /\ Len(s) >= 1 /\ Head(s) = s[1]
      /\ Tail(s) \in Seq(S) /\ DOMAIN Tail(s) = 1 .. Len(s) - 1
      /\ \A i \in 1 .. Len(s) - 1 : Tail(s)[i] = s[i + 1]
  OBVIOUS
<1>2. NoDup(Tail(s))
  <2>1. ASSUME NEW i \in 1 .. Len(s) - 1, NEW j \in 1 .. Len(s) - 1, Tail(s)[i] = Tail(s)[j]
        PROVE  i = j
    <3>1. i + 1 \in DOMAIN s /\ j + 1 \in DOMAIN s /\ s[i + 1] = s[j + 1]
      BY <1>1, <2>1
    <3>2. i + 1 = j + 1
      BY <3>1 DEF NoDup
    <3> QED BY <3>2
  <2> QED BY <1>1, <2>1 DEF NoDup
<1>3. Head(s) \in Range(s) /\ Head(s) \in S
  BY <1>1 DEF Range
<1>4. ASSUME NEW y \in Range(Tail(s)) PROVE y \in Range(s) \ {Head(s)}
  <2>1. PICK i \in 1 .. Len(s) - 1 : y = s[i + 1]
    BY <1>1 DEF Range
  <2>2. i + 1 \in DOMAIN s /\ 1 \in DOMAIN s /\ i + 1 # 1
    BY <1>1
  <2>3. s[i + 1] # s[1]
    BY <2>2 DEF NoDup
  <2> QED BY <1>1, <2>1, <2>2, <2>3 DEF Range
<1>5. ASSUME NEW y \in Range(s) \ {Head(s)} PROVE y \in Range(Tail(s))
  <2>1. PICK i \in 1 .. Len(s) : y = s[i]
    BY <1>1 DEF Range
  <2>2. i # 1
    BY <1>1, <2>1
  <2>3. i - 1 \in 1 .. Len(s) - 1 /\ Tail(s)[i - 1] = y
    BY <1>1, <2>1, <2>2
  <2> QED BY <1>1, <2>3 DEF Range
<1> QED BY <1>1, <1>2, <1>3, <1>4, <1>5

\* The members of two lists, one behind the other.
LEMMA RangeConcat ==
  ASSUME NEW S, NEW s \in Seq(S), NEW t \in Seq(S)
  PROVE  s \o t \in Seq(S) /\ Len(s \o t) = Len(s) + Len(t) /\ Range(s \o t) = Range(s) \cup Range(t)
<1>1. /\ DOMAIN s = 1 .. Len(s) /\ Len(s) \in Nat /\ DOMAIN t = 1 .. Len(t) /\ Len(t) \in Nat
      /\ s \o t \in Seq(S) /\ DOMAIN (s \o t) = 1 .. Len(s) + Len(t)
      /\ Len(s \o t) = Len(s) + Len(t)
      /\ \A i \in 1 .. Len(s) + Len(t) : (s \o t)[i] = IF i <= Len(s) THEN s[i] ELSE t[i - Len(s)]
  OBVIOUS
<1>2. ASSUME NEW y \in Range(s \o t) PROVE y \in Range(s) \cup Range(t)
  <2>1. PICK i \in 1 .. Len(s) + Len(t) : y = (s \o t)[i]
    BY <1>1 DEF Range
  <2>2. CASE i <= Len(s)
    <3>1. i \in DOMAIN s /\ y = s[i]
      BY <1>1, <2>1, <2>2
    <3> QED BY <3>1 DEF Range
  <2>3. CASE ~(i <= Len(s))
    <3>1. i - Len(s) \in DOMAIN t /\ y = t[i - Len(s)]
      BY <1>1, <2>1, <2>3
    <3> QED BY <3>1 DEF Range
  <2> QED BY <2>2, <2>3
<1>3. ASSUME NEW y \in Range(s) PROVE y \in Range(s \o t)
  <2>1. PICK i \in 1 .. Len(s) : y = s[i]
    BY <1>1 DEF Range
  <2>2. i \in DOMAIN (s \o t) /\ (s \o t)[i] = y
    BY <1>1, <2>1
  <2> QED BY <2>2 DEF Range
<1>4. ASSUME NEW y \in Range(t) PROVE y \in Range(s \o t)
  <2>1. PICK i \in 1 .. Len(t) : y = t[i]
    BY <1>1 DEF Range
  <2>2. Len(s) + i \in DOMAIN (s \o t) /\ (s \o t)[Len(s) + i] = y
    BY <1>1, <2>1
  <2> QED BY <2>2 DEF Range
<1> QED BY <1>1, <1>2, <1>3, <1>4

\* What waits, when its parts change.
LEMMA ConcatAppend ==
  ASSUME NEW S, NEW s \in Seq(S), NEW t \in Seq(S), NEW x \in S
  PROVE  s \o Append(t, x) = Append(s \o t, x)
<1>1. Append(t, x) \in Seq(S) /\ Len(Append(t, x)) = Len(t) + 1 /\ s \o t \in Seq(S)
      /\ s \o Append(t, x) \in Seq(S) /\ Len(s \o Append(t, x)) = Len(s) + Len(t) + 1
      /\ Len(s \o t) = Len(s) + Len(t) /\ Len(s) \in Nat /\ Len(t) \in Nat
  OBVIOUS
<1>2. \A k \in 1 .. Len(s) + Len(t) + 1 :
        (s \o Append(t, x))[k] = IF k = Len(s) + Len(t) + 1 THEN x ELSE (s \o t)[k]
  OBVIOUS
<1> QED BY <1>1, <1>2, AppendIs

\* The first of the second list becomes the last of the first: what waits stays as it is.
LEMMA AppendHead ==
  ASSUME NEW S, NEW s \in Seq(S), NEW t \in Seq(S), t # <<>>
  PROVE  Append(s, Head(t)) \in Seq(S) /\ Append(s, Head(t)) \o Tail(t) = s \o t
<1>1. /\ Head(t) \in S /\ Tail(t) \in Seq(S) /\ Len(Tail(t)) = Len(t) - 1 /\ Len(t) \in Nat /\ Len(t) > 0
      /\ Len(s) \in Nat
      /\ Append(s, Head(t)) \in Seq(S) /\ Len(Append(s, Head(t))) = Len(s) + 1 /\ s \o t \in Seq(S)
      /\ Len(s \o t) = Len(s) + Len(t)
  OBVIOUS
<1>2. /\ Append(s, Head(t)) \o Tail(t) \in Seq(S)
      /\ Len(Append(s, Head(t)) \o Tail(t)) = Len(s) + Len(t)
  BY <1>1
<1>3. \A k \in 1 .. Len(s) + Len(t) : (Append(s, Head(t)) \o Tail(t))[k] = (s \o t)[k]
  BY <1>1
<1> QED BY <1>1, <1>2, <1>3, SeqEqual

\* The first of two lists is the first of the first one.
LEMMA TailConcat ==
  ASSUME NEW S, NEW s \in Seq(S), NEW t \in Seq(S), s # <<>>
  PROVE  s \o t # <<>> /\ Head(s \o t) = Head(s) /\ Tail(s) \o t = Tail(s \o t)
<1>1. /\ Tail(s) \in Seq(S) /\ Len(Tail(s)) = Len(s) - 1 /\ Len(s) \in Nat /\ Len(s) > 0 /\ Len(t) \in Nat
      /\ s \o t \in Seq(S) /\ Len(s \o t) = Len(s) + Len(t)
  OBVIOUS
<1>2. s \o t # <<>> /\ Head(s \o t) = Head(s)
  BY <1>1
<1>3. Tail(s) \o t \in Seq(S) /\ Len(Tail(s) \o t) = Len(s \o t) - 1
  BY <1>1
<1>4. \A k \in 1 .. Len(s \o t) - 1 : (Tail(s) \o t)[k] = (s \o t)[k + 1]
  BY <1>1
<1> QED BY <1>1, <1>2, <1>3, <1>4, TailIs

\* What waits to be taken by a thread, oldest first, and for the adapter; and
\* what the threads have in hand.
Waiting == cmdq \o Contents(hostq)
Answering == Contents(respq)
Hands == {ev[t] : t \in Threads} \ {0}

Context == [fibs : Seq(Nat), sem : Nat, read : {"recent", "later", "old"}, last : Nat]
UserPcs == {"idle", "empty", "wait", "retry", "stopping", "closing", "stuck"}

EventType ==
  /\ hw \in [sent : Nat, done : Nat, health : {"ok", "panic", "dead"}]
  /\ RingOK(hostq) /\ RingOK(respq) /\ cmdq \in Seq(Nat) /\ ev \in [Actors -> Nat]

ContextType ==
  /\ fib_list \in Seq(Users) /\ NoDup(fib_list)
  /\ ctx \in [Users -> Context] /\ user \in [Users -> [pc : UserPcs, waits : Nat]]

RestType ==
  /\ {"script", "failures", "resets"} \subseteq DOMAIN inst
  /\ Len(inst.script) \in Nat /\ inst.failures \in Nat /\ inst.resets \in Nat
  /\ devices \in [Containers \cup Disks -> {"none", "online", "offline"}]
  /\ halts \in [Actors -> 0 .. MaxThreads] /\ stop \subseteq Threads /\ two \in BOOLEAN

KeepType == EventType /\ ContextType /\ RestType

\* A thread has an event in hand from the time it takes it until it has answered.
HandInv ==
  /\ ev[Eh] = 0
  /\ \A t \in Threads : /\ pc[t] \in {"handle", "fan", "complete", "answer"} => ev[t] # 0
                        /\ pc[t] \notin {"handle", "fan", "complete", "answer", "oops", "hung"} => ev[t] = 0

Increasing(s) == \A i, j \in 1 .. Len(s) : i < j => s[i] < s[j]

PlaceInv ==
  /\ Increasing(Waiting) /\ NoDup(Answering)
  /\ \A s, t \in Threads : ev[s] = ev[t] /\ ev[s] # 0 => s = t
  /\ Range(Waiting) \cap Range(Answering) = {} /\ Range(Waiting) \cap Hands = {}
  /\ Range(Waiting) \cap lost = {} /\ Range(Answering) \cap Hands = {}
  /\ Range(Answering) \cap lost = {} /\ Hands \cap lost = {}
  /\ Range(Waiting) \cup Range(Answering) \cup Hands \cup lost = 1 .. hw.sent
  /\ hw.done <= Cardinality(lost) /\ hw.sent <= Len(inst.script)

\* What steps do to the events.
Unmoved == ev' = ev /\ lost' = lost /\ hw'.sent = hw.sent /\ hw'.done = hw.done

Sends == /\ Waiting' = Append(Waiting, hw.sent + 1) /\ Answering' = Answering /\ ev' = ev /\ lost' = lost
         /\ hw'.sent = hw.sent + 1 /\ hw'.done = hw.done /\ hw.sent < Len(inst.script)
TakesAnswer == /\ Answering # <<>> /\ Answering' = Tail(Answering) /\ lost' = lost \cup {Head(Answering)}
               /\ Waiting' = Waiting /\ ev' = ev /\ hw'.sent = hw.sent /\ hw'.done = hw.done + 1
Picks(t) == /\ Waiting # <<>> /\ Waiting' = Tail(Waiting) /\ ev' = [ev EXCEPT ![t] = Head(Waiting)]
            /\ ev[t] = 0 /\ Answering' = Answering /\ lost' = lost
            /\ hw'.sent = hw.sent /\ hw'.done = hw.done
Answers(t) == /\ ev[t] # 0 /\ ev' = [ev EXCEPT ![t] = 0] /\ Waiting' = Waiting
              /\ hw'.sent = hw.sent /\ hw'.done = hw.done
              /\ \/ Answering' = Append(Answering, ev[t]) /\ lost' = lost
                 \/ Answering' = Answering /\ lost' = lost \cup {ev[t]}
Flushes == /\ Waiting' = <<>> /\ Answering' = <<>> /\ lost' = lost \cup Range(Waiting) \cup Range(Answering)
           /\ ev' = ev /\ hw'.sent = hw.sent /\ hw'.done = hw.done

EventMoves ==
  \/ Unmoved /\ Waiting' = Waiting /\ Answering' = Answering
  \/ Sends \/ TakesAnswer \/ Flushes \/ \E t \in Threads : Picks(t) \/ Answers(t)

\* What waits are event numbers, those of the list of the thread and of the ring.
LEMMA WaitingType ==
  ASSUME KeepType
  PROVE  /\ Waiting \in Seq(Nat) /\ Answering \in Seq(Nat)
         /\ Contents(hostq) \in Seq(Nat) /\ cmdq \in Seq(Nat)
         /\ Len(Waiting) = Len(cmdq) + Len(Contents(hostq))
         /\ Range(Waiting) = Range(cmdq) \cup Range(Contents(hostq))
BY ContentsIs, RangeConcat DEF KeepType, EventType, Waiting, Answering

\* What increases has no repetition.
LEMMA IncreasingNoDup ==
  ASSUME NEW s \in Seq(Nat), Increasing(s)
  PROVE  NoDup(s)
<1> SUFFICES ASSUME NEW i \in 1 .. Len(s), NEW j \in 1 .. Len(s), s[i] = s[j] PROVE i = j
  BY DEF NoDup
<1>1. s[i] \in Nat /\ s[j] \in Nat
  OBVIOUS
<1>2. ~(i < j) /\ ~(j < i)
  BY <1>1 DEF Increasing
<1> QED BY <1>2

\* The hands after one of them has changed.
LEMMA HandsMove ==
  ASSUME ev \in [Actors -> Nat], NEW t \in Threads, NEW x \in Nat, ev' = [ev EXCEPT ![t] = x],
         \A r, s \in Threads : ev[r] = ev[s] /\ ev[r] # 0 => r = s
  PROVE  Hands' = (Hands \ {ev[t]}) \cup ({x} \ {0})
<1>1. Threads \subseteq Actors
  BY ActorFacts
<1>2. ev'[t] = x /\ \A s \in Threads : s # t => ev'[s] = ev[s]
  BY <1>1
<1>3. \A s \in Threads : s # t => ev[s] # ev[t] \/ ev[s] = 0
  OBVIOUS
<1> QED BY <1>2, <1>3 DEF Hands

\* However the events move, each one stays in one place.
LEMMA PlaceStep ==
  ASSUME KeepType, PlaceInv, EventMoves, inst'.script = inst.script
  PROVE  PlaceInv'
<1> DEFINE W == Range(Waiting)
           A == Range(Answering)
<1>1. /\ Waiting \in Seq(Nat) /\ Answering \in Seq(Nat) /\ NoDup(Waiting) /\ NoDup(Answering)
      /\ hw.sent \in Nat /\ hw.done \in Nat /\ Len(inst.script) \in Nat /\ ev \in [Actors -> Nat]
  BY WaitingType, IncreasingNoDup DEF KeepType, EventType, RestType, PlaceInv
<1>0. hw.sent \in Int /\ 1 \in Int /\ hw.sent + 1 \in Nat
  BY <1>1
<1>2. IsFiniteSet(lost) /\ Cardinality(lost) \in Nat
  <2>1. lost \in SUBSET (1 .. hw.sent)
    BY DEF PlaceInv
  <2>2. IsFiniteSet(1 .. hw.sent)
    BY <1>0, FS_Interval
  <2> QED BY <2>1, <2>2, FS_Subset, FS_CardinalityType
<1>3. CASE Unmoved /\ Waiting' = Waiting /\ Answering' = Answering
  <2>1. Hands' = Hands
    BY <1>3 DEF Hands, Unmoved
  <2> QED BY <1>3, <2>1 DEF PlaceInv, Unmoved
<1>4. CASE Sends
  <2>1. Hands' = Hands
    BY <1>4 DEF Hands, Sends
  <2>2. Range(Waiting)' = W \cup {hw.sent + 1}
    <3>1. Range(Append(Waiting, hw.sent + 1)) = W \cup {hw.sent + 1}
      BY <1>0, <1>1, RangeAppend
    <3> QED BY <1>4, <3>1 DEF Sends
  <2>3. hw.sent + 1 \notin 1 .. hw.sent /\ 1 .. hw.sent + 1 = (1 .. hw.sent) \cup {hw.sent + 1}
    BY <1>1
  <2>4. Increasing(Waiting')
    <3>1. \A i \in 1 .. Len(Waiting) : Waiting[i] \in 1 .. hw.sent
      <4>1. \A i \in 1 .. Len(Waiting) : Waiting[i] \in W
        BY <1>1 DEF Range
      <4> QED BY <4>1 DEF PlaceInv
    <3>2. /\ Len(Waiting') = Len(Waiting) + 1 /\ Waiting'[Len(Waiting) + 1] = hw.sent + 1
          /\ \A i \in 1 .. Len(Waiting) : Waiting'[i] = Waiting[i]
      BY <1>1, <1>4 DEF Sends
    <3>3. ASSUME NEW i \in 1 .. Len(Waiting) + 1, NEW j \in 1 .. Len(Waiting) + 1, i < j
          PROVE  Waiting'[i] < Waiting'[j]
      <4>0. Len(Waiting) \in Nat
        BY <1>1
      <4>1. i \in 1 .. Len(Waiting)
        BY <3>3, <4>0
      <4>2. CASE j = Len(Waiting) + 1
        <5>1. Waiting'[i] = Waiting[i] /\ Waiting[i] \in 1 .. hw.sent
          BY <3>1, <3>2, <4>1
        <5>2. Waiting'[j] = hw.sent + 1 /\ hw.sent \in Nat
          BY <1>1, <3>2, <4>2
        <5> QED BY <5>1, <5>2
      <4>3. CASE j # Len(Waiting) + 1
        <5>1. j \in 1 .. Len(Waiting)
          BY <4>0, <4>3
        <5> QED BY <3>2, <3>3, <4>1, <5>1 DEF PlaceInv, Increasing
      <4> QED BY <4>2, <4>3
    <3> QED BY <3>2, <3>3 DEF Increasing
  <2> QED BY <1>1, <1>4, <2>1, <2>2, <2>3, <2>4 DEF PlaceInv, Sends
<1>5. CASE TakesAnswer
  <2>1. Hands' = Hands
    BY <1>5 DEF Hands, TakesAnswer
  <2> DEFINE x == Head(Answering)
  <2>2. Range(Answering)' = A \ {x} /\ NoDup(Answering)' /\ x \in A
    BY <1>1, <1>5, RangeTail DEF TakesAnswer
  <2>3. Cardinality(lost \cup {x}) = Cardinality(lost) + 1
    <3>1. x \notin lost
      BY <2>2 DEF PlaceInv
    <3> QED BY <1>2, <3>1, FS_AddElement
  <2> HIDE DEF x
  <2>4. lost' = lost \cup {x} /\ Waiting' = Waiting /\ ev' = ev /\ hw'.sent = hw.sent /\ hw'.done = hw.done + 1
    BY <1>5 DEF TakesAnswer, x
  <2>5. (hw.done <= Cardinality(lost))'
    BY <1>1, <1>2, <2>3, <2>4 DEF PlaceInv
  <2> QED BY <2>1, <2>2, <2>4, <2>5 DEF PlaceInv
<1>6. CASE Flushes
  <2>1. Hands' = Hands
    BY <1>6 DEF Hands, Flushes
  <2>2. Range(Waiting)' = {} /\ Range(Answering)' = {} /\ Increasing(Waiting)' /\ NoDup(Answering)'
    BY <1>6 DEF Flushes, Range, Increasing, NoDup
  <2>3. lost \in SUBSET (1 .. hw.sent) /\ lost' \in SUBSET (1 .. hw.sent) /\ lost \in SUBSET lost'
    BY <1>6 DEF Flushes, PlaceInv
  <2>4. IsFiniteSet(lost') /\ Cardinality(lost) <= Cardinality(lost') /\ Cardinality(lost') \in Nat
    <3>1. IsFiniteSet(1 .. hw.sent)
      BY <1>0, FS_Interval
    <3>2. IsFiniteSet(lost')
      BY <2>3, <3>1, FS_Subset
    <3> QED BY <2>3, <3>2, FS_Subset, FS_CardinalityType
  <2>5. (hw.done <= Cardinality(lost))'
    BY <1>1, <1>2, <1>6, <2>4 DEF PlaceInv, Flushes
  <2>6. lost' = lost \cup W \cup A /\ ev' = ev /\ hw'.sent = hw.sent
    BY <1>6 DEF Flushes
  <2> QED BY <2>1, <2>2, <2>5, <2>6 DEF PlaceInv
<1>7. ASSUME NEW t \in Threads, Picks(t) PROVE PlaceInv'
  <2> DEFINE x == Head(Waiting)
  <2>1. Range(Waiting)' = W \ {x} /\ x \in W /\ x \in Nat /\ Waiting # <<>> /\ Waiting' = Tail(Waiting)
    BY <1>1, <1>7, RangeTail DEF Picks
  <2>2. ev' = [ev EXCEPT ![t] = x] /\ ev[t] = 0
    BY <1>7 DEF Picks
  <2>3. x \in 1 .. hw.sent
    BY <2>1 DEF PlaceInv
  <2>4. Increasing(Waiting')
    <3>1. Len(Waiting') = Len(Waiting) - 1 /\ \A i \in 1 .. Len(Waiting) - 1 : Waiting'[i] = Waiting[i + 1]
      BY <1>1, <2>1
    <3>2. \A i \in 1 .. Len(Waiting) - 1 : i + 1 \in 1 .. Len(Waiting)
      BY <1>1
    <3>3. Len(Waiting) \in Nat
      BY <1>1
    <3>4. ASSUME NEW i \in 1 .. Len(Waiting) - 1, NEW j \in 1 .. Len(Waiting) - 1, i < j
          PROVE  Waiting[i + 1] < Waiting[j + 1]
      <4>1. i + 1 < j + 1
        BY <3>3, <3>4
      <4> QED BY <3>2, <4>1 DEF PlaceInv, Increasing
    <3> QED BY <3>1, <3>4 DEF Increasing
  <2> HIDE DEF x
  <2>5. Hands' = Hands \cup {x}
    <3>1. Hands' = (Hands \ {ev[t]}) \cup ({x} \ {0})
      BY <1>1, <2>1, <2>2, HandsMove DEF PlaceInv
    <3>2. 0 \notin Hands /\ x # 0
      BY <2>3 DEF Hands
    <3> QED BY <2>2, <3>1, <3>2
  <2>6. \A s \in Threads : ev[s] # x
    <3>1. x \notin Hands /\ x # 0
      BY <2>1, <2>3 DEF PlaceInv
    <3> QED BY <3>1 DEF Hands
  <2>7. \A r, s \in Threads : ev'[r] = ev'[s] /\ ev'[r] # 0 => r = s
    <3>1. ev'[t] = x /\ \A s \in Threads : s # t => ev'[s] = ev[s]
      BY <1>1, <2>2, ActorFacts
    <3> QED BY <2>6, <3>1 DEF PlaceInv
  <2>8. Answering' = Answering /\ lost' = lost /\ hw'.sent = hw.sent /\ hw'.done = hw.done
    BY <1>7 DEF Picks
  <2> QED BY <2>1, <2>4, <2>5, <2>7, <2>8 DEF PlaceInv
<1>8. ASSUME NEW t \in Threads, Answers(t) PROVE PlaceInv'
  <2> DEFINE x == ev[t]
  <2>1. x # 0 /\ x \in Nat /\ x \in Hands /\ ev' = [ev EXCEPT ![t] = 0]
    BY <1>1, <1>8, ActorFacts DEF Answers, Hands
  <2>2. Hands' = Hands \ {x}
    <3>1. Hands' = (Hands \ {ev[t]}) \cup ({0} \ {0})
      BY <1>1, <2>1, HandsMove DEF PlaceInv
    <3> QED BY <3>1
  <2>3. \A r, s \in Threads : ev'[r] = ev'[s] /\ ev'[r] # 0 => r = s
    <3>1. ev'[t] = 0 /\ \A s \in Threads : s # t => ev'[s] = ev[s]
      BY <1>1, <2>1, ActorFacts
    <3> QED BY <3>1 DEF PlaceInv
  <2>4. x \notin A /\ x \notin lost /\ x \notin W
    BY <2>1 DEF PlaceInv
  <2>5. Waiting' = Waiting /\ hw'.sent = hw.sent /\ hw'.done = hw.done
    BY <1>8 DEF Answers
  <2>6. CASE Answering' = Append(Answering, x) /\ lost' = lost
    <3>1. Range(Answering)' = A \cup {x}
      BY <1>1, <2>1, <2>6, RangeAppend
    <3>2. NoDup(Answering')
      BY <1>1, <2>1, <2>4, <2>6, NoDupAppend
    <3> HIDE DEF x
    <3> QED BY <2>1, <2>2, <2>3, <2>4, <2>5, <2>6, <3>1, <3>2 DEF PlaceInv
  <2>7. CASE Answering' = Answering /\ lost' = lost \cup {x}
    <3>1. Cardinality(lost') = Cardinality(lost) + 1
      BY <1>2, <2>4, <2>7, FS_AddElement
    <3>2. (hw.done <= Cardinality(lost))'
      BY <1>1, <1>2, <2>5, <3>1 DEF PlaceInv
    <3> HIDE DEF x
    <3> QED BY <2>1, <2>2, <2>3, <2>4, <2>5, <2>7, <3>2 DEF PlaceInv
  <2> QED BY <1>8, <2>6, <2>7 DEF Answers
<1> QED BY <1>3, <1>4, <1>5, <1>6, <1>7, <1>8 DEF EventMoves


\* The steps, without the schedule.
AnyStep ==
  \/ AdapterSends \/ Interrupt \/ AdapterTakesAnswer \/ AdapterFails \/ TimePasses \/ ResetAdapter
  \/ \E a \in Actors : StopThread(a) \/ ThreadStopped(a) \/ Restart(a) \/ Reinit(a) \/ ResetOut(a)
  \/ \E t \in Threads : \/ Start(t) \/ Oops(t) \/ TakeEvent(t) \/ Handle(t) \/ FanOut(t) \/ Complete(t)
                        \/ Sleep(t) \/ CheckHealth(t) \/ Break(t)
  \/ \E u \in Users : \/ NextFib(u) \/ NoFib(u) \/ RestartThread(u) \/ Down(u) \/ CloseContext(u)
                      \/ UseFreed(u) \/ OpenContext(u) \/ GiveUp(u) \/ FindContext(u)

\* Every step is one of these, whoever makes it.
LEMMA NextIsAnyStep ==
  ASSUME Next
  PROVE  AnyStep
<1>1. Eh \in Actors /\ Threads \subseteq Actors
  BY ActorFacts
<1>2. ASSUME NEW a \in Actors, ResetStep(a) PROVE AnyStep
  BY <1>2 DEF ResetStep, AnyStep
<1>3. ASSUME NEW t \in Threads, ThreadStep(t) PROVE AnyStep
  BY <1>1, <1>2, <1>3 DEF ThreadStep, AnyStep
<1>4. ASSUME NEW u \in Users, UserStep(u) \/ UserCall(u) PROVE AnyStep
  BY <1>4 DEF UserStep, UserCall, AnyStep
<1> QED BY <1>1, <1>2, <1>3, <1>4 DEF Next, AnyStep

-----------------------------------------------------------------------------
(***************************************************************************)
(* What the steps do to the events.                                        *)
(***************************************************************************)
LEMMA StepEvents ==
  ASSUME EventType, HandInv, AnyStep
  PROVE  EventType' /\ EventMoves
<1> DEFINE Good == EventType' /\ EventMoves
<1>1. ASSUME UNCHANGED <<hostq, respq, cmdq, lost, ev>>,
             hw' \in [sent : Nat, done : Nat, health : {"ok", "panic", "dead"}],
             hw'.sent = hw.sent, hw'.done = hw.done
      PROVE  Good
  BY <1>1 DEF EventType, EventMoves, Unmoved, Waiting, Answering
<1>2. ASSUME UNCHANGED <<hw, hostq, respq, cmdq, lost, ev>>
      PROVE  Good
  BY <1>1, <1>2 DEF EventType
<1> SUFFICES Good
  OBVIOUS
<1> HIDE DEF Good
<1>3. CASE AdapterSends
  <2>1. /\ ~Full(hostq) /\ hw' = [hw EXCEPT !.sent = @ + 1] /\ hostq' = QueueGet(hostq, hw.sent + 1)
        /\ UNCHANGED <<respq, cmdq, lost, ev>> /\ hw.sent < Len(inst.script)
    BY <1>3 DEF AdapterSends
  <2>2. /\ hw' \in [sent : Nat, done : Nat, health : {"ok", "panic", "dead"}] /\ hw.sent + 1 \in Nat
        /\ hw'.sent = hw.sent + 1 /\ hw'.done = hw.done
    BY <2>1 DEF EventType
  <2>3. RingOK(hostq') /\ Contents(hostq)' = Append(Contents(hostq), hw.sent + 1)
        /\ Contents(hostq) \in Seq(Nat)
    BY <2>1, <2>2, RingPut, ContentsIs DEF EventType
  <2>4. Waiting' = Append(Waiting, hw.sent + 1)
    <3>1. cmdq \in Seq(Nat)
      BY DEF EventType
    <3>2. cmdq \o Append(Contents(hostq), hw.sent + 1) = Append(cmdq \o Contents(hostq), hw.sent + 1)
      <4> DEFINE c == Contents(hostq)
                 x == hw.sent + 1
      <4>1. c \in Seq(Nat) /\ x \in Nat
        BY <2>2, <2>3
      <4> HIDE DEF c, x
      <4>2. cmdq \o Append(c, x) = Append(cmdq \o c, x)
        BY <3>1, <4>1, ConcatAppend
      <4> QED BY <4>2 DEF c, x
    <3> QED BY <2>1, <2>3, <3>2 DEF Waiting
  <2>5. Answering' = Answering
    BY <2>1 DEF Answering
  <2>6. EventType'
    BY <2>1, <2>2, <2>3 DEF EventType
  <2>7. EventMoves
    BY <2>1, <2>2, <2>4, <2>5 DEF EventMoves, Sends
  <2> QED BY <2>6, <2>7 DEF Good
<1>4. CASE Interrupt
  <2>1. /\ HasEntry(hostq) /\ cmdq' = Append(cmdq, ConsumerGet(hostq)) /\ hostq' = ConsumerFree(hostq)
        /\ UNCHANGED <<hw, respq, lost, ev>>
    BY <1>4 DEF Interrupt
  <2>2. /\ RingOK(hostq') /\ Contents(hostq) # <<>> /\ Contents(hostq) \in Seq(Nat) /\ cmdq \in Seq(Nat)
        /\ ConsumerGet(hostq) = Head(Contents(hostq)) /\ Contents(hostq)' = Tail(Contents(hostq))
    BY <2>1, RingTake, ContentsIs DEF EventType
  <2>3. Append(cmdq, Head(Contents(hostq))) \o Tail(Contents(hostq)) = cmdq \o Contents(hostq)
        /\ Append(cmdq, Head(Contents(hostq))) \in Seq(Nat)
    BY <2>2, AppendHead
  <2>4. Waiting' = Waiting /\ Answering' = Answering
    BY <2>1, <2>2, <2>3 DEF Waiting, Answering
  <2>5. EventType'
    BY <2>1, <2>2, <2>3 DEF EventType
  <2>6. EventMoves
    BY <2>1, <2>4 DEF EventMoves, Unmoved
  <2> QED BY <2>5, <2>6 DEF Good
<1>5. CASE AdapterTakesAnswer
  <2>1. /\ HasEntry(respq) /\ hw' = [hw EXCEPT !.done = @ + 1] /\ lost' = lost \cup {ConsumerGet(respq)}
        /\ respq' = ConsumerFree(respq) /\ UNCHANGED <<hostq, cmdq, ev>>
    BY <1>5 DEF AdapterTakesAnswer
  <2>2. /\ RingOK(respq') /\ Answering # <<>> /\ ConsumerGet(respq) = Head(Answering)
        /\ Answering' = Tail(Answering)
    <3>1. /\ RingOK(respq') /\ Contents(respq) # <<>> /\ ConsumerGet(respq) = Head(Contents(respq))
          /\ Contents(respq)' = Tail(Contents(respq))
      BY <2>1, RingTake DEF EventType
    <3> QED BY <3>1 DEF Answering
  <2>3. /\ hw' \in [sent : Nat, done : Nat, health : {"ok", "panic", "dead"}]
        /\ hw'.sent = hw.sent /\ hw'.done = hw.done + 1
    <3>1. hw \in [sent : Nat, done : Nat, health : {"ok", "panic", "dead"}] /\ hw.done + 1 \in Nat
      BY DEF EventType
    <3>2. hw' = [hw EXCEPT !.done = hw.done + 1]
      BY <2>1
    <3> QED BY <3>1, <3>2
  <2>4. Waiting' = Waiting
    BY <2>1 DEF Waiting
  <2>5. EventType'
    BY <2>1, <2>2, <2>3 DEF EventType
  <2>6. EventMoves
    BY <2>1, <2>2, <2>3, <2>4 DEF EventMoves, TakesAnswer
  <2> QED BY <2>5, <2>6 DEF Good
<1>6. CASE AdapterFails
  <2>1. /\ UNCHANGED <<hostq, respq, cmdq, lost, ev>>
        /\ \E h \in {"panic", "dead"} : hw' = [hw EXCEPT !.health = h]
    BY <1>6 DEF AdapterFails
  <2>2. /\ hw' \in [sent : Nat, done : Nat, health : {"ok", "panic", "dead"}]
        /\ hw'.sent = hw.sent /\ hw'.done = hw.done
    <3>1. PICK h \in {"panic", "dead"} : hw' = [hw EXCEPT !.health = h]
      BY <2>1
    <3> QED BY <3>1 DEF EventType
  <2> QED BY <1>1, <2>1, <2>2, Zenon
<1>7. CASE TimePasses \/ ResetAdapter
  BY <1>2, <1>7 DEF TimePasses, ResetAdapter, hostVars
<1>8. ASSUME NEW a \in Actors, StopThread(a) \/ ThreadStopped(a) \/ Reinit(a) \/ ResetOut(a)
      PROVE  Good
  BY <1>2, <1>8 DEF StopThread, ThreadStopped, Reinit, ResetOut, hostVars
<1>9. ASSUME NEW a \in Actors, Restart(a)
      PROVE  Good
  <2>1. CASE UNCHANGED <<hostVars, ev>>
    BY <1>2, <2>1 DEF hostVars
  <2>2. CASE ~UNCHANGED <<hostVars, ev>>
    <3>1. /\ hw' = [hw EXCEPT !.health = "ok"]
          /\ lost' = lost \cup Range(Contents(hostq)) \cup Range(cmdq) \cup Range(Contents(respq))
          /\ hostq' = EmptyRing /\ respq' = EmptyRing /\ cmdq' = <<>> /\ ev' = ev
      BY <1>9, <2>2 DEF Restart
    <3>2. /\ hw' \in [sent : Nat, done : Nat, health : {"ok", "panic", "dead"}]
          /\ hw'.sent = hw.sent /\ hw'.done = hw.done
      BY <3>1 DEF EventType
    <3>3. Waiting' = <<>> /\ Answering' = <<>> /\ RingOK(hostq') /\ RingOK(respq')
      BY <3>1, RingEmpty DEF Waiting, Answering
    <3>4. lost' = lost \cup Range(Waiting) \cup Range(Answering)
      <4>1. cmdq \in Seq(Nat) /\ Contents(hostq) \in Seq(Nat)
        BY ContentsIs DEF EventType
      <4>2. Range(Waiting) = Range(cmdq) \cup Range(Contents(hostq))
        BY <4>1, RangeConcat DEF Waiting
      <4> QED BY <3>1, <4>2 DEF Answering
    <3>5. EventType'
      BY <3>1, <3>2, <3>3 DEF EventType
    <3>6. EventMoves
      BY <3>1, <3>2, <3>3, <3>4 DEF EventMoves, Flushes
    <3> QED BY <3>5, <3>6 DEF Good
  <2> QED BY <2>1, <2>2
<1>10. ASSUME NEW t \in Threads,
              Start(t) \/ Oops(t) \/ Handle(t) \/ FanOut(t) \/ Sleep(t) \/ CheckHealth(t) \/ Break(t)
       PROVE  Good
  <2>1. UNCHANGED <<hw, hostq, respq, cmdq, lost, ev>>
    BY <1>10 DEF Start, Oops, Handle, FanOut, Sleep, CheckHealth, Break, hostVars
  <2> QED BY <1>2, <2>1
<1>11. ASSUME NEW t \in Threads, TakeEvent(t)
       PROVE  Good
  <2>1. pc[t] = "top" /\ UNCHANGED <<hw, hostq, respq, lost>>
    BY <1>11 DEF TakeEvent
  <2>2. CASE cmdq = <<>>
    <3>1. UNCHANGED <<cmdq, ev>>
      BY <1>11, <2>2 DEF TakeEvent
    <3> QED BY <1>2, <2>1, <3>1
  <2>3. CASE cmdq # <<>>
    <3>1. cmdq' = Tail(cmdq) /\ ev' = [ev EXCEPT ![t] = Head(cmdq)]
      BY <1>11, <2>3 DEF TakeEvent
    <3>2. cmdq \in Seq(Nat) /\ Contents(hostq) \in Seq(Nat) /\ Head(cmdq) \in Nat /\ Tail(cmdq) \in Seq(Nat)
      BY <2>3, ContentsIs DEF EventType
    <3>3. Waiting # <<>> /\ Waiting' = Tail(Waiting) /\ Head(cmdq) = Head(Waiting)
      BY <2>1, <2>3, <3>1, <3>2, TailConcat DEF Waiting
    <3>4. ev[t] = 0
      BY <2>1 DEF HandInv
    <3>5. ev' \in [Actors -> Nat]
      BY <3>1, <3>2 DEF EventType
    <3>6. EventType'
      BY <2>1, <3>1, <3>2, <3>5 DEF EventType
    <3>7. Picks(t)
      BY <2>1, <3>1, <3>3, <3>4 DEF Picks, Answering
    <3> QED BY <3>6, <3>7 DEF Good, EventMoves
  <2> QED BY <2>2, <2>3
<1>12. ASSUME NEW t \in Threads, Complete(t)
       PROVE  Good
  <2>1. /\ pc[t] \in {"complete", "answer"} /\ ev' = [ev EXCEPT ![t] = 0] /\ UNCHANGED <<hw, hostq, cmdq>>
        /\ \/ Room(respq) /\ respq' = QueueGet(respq, ev[t]) /\ UNCHANGED lost
           \/ lost' = lost \cup {ev[t]} /\ UNCHANGED respq
    BY <1>12 DEF Complete
  <2>2. ev[t] # 0 /\ ev[t] \in Nat
    BY <2>1, ActorFacts DEF HandInv, EventType
  <2>3. ev' \in [Actors -> Nat] /\ Waiting' = Waiting
    BY <2>1 DEF EventType, Waiting
  <2>4. /\ RingOK(respq')
        /\ \/ Answering' = Append(Answering, ev[t]) /\ lost' = lost
           \/ Answering' = Answering /\ lost' = lost \cup {ev[t]}
    <3>1. CASE Room(respq) /\ respq' = QueueGet(respq, ev[t]) /\ UNCHANGED lost
      BY <2>2, <3>1, RingPut DEF EventType, Answering, Room
    <3>2. CASE lost' = lost \cup {ev[t]} /\ UNCHANGED respq
      BY <3>2 DEF EventType, Answering
    <3> QED BY <2>1, <3>1, <3>2
  <2>5. EventType'
    BY <2>1, <2>3, <2>4 DEF EventType
  <2>6. Answers(t)
    BY <2>1, <2>2, <2>3, <2>4 DEF Answers
  <2> QED BY <2>5, <2>6 DEF Good, EventMoves
<1>13. ASSUME NEW u \in Users,
              \/ NextFib(u) \/ NoFib(u) \/ RestartThread(u) \/ Down(u) \/ CloseContext(u)
              \/ UseFreed(u) \/ OpenContext(u) \/ GiveUp(u) \/ FindContext(u)
       PROVE  Good
  <2>1. UNCHANGED <<hw, hostq, respq, cmdq, lost, ev>>
    BY <1>13 DEF NextFib, NoFib, RestartThread, Down, CloseContext, UseFreed, OpenContext, GiveUp,
                 FindContext, hostVars
  <2> QED BY <1>2, <2>1
<1>14. Good
  <2>1. CASE AdapterSends \/ Interrupt \/ AdapterTakesAnswer \/ AdapterFails \/ TimePasses \/ ResetAdapter
    BY <1>3, <1>4, <1>5, <1>6, <1>7, <2>1
  <2>2. ASSUME NEW a \in Actors, StopThread(a) \/ ThreadStopped(a) \/ Restart(a) \/ Reinit(a) \/ ResetOut(a)
        PROVE  Good
    BY <1>8, <1>9, <2>2
  <2>3. ASSUME NEW t \in Threads,
               \/ Start(t) \/ Oops(t) \/ TakeEvent(t) \/ Handle(t) \/ FanOut(t) \/ Complete(t)
               \/ Sleep(t) \/ CheckHealth(t) \/ Break(t)
        PROVE  Good
    BY <1>10, <1>11, <1>12, <2>3
  <2> QED BY <1>13, <2>1, <2>2, <2>3 DEF AnyStep
<1> QED BY <1>14

-----------------------------------------------------------------------------
(***************************************************************************)
(* What the steps do to the hands of the threads.                          *)
(***************************************************************************)
InHand == {"handle", "fan", "complete", "answer"}

\* A thread goes from one place to another without taking or answering an event.
Empty(from, to) ==
  /\ to \in InHand => from \in InHand
  /\ from \in InHand => to \in InHand \cup {"oops", "hung"}
  /\ from \in {"oops", "hung"} => to \in {"oops", "hung"}
  /\ to \in {"handle", "fan"} => from \in {"handle", "fan"}
  /\ to \in Serving => from \in Serving

Walk == ev' = ev /\ two' = two /\ \A t \in Threads : Empty(pc[t], pc'[t])
Begin(t) == /\ ev' = ev /\ pc[t] = "new" /\ pc' = [pc EXCEPT ![t] = "top"]
            /\ two' = (two \/ \E o \in Threads : pc[o] \in Serving)
PickUp(t) == /\ pc[t] = "top" /\ pc' = [pc EXCEPT ![t] = "handle"] /\ two' = two
             /\ Waiting # <<>> /\ ev' = [ev EXCEPT ![t] = Head(Waiting)]
PutDown(t) == /\ pc[t] \in {"complete", "answer"} /\ pc' = [pc EXCEPT ![t] = "top"] /\ two' = two
              /\ ev' = [ev EXCEPT ![t] = 0]

HandMoves == Walk \/ \E t \in Threads : Begin(t) \/ PickUp(t) \/ PutDown(t)

\* One actor goes from one place to another.
LEMMA WalkOne ==
  ASSUME TypeInv, NEW a, NEW to, pc' = [pc EXCEPT ![a] = to], a \in Threads => Empty(pc[a], to),
         ev' = ev, two' = two
  PROVE  Walk
<1>1. Threads \subseteq Actors /\ DOMAIN pc = Actors
  BY ActorFacts DEF TypeInv
<1>2. ASSUME NEW t \in Threads PROVE Empty(pc[t], pc'[t])
  <2>1. CASE t = a
    BY <1>1, <2>1
  <2>2. CASE t # a
    <3>1. pc'[t] = pc[t]
      BY <1>1, <2>2
    <3> QED BY <3>1 DEF Empty
  <2> QED BY <2>1, <2>2
<1> QED BY <1>2 DEF Walk

\* Every step of the program is one of these moves of the hands.
LEMMA StepHands ==
  ASSUME TypeInv, ResetInv, EventType, AnyStep
  PROVE  HandMoves
<1> USE DEF Empty, InHand, Serving
<1>1. CASE UNCHANGED <<pc, ev, two>>
  BY <1>1 DEF HandMoves, Walk
<1>2. ASSUME NEW a, NEW to, pc' = [pc EXCEPT ![a] = to], a \in Threads => Empty(pc[a], to),
             UNCHANGED <<ev, two>>
      PROVE  HandMoves
  BY <1>2, WalkOne DEF HandMoves
<1>3. CASE AdapterSends \/ Interrupt \/ AdapterTakesAnswer \/ AdapterFails \/ TimePasses
  BY <1>1, <1>3 DEF AdapterSends, Interrupt, AdapterTakesAnswer, AdapterFails, TimePasses
<1>4. CASE ResetAdapter
  <2>1. pc' = [pc EXCEPT ![Eh] = "stop"] /\ UNCHANGED <<ev, two>> /\ Eh \notin Threads
    BY <1>4, ActorFacts DEF ResetAdapter, Goto
  <2> QED BY <1>2, <2>1
\* A thread is made.
<1>5. ASSUME NEW p \in [Actors -> Pcs], pc' = [p EXCEPT ![dev.thread + 1] = "new"],
             dev.thread < MaxThreads, UNCHANGED <<ev, two>>,
             \A t \in Threads : Empty(pc[t], p[t]), \A t \in Threads : t > dev.thread => p[t] = "none"
      PROVE  HandMoves
  <2>1. dev.thread + 1 \in Threads /\ dev.thread + 1 > dev.thread /\ Threads \subseteq Actors
    BY <1>5, NextThread, ActorFacts DEF TypeInv
  <2>2. p[dev.thread + 1] = "none"
    BY <1>5, <2>1
  <2>3. ASSUME NEW t \in Threads PROVE Empty(pc[t], pc'[t])
    <3>1. CASE t = dev.thread + 1
      <4>1. pc'[t] = "new" /\ Empty(pc[t], "none")
        BY <1>5, <2>1, <2>2, <3>1
      <4> QED BY <4>1
    <3>2. CASE t # dev.thread + 1
      <4>1. pc'[t] = p[t]
        BY <1>5, <2>1, <3>2
      <4> QED BY <1>5, <4>1
    <3> QED BY <3>1, <3>2
  <2> QED BY <1>5, <2>3 DEF HandMoves, Walk
<1>6. ASSUME NEW a \in Actors,
             StopThread(a) \/ ThreadStopped(a) \/ Restart(a) \/ Reinit(a) \/ ResetOut(a)
      PROVE  HandMoves
  <2>1. CASE StopThread(a) \/ ThreadStopped(a)
    BY <1>2, <2>1 DEF StopThread, ThreadStopped, Goto
  <2>2. CASE Restart(a)
    BY <1>2, <2>2 DEF Restart, Goto
  <2>3. CASE ResetOut(a)
    <3>1. UNCHANGED <<ev, two>> /\ pc[a] = "out"
      BY <2>3 DEF ResetOut
    <3>2. CASE a = Eh /\ pc' = [pc EXCEPT ![a] = "idle"]
      <4>1. a \notin Threads
        BY <3>2, ActorFacts
      <4> QED BY <1>2, <3>1, <3>2, <4>1
    <3>3. CASE \E to \in {"break", "top"} : pc' = [pc EXCEPT ![a] = to]
      <4>1. PICK to \in {"break", "top"} : pc' = [pc EXCEPT ![a] = to]
        BY <3>3
      <4>2. Empty(pc[a], to)
        BY <3>1
      <4> QED BY <1>2, <3>1, <4>1, <4>2
    <3> QED BY <2>3, <3>2, <3>3 DEF ResetOut, Goto
  <2>4. CASE Reinit(a)
    <3>1. UNCHANGED <<ev, two>> /\ pc[a] = "init"
      BY <2>4 DEF Reinit
    <3>2. CASE pc' = [pc EXCEPT ![a] = "out"]
      BY <1>2, <3>1, <3>2
    <3>3. CASE dev.thread < MaxThreads /\ pc' = [pc EXCEPT ![a] = "out", ![dev.thread + 1] = "new"]
      <4> DEFINE p == [pc EXCEPT ![a] = "out"]
      <4>1. p \in [Actors -> Pcs] /\ \A t \in Threads : p[t] = pc[t] \/ (pc[t] = "init" /\ p[t] = "out")
        BY <3>1, ActorFacts DEF TypeInv, Pcs
      <4>2. \A t \in Threads : Empty(pc[t], p[t])
        BY <4>1
      <4>3. \A t \in Threads : t > dev.thread => p[t] = "none"
        BY <4>1 DEF ResetInv
      <4>4. pc' = [p EXCEPT ![dev.thread + 1] = "new"]
        BY <3>3
      <4> HIDE DEF p
      <4> QED BY <1>5, <3>1, <3>3, <4>1, <4>2, <4>3, <4>4
    <3> QED BY <2>4, <3>2, <3>3 DEF Reinit, Goto
  <2> QED BY <1>6, <2>1, <2>2, <2>3, <2>4
<1>7. ASSUME NEW t \in Threads, Start(t)
      PROVE  HandMoves
  <2>1. CASE pc' = [pc EXCEPT ![t] = "exited"] /\ UNCHANGED two
    <3>1. pc[t] = "new" /\ ev' = ev
      BY <1>7 DEF Start
    <3> QED BY <1>2, <2>1, <3>1
  <2>2. CASE pc' = [pc EXCEPT ![t] = "top"] /\ two' = (two \/ \E o \in Threads : pc[o] \in Serving)
    <3>1. pc[t] = "new" /\ ev' = ev
      BY <1>7 DEF Start
    <3>2. Begin(t)
      BY <2>2, <3>1 DEF Begin
    <3> QED BY <3>2 DEF HandMoves
  <2> HIDE DEF Serving
  <2> QED BY <1>7, <2>1, <2>2, Zenon DEF Start, Goto
<1>8. ASSUME NEW t \in Threads, Oops(t) \/ Handle(t) \/ FanOut(t) \/ Sleep(t) \/ CheckHealth(t) \/ Break(t)
      PROVE  HandMoves
  <2>1. CASE Oops(t)
    BY <1>2, <2>1 DEF Oops, Goto
  <2>2. CASE Handle(t)
    <3>1. /\ UNCHANGED <<ev, two>> /\ pc[t] = "handle"
          /\ pc' = [pc EXCEPT ![t] = "answer"] \/ pc' = [pc EXCEPT ![t] = "fan"]
      BY <2>2 DEF Handle, Goto
    <3> QED BY <1>2, <3>1
  <2>3. CASE FanOut(t)
    <3>1. UNCHANGED <<ev, two>> /\ pc[t] = "fan" /\ pc' = [pc EXCEPT ![t] = "complete"]
      BY <2>3 DEF FanOut, Goto
    <3> QED BY <1>2, <3>1
  <2>4. CASE Sleep(t)
    <3>1. /\ UNCHANGED <<ev, two>> /\ pc[t] = "health"
          /\ pc' = [pc EXCEPT ![t] = "break"] \/ pc' = [pc EXCEPT ![t] = "top"]
      BY <2>4 DEF Sleep, Goto
    <3> QED BY <1>2, <3>1
  <2>5. CASE CheckHealth(t)
    <3>1. /\ UNCHANGED <<ev, two>> /\ pc[t] = "health"
          /\ \/ pc' = [pc EXCEPT ![t] = "out"] \/ pc' = [pc EXCEPT ![t] = "restart"]
             \/ pc' = [pc EXCEPT ![t] = "stop"]
      BY <2>5 DEF CheckHealth, Goto
    <3> QED BY <1>2, <3>1
  <2>6. CASE Break(t)
    BY <1>2, <2>6 DEF Break, Goto
  <2> QED BY <1>8, <2>1, <2>2, <2>3, <2>4, <2>5, <2>6
<1>9. ASSUME NEW t \in Threads, TakeEvent(t)
      PROVE  HandMoves
  <2>1. pc[t] = "top" /\ two' = two
    BY <1>9 DEF TakeEvent
  <2>2. CASE cmdq = <<>>
    <3>1. pc' = [pc EXCEPT ![t] = "health"] /\ ev' = ev
      BY <1>9, <2>2 DEF TakeEvent, Goto
    <3> QED BY <1>2, <2>1, <3>1
  <2>3. CASE cmdq # <<>>
    <3>1. pc' = [pc EXCEPT ![t] = "handle"] /\ ev' = [ev EXCEPT ![t] = Head(cmdq)]
      BY <1>9, <2>3 DEF TakeEvent, Goto
    <3>2. cmdq \in Seq(Nat) /\ Contents(hostq) \in Seq(Nat)
      BY ContentsIs DEF EventType
    <3>3. Waiting # <<>> /\ Head(cmdq) = Head(Waiting)
      BY <2>3, <3>2, TailConcat DEF Waiting
    <3>4. PickUp(t)
      BY <2>1, <3>1, <3>3 DEF PickUp
    <3> QED BY <3>4 DEF HandMoves
  <2> QED BY <2>2, <2>3
<1>10. ASSUME NEW t \in Threads, Complete(t)
       PROVE  HandMoves
  <2>1. PutDown(t)
    BY <1>10 DEF Complete, PutDown, Goto
  <2> QED BY <2>1 DEF HandMoves
<1>11. ASSUME NEW u \in Users,
              \/ NextFib(u) \/ NoFib(u) \/ Down(u) \/ CloseContext(u)
              \/ UseFreed(u) \/ OpenContext(u) \/ GiveUp(u) \/ FindContext(u)
       PROVE  HandMoves
  <2>1. UNCHANGED <<pc, ev, two>>
    BY <1>11 DEF NextFib, NoFib, Down, CloseContext, UseFreed, OpenContext, GiveUp, FindContext
  <2> QED BY <1>1, <2>1
<1>12. ASSUME NEW u \in Users, RestartThread(u)
       PROVE  HandMoves
  <2>1. dev.thread < MaxThreads /\ pc' = [pc EXCEPT ![dev.thread + 1] = "new"] /\ UNCHANGED <<ev, two>>
    BY <1>12 DEF RestartThread, KthreadRun
  <2>2. pc \in [Actors -> Pcs] /\ \A t \in Threads : t > dev.thread => pc[t] = "none"
    BY DEF TypeInv, ResetInv
  <2>3. \A t \in Threads : Empty(pc[t], pc[t])
    OBVIOUS
  <2> HIDE DEF Empty
  <2> QED BY <1>5, <2>1, <2>2, <2>3
<1> HIDE DEF Empty, InHand, Serving
<1>13. ASSUME NEW t \in Threads,
              \/ Start(t) \/ Oops(t) \/ TakeEvent(t) \/ Handle(t) \/ FanOut(t) \/ Complete(t)
              \/ Sleep(t) \/ CheckHealth(t) \/ Break(t)
       PROVE  HandMoves
  BY <1>7, <1>8, <1>9, <1>10, <1>13
<1>14. ASSUME NEW u \in Users,
              \/ NextFib(u) \/ NoFib(u) \/ RestartThread(u) \/ Down(u) \/ CloseContext(u)
              \/ UseFreed(u) \/ OpenContext(u) \/ GiveUp(u) \/ FindContext(u)
       PROVE  HandMoves
  BY <1>11, <1>12, <1>14
<1> QED BY <1>3, <1>4, <1>6, <1>13, <1>14 DEF AnyStep

\* A thread has an event in hand just between taking and answering it.
LEMMA HandStep ==
  ASSUME TypeInv, EventType, HandInv, PlaceInv, HandMoves, EventType'
  PROVE  HandInv'
<1>1. Threads \subseteq Actors /\ Eh \in Actors /\ Eh \notin Threads
      /\ DOMAIN pc = Actors /\ DOMAIN ev = Actors
  BY ActorFacts DEF TypeInv, EventType
<1>2. CASE Walk
  BY <1>1, <1>2 DEF Walk, Empty, HandInv, InHand
<1>3. ASSUME NEW t \in Threads, Begin(t) PROVE HandInv'
  <2>1. ev' = ev /\ pc[t] = "new" /\ pc' = [pc EXCEPT ![t] = "top"]
    BY <1>3 DEF Begin
  <2> QED BY <1>1, <2>1 DEF HandInv
<1>4. ASSUME NEW t \in Threads, PickUp(t) PROVE HandInv'
  <2>1. pc' = [pc EXCEPT ![t] = "handle"] /\ ev' = [ev EXCEPT ![t] = Head(Waiting)] /\ Waiting # <<>>
    BY <1>4 DEF PickUp
  <2>2. Head(Waiting) # 0
    <3>1. Waiting \in Seq(Nat) /\ NoDup(Waiting)
      <4>1. Waiting \in Seq(Nat)
        BY ContentsIs, RangeConcat DEF EventType, Waiting
      <4> QED BY <4>1, IncreasingNoDup DEF PlaceInv
    <3>2. Head(Waiting) \in Range(Waiting)
      BY <2>1, <3>1, RangeTail
    <3>3. Head(Waiting) \in 1 .. hw.sent
      BY <3>2 DEF PlaceInv
    <3> QED BY <3>3
  <2> QED BY <1>1, <2>1, <2>2 DEF HandInv
<1>5. ASSUME NEW t \in Threads, PutDown(t) PROVE HandInv'
  <2>1. pc' = [pc EXCEPT ![t] = "top"] /\ ev' = [ev EXCEPT ![t] = 0]
    BY <1>5 DEF PutDown
  <2> QED BY <1>1, <2>1 DEF HandInv
<1> QED BY <1>2, <1>3, <1>4, <1>5 DEF HandMoves

-----------------------------------------------------------------------------
(***************************************************************************)
(* What the steps do to the contexts.                                      *)
(***************************************************************************)
ContextMove(c, d, x) ==
  \/ d.fibs = c.fibs /\ d.last = c.last
  \/ d.fibs = <<>> /\ d.last = 0
  \/ d.fibs = Append(c.fibs, x) /\ d.last = c.last
  \/ /\ c.fibs # <<>> /\ d.fibs = Tail(c.fibs)
     /\ d.last = IF Head(c.fibs) = 0 THEN c.last ELSE Head(c.fibs)

\* All contexts may be given one fib, of the event a thread has in hand or of
\* the notice of a panic.
ContextMoves ==
  \E x \in Nat : /\ x = 0 \/ \E t \in Threads : pc[t] = "fan" /\ pc'[t] = "complete" /\ ev[t] = x
                 /\ \A u \in Users : ContextMove(ctx[u], ctx'[u], x)

Covered(c, p) == Len(c.fibs) <= c.sem + (IF p.pc = "retry" THEN 1 ELSE 0)

\* A context that has just been opened is empty.
LEMMA NewContextType == NewContext \in Context /\ Len(NewContext.fibs) = 0
BY DEF NewContext, Context

Pulled(c, f, r, l) == [c EXCEPT !.fibs = f, !.read = r, !.last = l]

PulledRight(c, d, f, l) == d \in Context /\ d.fibs = f /\ d.last = l /\ d.sem = c.sem

\* What the fields of a context are after a read.
LEMMA PulledType ==
  ASSUME NEW c \in Context, NEW f \in Seq(Nat), NEW r \in {"recent", "later", "old"}, NEW l \in Nat
  PROVE  PulledRight(c, Pulled(c, f, r, l), f, l)
<1> DEFINE e1 == [c EXCEPT !.fibs = f]
           e2 == [e1 EXCEPT !.read = r]
<1>1. e1 \in Context /\ e1.fibs = f /\ e1.sem = c.sem
  BY DEF Context
<1> HIDE DEF e1
<1>2. e2 \in Context /\ e2.fibs = f /\ e2.sem = c.sem
  BY <1>1 DEF Context
<1> HIDE DEF e2
<1>3. Pulled(c, f, r, l) = [e2 EXCEPT !.last = l]
  BY DEF e2, e1, Pulled
<1> QED BY <1>2, <1>3 DEF Context, PulledRight

\* A fib that is put into a context comes with an up of its semaphore.
LEMMA DeliveredType ==
  ASSUME NEW c \in Context, NEW x \in Nat
  PROVE  /\ Delivered(c, x) \in Context /\ ContextMove(c, Delivered(c, x), x)
         /\ \A p : Covered(c, p) => Covered(Delivered(c, x), p)
<1>1. /\ c.fibs \in Seq(Nat) /\ c.sem \in Nat /\ Append(c.fibs, x) \in Seq(Nat)
      /\ Len(Append(c.fibs, x)) = Len(c.fibs) + 1 /\ Len(c.fibs) \in Nat
  BY DEF Context
<1>2. /\ Delivered(c, x) \in Context /\ Delivered(c, x).fibs = Append(c.fibs, x)
      /\ Delivered(c, x).last = c.last /\ Delivered(c, x).sem = c.sem + 1
  <2>1. c.sem + 1 \in Nat
    BY <1>1
  <2>2. Delivered(c, x) = [[c EXCEPT !.fibs = Append(c.fibs, x)] EXCEPT !.sem = c.sem + 1]
    BY DEF Delivered, Context
  <2>3. [c EXCEPT !.fibs = Append(c.fibs, x)] \in Context
    BY <1>1 DEF Context
  <2> QED BY <1>1, <2>1, <2>2, <2>3 DEF Context
<1>3. ASSUME NEW p, Covered(c, p) PROVE Covered(Delivered(c, x), p)
  BY <1>1, <1>2, <1>3 DEF Covered
<1> QED BY <1>2, <1>3 DEF ContextMove

\* A step of one program.
LEMMA OneUser ==
  ASSUME ContextType, SemCovers, NEW u \in Users,
         fib_list' \in Seq(Users), NoDup(fib_list'), \A w \in Open' : w \in Open \/ w = u,
         ctx' \in [Users -> Context], user' \in [Users -> [pc : UserPcs, waits : Nat]],
         \A w \in Users : w # u => ctx'[w] = ctx[w] /\ user'[w] = user[w],
         ContextMove(ctx[u], ctx'[u], 0), u \in Open' => Covered(ctx'[u], user'[u])
  PROVE  ContextType' /\ ContextMoves /\ SemCovers'
<1>1. ContextType'
  BY DEF ContextType
<1>2. ASSUME NEW w \in Users PROVE ContextMove(ctx[w], ctx'[w], 0)
  <2>1. CASE w = u
    BY <2>1
  <2>2. CASE w # u
    BY <2>2 DEF ContextMove
  <2> QED BY <2>1, <2>2
<1>3. ContextMoves
  BY <1>2 DEF ContextMoves
<1>4. ASSUME NEW w \in Open' PROVE Covered(ctx'[w], user'[w])
  <2>1. CASE w = u
    BY <1>4, <2>1
  <2>2. CASE w # u
    <3>1. w \in Open
      BY <2>2, <1>4
    <3>0. w \in Users
      BY <3>1 DEF Open, ContextType, Range
    <3>2. ctx'[w] = ctx[w] /\ user'[w] = user[w]
      BY <2>2, <3>0
    <3> QED BY <3>1, <3>2 DEF SemCovers, Covered
  <2> QED BY <2>1, <2>2
<1>5. SemCovers'
  BY <1>4 DEF SemCovers, Covered
<1> QED BY <1>1, <1>3, <1>5

\* A fib for the contexts, and the end of those that are backlogged.
FansOut(kept, served, x) ==
  /\ fib_list' = kept /\ user' = user /\ ctx' = [u \in Users |-> ctx'[u]]
  /\ \A u \in Users : ctx'[u] = IF u \in served THEN Delivered(ctx[u], x)
                                ELSE IF u \in Open \ Range(kept) THEN NewContext ELSE ctx[u]

\* A fib for all contexts that stay.
LEMMA Fan ==
  ASSUME ContextType, SemCovers, NEW gone, NEW served, NEW x \in Nat,
         x = 0 \/ \E t \in Threads : pc[t] = "fan" /\ pc'[t] = "complete" /\ ev[t] = x,
         NEW kept, kept = Without(fib_list, gone), FansOut(kept, served, x)
  PROVE  ContextType' /\ ContextMoves /\ SemCovers'
<1>1. fib_list' \in Seq(Users) /\ NoDup(fib_list') /\ Open' = Open \ gone
  BY WithoutList DEF ContextType, Open, FansOut
<1>2. ASSUME NEW u \in Users
      PROVE  /\ ctx'[u] \in Context /\ ContextMove(ctx[u], ctx'[u], x)
             /\ u \in Open' => Covered(ctx'[u], user'[u])
  <2>1. ctx[u] \in Context
    BY DEF ContextType
  <2>2. u \in Open' => Covered(ctx[u], user'[u])
    BY <1>1 DEF SemCovers, Covered, FansOut
  <2>3. CASE u \in served
    <3>1. ctx'[u] = Delivered(ctx[u], x)
      BY <2>3 DEF FansOut
    <3> QED BY <2>1, <2>2, <3>1, DeliveredType
  <2>4. CASE u \notin served /\ u \in Open \ Range(fib_list')
    <3>1. ctx'[u] = NewContext /\ u \notin Open'
      BY <2>4 DEF Open, FansOut
    <3> QED BY <3>1, NewContextType DEF ContextMove, NewContext
  <2>5. CASE u \notin served /\ u \notin Open \ Range(fib_list')
    <3>1. ctx'[u] = ctx[u]
      BY <2>5 DEF FansOut
    <3> QED BY <2>1, <2>2, <3>1 DEF ContextMove
  <2> QED BY <2>3, <2>4, <2>5
<1>3. ctx' \in [Users -> Context]
  BY <1>2 DEF FansOut
<1>4. ContextType'
  BY <1>1, <1>3 DEF ContextType, FansOut
<1>5. ContextMoves
  BY <1>2 DEF ContextMoves
<1>6. SemCovers'
  <2>1. \A u \in Open' : u \in Users
    BY <1>1 DEF Open, Range
  <2> QED BY <1>2, <2>1 DEF SemCovers, Covered
<1> QED BY <1>4, <1>5, <1>6

\* Every step of the program changes the contexts in these ways, and keeps the semaphores.
LEMMA StepContexts ==
  ASSUME TypeInv, EventType, ContextType, SemCovers, dev \in Dev, AnyStep
  PROVE  ContextType' /\ ContextMoves /\ SemCovers'
<1> DEFINE Good == ContextType' /\ ContextMoves /\ SemCovers'
<1> SUFFICES Good
  OBVIOUS
<1>0. Threads \subseteq Actors /\ \A u \in Open : u \in Users
  BY ActorFacts DEF ContextType, Open, Range
<1>1. ASSUME UNCHANGED <<fib_list, ctx, user>> PROVE Good
  <2>1. ContextType' /\ SemCovers'
    BY <1>1 DEF ContextType, SemCovers, Open
  <2>2. ContextMoves
    BY <1>1 DEF ContextMoves, ContextMove
  <2> QED BY <2>1, <2>2
\* A program goes on.
<1>2. ASSUME NEW u \in Users, NEW v \in [pc : UserPcs, waits : Nat], user' = [user EXCEPT ![u] = v],
             UNCHANGED <<fib_list, ctx>>, u \in Open => user[u].pc # "retry"
      PROVE  Good
  <2>1. user' \in [Users -> [pc : UserPcs, waits : Nat]] /\ \A w \in Users : w # u => user'[w] = user[w]
    BY <1>2 DEF ContextType
  <2>2. u \in Open => Covered(ctx[u], user'[u])
    <3>1. ctx[u].sem \in Nat /\ Len(ctx[u].fibs) \in Nat
      BY DEF ContextType, Context
    <3>2. u \in Open => Len(ctx[u].fibs) <= ctx[u].sem
      BY <1>2, <3>1 DEF SemCovers
    <3> QED BY <3>1, <3>2 DEF Covered
  <2>3. ContextMove(ctx[u], ctx'[u], 0)
    BY <1>2 DEF ContextMove
  <2>4. fib_list' \in Seq(Users) /\ NoDup(fib_list') /\ Open' = Open /\ ctx' \in [Users -> Context]
    BY <1>2 DEF ContextType, Open
  <2> QED BY <1>2, <2>1, <2>2, <2>3, <2>4, OneUser
\* A field of a context is set that is neither of fibs, last and sem.
<1>3. ASSUME ctx' \in [Users -> Context], UNCHANGED <<fib_list, user>>,
             \A u \in Users : /\ ctx'[u].fibs = ctx[u].fibs /\ ctx'[u].last = ctx[u].last
                              /\ ctx'[u].sem = ctx[u].sem
      PROVE  Good
  <2>1. ContextType'
    BY <1>3 DEF ContextType
  <2>2. ContextMoves
    BY <1>3 DEF ContextMoves, ContextMove
  <2>3. SemCovers'
    BY <1>0, <1>3 DEF SemCovers, Open
  <2> QED BY <2>1, <2>2, <2>3
<1> HIDE DEF Good
<1>4. CASE AdapterSends \/ Interrupt \/ AdapterTakesAnswer \/ AdapterFails \/ ResetAdapter
  BY <1>1, <1>4 DEF AdapterSends, Interrupt, AdapterTakesAnswer, AdapterFails, ResetAdapter, ctxVars
<1>5. CASE TimePasses
  <2>1. UNCHANGED <<fib_list, user>>
    BY <1>5 DEF TimePasses
  <2>2. CASE UNCHANGED ctx
    BY <1>1, <2>1, <2>2
  <2>3. ASSUME NEW u \in Open, ctx' = [ctx EXCEPT ![u].read = "old"]
        PROVE  Good
    <3>1. ctx[u] \in Context /\ u \in Users
      BY <1>0, <2>3 DEF ContextType
    <3>2. [ctx[u] EXCEPT !.read = "old"] \in Context
      BY <3>1 DEF Context
    <3>3. ctx' = [ctx EXCEPT ![u] = [ctx[u] EXCEPT !.read = "old"]] /\ ctx \in [Users -> Context]
      BY <2>3 DEF ContextType
    <3>4. ctx' \in [Users -> Context]
      BY <3>1, <3>2, <3>3
    <3>5. ASSUME NEW w \in Users
          PROVE  ctx'[w].fibs = ctx[w].fibs /\ ctx'[w].last = ctx[w].last /\ ctx'[w].sem = ctx[w].sem
      <4>1. CASE w # u
        BY <3>3, <4>1
      <4>2. CASE w = u
        <5>1. ctx'[w] = [ctx[u] EXCEPT !.read = "old"]
          BY <3>3, <4>2
        <5> QED BY <3>1, <4>2, <5>1 DEF Context
      <4> QED BY <4>1, <4>2
    <3> QED BY <1>3, <2>1, <3>4, <3>5
  <2> QED BY <1>5, <2>2, <2>3 DEF TimePasses
<1>6. ASSUME NEW a \in Actors, StopThread(a) \/ ThreadStopped(a) \/ Restart(a) \/ Reinit(a) \/ ResetOut(a)
      PROVE  Good
  BY <1>1, <1>6 DEF StopThread, ThreadStopped, Restart, Reinit, ResetOut, ctxVars
<1>7. ASSUME NEW t \in Threads,
             Start(t) \/ Oops(t) \/ TakeEvent(t) \/ Complete(t) \/ Sleep(t) \/ Break(t)
      PROVE  Good
  BY <1>1, <1>7 DEF Start, Oops, TakeEvent, Complete, Sleep, Break, ctxVars
<1>8. ASSUME NEW t \in Threads, Handle(t)
      PROVE  Good
  <2>1. UNCHANGED <<fib_list, user>>
    BY <1>8 DEF Handle
  <2>2. CASE UNCHANGED ctx
    BY <1>1, <2>1, <2>2
  <2>3. CASE ctx' = [u \in Users |-> IF ctx[u].read = "later"
                                     THEN [ctx[u] EXCEPT !.read = "recent"] ELSE ctx[u]]
    <3>1. ASSUME NEW w \in Users
          PROVE  /\ ctx'[w] \in Context /\ ctx'[w].fibs = ctx[w].fibs
                 /\ ctx'[w].last = ctx[w].last /\ ctx'[w].sem = ctx[w].sem
      <4>1. ctx[w] \in Context
        BY DEF ContextType
      <4>2. ctx'[w] = [ctx[w] EXCEPT !.read = "recent"] \/ ctx'[w] = ctx[w]
        BY <2>3
      <4> QED BY <4>1, <4>2 DEF Context
    <3>2. ctx' \in [Users -> Context]
      BY <2>3, <3>1
    <3> QED BY <1>3, <2>1, <3>1, <3>2
  <2> QED BY <1>8, <2>2, <2>3 DEF Handle
<1>9. ASSUME NEW t \in Threads, FanOut(t)
      PROVE  Good
  <2>1. pc[t] = "fan" /\ pc' = [pc EXCEPT ![t] = "complete"] /\ user' = user
    BY <1>9 DEF FanOut, Goto
  <2>2. PICK wrapped \in BOOLEAN :
          LET kept == Without(fib_list, {u \in Open : Stale(u, wrapped)})
              served == {kept[k] : k \in 1 .. (IF pool[t] < Len(kept) THEN pool[t] ELSE Len(kept))}
          IN  /\ fib_list' = kept
              /\ ctx' = [u \in Users |-> IF u \in served THEN Delivered(ctx[u], ev[t])
                                         ELSE IF u \in Open \ Range(kept) THEN NewContext ELSE ctx[u]]
    BY <1>9 DEF FanOut
  <2> DEFINE gone == {u \in Open : Stale(u, wrapped)}
             kept == Without(fib_list, gone)
             served == {kept[k] : k \in 1 .. (IF pool[t] < Len(kept) THEN pool[t] ELSE Len(kept))}
  <2>3. pc'[t] = "complete" /\ ev[t] \in Nat
    BY <1>0, <2>1 DEF TypeInv, EventType
  <2>4. kept = Without(fib_list, gone)
    OBVIOUS
  <2>5. FansOut(kept, served, ev[t])
    BY <2>1, <2>2 DEF FansOut
  <2> HIDE DEF gone, kept, served
  <2> QED BY <2>1, <2>3, <2>4, <2>5, Fan DEF Good
<1>10. ASSUME NEW t \in Threads, CheckHealth(t)
       PROVE  Good
  <2>1. user' = user
    BY <1>10 DEF CheckHealth
  <2> DEFINE gone == {u \in Open : Stale(u, FALSE)}
             kept == Without(fib_list, gone)
  <2>2. fib_list' = kept /\ kept = Without(fib_list, gone)
        /\ \E served \in {Range(kept), {}} :
              ctx' = [u \in Users |-> IF u \in served THEN Delivered(ctx[u], 0)
                                     ELSE IF u \in Open \ Range(kept) THEN NewContext ELSE ctx[u]]
    BY <1>10 DEF CheckHealth
  <2> HIDE DEF gone, kept
  <2>3. ASSUME NEW served, ctx' = [u \in Users |-> IF u \in served THEN Delivered(ctx[u], 0)
                                                  ELSE IF u \in Open \ Range(kept) THEN NewContext ELSE ctx[u]]
        PROVE  Good
    <3>1. FansOut(kept, served, 0)
      BY <2>1, <2>2, <2>3 DEF FansOut
    <3> QED BY <2>2, <3>1, Fan DEF Good
  <2> QED BY <2>2, <2>3
<1>11. ASSUME NEW u \in Users, NoFib(u) \/ FindContext(u) \/ UseFreed(u)
       PROVE  Good
  <2>0. user[u] \in [pc : UserPcs, waits : Nat] /\ dev.thread \in Nat
    BY ActorFacts DEF ContextType, Dev
  <2>1. UNCHANGED <<fib_list, ctx>> /\ (u \in Open => user[u].pc # "retry")
    BY <1>11 DEF NoFib, FindContext, UseFreed, ctxVars
  <2>2. \/ \E p \in UserPcs : user' = [user EXCEPT ![u].pc = p]
        \/ user' = [user EXCEPT ![u] = [pc |-> "stopping", waits |-> dev.thread]]
    BY <1>11 DEF NoFib, FindContext, UseFreed, UserGoto, UserPcs
  <2>3. \E v \in [pc : UserPcs, waits : Nat] : user' = [user EXCEPT ![u] = v]
    <3>1. ASSUME NEW p \in UserPcs, user' = [user EXCEPT ![u].pc = p]
          PROVE  \E v \in [pc : UserPcs, waits : Nat] : user' = [user EXCEPT ![u] = v]
      <4>1. [user[u] EXCEPT !.pc = p] \in [pc : UserPcs, waits : Nat]
        BY <2>0
      <4> QED BY <3>1, <4>1
    <3>2. [pc |-> "stopping", waits |-> dev.thread] \in [pc : UserPcs, waits : Nat]
      BY <2>0 DEF UserPcs
    <3> QED BY <2>2, <3>1, <3>2
  <2> QED BY <1>2, <2>1, <2>3
<1>12. ASSUME NEW u \in Users, RestartThread(u)
       PROVE  Good
  <2>1. user[u].pc = "stopping" /\ user' = [user EXCEPT ![u] = [pc |-> "wait", waits |-> 0]]
        /\ UNCHANGED <<fib_list, ctx>>
    BY <1>12 DEF RestartThread, ctxVars
  <2>2. [pc |-> "wait", waits |-> 0] \in [pc : UserPcs, waits : Nat]
    BY DEF UserPcs
  <2> QED BY <1>2, <2>1, <2>2
\* A program changes its context.
<1>13. ASSUME NEW u \in Users, NEW d \in Context, NEW p \in UserPcs, fib_list' \in Seq(Users), NoDup(fib_list'),
              \A w \in Open' : w \in Open \/ w = u,
              ctx' = [ctx EXCEPT ![u] = d], user' = [user EXCEPT ![u].pc = p] \/ (user' = user /\ user[u].pc = p),
              ContextMove(ctx[u], d, 0), u \in Open' => Len(d.fibs) <= d.sem + (IF p = "retry" THEN 1 ELSE 0)
       PROVE  Good
  <2>1. user \in [Users -> [pc : UserPcs, waits : Nat]] /\ ctx \in [Users -> Context]
    BY DEF ContextType
  <2>2. /\ user' \in [Users -> [pc : UserPcs, waits : Nat]] /\ user'[u].pc = p
        /\ \A w \in Users : w # u => user'[w] = user[w]
    <3>1. CASE user' = user /\ user[u].pc = p
      BY <2>1, <3>1
    <3>2. CASE user' = [user EXCEPT ![u].pc = p]
      <4>1. [user[u] EXCEPT !.pc = p] \in [pc : UserPcs, waits : Nat] /\ [user[u] EXCEPT !.pc = p].pc = p
        BY <2>1
      <4>2. user' = [user EXCEPT ![u] = [user[u] EXCEPT !.pc = p]]
        BY <3>2
      <4> QED BY <2>1, <4>1, <4>2
    <3> QED BY <1>13, <3>1, <3>2
  <2>3. ctx' \in [Users -> Context] /\ ctx'[u] = d /\ \A w \in Users : w # u => ctx'[w] = ctx[w]
    BY <1>13, <2>1
  <2>4. u \in Open' => Covered(ctx'[u], user'[u])
    BY <1>13, <2>2, <2>3 DEF Covered
  <2> QED BY <1>13, <2>2, <2>3, <2>4, OneUser DEF Good
<1>14. ASSUME NEW u \in Users, NextFib(u)
       PROVE  Good
  <2>1. fib_list' = fib_list /\ user[u].pc \in {"idle", "retry"} /\ u \in Open
    BY <1>14 DEF NextFib
  <2>2. /\ ctx[u] \in Context /\ ctx[u].fibs \in Seq(Nat) /\ ctx[u].sem \in Nat /\ Len(ctx[u].fibs) \in Nat
        /\ ctx[u].last \in Nat /\ ctx[u].read \in {"recent", "later", "old"}
        /\ Len(ctx[u].fibs) <= ctx[u].sem + (IF user[u].pc = "retry" THEN 1 ELSE 0)
    BY <2>1 DEF ContextType, Context, SemCovers
  <2>3. fib_list' \in Seq(Users) /\ NoDup(fib_list') /\ Open' = Open
    BY <2>1 DEF ContextType, Open
  <2>4. CASE ctx[u].fibs = <<>>
    <3>1. ctx' = ctx /\ user' = [user EXCEPT ![u].pc = "empty"]
      BY <1>14, <2>4 DEF NextFib, UserGoto
    <3>2. ctx' = [ctx EXCEPT ![u] = ctx[u]] /\ ContextMove(ctx[u], ctx[u], 0) /\ "empty" \in UserPcs
      BY <3>1 DEF ContextType, ContextMove, UserPcs
    <3>3. Len(ctx[u].fibs) <= ctx[u].sem + (IF "empty" = "retry" THEN 1 ELSE 0)
      BY <2>2, <2>4
    <3> QED BY <1>13, <2>2, <2>3, <3>1, <3>2, <3>3
  <2>5. CASE ctx[u].fibs # <<>>
    <3>1. PICK read \in {"later", ctx[u].read} :
            ctx' = [ctx EXCEPT ![u].fibs = Tail(@), ![u].read = read,
                               ![u].last = IF Head(ctx[u].fibs) = 0 THEN @ ELSE Head(ctx[u].fibs)]
      BY <1>14, <2>5 DEF NextFib, Pull
    <3>2. user' = [user EXCEPT ![u].pc = "idle"] /\ "idle" \in UserPcs
      BY <1>14, <2>5 DEF NextFib, Pull, UserGoto, UserPcs
    <3> DEFINE h == Head(ctx[u].fibs)
               last == IF h = 0 THEN ctx[u].last ELSE h
               d == Pulled(ctx[u], Tail(ctx[u].fibs), read, last)
    <3>3. /\ h \in Nat /\ last \in Nat /\ Tail(ctx[u].fibs) \in Seq(Nat)
          /\ Len(Tail(ctx[u].fibs)) = Len(ctx[u].fibs) - 1 /\ read \in {"recent", "later", "old"}
      BY <2>2, <2>5
    <3>4. ctx' = [ctx EXCEPT ![u] = d]
      <4>1. ctx \in [Users -> Context]
        BY DEF ContextType
      <4>2. ctx' = [ctx EXCEPT ![u] = [ctx[u] EXCEPT !.fibs = Tail(@), !.read = read,
                                                     !.last = IF h = 0 THEN @ ELSE h]]
        BY <3>1, <4>1
      <4> QED BY <4>2 DEF Pulled
    <3>5. last = IF Head(ctx[u].fibs) = 0 THEN ctx[u].last ELSE Head(ctx[u].fibs)
      OBVIOUS
    <3> HIDE DEF last, h
    <3>8. d \in Context /\ d.fibs = Tail(ctx[u].fibs) /\ d.last = last /\ d.sem = ctx[u].sem
      <4> DEFINE f == Tail(ctx[u].fibs)
      <4>1. f \in Seq(Nat) /\ ctx[u] \in Context /\ last \in Nat /\ read \in {"recent", "later", "old"}
        BY <2>2, <3>3
      <4>2. d = Pulled(ctx[u], f, read, last)
        OBVIOUS
      <4> HIDE DEF f, d
      <4>3. d \in Context /\ d.fibs = f /\ d.last = last /\ d.sem = ctx[u].sem
        <5>1. PulledRight(ctx[u], Pulled(ctx[u], f, read, last), f, last)
          BY <4>1, PulledType
        <5> QED BY <4>2, <5>1 DEF PulledRight
      <4> QED BY <4>3 DEF f
    <3> HIDE DEF d
    <3>6. ContextMove(ctx[u], d, 0)
      BY <2>5, <3>5, <3>8 DEF ContextMove
    <3>7. Len(d.fibs) <= d.sem + (IF "idle" = "retry" THEN 1 ELSE 0)
      BY <2>2, <3>3, <3>8
    <3> QED BY <1>13, <2>3, <3>2, <3>4, <3>6, <3>7, <3>8
  <2> QED BY <2>4, <2>5
<1>15. ASSUME NEW u \in Users, Down(u)
       PROVE  Good
  <2>1. /\ fib_list' = fib_list /\ user[u].pc = "wait" /\ u \in Open /\ ctx[u].sem > 0
        /\ ctx' = [ctx EXCEPT ![u].sem = @ - 1] /\ user' = [user EXCEPT ![u].pc = "retry"]
    BY <1>15 DEF Down, UserGoto
  <2>2. /\ ctx[u] \in Context /\ ctx[u].sem \in Nat /\ Len(ctx[u].fibs) \in Nat
        /\ Len(ctx[u].fibs) <= ctx[u].sem
    BY <2>1 DEF ContextType, Context, SemCovers
  <2>3. fib_list' \in Seq(Users) /\ NoDup(fib_list') /\ Open' = Open /\ "retry" \in UserPcs
    BY <2>1 DEF ContextType, Open, UserPcs
  <2> DEFINE d == [ctx[u] EXCEPT !.sem = ctx[u].sem - 1]
  <2>4. d \in Context /\ d.fibs = ctx[u].fibs /\ d.last = ctx[u].last /\ d.sem = ctx[u].sem - 1
    <3>1. ctx[u].sem - 1 \in Nat
      BY <2>1, <2>2
    <3> QED BY <2>2, <3>1 DEF Context
  <2>5. ctx' = [ctx EXCEPT ![u] = d]
    BY <2>1
  <2> HIDE DEF d
  <2>6. ContextMove(ctx[u], d, 0) /\ Len(d.fibs) <= d.sem + (IF "retry" = "retry" THEN 1 ELSE 0)
    BY <2>2, <2>4 DEF ContextMove
  <2> QED BY <1>13, <2>1, <2>3, <2>4, <2>5, <2>6
<1>16. ASSUME NEW u \in Users, GiveUp(u)
       PROVE  Good
  <2>1. /\ fib_list' = fib_list /\ user[u].pc = "wait" /\ u \in Open
        /\ ctx' = [ctx EXCEPT ![u].read = "later"] /\ user' = [user EXCEPT ![u].pc = "idle"]
    BY <1>16 DEF GiveUp, UserGoto
  <2>2. /\ ctx[u] \in Context /\ ctx[u].sem \in Nat /\ Len(ctx[u].fibs) \in Nat
        /\ Len(ctx[u].fibs) <= ctx[u].sem
    <3>1. Len(ctx[u].fibs) <= ctx[u].sem + (IF user[u].pc = "retry" THEN 1 ELSE 0)
      BY <2>1 DEF SemCovers
    <3>2. ctx[u] \in Context /\ ctx[u].sem \in Nat /\ Len(ctx[u].fibs) \in Nat
      BY DEF ContextType, Context
    <3> QED BY <2>1, <3>1, <3>2
  <2>3. fib_list' \in Seq(Users) /\ NoDup(fib_list') /\ Open' = Open /\ "idle" \in UserPcs
    BY <2>1 DEF ContextType, Open, UserPcs
  <2> DEFINE d == [ctx[u] EXCEPT !.read = "later"]
  <2>4. d \in Context /\ d.fibs = ctx[u].fibs /\ d.last = ctx[u].last /\ d.sem = ctx[u].sem
    BY <2>2 DEF Context
  <2>5. ctx' = [ctx EXCEPT ![u] = d]
    BY <2>1
  <2> HIDE DEF d
  <2>6. ContextMove(ctx[u], d, 0) /\ Len(d.fibs) <= d.sem + (IF "idle" = "retry" THEN 1 ELSE 0)
    BY <2>2, <2>4 DEF ContextMove
  <2> QED BY <1>13, <2>1, <2>3, <2>4, <2>5, <2>6
<1>17. ASSUME NEW u \in Users, OpenContext(u)
       PROVE  Good
  <2>1. /\ fib_list' = Append(fib_list, u) /\ user[u].pc = "idle" /\ u \notin Open
        /\ ctx' = [ctx EXCEPT ![u] = NewContext] /\ user' = user
    BY <1>17 DEF OpenContext
  <2>2. fib_list \in Seq(Users) /\ NoDup(fib_list) /\ u \notin Range(fib_list)
    BY <2>1 DEF ContextType, Open
  <2>3. fib_list' \in Seq(Users) /\ NoDup(fib_list') /\ Range(fib_list') = Range(fib_list) \cup {u}
    BY <2>1, <2>2, RangeAppend, NoDupAppend
  <2>4. \A w \in Open' : w \in Open \/ w = u
    BY <2>3 DEF Open
  <2>5. NewContext \in Context /\ ContextMove(ctx[u], NewContext, 0) /\ "idle" \in UserPcs
        /\ Len(NewContext.fibs) <= NewContext.sem + (IF "idle" = "retry" THEN 1 ELSE 0)
    BY NewContextType DEF ContextMove, NewContext, UserPcs
  <2> QED BY <1>13, <2>1, <2>3, <2>4, <2>5
<1>18. ASSUME NEW u \in Users, CloseContext(u)
       PROVE  Good
  <2>1. /\ fib_list' = Without(fib_list, {u})
        /\ ctx' = [ctx EXCEPT ![u] = NewContext] /\ user' = [user EXCEPT ![u].pc = "idle"]
    BY <1>18 DEF CloseContext, UserGoto
  <2>2. fib_list' \in Seq(Users) /\ NoDup(fib_list') /\ Range(fib_list') = Range(fib_list) \ {u}
    BY <2>1, WithoutList DEF ContextType
  <2>3. \A w \in Open' : w \in Open \/ w = u
    BY <2>2 DEF Open
  <2>4. NewContext \in Context /\ ContextMove(ctx[u], NewContext, 0) /\ "idle" \in UserPcs
        /\ Len(NewContext.fibs) <= NewContext.sem + (IF "idle" = "retry" THEN 1 ELSE 0)
    BY NewContextType DEF ContextMove, NewContext, UserPcs
  <2> QED BY <1>13, <2>1, <2>2, <2>3, <2>4
<1>19. ASSUME NEW t \in Threads,
              \/ Start(t) \/ Oops(t) \/ TakeEvent(t) \/ Handle(t) \/ FanOut(t) \/ Complete(t)
              \/ Sleep(t) \/ CheckHealth(t) \/ Break(t)
       PROVE  Good
  BY <1>7, <1>8, <1>9, <1>10, <1>19
<1>20. ASSUME NEW u \in Users,
              \/ NextFib(u) \/ NoFib(u) \/ RestartThread(u) \/ Down(u) \/ CloseContext(u)
              \/ UseFreed(u) \/ OpenContext(u) \/ GiveUp(u) \/ FindContext(u)
       PROVE  Good
  BY <1>11, <1>12, <1>14, <1>15, <1>16, <1>17, <1>18, <1>20
<1> QED BY <1>4, <1>5, <1>6, <1>19, <1>20 DEF AnyStep

-----------------------------------------------------------------------------
(***************************************************************************)
(* What the steps do to the rest.                                          *)
(***************************************************************************)
DeviceStates == {"none", "online", "offline"}

\* A device is there and online, or offline, or not there, after any event.
LEMMA HandleAifDevices ==
  ASSUME NEW f, NEW d \in [Containers \cup Disks -> DeviceStates], NEW e, NEW probe \in [Containers -> BOOLEAN]
  PROVE  HandleAif(f, d, e, probe).devices \in [Containers \cup Disks -> DeviceStates]
<1>1. \A device \in DeviceStates : \A needed, valid : Reconfigured(device, needed, valid) \in DeviceStates
  BY DEF Reconfigured, DeviceStates
<1> QED BY <1>1, Zenon DEF HandleAif

\* What is run, the devices, the stops: the script of the adapter stays.
LEMMA StepRest ==
  ASSUME TypeInv, RestType, AnyStep
  PROVE  RestType' /\ inst'.script = inst.script
<1> DEFINE Good == RestType' /\ inst'.script = inst.script
<1> SUFFICES Good
  OBVIOUS
<1>0. Threads \subseteq Actors /\ dev.thread \in Threads /\ 0 .. MaxThreads = Actors /\ Threads \subseteq Nat
      /\ MaxThreads \in Nat
  BY ActorFacts DEF TypeInv, Dev, Threads, Actors, Eh
<1>1. ASSUME UNCHANGED <<inst, devices, halts, stop, two>> PROVE Good
  BY <1>1 DEF RestType
<1>2. ASSUME {"script", "failures", "resets"} \subseteq DOMAIN inst', UNCHANGED <<devices, halts, stop, two>>,
             inst'.script = inst.script, inst'.failures \in Nat, inst'.resets \in Nat
      PROVE  Good
  BY <1>2 DEF RestType
<1>3. ASSUME UNCHANGED <<inst, devices, two>>, halts' \in [Actors -> 0 .. MaxThreads], stop' \subseteq Threads
      PROVE  Good
  BY <1>3 DEF RestType
<1>4. ASSUME UNCHANGED <<inst, devices, halts, stop>>, two' \in BOOLEAN
      PROVE  Good
  BY <1>4 DEF RestType
<1>5. ASSUME UNCHANGED <<inst, halts, stop, two>>,
             devices' \in [Containers \cup Disks -> {"none", "online", "offline"}]
      PROVE  Good
  BY <1>5 DEF RestType
<1> HIDE DEF Good
<1>6. CASE AdapterSends \/ Interrupt \/ AdapterTakesAnswer \/ TimePasses
  BY <1>1, <1>6 DEF AdapterSends, Interrupt, AdapterTakesAnswer, TimePasses, aifVars
\* What is run gets less.
<1>7. CASE AdapterFails
  <2>1. /\ inst' = [inst EXCEPT !.failures = @ - 1] /\ inst.failures > 0
        /\ UNCHANGED <<devices, halts, stop, two>>
    BY <1>7 DEF AdapterFails, aifVars
  <2>2. /\ {"script", "failures", "resets"} \subseteq DOMAIN inst' /\ inst'.script = inst.script
        /\ inst'.resets = inst.resets /\ inst'.failures = inst.failures - 1
    BY <2>1 DEF RestType
  <2>3. inst'.failures \in Nat /\ inst'.resets \in Nat
    BY <2>1, <2>2 DEF RestType
  <2> QED BY <1>2, <2>1, <2>2, <2>3
<1>8. CASE ResetAdapter
  <2>1. /\ inst' = [inst EXCEPT !.resets = @ - 1] /\ inst.resets > 0
        /\ UNCHANGED <<devices, halts, stop, two>>
    BY <1>8 DEF ResetAdapter, aifVars
  <2>2. /\ {"script", "failures", "resets"} \subseteq DOMAIN inst' /\ inst'.script = inst.script
        /\ inst'.failures = inst.failures /\ inst'.resets = inst.resets - 1
    BY <2>1 DEF RestType
  <2>3. inst'.failures \in Nat /\ inst'.resets \in Nat
    BY <2>1, <2>2 DEF RestType
  <2> QED BY <1>2, <2>1, <2>2, <2>3
<1>9. ASSUME NEW t \in Threads, CheckHealth(t)
      PROVE  Good
  <2>1. inst' = [inst EXCEPT !.checks = @ - 1] /\ UNCHANGED <<devices, halts, stop, two>>
    BY <1>9 DEF CheckHealth, aifVars
  <2>2. /\ {"script", "failures", "resets"} \subseteq DOMAIN inst' /\ inst'.script = inst.script
        /\ inst'.failures = inst.failures /\ inst'.resets = inst.resets
    BY <2>1 DEF RestType
  <2>3. inst'.failures \in Nat /\ inst'.resets \in Nat
    BY <2>2 DEF RestType
  <2> QED BY <1>2, <2>1, <2>2, <2>3
<1>10. ASSUME NEW u \in Users, OpenContext(u)
       PROVE  Good
  <2>1. inst' = [inst EXCEPT !.opens = @ - 1] /\ UNCHANGED <<devices, halts, stop, two>>
    BY <1>10 DEF OpenContext, aifVars
  <2>2. /\ {"script", "failures", "resets"} \subseteq DOMAIN inst' /\ inst'.script = inst.script
        /\ inst'.failures = inst.failures /\ inst'.resets = inst.resets
    BY <2>1 DEF RestType
  <2>3. inst'.failures \in Nat /\ inst'.resets \in Nat
    BY <2>2 DEF RestType
  <2> QED BY <1>2, <2>1, <2>2, <2>3
\* Threads are stopped.
<1>11. ASSUME NEW a \in Actors, StopThread(a) \/ ThreadStopped(a) \/ Restart(a) \/ Reinit(a) \/ ResetOut(a)
       PROVE  Good
  <2>1. CASE StopThread(a)
    <3>1. /\ UNCHANGED <<inst, devices, two>> /\ stop' = stop \cup {dev.thread}
          /\ halts' = [halts EXCEPT ![a] = dev.thread]
      BY <2>1 DEF StopThread, aifVars
    <3>2. dev.thread \in 0 .. MaxThreads
      BY <1>0
    <3> QED BY <1>0, <1>3, <3>1, <3>2 DEF RestType
  <2>2. CASE ResetOut(a)
    <3>1. UNCHANGED <<inst, devices, two, stop>> /\ halts' = [halts EXCEPT ![a] = 0]
      BY <2>2 DEF ResetOut, aifVars
    <3>2. 0 \in 0 .. MaxThreads
      BY <1>0
    <3> QED BY <1>3, <3>1, <3>2 DEF RestType
  <2>3. CASE ThreadStopped(a) \/ Restart(a) \/ Reinit(a)
    BY <1>1, <2>3 DEF ThreadStopped, Restart, Reinit, aifVars
  <2> QED BY <1>11, <2>1, <2>2, <2>3
<1>12. ASSUME NEW u \in Users, NoFib(u)
       PROVE  Good
  <2>1. UNCHANGED <<inst, devices, two, halts>> /\ (stop' = stop \/ stop' = stop \cup {dev.thread})
    BY <1>12 DEF NoFib, aifVars
  <2> QED BY <1>0, <1>3, <2>1 DEF RestType
<1>13. ASSUME NEW u \in Users,
              \/ NextFib(u) \/ RestartThread(u) \/ Down(u) \/ CloseContext(u)
              \/ UseFreed(u) \/ GiveUp(u) \/ FindContext(u)
       PROVE  Good
  BY <1>1, <1>13 DEF NextFib, RestartThread, Down, CloseContext, UseFreed, GiveUp, FindContext, aifVars
<1>14. ASSUME NEW t \in Threads, Start(t)
       PROVE  Good
  <2>1. UNCHANGED <<inst, devices, halts, stop>>
    BY <1>14 DEF Start, aifVars
  <2>2. two' \in BOOLEAN
    <3>1. two \in BOOLEAN
      BY DEF RestType
    <3>2. UNCHANGED two \/ two' = (two \/ \E o \in Threads : pc[o] \in Serving)
      BY <1>14, Zenon DEF Start
    <3> QED BY <3>1, <3>2, Zenon
  <2> QED BY <1>4, <2>1, <2>2
<1>15. ASSUME NEW t \in Threads, Handle(t)
       PROVE  Good
  <2>1. UNCHANGED <<inst, halts, stop, two>>
    BY <1>15 DEF Handle
  <2> DEFINE e == inst.script[ev[t]]
  <2>2. \/ devices' = devices
        \/ \E probe \in [Containers -> BOOLEAN] : devices' = HandleAif(fsa, devices, e, probe).devices
    <3>1. CASE e.cmd \in {"DriverNotify", "EventNotify", "JobProgress"} /\ dev.queues
      <4>1. \E probe \in [Containers -> BOOLEAN] :
               LET aif == HandleAif(fsa, devices, e, probe)
               IN  fsa' = aif.fsa /\ devices' = aif.devices
        BY <1>15, <3>1 DEF Handle
      <4> QED BY <4>1
    <3>2. CASE ~(e.cmd \in {"DriverNotify", "EventNotify", "JobProgress"} /\ dev.queues)
      BY <1>15, <3>2 DEF Handle, aifVars
    <3> QED BY <3>1, <3>2
  <2> HIDE DEF e
  <2>3. devices \in [Containers \cup Disks -> {"none", "online", "offline"}]
    BY DEF RestType
  <2>4. devices' \in [Containers \cup Disks -> {"none", "online", "offline"}]
    <3>1. ASSUME NEW probe \in [Containers -> BOOLEAN], devices' = HandleAif(fsa, devices, e, probe).devices
          PROVE  devices' \in [Containers \cup Disks -> DeviceStates]
      <4>1. devices \in [Containers \cup Disks -> DeviceStates]
        BY <2>3 DEF DeviceStates
      <4>2. HandleAif(fsa, devices, e, probe).devices \in [Containers \cup Disks -> DeviceStates]
        BY <4>1, HandleAifDevices
      <4> QED BY <3>1, <4>2
    <3> QED BY <2>2, <2>3, <3>1 DEF DeviceStates
  <2> QED BY <1>5, <2>1, <2>4
<1>16. ASSUME NEW t \in Threads,
              Oops(t) \/ TakeEvent(t) \/ FanOut(t) \/ Complete(t) \/ Sleep(t) \/ Break(t)
       PROVE  Good
  BY <1>1, <1>16 DEF Oops, TakeEvent, FanOut, Complete, Sleep, Break, aifVars
<1>17. ASSUME NEW t \in Threads,
              \/ Start(t) \/ Oops(t) \/ TakeEvent(t) \/ Handle(t) \/ FanOut(t) \/ Complete(t)
              \/ Sleep(t) \/ CheckHealth(t) \/ Break(t)
       PROVE  Good
  BY <1>9, <1>14, <1>15, <1>16, <1>17
<1>18. ASSUME NEW u \in Users,
              \/ NextFib(u) \/ NoFib(u) \/ RestartThread(u) \/ Down(u) \/ CloseContext(u)
              \/ UseFreed(u) \/ OpenContext(u) \/ GiveUp(u) \/ FindContext(u)
       PROVE  Good
  BY <1>10, <1>12, <1>13, <1>18
<1> QED BY <1>6, <1>7, <1>8, <1>11, <1>17, <1>18 DEF AnyStep

-----------------------------------------------------------------------------
(***************************************************************************)
(* The order of the events.                                                *)
(***************************************************************************)
\* What no thread has taken yet: the events that wait and the next one.
Newer == Range(Waiting) \cup {hw.sent + 1}

Above(c, x) == c.last < x /\ \A k \in 1 .. Len(c.fibs) : c.fibs[k] < x

Ordered(c) ==
  \A i \in 1 .. Len(c.fibs) :
    c.fibs[i] # 0 => c.fibs[i] > c.last /\ \A j \in 1 .. i - 1 : c.fibs[i] > c.fibs[j]

\* What comes is above all that has been taken.
Ahead ==
  \A w \in Newer : (\A t \in Threads : ev[t] < w) /\ (\A u \in Users : Above(ctx[u], w))

\* A thread that is alone and has not yet given the contexts its event has one
\* that is above all they have got.
OneThread ==
  /\ \A s, t \in Threads : pc[s] \in Serving /\ pc[t] \in Serving => s = t
  /\ \A t \in Threads : pc[t] \in {"handle", "fan"} => \A u \in Users : Above(ctx[u], ev[t])
  /\ \A u \in Users : Ordered(ctx[u])

OrderInv == Ahead /\ (~two => OneThread)

\* A context that gets a fib below an event stays below it.
LEMMA AboveMove ==
  ASSUME NEW c \in Context, NEW d \in Context, NEW x \in Nat, NEW w \in Nat,
         ContextMove(c, d, x), Above(c, w), x < w
  PROVE  Above(d, w)
<1>1. c.fibs \in Seq(Nat) /\ c.last \in Nat /\ d.fibs \in Seq(Nat) /\ d.last \in Nat /\ Len(c.fibs) \in Nat
  BY DEF Context
<1>2. CASE d.fibs = c.fibs /\ d.last = c.last
  BY <1>2 DEF Above
<1>3. CASE d.fibs = <<>> /\ d.last = 0
  <2>1. 0 < w
    BY <1>1 DEF Above
  <2> QED BY <1>3, <2>1 DEF Above
<1>4. CASE d.fibs = Append(c.fibs, x) /\ d.last = c.last
  <2>1. /\ Len(d.fibs) = Len(c.fibs) + 1 /\ d.fibs[Len(c.fibs) + 1] = x
        /\ \A k \in 1 .. Len(c.fibs) : d.fibs[k] = c.fibs[k]
    BY <1>1, <1>4
  <2>2. ASSUME NEW k \in 1 .. Len(c.fibs) + 1 PROVE d.fibs[k] < w
    <3>1. k \in 1 .. Len(c.fibs) \/ k = Len(c.fibs) + 1
      BY <1>1
    <3> QED BY <2>1, <3>1 DEF Above
  <2> QED BY <1>4, <2>1, <2>2 DEF Above
<1>5. CASE /\ c.fibs # <<>> /\ d.fibs = Tail(c.fibs)
           /\ d.last = IF Head(c.fibs) = 0 THEN c.last ELSE Head(c.fibs)
  <2>1. /\ Len(d.fibs) = Len(c.fibs) - 1 /\ Head(c.fibs) = c.fibs[1] /\ 1 \in 1 .. Len(c.fibs)
        /\ \A k \in 1 .. Len(c.fibs) - 1 : d.fibs[k] = c.fibs[k + 1]
    BY <1>1, <1>5
  <2>2. ASSUME NEW k \in 1 .. Len(c.fibs) - 1 PROVE d.fibs[k] < w
    <3>1. k + 1 \in 1 .. Len(c.fibs)
      BY <1>1
    <3> QED BY <2>1, <3>1 DEF Above
  <2>3. d.last < w
    BY <1>5, <2>1 DEF Above
  <2> QED BY <2>1, <2>2, <2>3 DEF Above
<1> QED BY <1>2, <1>3, <1>4, <1>5 DEF ContextMove

\* A context that gets a fib above all it has had stays in order.
LEMMA OrderedMove ==
  ASSUME NEW c \in Context, NEW d \in Context, NEW x \in Nat,
         ContextMove(c, d, x), Ordered(c), x = 0 \/ Above(c, x)
  PROVE  Ordered(d)
<1>1. c.fibs \in Seq(Nat) /\ c.last \in Nat /\ d.fibs \in Seq(Nat) /\ d.last \in Nat /\ Len(c.fibs) \in Nat
  BY DEF Context
<1>2. CASE d.fibs = c.fibs /\ d.last = c.last
  BY <1>2 DEF Ordered
<1>3. CASE d.fibs = <<>> /\ d.last = 0
  BY <1>3 DEF Ordered
<1>4. CASE d.fibs = Append(c.fibs, x) /\ d.last = c.last
  <2>1. /\ Len(d.fibs) = Len(c.fibs) + 1 /\ d.fibs[Len(c.fibs) + 1] = x
        /\ \A k \in 1 .. Len(c.fibs) : d.fibs[k] = c.fibs[k]
    BY <1>1, <1>4
  <2>2. ASSUME NEW i \in 1 .. Len(c.fibs) + 1, d.fibs[i] # 0
        PROVE  d.fibs[i] > d.last /\ \A j \in 1 .. i - 1 : d.fibs[i] > d.fibs[j]
    <3>1. CASE i = Len(c.fibs) + 1
      <4>1. Above(c, x) /\ d.fibs[i] = x
        BY <2>1, <2>2, <3>1
      <4>0. \A j \in 1 .. i - 1 : j \in 1 .. Len(c.fibs)
        BY <1>1, <3>1
      <4>2. \A j \in 1 .. i - 1 : d.fibs[j] = c.fibs[j] /\ c.fibs[j] < x
        BY <2>1, <4>0, <4>1 DEF Above
      <4>3. c.last < x /\ d.last = c.last /\ c.last \in Nat /\ d.fibs[i] = x
        BY <1>1, <1>4, <4>1 DEF Above
      <4>4. d.fibs[i] > d.last
        BY <4>3
      <4>5. ASSUME NEW j \in 1 .. i - 1 PROVE d.fibs[i] > d.fibs[j]
        <5>1. d.fibs[j] < x /\ c.fibs[j] \in Nat /\ d.fibs[j] = c.fibs[j]
          <6>1. j \in 1 .. Len(c.fibs) /\ c.fibs \in Seq(Nat)
            BY <1>1, <4>0
          <6>2. c.fibs[j] \in Nat
            BY <6>1
          <6> QED BY <4>2, <6>2
        <5> QED BY <4>3, <5>1
      <4> QED BY <4>4, <4>5
    <3>2. CASE i # Len(c.fibs) + 1
      <4>0. Len(c.fibs) \in Nat
        BY <1>1
      <4>1. i \in 1 .. Len(c.fibs) /\ \A j \in 1 .. i - 1 : j \in 1 .. Len(c.fibs)
        BY <3>2, <4>0
      <4>2. c.fibs[i] > c.last /\ \A j \in 1 .. i - 1 : c.fibs[i] > c.fibs[j]
        BY <2>1, <2>2, <4>1 DEF Ordered
      <4> QED BY <1>4, <2>1, <4>1, <4>2
    <3> QED BY <3>1, <3>2
  <2> QED BY <2>1, <2>2 DEF Ordered
<1>5. CASE /\ c.fibs # <<>> /\ d.fibs = Tail(c.fibs)
           /\ d.last = IF Head(c.fibs) = 0 THEN c.last ELSE Head(c.fibs)
  <2>1. /\ Len(d.fibs) = Len(c.fibs) - 1 /\ Head(c.fibs) = c.fibs[1]
        /\ \A k \in 1 .. Len(c.fibs) - 1 : d.fibs[k] = c.fibs[k + 1]
    BY <1>1, <1>5
  <2>2. ASSUME NEW i \in 1 .. Len(c.fibs) - 1, d.fibs[i] # 0
        PROVE  d.fibs[i] > d.last /\ \A j \in 1 .. i - 1 : d.fibs[i] > d.fibs[j]
    <3>1. i + 1 \in 1 .. Len(c.fibs) /\ d.fibs[i] = c.fibs[i + 1] /\ 1 \in 1 .. (i + 1) - 1
      BY <1>1, <2>1
    <3>2. c.fibs[i + 1] > c.last /\ \A j \in 1 .. (i + 1) - 1 : c.fibs[i + 1] > c.fibs[j]
      BY <2>2, <3>1 DEF Ordered
    <3>3. d.fibs[i] > d.last
      BY <1>5, <2>1, <3>1, <3>2
    <3>4. ASSUME NEW j \in 1 .. i - 1 PROVE d.fibs[i] > d.fibs[j]
      <4>1. j + 1 \in 1 .. (i + 1) - 1 /\ j \in 1 .. Len(c.fibs) - 1
        BY <1>1
      <4> QED BY <2>1, <3>1, <3>2, <4>1
    <3> QED BY <3>3, <3>4
  <2> QED BY <2>1, <2>2 DEF Ordered
<1> QED BY <1>2, <1>3, <1>4, <1>5 DEF ContextMove

\* What has not been taken only gets less from below and more from above.
LEMMA NewerMove ==
  ASSUME KeepType, PlaceInv, EventMoves
  PROVE  /\ \A w \in Newer : w \in Nat /\ w > 0
         /\ \A w \in Newer' : \E v \in Newer : w \in Nat /\ v <= w
<1>1. Waiting \in Seq(Nat) /\ hw.sent \in Nat /\ NoDup(Waiting) /\ Range(Waiting) \subseteq 1 .. hw.sent
  BY WaitingType, IncreasingNoDup DEF KeepType, EventType, PlaceInv
<1>2. \A w \in Newer : w \in Nat /\ w > 0
  BY <1>1 DEF Newer
<1>3. ASSUME NEW w \in Newer' PROVE \E v \in Newer : w \in Nat /\ v <= w
  <2>1. CASE w \in Newer
    BY <1>2, <2>1
  <2>2. CASE Sends
    <3>1. Range(Waiting)' = Range(Waiting) \cup {hw.sent + 1} /\ hw'.sent = hw.sent + 1
      <4>1. hw.sent + 1 \in Nat
        BY <1>1
      <4>2. Range(Append(Waiting, hw.sent + 1)) = Range(Waiting) \cup {hw.sent + 1}
        BY <1>1, <4>1, RangeAppend
      <4> QED BY <2>2, <4>2 DEF Sends
    <3>2. w \in Newer \/ w = hw.sent + 2
      BY <1>1, <3>1 DEF Newer
    <3>3. hw.sent + 1 \in Newer /\ hw.sent + 1 <= hw.sent + 2 /\ hw.sent + 2 \in Nat
      BY <1>1 DEF Newer
    <3> QED BY <2>1, <3>2, <3>3
  <2>3. CASE ~Sends
    <3>1. Range(Waiting)' \subseteq Range(Waiting) /\ hw'.sent = hw.sent
      <4>1. ASSUME NEW t \in Threads, Picks(t) PROVE Range(Waiting)' \subseteq Range(Waiting) /\ hw'.sent = hw.sent
        BY <1>1, <4>1, RangeTail DEF Picks
      <4>2. ASSUME NEW t \in Threads, Answers(t) PROVE Range(Waiting)' \subseteq Range(Waiting) /\ hw'.sent = hw.sent
        BY <4>2 DEF Answers
      <4>3. CASE Flushes
        BY <4>3 DEF Flushes, Range
      <4>4. CASE TakesAnswer \/ (Unmoved /\ Waiting' = Waiting)
        BY <4>4 DEF TakesAnswer, Unmoved
      <4> QED BY <2>3, <4>1, <4>2, <4>3, <4>4 DEF EventMoves
    <3>2. w \in Newer
      BY <3>1 DEF Newer
    <3> QED BY <2>1, <3>2
  <2> QED BY <2>2, <2>3
<1> QED BY <1>2, <1>3

\* A thread takes an event: its number is below all that are left.
LEMMA PickUpMove ==
  ASSUME TypeInv, KeepType, HandInv, PlaceInv, EventMoves, NEW t \in Threads, PickUp(t)
  PROVE  Head(Waiting) \in Newer /\ \A w \in Newer' : Head(Waiting) < w
<1>1. Waiting \in Seq(Nat) /\ hw.sent \in Nat /\ NoDup(Waiting) /\ Range(Waiting) \subseteq 1 .. hw.sent
      /\ Waiting # <<>> /\ ev \in [Actors -> Nat] /\ Threads \subseteq Actors
  BY WaitingType, IncreasingNoDup, ActorFacts DEF KeepType, EventType, PlaceInv, PickUp
<1> DEFINE h == Head(Waiting)
<1>2. h \in Range(Waiting) /\ h \in Nat /\ h <= hw.sent /\ h # 0
  <2>1. h \in Range(Waiting)
    BY <1>1, RangeTail
  <2> QED BY <1>1, <2>1
<1>3. ev[t] = 0 /\ ev'[t] = h
  BY <1>1 DEF PickUp, HandInv
<1> HIDE DEF h
<1>4. Waiting' = Tail(Waiting) /\ hw'.sent = hw.sent
  <2>1. ev' # ev
    BY <1>2, <1>3
  <2>2. ASSUME NEW s \in Threads, Answers(s) PROVE FALSE
    <3>1. ev' = [ev EXCEPT ![s] = 0]
      BY <2>2 DEF Answers
    <3>2. ev'[t] = 0
      BY <1>1, <1>3, <3>1
    <3> QED BY <1>2, <1>3, <3>2
  <2>3. \E s \in Threads : Picks(s)
    BY <2>1, <2>2 DEF EventMoves, Unmoved, Sends, TakesAnswer, Flushes
  <2> QED BY <2>3 DEF Picks
<1>5. ASSUME NEW w \in Newer' PROVE h < w
  <2>1. CASE w = hw.sent + 1
    BY <1>1, <1>2, <2>1
  <2>2. CASE w \in Range(Tail(Waiting))
    <3>1. /\ Len(Waiting) \in Nat /\ Len(Waiting) > 0 /\ h = Waiting[1]
          /\ DOMAIN Tail(Waiting) = 1 .. Len(Waiting) - 1
          /\ \A k \in 1 .. Len(Waiting) - 1 : Tail(Waiting)[k] = Waiting[k + 1]
      BY <1>1 DEF h
    <3>2. PICK k \in 1 .. Len(Waiting) - 1 : w = Waiting[k + 1]
      BY <2>2, <3>1 DEF Range
    <3>3. 1 \in 1 .. Len(Waiting) /\ k + 1 \in 1 .. Len(Waiting) /\ 1 < k + 1
      BY <3>1
    <3> QED BY <3>1, <3>2, <3>3 DEF PlaceInv, Increasing
  <2> QED BY <1>4, <2>1, <2>2 DEF Newer
<1> QED BY <1>2, <1>5 DEF Newer, h

\* The contexts get nothing that is not below all that has not been taken.
LEMMA AheadStep ==
  ASSUME TypeInv, KeepType, HandInv, PlaceInv, Ahead, EventMoves, HandMoves, ContextMoves, KeepType'
  PROVE  Ahead'
<1>1. ev \in [Actors -> Nat] /\ Threads \subseteq Actors /\ ctx \in [Users -> Context]
      /\ ctx' \in [Users -> Context]
  BY ActorFacts DEF KeepType, EventType, ContextType
<1>2. ASSUME NEW w \in Newer' PROVE (\A t \in Threads : ev'[t] < w) /\ (\A u \in Users : Above(ctx'[u], w))
  <2>1. PICK v \in Newer : w \in Nat /\ v <= w /\ v \in Nat /\ v > 0
    BY NewerMove
  <2>2. \A t \in Threads : ev[t] < w
    <3>1. ASSUME NEW t \in Threads PROVE ev[t] < w
      <4>1. ev[t] < v /\ ev[t] \in Nat
        BY <1>1 DEF Ahead
      <4> QED BY <2>1, <4>1
    <3> QED BY <3>1
  <2>3. \A t \in Threads : ev'[t] < w
    <3>1. CASE ev' = ev
      BY <2>2, <3>1
    <3>2. ASSUME NEW t \in Threads, PickUp(t) PROVE \A s \in Threads : ev'[s] < w
      <4>1. ev' = [ev EXCEPT ![t] = Head(Waiting)]
        BY <3>2 DEF PickUp
      <4>2. Head(Waiting) < w
        BY <3>2, PickUpMove
      <4>3. ASSUME NEW s \in Threads PROVE ev'[s] = ev[s] \/ ev'[s] = Head(Waiting)
        BY <1>1, <4>1
      <4> QED BY <2>2, <4>2, <4>3
    <3>3. ASSUME NEW t \in Threads, PutDown(t) PROVE \A s \in Threads : ev'[s] < w
      <4>1. ev' = [ev EXCEPT ![t] = 0]
        BY <3>3 DEF PutDown
      <4>2. 0 < w
        BY <2>1
      <4>3. ASSUME NEW s \in Threads PROVE ev'[s] = ev[s] \/ ev'[s] = 0
        BY <1>1, <4>1
      <4> QED BY <2>2, <4>2, <4>3
    <3> QED BY <3>1, <3>2, <3>3 DEF HandMoves, Walk, Begin
  <2>4. ASSUME NEW u \in Users PROVE Above(ctx'[u], w)
    <3>1. PICK x \in Nat : /\ x = 0 \/ \E t \in Threads : ev[t] = x
                           /\ ContextMove(ctx[u], ctx'[u], x)
      BY DEF ContextMoves
    <3>2. x < w
      BY <2>1, <2>2, <3>1
    <3>3. Above(ctx[u], w)
      <4>0. ctx[u] \in Context
        BY <1>1
      <4>1. ctx[u].fibs \in Seq(Nat) /\ ctx[u].last \in Nat /\ Above(ctx[u], v)
        BY <4>0 DEF Ahead, Context
      <4>2. ctx[u].last < w
        BY <2>1, <4>1 DEF Above
      <4>3. ASSUME NEW k \in 1 .. Len(ctx[u].fibs) PROVE ctx[u].fibs[k] < w
        <5>1. ctx[u].fibs[k] \in Nat /\ ctx[u].fibs[k] < v
          BY <4>1 DEF Above
        <5> QED BY <2>1, <5>1
      <4> QED BY <4>2, <4>3 DEF Above
    <3> QED BY <1>1, <2>1, <3>1, <3>2, <3>3, AboveMove
  <2> QED BY <2>3, <2>4
<1> QED BY <1>2 DEF Ahead

\* A thread that is alone gives the contexts its events in their order.
LEMMA OneThreadStep ==
  ASSUME TypeInv, KeepType, HandInv, PlaceInv, Ahead, OneThread, ~two',
         EventMoves, HandMoves, ContextMoves, KeepType'
  PROVE  OneThread'
<1>1. /\ ev \in [Actors -> Nat] /\ Threads \subseteq Actors /\ ctx \in [Users -> Context]
      /\ ctx' \in [Users -> Context] /\ pc \in [Actors -> Pcs]
  BY ActorFacts DEF KeepType, EventType, ContextType, TypeInv
<1>2. {"handle", "fan", "top", "complete", "answer"} \subseteq Serving
  BY DEF Serving
<1>3. PICK x \in Nat : /\ x = 0 \/ \E s \in Threads : pc[s] = "fan" /\ pc'[s] = "complete" /\ ev[s] = x
                       /\ \A u \in Users : ContextMove(ctx[u], ctx'[u], x)
  BY DEF ContextMoves
<1>4. ASSUME NEW u \in Users PROVE Ordered(ctx'[u])
  <2>1. x = 0 \/ Above(ctx[u], x)
    BY <1>3 DEF OneThread
  <2>2. Ordered(ctx[u]) /\ ctx[u] \in Context /\ ctx'[u] \in Context
    BY <1>1 DEF OneThread
  <2> QED BY <1>3, <2>1, <2>2, OrderedMove
\* The contexts get less than what a thread has in hand that gives it later.
<1>5. ASSUME NEW t \in Threads, NEW e \in Nat, NEW u \in Users, x < e, Above(ctx[u], e) PROVE Above(ctx'[u], e)
  BY <1>1, <1>3, <1>5, AboveMove
<1>6. CASE Walk
  <2>1. ev' = ev /\ \A t \in Threads : Empty(pc[t], pc'[t])
    BY <1>6 DEF Walk
  <2>2. \A s, t \in Threads : pc'[s] \in Serving /\ pc'[t] \in Serving => s = t
    BY <2>1 DEF Empty, OneThread
  <2>3. ASSUME NEW t \in Threads, pc'[t] \in {"handle", "fan"}, NEW u \in Users PROVE Above(ctx'[u], ev'[t])
    <3>1. pc[t] \in {"handle", "fan"} /\ ev'[t] = ev[t] /\ ev[t] \in Nat
      BY <1>1, <2>1, <2>3 DEF Empty
    <3>2. ev[t] # 0 /\ Above(ctx[u], ev[t])
      BY <3>1 DEF HandInv, OneThread
    <3>3. x = 0
      <4>1. ASSUME NEW s \in Threads, pc[s] = "fan", pc'[s] = "complete" PROVE FALSE
        <5>1. s = t
          BY <1>2, <3>1, <4>1 DEF OneThread
        <5> QED BY <2>3, <4>1, <5>1
      <4> QED BY <1>3, <4>1
    <3> QED BY <1>5, <3>1, <3>2, <3>3
  <2> QED BY <1>4, <2>2, <2>3 DEF OneThread
<1>7. ASSUME NEW t \in Threads, Begin(t) PROVE OneThread'
  <2>1. /\ \A s \in Threads : pc[s] \notin Serving
        /\ pc' = [pc EXCEPT ![t] = "top"]
    <3>1. two' = (two \/ \E o \in Threads : pc[o] \in Serving)
      BY <1>7 DEF Begin
    <3>2. ~ \E o \in Threads : pc[o] \in Serving
      BY <3>1, Zenon
    <3> QED BY <1>7, <3>2 DEF Begin
  <2>2. \A s \in Threads : s # t => pc'[s] \notin Serving
    BY <1>1, <2>1
  <2>3. pc'[t] = "top"
    BY <1>1, <2>1
  <2> QED BY <1>2, <1>4, <2>2, <2>3 DEF OneThread
<1>8. ASSUME NEW t \in Threads, PickUp(t) PROVE OneThread'
  <2>1. /\ pc[t] = "top" /\ pc' = [pc EXCEPT ![t] = "handle"] /\ ev' = [ev EXCEPT ![t] = Head(Waiting)]
        /\ Waiting # <<>>
    BY <1>8 DEF PickUp
  <2>2. \A s \in Threads : s # t => pc[s] \notin Serving /\ pc'[s] \notin Serving
    BY <1>1, <1>2, <2>1 DEF OneThread
  <2>3. ev'[t] = Head(Waiting) /\ Head(Waiting) \in Newer /\ Head(Waiting) \in Nat /\ Head(Waiting) > 0
    BY <1>1, <1>8, <2>1, PickUpMove, NewerMove
  <2>4. x < Head(Waiting)
    <3>1. \A s \in Threads : ev[s] < Head(Waiting)
      BY <2>3 DEF Ahead
    <3> QED BY <1>3, <2>3, <3>1
  <2>5. ASSUME NEW u \in Users PROVE Above(ctx'[u], ev'[t])
    <3>1. Above(ctx[u], Head(Waiting))
      BY <2>3 DEF Ahead
    <3> QED BY <1>5, <2>3, <2>4, <3>1
  <2> QED BY <1>2, <1>4, <2>2, <2>5 DEF OneThread
<1>9. ASSUME NEW t \in Threads, PutDown(t) PROVE OneThread'
  <2>1. pc[t] \in {"complete", "answer"} /\ pc' = [pc EXCEPT ![t] = "top"]
    BY <1>9 DEF PutDown
  <2>2. \A s \in Threads : s # t => pc[s] \notin Serving /\ pc'[s] \notin Serving
    BY <1>1, <1>2, <2>1 DEF OneThread
  <2>3. pc'[t] = "top"
    BY <1>1, <2>1
  <2> QED BY <1>2, <1>4, <2>2, <2>3 DEF OneThread
<1> QED BY <1>6, <1>7, <1>8, <1>9 DEF HandMoves

\* The order is kept, as long as there is one thread.
LEMMA OrderStep ==
  ASSUME TypeInv, KeepType, HandInv, PlaceInv, OrderInv, EventMoves, HandMoves, ContextMoves, KeepType'
  PROVE  OrderInv'
<1>1. Ahead'
  BY AheadStep DEF OrderInv
<1>2. ASSUME ~two' PROVE OneThread'
  <2>1. ~two
    <3>1. two' = two \/ two' = (two \/ \E o \in Threads : pc[o] \in Serving)
      BY DEF HandMoves, Walk, Begin, PickUp, PutDown
    <3> QED BY <1>2, <3>1, Zenon
  <2> QED BY <1>2, <2>1, OneThreadStep DEF OrderInv
<1> QED BY <1>1, <1>2 DEF OrderInv

-----------------------------------------------------------------------------
(***************************************************************************)
(* All together.                                                           *)
(***************************************************************************)
KeepInv == KeepType /\ HandInv /\ PlaceInv /\ OrderInv /\ SemCovers

\* The beginning: no event has been sent, no context is open.
LEMMA InitKeepInv ==
  ASSUME Init
  PROVE  KeepInv
<1>1. /\ inst \in Instances /\ hw = [sent |-> 0, done |-> 0, health |-> "ok"]
      /\ hostq = EmptyRing /\ respq = EmptyRing /\ cmdq = <<>> /\ lost = {}
      /\ fib_list = <<>> /\ ctx = [u \in Users |-> NewContext]
      /\ pc = [a \in Actors |-> IF a = Eh THEN "idle" ELSE IF a = 1 THEN "new" ELSE "none"]
      /\ ev = [a \in Actors |-> 0] /\ halts = [a \in Actors |-> 0] /\ stop = {} /\ two = FALSE
      /\ user = [u \in Users |-> [pc |-> "idle", waits |-> 0]]
  BY Zenon DEF Init
<1>2. \E d \in inst.devices : devices = [x \in Containers \cup Disks |-> d]
  BY DEF Init
<1>3. Threads \subseteq Actors /\ Eh \in Actors /\ Eh \notin Threads /\ 0 \in 0 .. MaxThreads
  BY ActorFacts
<1>4. EventType
  BY <1>1, RingEmpty DEF EventType
<1>5. ContextType
  <2>1. fib_list \in Seq(Users) /\ NoDup(fib_list)
    BY <1>1 DEF NoDup
  <2>2. ctx \in [Users -> Context]
    BY <1>1, NewContextType
  <2>3. user \in [Users -> [pc : UserPcs, waits : Nat]]
    BY <1>1 DEF UserPcs
  <2> QED BY <2>1, <2>2, <2>3 DEF ContextType
<1>6. RestType
  <2>1. /\ {"script", "failures", "resets"} \subseteq DOMAIN inst
        /\ Len(inst.script) \in Nat /\ inst.failures \in Nat /\ inst.resets \in Nat
        /\ inst.devices \subseteq {"none", "online", "offline"}
    BY <1>1, InstancesAssumption
  <2>2. devices \in [Containers \cup Disks -> {"none", "online", "offline"}]
    BY <1>2, <2>1
  <2>3. halts \in [Actors -> 0 .. MaxThreads] /\ stop \subseteq Threads /\ two \in BOOLEAN
    BY <1>1, <1>3
  <2> QED BY <2>1, <2>2, <2>3 DEF RestType
<1>7. HandInv
  BY <1>1, <1>3 DEF HandInv
<1>8. Waiting = <<>> /\ Answering = <<>>
  BY <1>1, RingEmpty DEF Waiting, Answering
<1>9. PlaceInv
  <2>1. Range(Waiting) = {} /\ Range(Answering) = {} /\ Increasing(Waiting) /\ NoDup(Answering)
    BY <1>8 DEF Range, Increasing, NoDup
  <2>2. Hands = {} /\ lost = {} /\ \A t \in Threads : ev[t] = 0
    BY <1>1, <1>3 DEF Hands
  <2>3. hw.sent = 0 /\ hw.done = 0 /\ 1 .. hw.sent = {}
    BY <1>1
  <2>4. hw.done <= Cardinality(lost) /\ hw.sent <= Len(inst.script)
    BY <2>2, <2>3, <1>6, FS_EmptySet DEF RestType
  <2> QED BY <2>1, <2>2, <2>3, <2>4 DEF PlaceInv
<1>10. OrderInv
  <2>1. Newer = {1}
    BY <1>1, <1>8 DEF Newer, Range
  <2>2. \A t \in Threads : ev[t] < 1 /\ pc[t] \notin Serving /\ pc[t] \notin {"handle", "fan"}
    BY <1>1, <1>3 DEF Serving
  <2>3. ASSUME NEW u \in Users PROVE Above(ctx[u], 1) /\ Ordered(ctx[u])
    <3>1. ctx[u].last = 0 /\ Len(ctx[u].fibs) = 0
      BY <1>1 DEF NewContext
    <3> QED BY <3>1 DEF Above, Ordered
  <2> QED BY <2>1, <2>2, <2>3 DEF OrderInv, Ahead, OneThread
<1>11. SemCovers
  <2>1. Open = {}
    BY <1>1 DEF Open, Range
  <2> QED BY <2>1 DEF SemCovers
<1> QED BY <1>4, <1>5, <1>6, <1>7, <1>9, <1>10, <1>11 DEF KeepInv, KeepType

\* Every step keeps the events where they belong, and their order.
LEMMA NextKeepInv ==
  ASSUME IInv, KeepInv, [Next]_vars
  PROVE  KeepInv'
<1>1. CASE Next
  <2>1. AnyStep /\ TypeInv /\ ResetInv /\ EventType /\ ContextType /\ RestType
        /\ HandInv /\ PlaceInv /\ OrderInv /\ SemCovers /\ KeepType /\ dev \in Dev
    BY <1>1, NextIsAnyStep DEF IInv, KeepInv, KeepType, TypeInv
  <2>2. EventType' /\ EventMoves
    BY <2>1, StepEvents
  <2>3. ContextType' /\ ContextMoves /\ SemCovers'
    BY <2>1, StepContexts
  <2>4. RestType' /\ inst'.script = inst.script
    BY <2>1, StepRest
  <2>5. HandMoves
    BY <2>1, StepHands
  <2>6. KeepType'
    BY <2>2, <2>3, <2>4 DEF KeepType
  <2>7. HandInv'
    BY <2>1, <2>2, <2>5, HandStep
  <2>8. PlaceInv'
    BY <2>1, <2>2, <2>4, PlaceStep
  <2>9. OrderInv'
    BY <2>1, <2>2, <2>3, <2>5, <2>6, OrderStep
  <2> QED BY <2>3, <2>6, <2>7, <2>8, <2>9 DEF KeepInv
<1>2. CASE UNCHANGED vars
  <2>1. UNCHANGED <<inst, hw, hostq, respq, cmdq, lost, devices, fib_list, ctx, pc, ev, halts, stop, two, user>>
    BY <1>2 DEF vars, hostVars, aifVars, ctxVars
  <2>2. Waiting' = Waiting /\ Answering' = Answering /\ Hands' = Hands /\ Newer' = Newer /\ Open' = Open
    BY <2>1 DEF Waiting, Answering, Hands, Newer, Open
  <2>3. KeepType'
    BY <2>1 DEF KeepInv, KeepType, EventType, ContextType, RestType
  <2>4. HandInv' /\ PlaceInv'
    BY <2>1, <2>2 DEF KeepInv, HandInv, PlaceInv
  <2>5. OrderInv' /\ SemCovers'
    BY <2>1, <2>2 DEF KeepInv, OrderInv, Ahead, OneThread, SemCovers
  <2> QED BY <2>3, <2>4, <2>5 DEF KeepInv
<1> QED BY <1>1, <1>2

\* The inductive invariant of the events and the contexts.
THEOREM KeepInvariance == Spec => []KeepInv
<1>1. Init => KeepInv
  BY InitKeepInv
<1>2. IInv /\ KeepInv /\ [Next]_vars => KeepInv'
  BY NextKeepInv
<1> QED BY <1>1, <1>2, Invariance, PTL DEF Spec

-----------------------------------------------------------------------------
\* The types follow, with the bounds of the counters.
LEMMA KeptTypes ==
  ASSUME IInv, KeepInv
  PROVE  TypeOK
<1>1. hw.sent \in Nat /\ hw.done \in Nat /\ Len(inst.script) \in Nat
  BY DEF KeepInv, KeepType, EventType, RestType
<1>2. hw.done <= hw.sent /\ hw.sent <= Len(inst.script)
  <2>1. lost \in SUBSET (1 .. hw.sent) /\ hw.done <= Cardinality(lost) /\ hw.sent <= Len(inst.script)
    BY DEF KeepInv, PlaceInv
  <2>2. 1 \in Int /\ hw.sent \in Int
    BY <1>1
  <2>3. IsFiniteSet(1 .. hw.sent) /\ Cardinality(1 .. hw.sent) = IF 1 > hw.sent THEN 0 ELSE hw.sent - 1 + 1
    BY <2>2, FS_Interval
  <2>4. Cardinality(lost) <= Cardinality(1 .. hw.sent) /\ Cardinality(lost) \in Nat
    BY <2>1, <2>3, FS_Subset, FS_CardinalityType
  <2> QED BY <1>1, <2>1, <2>3, <2>4
<1>3. hw \in [sent : 0 .. Len(inst.script), done : 0 .. Len(inst.script), health : {"ok", "panic", "dead"}]
  <2>1. hw \in [sent : Nat, done : Nat, health : {"ok", "panic", "dead"}]
    BY DEF KeepInv, KeepType, EventType
  <2>2. hw.sent \in 0 .. Len(inst.script) /\ hw.done \in 0 .. Len(inst.script)
    BY <1>1, <1>2
  <2> QED BY <2>1, <2>2
<1>4. /\ hostq.producer \in 1 .. Ring /\ hostq.consumer \in 1 .. Ring
      /\ respq.producer \in 1 .. Ring /\ respq.consumer \in 1 .. Ring
  BY DEF KeepInv, KeepType, EventType, RingOK
<1>5. Open \subseteq Users /\ Len(fib_list) = Cardinality(Open)
  <2>1. fib_list \in Seq(Users) /\ NoDup(fib_list)
    BY DEF KeepInv, KeepType, ContextType
  <2>2. Len(fib_list) = Cardinality(Range(fib_list))
    BY <2>1, ListCount
  <2>3. Range(fib_list) \subseteq Users
    BY <2>1 DEF Range
  <2> QED BY <2>2, <2>3 DEF Open
<1>6. \A u \in Users : ctx[u].sem \in Nat /\ ctx[u].read \in {"recent", "later", "old"}
  BY DEF KeepInv, KeepType, ContextType, Context
<1>7. ev \in [Actors -> 0 .. hw.sent]
  <2>1. ev \in [Actors -> Nat] /\ ev[Eh] = 0
    BY DEF KeepInv, KeepType, EventType, HandInv
  <2>2. ASSUME NEW t \in Threads PROVE ev[t] \in 0 .. hw.sent
    <3>1. ev[t] = 0 \/ ev[t] \in Hands
      BY DEF Hands
    <3>2. Hands \subseteq 1 .. hw.sent
      BY DEF KeepInv, PlaceInv
    <3>3. ev[t] = 0 \/ ev[t] \in 1 .. hw.sent
      BY <3>1, <3>2
    <3>4. hw.sent \in Nat
      BY <1>1
    <3> QED BY <3>3, <3>4
  <2>3. ev[Eh] \in 0 .. hw.sent
    BY <1>1, <2>1
  <2> QED BY <2>1, <2>2, <2>3 DEF Actors
<1>8. /\ inst.failures \in Nat /\ inst.resets \in Nat
      /\ devices \in [Containers \cup Disks -> {"none", "online", "offline"}]
      /\ halts \in [Actors -> 0 .. MaxThreads] /\ stop \subseteq Threads
  BY DEF KeepInv, KeepType, RestType
<1>9. pc \in [Actors -> Serving \cup {"none", "new", "exited", "oops", "hung", "idle"}] /\ dev.thread \in Threads
  BY DEF IInv, TypeInv, Pcs, Dev
<1> QED BY <1>3, <1>4, <1>5, <1>6, <1>7, <1>8, <1>9 DEF TypeOK

\* Each event in one place, by members and by number.
LEMMA KeptInOnePlace ==
  ASSUME KeepInv
  PROVE  InOnePlace
<1> DEFINE W == Range(Waiting)
           A == Range(Answering)
           queued == Contents(hostq) \o cmdq \o Contents(respq)
<1>1. /\ Waiting \in Seq(Nat) /\ Answering \in Seq(Nat) /\ NoDup(Waiting) /\ NoDup(Answering)
      /\ Contents(hostq) \in Seq(Nat) /\ cmdq \in Seq(Nat)
      /\ Len(Waiting) = Len(cmdq) + Len(Contents(hostq)) /\ W = Range(cmdq) \cup Range(Contents(hostq))
  BY WaitingType, IncreasingNoDup DEF KeepInv, PlaceInv
<1>2. Range(queued) = W \cup A /\ Len(queued) = Len(Waiting) + Len(Answering)
  <2>1. /\ Contents(hostq) \o cmdq \in Seq(Nat)
        /\ Len(Contents(hostq) \o cmdq) = Len(Contents(hostq)) + Len(cmdq)
        /\ Range(Contents(hostq) \o cmdq) = Range(Contents(hostq)) \cup Range(cmdq)
    BY <1>1, RangeConcat
  <2>2. /\ Len(queued) = Len(Contents(hostq) \o cmdq) + Len(Contents(respq))
        /\ Range(queued) = Range(Contents(hostq) \o cmdq) \cup Range(Contents(respq))
    <3> DEFINE s == Contents(hostq) \o cmdq
               r == Contents(respq)
    <3>1. s \in Seq(Nat) /\ r \in Seq(Nat) /\ queued = s \o r
      BY <1>1, <2>1 DEF Answering
    <3> HIDE DEF s, r, queued
    <3>2. Len(queued) = Len(s) + Len(r) /\ Range(queued) = Range(s) \cup Range(r)
      BY <3>1, RangeConcat
    <3> QED BY <3>2 DEF s, r
  <2>3. Len(Contents(hostq)) \in Nat /\ Len(cmdq) \in Nat /\ Len(Contents(respq)) \in Nat
    BY <1>1 DEF Answering
  <2>4. Range(queued) = W \cup A
    BY <1>1, <2>1, <2>2 DEF Answering
  <2>5. Len(queued) = Len(Waiting) + Len(Answering)
    BY <1>1, <2>1, <2>2, <2>3 DEF Answering
  <2> QED BY <2>4, <2>5
<1>3. W \cup A \cup Hands \cup lost = 1 .. hw.sent /\ hw.sent \in Nat
      /\ W \cap A = {} /\ (W \cup A) \cap Hands = {} /\ (W \cup A \cup Hands) \cap lost = {}
  BY DEF KeepInv, KeepType, EventType, PlaceInv
<1>4. IsFiniteSet(1 .. hw.sent) /\ Cardinality(1 .. hw.sent) = hw.sent
  <2>1. 1 \in Int /\ hw.sent \in Int
    BY <1>3
  <2>2. IsFiniteSet(1 .. hw.sent) /\ Cardinality(1 .. hw.sent) = IF 1 > hw.sent THEN 0 ELSE hw.sent - 1 + 1
    BY <2>1, FS_Interval
  <2> QED BY <1>3, <2>2
<1>5. Len(Waiting) = Cardinality(W) /\ Len(Answering) = Cardinality(A)
  BY <1>1, ListCount
<1> HIDE DEF W, A, queued
<1>6. IsFiniteSet(W) /\ IsFiniteSet(A) /\ IsFiniteSet(Hands) /\ IsFiniteSet(lost)
  <2>1. W \in SUBSET (1 .. hw.sent) /\ A \in SUBSET (1 .. hw.sent)
        /\ Hands \in SUBSET (1 .. hw.sent) /\ lost \in SUBSET (1 .. hw.sent)
    BY <1>3
  <2> QED BY <1>4, <2>1, FS_Subset
<1>7. /\ Cardinality(W) \in Nat /\ Cardinality(A) \in Nat
      /\ Cardinality(Hands) \in Nat /\ Cardinality(lost) \in Nat
  BY <1>6, FS_CardinalityType
<1>8. IsFiniteSet(W \cup A) /\ Cardinality(W \cup A) = Cardinality(W) + Cardinality(A)
  <2>1. IsFiniteSet(W \cup A) /\ Cardinality(W \cup A) = Cardinality(W) + Cardinality(A) - Cardinality({})
    BY <1>3, <1>6, FS_Union
  <2> QED BY <1>7, <2>1, FS_EmptySet
<1>9. IsFiniteSet(W \cup A \cup Hands)
      /\ Cardinality(W \cup A \cup Hands) = Cardinality(W \cup A) + Cardinality(Hands)
  <2>1. /\ IsFiniteSet(W \cup A \cup Hands)
        /\ Cardinality(W \cup A \cup Hands) = Cardinality(W \cup A) + Cardinality(Hands) - Cardinality({})
    BY <1>3, <1>6, <1>8, FS_Union
  <2> QED BY <1>7, <1>8, <2>1, FS_EmptySet
<1>10. Cardinality(1 .. hw.sent) = Cardinality(W \cup A \cup Hands) + Cardinality(lost)
  <2> DEFINE T == W \cup A \cup Hands
  <2>1. IsFiniteSet(T) /\ T \cap lost = {} /\ T \cup lost = 1 .. hw.sent
    BY <1>3, <1>9
  <2> HIDE DEF T
  <2>2. Cardinality(T \cup lost) = Cardinality(T) + Cardinality(lost) - Cardinality({})
    BY <1>6, <2>1, FS_Union
  <2>3. Cardinality(T) \in Nat /\ Cardinality({}) = 0
    BY <2>1, FS_CardinalityType, FS_EmptySet
  <2>4. Cardinality(T \cup lost) = Cardinality(T) + Cardinality(lost)
    BY <1>7, <2>2, <2>3
  <2> QED BY <2>1, <2>4 DEF T
<1>11. Len(queued) + Cardinality(Hands) + Cardinality(lost) = hw.sent
  BY <1>2, <1>4, <1>5, <1>7, <1>8, <1>9, <1>10
<1>12. Range(queued) \cup Hands \cup lost = 1 .. hw.sent
  BY <1>2, <1>3
<1>13. \A s, t \in Threads : ev[s] = ev[t] /\ ev[s] # 0 => s = t
  BY DEF KeepInv, PlaceInv
<1> QED BY <1>11, <1>12, <1>13 DEF InOnePlace, Hands, queued

\* The order of the contexts that are open.
LEMMA KeptInOrder ==
  ASSUME KeepInv
  PROVE  InOrder
<1> SUFFICES ASSUME ~two, NEW u \in Open, NEW i \in DOMAIN ctx[u].fibs, ctx[u].fibs[i] # 0
             PROVE  /\ ctx[u].fibs[i] > ctx[u].last
                    /\ \A j \in 1 .. i - 1 : ctx[u].fibs[i] > ctx[u].fibs[j]
  BY DEF InOrder
<1>1. u \in Users
  BY DEF KeepInv, KeepType, ContextType, Open, Range
<1>2. DOMAIN ctx[u].fibs = 1 .. Len(ctx[u].fibs)
  <2>1. ctx[u].fibs \in Seq(Nat)
    BY <1>1 DEF KeepInv, KeepType, ContextType, Context
  <2> QED BY <2>1
<1>3. Ordered(ctx[u])
  BY <1>1 DEF KeepInv, OrderInv, OneThread
<1> QED BY <1>2, <1>3 DEF Ordered

\* Events are kept on their way from the adapter to the programs, for any rings,
\* any script of the adapter, any number of threads, programs and resets: each
\* event that was sent is in one ring, in the list of the thread, in the hands
\* of one thread, or answered or given up; programs get the events in their
\* order and none twice while one thread serves them; and the semaphore of a
\* context tells of all that is in it.
THEOREM EventsCorrect == Spec => []EventsKept
<1>1. IInv /\ KeepInv => EventsKept
  BY KeptTypes, KeptInOnePlace, KeptInOrder DEF EventsKept, KeepInv
<1> QED BY <1>1, Invariance, KeepInvariance, PTL
=============================================================================
