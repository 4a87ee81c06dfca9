------------------------------ MODULE MicVirtio ------------------------------
(***************************************************************************)
(* The devices of the MIC virtio host driver (5-patched-mic_virtio.c):     *)
(* their descriptors on the device page, adding and removing them, changes *)
(* of their configuration, resets by the card and the copying of MicCopy,  *)
(* with the locks all of them take.                                        *)
(*                                                                         *)
(* Each device has a program, which adds it, changes its configuration and *)
(* removes it; the device copier also has a second thread that copies, on  *)
(* its vring 1.  The page is a sequence of cells, blank where it has never *)
(* been written; a descriptor is its cells, with its type in the first.    *)
(* The work of a device handles the interrupts of the card, and crash      *)
(* resets all devices.                                                     *)
(***************************************************************************)
EXTENDS MicCopy

CONSTANTS
  Devices, Nobody,
  PageSize,    \* cells of the device page after the boot parameters
  MaxSize,     \* MIC_MAX_DESC_BLK_SIZE
  MaxVrings,   \* MIC_MAX_VRINGS
  Instances

VARIABLES
  inst,        \* the instance; what may still be done
  page, vdev_list,
  prog,        \* of each device: pc, the first and the second fetch, its offset
  dc,          \* device control: config_change, guest_ack, vdev_reset, host_ack
  status,      \* dd->status, set by the card
  mic_mutex, vr_mutex,
  work,        \* of each device and of the crash: pc and whether it is pending
  guest,       \* the card: interrupt pending, change seen, waiting for host_ack
  seen         \* ghost: changes begun, one timed out, one answered by another

devVars == <<page, vdev_list, prog>>
ctlVars == <<dc, status, guest, seen>>
lockVars == <<mic_mutex, vr_mutex>>
vars == <<inst, devVars, ctlVars, lockVars, work, copyVars>>

Crash == "crash"
Workers == Devices \cup {Crash}
NoDc == [config_change |-> 0, guest_ack |-> 0, vdev_reset |-> FALSE, host_ack |-> FALSE]
Blank == [dev |-> Nobody, type |-> 0, size |-> 0]
NoDesc == [type |-> 0, size |-> 0, vqs |-> 0]

Init ==
  /\ inst \in Instances
  /\ page = [i \in 0 .. PageSize - 1 |-> Blank] /\ vdev_list = <<>>
  /\ prog = [d \in Devices |-> [pc |-> "none", dd |-> NoDesc, config |-> NoDesc, off |-> 0, next |-> 1]]
  /\ dc = [d \in Devices |-> NoDc] /\ status = [d \in Devices |-> 0]
  /\ mic_mutex = Nobody /\ vr_mutex = [d \in Devices |-> [r \in 1 .. MaxVrings |-> Nobody]]
  /\ work = [w \in Workers |-> [pc |-> "idle", pending |-> FALSE, dev |-> Nobody, next |-> 1]]
  /\ guest = [d \in Devices |-> [intr |-> FALSE, ack |-> 0]]
  /\ seen = [d \in Devices |-> [begun |-> 0, late |-> FALSE, wrong |-> FALSE]]
  /\ CopyInit(inst.chains, inst.faults)

ProgGoto(d, where) == prog' = [prog EXCEPT ![d].pc = where]
ProgAt(d, where) == prog[d].pc = where
Added(d) == prog[d].pc \in {"added", "confwait", "conflock", "confunlock", "delwait", "deldone"}

-----------------------------------------------------------------------------
(***************************************************************************)
(* mic_virtio_add_device.                                                  *)
(***************************************************************************)
\* mic_mutex, and the first copy of the header with the checks on it.
AddFetch(d) ==
  /\ ProgAt(d, "none") /\ inst.adds > 0 /\ mic_mutex = Nobody
  /\ \E x \in inst.descs[d] :
       IF x.size > MaxSize \/ x.vqs > MaxVrings
       THEN UNCHANGED <<inst, prog, mic_mutex>>
       ELSE /\ prog' = [prog EXCEPT ![d].pc = "fetched", ![d].dd = x]
            /\ mic_mutex' = d
            /\ inst' = [inst EXCEPT !.adds = @ - 1]
  /\ UNCHANGED <<page, vdev_list, ctlVars, vr_mutex, work, copyVars>>

\* Mutant of the next, and the code before it was patched.
SameUnchecked(dd, config) == TRUE

\* memcmp of the two headers.
Same(dd, config) == dd = config

\* The whole descriptor is copied; a header that has changed is refused.
AddCopy(d) ==
  /\ ProgAt(d, "fetched")
  /\ \E x \in inst.descs[d] :
       IF Same(prog[d].dd, x)
       THEN prog' = [prog EXCEPT ![d].pc = "copied", ![d].config = x] /\ UNCHANGED mic_mutex
       ELSE ProgGoto(d, "none") /\ mic_mutex' = Nobody
  /\ UNCHANGED <<inst, page, vdev_list, ctlVars, vr_mutex, work, copyVars>>

TypeAt(i) == page[i].type

\* "Find the first free device page entry": from entry to entry, by the size
\* each gives; what is not the first cell of a descriptor may look like anything.
FreeSlots(size) ==
  LET walk[n \in 0 .. PageSize] ==
        IF n = 0 THEN {0}
        ELSE walk[n - 1] \cup {i + page[i].size : i \in {j \in walk[n - 1] : j < PageSize - size /\ TypeAt(j) \notin {0, -1}}}
      free == {i \in walk[PageSize] : i < PageSize - size /\ TypeAt(i) \in {0, -1}}
  IN  {i \in free : \A j \in free : i <= j}

\* "Save off the type before doing the memcpy."
Installed(d, i) ==
  [k \in 0 .. PageSize - 1 |->
     IF k = i THEN [dev |-> d, type |-> 0, size |-> prog[d].config.size]
     ELSE IF k > i /\ k < i + prog[d].config.size THEN [dev |-> d, type |-> 0, size |-> 1]
     ELSE page[k]]

\* The entry, and mic_init_device_ctrl.
AddInstall(d) ==
  /\ ProgAt(d, "copied")
  /\ IF FreeSlots(prog[d].config.size) = {}
     THEN ProgGoto(d, "none") /\ mic_mutex' = Nobody /\ UNCHANGED <<page, dc>>
     ELSE \E i \in FreeSlots(prog[d].config.size) :
            /\ page' = Installed(d, i)
            /\ prog' = [prog EXCEPT ![d].pc = "rings", ![d].off = i]
            /\ dc' = [dc EXCEPT ![d] = NoDc]
            /\ UNCHANGED mic_mutex
  /\ UNCHANGED <<inst, vdev_list, status, guest, seen, vr_mutex, work, copyVars>>

\* The rings, the buffers and the interrupt; then the type.
AddPublish(d) ==
  /\ ProgAt(d, "rings")
  /\ vdev_list' = Append(vdev_list, d)
  /\ page' = [page EXCEPT ![prog[d].off] = [dev |-> d, type |-> prog[d].config.type, size |-> prog[d].config.size]]
  /\ ProgGoto(d, "added")
  /\ mic_mutex' = Nobody
  /\ guest' = [guest EXCEPT ![d].intr = TRUE]
  /\ IF d = inst.copier
     THEN /\ vr' = NewVring(inst.chains) /\ buf' = NewBuf
          /\ riov' = NoIov /\ wiov' = NoIov /\ head' = NoHead
     ELSE UNCHANGED <<vr, buf, riov, wiov, head>>
  /\ UNCHANGED <<inst, dc, status, seen, vr_mutex, work, call, card, uspace, faults, skewed>>

\* The copy faults or a vring has too many entries; there is no memory or no
\* interrupt.  What is on the page stays there, without a type.
AddFails(d) ==
  /\ ProgAt(d, "fetched") \/ ProgAt(d, "rings")
  /\ inst.failures > 0
  /\ inst' = [inst EXCEPT !.failures = @ - 1]
  /\ ProgGoto(d, "none") /\ mic_mutex' = Nobody
  /\ UNCHANGED <<page, vdev_list, ctlVars, vr_mutex, work, copyVars>>

-----------------------------------------------------------------------------
(***************************************************************************)
(* mic_virtio_config_change and mic_virtio_del_device.                     *)
(***************************************************************************)
\* The change is written where the card reads it, and the card interrupted.
Announce(d) ==
  /\ dc' = [dc EXCEPT ![d].config_change = seen[d].begun + 1]
  /\ guest' = [guest EXCEPT ![d].intr = TRUE]
  /\ seen' = [seen EXCEPT ![d].begun = @ + 1]

ConfigLock(d) ==
  /\ ProgAt(d, "added") /\ inst.changes > 0 /\ mic_mutex = Nobody
  /\ inst' = [inst EXCEPT !.changes = @ - 1]
  /\ mic_mutex' = d
  /\ prog' = [prog EXCEPT ![d].pc = "conflock", ![d].next = 1]
  /\ UNCHANGED <<page, vdev_list, ctlVars, vr_mutex, work, copyVars>>

\* The mutexes of the vrings, in their order; then the change is announced,
\* unless the driver of the card is not up or the copy of the change faults.
ConfigLockVring(d) ==
  /\ ProgAt(d, "conflock")
  /\ IF prog[d].next <= prog[d].config.vqs
     THEN /\ vr_mutex[d][prog[d].next] = Nobody
          /\ vr_mutex' = [vr_mutex EXCEPT ![d][prog[d].next] = d]
          /\ prog' = [prog EXCEPT ![d].next = @ + 1]
          /\ UNCHANGED <<dc, guest, seen>>
     ELSE /\ \/ Announce(d) /\ ProgGoto(d, "confwait")
             \/ inst.down /\ ProgGoto(d, "confunlock") /\ UNCHANGED <<dc, guest, seen>>
          /\ UNCHANGED vr_mutex
  /\ UNCHANGED <<inst, page, vdev_list, status, mic_mutex, work, copyVars>>

\* Mutant of the next: the acknowledgement is left for the next change.
ChangeOverKept(x) == [x EXCEPT !.config_change = 0]

ChangeOver(x) == [x EXCEPT !.config_change = 0, !.guest_ack = 0]

\* wait_event_timeout: an acknowledgement is found, or the tries are used up.
AckOrTimeout(d) ==
  /\ ProgAt(d, "confwait") \/ ProgAt(d, "delwait")
  /\ \/ /\ dc[d].guest_ack # 0
        /\ seen' = [seen EXCEPT ![d].wrong = @ \/ dc[d].guest_ack # seen[d].begun]
     \/ /\ dc[d].guest_ack = 0 /\ inst.timeouts
        /\ seen' = [seen EXCEPT ![d].late = TRUE]
  /\ dc' = [dc EXCEPT ![d] = ChangeOver(@)]
  /\ ProgGoto(d, IF ProgAt(d, "confwait") THEN "confunlock" ELSE "deldone")
  /\ UNCHANGED <<inst, page, vdev_list, status, guest, lockVars, work, copyVars>>

ConfigUnlock(d) ==
  /\ ProgAt(d, "confunlock")
  /\ vr_mutex' = [vr_mutex EXCEPT ![d] = [r \in 1 .. MaxVrings |-> Nobody]]
  /\ mic_mutex' = Nobody
  /\ ProgGoto(d, "added")
  /\ UNCHANGED <<inst, page, vdev_list, ctlVars, work, copyVars>>

\* The program closes its file when its calls are over; without a driver on
\* the card the removal is not announced.
DelLock(d) ==
  /\ ProgAt(d, "added") /\ mic_mutex = Nobody /\ (d = inst.copier => At("idle"))
  /\ inst.dels > 0
  /\ inst' = [inst EXCEPT !.dels = @ - 1]
  /\ mic_mutex' = d
  /\ \/ Announce(d) /\ ProgGoto(d, "delwait")
     \/ inst.down /\ ProgGoto(d, "deldone") /\ UNCHANGED <<dc, guest, seen>>
  /\ UNCHANGED <<page, vdev_list, status, vr_mutex, work, copyVars>>

Unlisted(d) == SelectSeq(vdev_list, LAMBDA x : x # d)

\* mic_free_irq and flush_work; the entry is given up last.
DelFinish(d) ==
  /\ ProgAt(d, "deldone") /\ work[d].pc = "idle" /\ ~work[d].pending
  /\ vdev_list' = Unlisted(d)
  /\ page' = [page EXCEPT ![prog[d].off].type = -1]
  /\ ProgGoto(d, "none") /\ mic_mutex' = Nobody
  /\ status' = [status EXCEPT ![d] = 0]
  /\ guest' = [guest EXCEPT ![d] = [intr |-> FALSE, ack |-> 0]]
  /\ UNCHANGED <<inst, dc, seen, vr_mutex, work, copyVars>>

-----------------------------------------------------------------------------
(***************************************************************************)
(* mic_virtio_intr_handler, mic_bh_handler, mic_virtio_device_reset and    *)
(* mic_virtio_reset_devices.                                               *)
(***************************************************************************)
BhHandler(d) ==
  /\ work[d].pc = "idle" /\ work[d].pending
  /\ work' = [work EXCEPT ![d] = [pc |-> IF dc[d].vdev_reset THEN "lock" ELSE "idle", pending |-> FALSE,
                                  dev |-> d, next |-> 1]]
  /\ UNCHANGED <<inst, devVars, ctlVars, lockVars, copyVars>>

\* The card has crashed: mic_mutex is held by the caller.
ResetDevices ==
  /\ work[Crash].pc = "idle" /\ inst.crashes > 0 /\ mic_mutex = Nobody
  /\ inst' = [inst EXCEPT !.crashes = @ - 1]
  /\ mic_mutex' = Crash
  /\ work' = [work EXCEPT ![Crash] = [pc |-> "each", pending |-> FALSE, dev |-> Nobody, next |-> 1]]
  /\ UNCHANGED <<devVars, ctlVars, vr_mutex, copyVars>>

NextDevice ==
  /\ work[Crash].pc = "each"
  /\ LET k == IF work[Crash].dev = Nobody THEN 1
              ELSE 1 + CHOOSE i \in 1 .. Len(vdev_list) : vdev_list[i] = work[Crash].dev
     IN  IF k <= Len(vdev_list)
         THEN /\ work' = [work EXCEPT ![Crash] = [@ EXCEPT !.pc = "lock", !.dev = vdev_list[k], !.next = 1]]
              /\ UNCHANGED mic_mutex
         ELSE /\ work' = [work EXCEPT ![Crash].pc = "idle"]
              /\ mic_mutex' = Nobody
  /\ UNCHANGED <<inst, devVars, ctlVars, vr_mutex, copyVars>>

\* Mutant of the next: the mutexes are taken from the last to the first.
NthVringBackwards(w) == prog[work[w].dev].config.vqs + 1 - work[w].next

NthVring(w) == work[w].next

ResetLock(w) ==
  /\ work[w].pc = "lock"
  /\ LET d == work[w].dev
     IN  IF work[w].next <= prog[d].config.vqs
         THEN /\ vr_mutex[d][NthVring(w)] = Nobody
              /\ vr_mutex' = [vr_mutex EXCEPT ![d][NthVring(w)] = w]
              /\ work' = [work EXCEPT ![w].next = @ + 1]
         ELSE work' = [work EXCEPT ![w].pc = "reset"] /\ UNCHANGED vr_mutex
  /\ UNCHANGED <<inst, devVars, ctlVars, mic_mutex, copyVars>>

\* The indices of the vrings go back to 0; the chain that is being processed
\* is not touched.
DeviceReset(w) ==
  LET d == work[w].dev
  IN  /\ work[w].pc = "reset"
      /\ status' = [status EXCEPT ![d] = 0]
      /\ dc' = [dc EXCEPT ![d].vdev_reset = FALSE, ![d].host_ack = TRUE]
      /\ IF d = inst.copier
         THEN vr' = [vr EXCEPT !.last = 0, !.used = <<>>, !.info = 0]
         ELSE UNCHANGED vr
      /\ vr_mutex' = [vr_mutex EXCEPT ![d] = [r \in 1 .. MaxVrings |-> Nobody]]
      /\ work' = [work EXCEPT ![w].pc = IF w = Crash THEN "each" ELSE "idle"]
      /\ UNCHANGED <<inst, devVars, guest, seen, mic_mutex,
                     riov, wiov, head, call, buf, card, uspace, faults, skewed>>

-----------------------------------------------------------------------------
(***************************************************************************)
(* mic_virtio_copy_desc.                                                   *)
(***************************************************************************)
CopyBegins ==
  LET d == inst.copier
  IN  /\ d # Nobody /\ Added(d) /\ ~ProgAt(d, "delwait") /\ ~ProgAt(d, "deldone")
      /\ inst.copies > 0 /\ vr_mutex[d][1] = Nobody /\ status[d] # 0
      /\ inst' = [inst EXCEPT !.copies = @ - 1]
      /\ \E b \in inst.bufs, u \in BOOLEAN : BeginCopy(b, u)
      /\ vr_mutex' = [vr_mutex EXCEPT ![d][1] = "copy"]
      /\ UNCHANGED <<devVars, ctlVars, mic_mutex, work>>

CopyGoesOn ==
  /\ CopyStep
  /\ UNCHANGED <<inst, devVars, ctlVars, lockVars, work>>

CopyReturns ==
  /\ At("ret")
  /\ call' = Idle
  /\ vr_mutex' = [vr_mutex EXCEPT ![inst.copier][1] = Nobody]
  /\ UNCHANGED <<inst, devVars, ctlVars, mic_mutex, work,
                 vr, riov, wiov, head, buf, card, uspace, faults, skewed>>

-----------------------------------------------------------------------------
(***************************************************************************)
(* The card (external): it starts a device, takes note of a change when it *)
(* is interrupted and acknowledges it, and asks for a reset.               *)
(***************************************************************************)
CardStarts(d) ==
  /\ Added(d) /\ status[d] = 0 /\ ~dc[d].vdev_reset
  /\ status' = [status EXCEPT ![d] = 1]
  /\ dc' = [dc EXCEPT ![d].host_ack = FALSE]
  /\ UNCHANGED <<inst, devVars, guest, seen, lockVars, work, copyVars>>

CardSees(d) ==
  /\ guest[d].intr /\ guest[d].ack = 0
  /\ guest' = [guest EXCEPT ![d] = [intr |-> FALSE, ack |-> dc[d].config_change]]
  /\ UNCHANGED <<inst, devVars, dc, status, seen, lockVars, work, copyVars>>

CardAcks(d) ==
  /\ guest[d].ack # 0
  /\ dc' = [dc EXCEPT ![d].guest_ack = guest[d].ack]
  /\ guest' = [guest EXCEPT ![d].ack = 0]
  /\ UNCHANGED <<inst, devVars, status, seen, lockVars, work, copyVars>>

CardResets(d) ==
  /\ Added(d) /\ ~ProgAt(d, "deldone") /\ status[d] # 0 /\ ~dc[d].vdev_reset /\ inst.resets > 0
  /\ inst' = [inst EXCEPT !.resets = @ - 1]
  /\ dc' = [dc EXCEPT ![d].vdev_reset = TRUE]
  /\ work' = [work EXCEPT ![d].pending = TRUE]
  /\ UNCHANGED <<devVars, status, guest, seen, lockVars, copyVars>>

-----------------------------------------------------------------------------
HostStep(d) ==
  \/ AddCopy(d) \/ AddInstall(d) \/ AddPublish(d) \/ ConfigLockVring(d) \/ AckOrTimeout(d)
  \/ ConfigUnlock(d) \/ DelFinish(d)
WorkStep(w) ==
  \/ (w # Crash /\ BhHandler(w)) \/ (w = Crash /\ NextDevice) \/ ResetLock(w) \/ DeviceReset(w)

Next ==
  \/ \E d \in Devices : AddFetch(d) \/ AddFails(d) \/ ConfigLock(d) \/ DelLock(d) \/ HostStep(d)
  \/ ResetDevices
  \/ \E w \in Workers : WorkStep(w)
  \/ CopyBegins \/ CopyGoesOn \/ CopyReturns
  \/ \E d \in Devices : CardStarts(d) \/ CardSees(d) \/ CardAcks(d) \/ CardResets(d)

\* Calls that have begun and works are scheduled; the card takes its interrupts
\* and answers them.
Fairness ==
  /\ \A d \in Devices : WF_vars(HostStep(d)) /\ WF_vars(CardSees(d)) /\ WF_vars(CardAcks(d))
  /\ \A w \in Workers : SF_vars(WorkStep(w))
  /\ WF_vars(CopyGoesOn) /\ WF_vars(CopyReturns)

Spec == Init /\ [][Next]_vars /\ Fairness

-----------------------------------------------------------------------------
TypeOK ==
  /\ Range(vdev_list) \subseteq Devices /\ Len(vdev_list) = Cardinality(Range(vdev_list))
  /\ \A d \in Devices : prog[d].off \in 0 .. PageSize - 1 /\ prog[d].next \in 1 .. MaxVrings + 1
  /\ mic_mutex \in {Nobody, Crash} \cup Devices
  /\ vr_mutex \in [Devices -> [1 .. MaxVrings -> {Nobody, Crash, "copy"} \cup Devices]]
  /\ vr.last \in 0 .. Len(vr.chains) /\ riov.consumed \in Nat /\ wiov.consumed \in Nat
  /\ faults \in Nat /\ DOMAIN buf = 0 .. BufSize - 1

\* What is put on the page is what was checked: its size and the number of its
\* vrings are within the limits, whatever the program does to the descriptor
\* between the two copies.
PageWithinLimits ==
  \A d \in Devices : prog[d].pc \in {"copied", "rings"} \/ Added(d) =>
    prog[d].config.size = prog[d].dd.size /\ prog[d].config.vqs \in 0 .. MaxVrings

\* The card never finds the type of a device that is not complete yet, or is
\* being taken apart.
PublishedIsReady ==
  \A i \in 0 .. PageSize - 1 :
    TypeAt(i) \notin {0, -1} => Added(page[i].dev)

\* Every device has its entry for itself as long as all entries have one size.
EntriesDisjoint ==
  LET all == UNION {inst.descs[d] : d \in Devices}
  IN  Cardinality({x.size : x \in {y \in all : y.size <= MaxSize}}) = 1 =>
    \A d \in Devices : Added(d) =>
      /\ TypeAt(prog[d].off) = prog[d].config.type
      /\ \A k \in prog[d].off .. prog[d].off + prog[d].config.size - 1 : page[k].dev = d

\* The device page: what is on it is checked, complete and of one device.
PageSound == TypeOK /\ PageWithinLimits /\ PublishedIsReady /\ EntriesDisjoint

\* A change is acknowledged by the card's answer to it, unless an earlier
\* change was given up before it was answered.
AckAnswersThis == \A d \in Devices : seen[d].wrong => seen[d].late

\* The reset that the card asks for is acknowledged or the device is removed:
\* no two of the calls, works and resets wait for each other's mutexes.
ResetIsAcked ==
  \A d \in Devices : dc[d].vdev_reset ~> (dc[d].host_ack \/ ~Added(d))
=============================================================================
