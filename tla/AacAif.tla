------------------------------- MODULE AacAif -------------------------------
(***************************************************************************)
(* What the aacraid driver does with the events of its adapter             *)
(* (cocci/testdir/truecases/commsup.c: aac_handle_aif), and the rings by   *)
(* which adapter and host exchange fibs (aac_get_entry, aac_queue_get,     *)
(* aac_consumer_get, aac_consumer_free).                                   *)
(*                                                                         *)
(* A container has an entry in fsa_dev: what is needed for it, which event *)
(* that waits for, whether the wait is fresh (AIF_SNIFF_TIMEOUT), whether  *)
(* the last probe found it valid; and a SCSI device, "none", "online" or   *)
(* "offline".  An event is a record of a command, what it says and its     *)
(* target, a container, a physical device or one out of range.             *)
(***************************************************************************)
EXTENDS Integers, Sequences, FiniteSets, SequencesExt

CONSTANTS
  Containers, Disks, NoTarget,
  Ring       \* entries of a ring

\* Containers and physical devices are on different channels of the bus.
ASSUME AacAifAssumption ==
  /\ Ring \in Nat \ {0, 1}
  /\ NoTarget \notin Containers \cup Disks /\ Containers \cap Disks = {}

-----------------------------------------------------------------------------
(***************************************************************************)
(* Rings.  The indices run from 1 to Ring; Ring stands for the front.      *)
(***************************************************************************)
EmptyRing == [producer |-> Ring, consumer |-> Ring, ents |-> [k \in 0 .. Ring - 1 |-> 0]]

IndexOf(i) == IF i >= Ring THEN 0 ELSE i

\* aac_get_entry: full is one short of the size.
Full(q) == IndexOf(q.producer) + 1 = q.consumer

\* aac_queue_get and the update of the producer.
QueueGet(q, x) ==
  [q EXCEPT !.ents[IndexOf(q.producer)] = x, !.producer = IndexOf(q.producer) + 1]

\* aac_consumer_get, aac_consumer_free.
HasEntry(q) == q.producer # q.consumer
ConsumerGet(q) == q.ents[IndexOf(q.consumer)]
ConsumerFree(q) == [q EXCEPT !.consumer = IF @ >= Ring THEN 1 ELSE @ + 1]

\* Reference: what is in the ring, in order.
Contents(q) ==
  LET n == (q.producer - q.consumer) % Ring
  IN  [k \in 1 .. n |-> q.ents[(q.consumer + k - 1) % Ring]]

-----------------------------------------------------------------------------
(***************************************************************************)
(* aac_handle_aif.                                                         *)
(***************************************************************************)
NoConfig == [needed |-> "NOTHING", waiting |-> "nothing", fresh |-> FALSE, valid |-> TRUE]

Expect(f, needed, waiting) == [f EXCEPT !.needed = needed, !.waiting = waiting, !.fresh = TRUE]

\* The events of physical devices, and what they ask for at once.
Inserted == {"AddJBOD", "DriveInsertion"}
Removed == {"RawDeviceRemove", "DeleteJBOD", "DriveRemoval"}

\* A device that is added by a JBOD event is removed first if it is there.
DiskNeeded(e) ==
  IF e.target \notin Disks THEN "NOTHING"
  ELSE IF e.what \in Inserted THEN "ADD" ELSE IF e.what \in Removed THEN "DELETE" ELSE "NOTHING"

\* The sniffing: which change an event announces for a container.
Sniffed(f, c, e, device) ==
  LET mine == e.target = c
  IN  CASE mine /\ e.what = "MorphComplete" /\ device # "none" -> Expect(f, "CHANGE", "ConfigChange")
        [] mine /\ e.what = "AddContainer" -> Expect(f, "ADD", "ConfigChange")
        [] mine /\ e.what = "DeleteContainer" -> Expect(f, "DELETE", "ConfigChange")
        [] /\ mine /\ e.what = "ContainerChange"
           /\ ~(f.waiting # "nothing" /\ f.fresh) -> Expect(f, "CHANGE", "ConfigChange")
        [] e.what = "ZeroDone" -> Expect(f, "ADD", "ContainerChange")
        [] e.what = "ZeroRunning" -> Expect(f, "DELETE", "ContainerChange")
        [] OTHER -> f

\* "If we are waiting on something and this happens to be that thing then set
\* the re-configure flag."
Awaited(f, c, e) ==
  IF /\ e.cmd # "JobProgress" /\ f.waiting = e.what /\ f.fresh
     /\ e.target = c \/ e.target = NoTarget
  THEN [f EXCEPT !.waiting = "nothing"] ELSE f

Ready(f) == f.waiting = "nothing" /\ f.needed # "NOTHING" /\ f.fresh

\* Mutant of the next: an array that is added again is not looked at.
ReconfiguredUnprobed(device, needed, valid) ==
  CASE device = "none" -> IF needed = "ADD" /\ valid THEN "online" ELSE "none"
    [] needed = "DELETE" -> "offline"
    [] needed = "ADD" -> "online"
    [] OTHER -> IF ~valid THEN "offline" ELSE device

\* The device of a container after a change, the probe of the container having
\* found it valid or not; scsi_add_device finds a new device if it is there.
Reconfigured(device, needed, valid) ==
  CASE device = "none" -> IF needed = "ADD" /\ valid THEN "online" ELSE "none"
    [] needed = "DELETE" -> "offline"
    [] needed = "ADD" -> IF valid THEN "online" ELSE "offline"
    [] OTHER -> IF ~valid THEN "offline" ELSE device

\* A physical device is changed at once, and then the containers have to wait
\* for the next event; else all containers that are ready are changed.
\* probe[c] is what aac_probe_container finds.
HandleAif(fsa, devices, e, probe) ==
  LET sniffed == [c \in Containers |-> Awaited(Sniffed(fsa[c], c, e, devices[c]), c, e)]
      disk == DiskNeeded(e) # "NOTHING"
      now == {c \in Containers : ~disk /\ Ready(sniffed[c])}
  IN  [fsa |-> [c \in Containers |->
                  IF c \in now THEN [sniffed[c] EXCEPT !.needed = "NOTHING", !.valid = probe[c]]
                  ELSE sniffed[c]],
       devices |-> [d \in Containers \cup Disks |->
                      IF d \in now THEN Reconfigured(devices[d], sniffed[d].needed, probe[d])
                      ELSE IF disk /\ d = e.target THEN Reconfigured(devices[d], DiskNeeded(e), TRUE)
                      ELSE devices[d]]]
=============================================================================
