----------------------------- MODULE MCMicVirtio -----------------------------
(***************************************************************************)
(* Instances: a device that copies chains of several alignments and sizes; *)
(* one that is changed, reset and removed; one that is changed and reset   *)
(* while it copies; two that are added and removed while the programs      *)
(* change their descriptors; devices of two sizes.                         *)
(***************************************************************************)
EXTENDS MicVirtio

CONSTANTS d1, d2

P(base, len) == [base |-> base, len |-> len]
Desc(size, vqs) == [type |-> 3, size |-> size, vqs |-> vqs]
None == [descs |-> [d \in Devices |-> {Desc(1, 1)}], adds |-> 0, dels |-> 0, changes |-> 0,
         resets |-> 0, crashes |-> 0, failures |-> 0, timeouts |-> FALSE, down |-> FALSE, faults |-> 0,
         copier |-> Nobody, copies |-> 0, chains |-> <<>>, bufs |-> {}]

Chains ==
  {<<[r |-> <<P(0, 3), P(a, n)>>, w |-> <<>>]>> : a \in {8, 9}, n \in {3, 5}}
    \cup {<<[r |-> <<P(9, 2)>>, w |-> <<P(b, n), P(30, 2)>>], [r |-> <<P(1, 1)>>, w |-> <<>>]>> :
            b \in {20, 21}, n \in {3, 5, 6}}

Only(desc) == [d \in Devices |-> IF d = d1 THEN {desc} ELSE {}]

Copying(c) ==
  [None EXCEPT !.adds = 1, !.faults = 1, !.copier = d1, !.copies = 3, !.chains = c,
               !.descs = Only(Desc(1, 1)), !.bufs = {<<2>>, <<3, 4>>, <<0, 8>>}]
Living ==
  [None EXCEPT !.adds = 2, !.dels = 1, !.changes = 2, !.resets = 1, !.crashes = 1,
               !.timeouts = TRUE, !.descs = Only(Desc(1, 2))]
Racing ==
  [None EXCEPT !.adds = 3, !.dels = 1, !.changes = 1, !.failures = 1, !.down = TRUE,
               !.descs = [d \in Devices |-> {Desc(1, 2), Desc(1, 0), Desc(4, 1), Desc(1, 3)}]]
Busy ==
  [None EXCEPT !.adds = 1, !.changes = 2, !.resets = 1, !.copier = d1, !.copies = 2,
               !.chains = <<[r |-> <<P(0, 2), P(5, 1)>>, w |-> <<>>]>>, !.bufs = {<<2>>},
               !.descs = Only(Desc(1, 2))]
Mixed ==
  [None EXCEPT !.adds = 4, !.dels = 1,
               !.descs = [d \in Devices |-> IF d = d1 THEN {Desc(1, 0), Desc(2, 0)} ELSE {Desc(1, 0)}]]

MCInstances == {Copying(c) : c \in Chains} \cup {Living, Racing, Busy, Mixed}
=============================================================================
