----------------------------- MODULE MCAacThread -----------------------------
(***************************************************************************)
(* Instances: all pairs of events followed by the confirmation, with time  *)
(* passing between them and nobody reading; two programs reading and       *)
(* restarting the thread; a failing adapter that the thread or the error   *)
(* handler resets.                                                         *)
(***************************************************************************)
EXTENDS AacThread

CONSTANTS c1, d1, u1, u2

Event(cmd, what, target) == [cmd |-> cmd, what |-> what, target |-> target, hdr |-> "good"]
Changes ==
  {Event("EventNotify", w, c1) : w \in {"AddContainer", "DeleteContainer", "ContainerChange"}}
    \cup {Event("DriverNotify", "MorphComplete", c1), Event("DriverNotify", "RawDeviceRemove", d1),
          Event("EventNotify", "AddJBOD", d1), Event("EventNotify", "ConfigChange", NoTarget)}
    \cup {Event("JobProgress", w, NoTarget) : w \in {"ZeroDone", "ZeroRunning"}}
Confirm == {Event("EventNotify", "ConfigChange", NoTarget), Event("EventNotify", "ContainerChange", c1)}
Other == Event("Other", "other", NoTarget)

Quiet(s) == [script |-> s, users |-> {}, failures |-> 0, resets |-> 0, opens |-> 0, checks |-> 0, aging |-> TRUE,
             devices |-> {"none", "online"}]
Instance(s, users, failures, resets) ==
  [script |-> s, users |-> users, failures |-> failures, resets |-> resets,
   opens |-> Cardinality(users), checks |-> 2, aging |-> FALSE,
   devices |-> {"online"}]

MCInstances ==
  {Quiet(<<a, b, c>>) : a \in Changes, b \in Changes, c \in Confirm}
    \cup {Instance(<<Other>>, {u1, u2}, 0, 0)}
    \cup {Instance(<<[Other EXCEPT !.hdr = "small"], Other, Other, Other>>, {u1}, 0, 0)}
    \cup {Instance(<<Event("EventNotify", "AddContainer", c1)>>, {u1}, 0, 1)}
    \cup {Instance(<<Other>>, {u1}, 1, 0)}
    \cup {Instance(<<Event("EventNotify", "AddContainer", c1), Other>>, {}, 1, 1)}
=============================================================================
