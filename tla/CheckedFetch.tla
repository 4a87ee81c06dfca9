---------------------------- MODULE CheckedFetch ----------------------------
(***************************************************************************)
(* What the automatic fixer promises of a handler that reads a header from *)
(* user memory, decides on it, and then reads the whole message again: the *)
(* header the handler acts on is the header it has accepted.  A caller is  *)
(* idle, has accepted a header, or acts on it.  FHandle is shown to        *)
(* implement this; SclpCtl, which the fixer left as it was, does not.      *)
(***************************************************************************)
CONSTANTS Callers,          \* the threads that call the handler
          Acceptable,       \* the headers the handler's checks let through
          NoHeader          \* the header of a caller that has accepted none

VARIABLES phase,            \* "idle", "checked" or "acts", per caller
          header            \* the header it checked, or the one it acts on

vars == <<phase, header>>

Init == /\ phase  = [c \in Callers |-> "idle"]
        /\ header = [c \in Callers |-> NoHeader]

Check(c) == \E h \in Acceptable :
                /\ phase[c] = "idle"
                /\ phase'  = [phase EXCEPT ![c] = "checked"]
                /\ header' = [header EXCEPT ![c] = h]

Act(c) == /\ phase[c] = "checked"
          /\ phase' = [phase EXCEPT ![c] = "acts"]
          /\ UNCHANGED header

\* The call is over, after its work or because something failed.
Leave(c) == /\ phase[c] # "idle"
            /\ phase'  = [phase EXCEPT ![c] = "idle"]
            /\ header' = [header EXCEPT ![c] = NoHeader]

Next == \E c \in Callers : Check(c) \/ Act(c) \/ Leave(c)

Spec == Init /\ [][Next]_vars
=============================================================================
