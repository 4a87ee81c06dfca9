----------------------------- MODULE MCDrivers -----------------------------
(***************************************************************************)
(* A small instance of the handlers.                                       *)
(***************************************************************************)
EXTENDS Drivers

MCCallBounds  == [fhandle |-> 3, sclp |-> 4, rawsrb |-> 2, cros |-> 2]
MCWriteBounds == [fhandle |-> 1, sclp |-> 2, rawsrb |-> 1, cros |-> 1]

\* Files f1 and f2 need one and two words of two bytes; the limit is five
\* bytes, so that the user's sizes are too small, enough, odd and too large.
MCFiles == {"f1", "f2"}
MCNeed  == [f1 |-> 1, f2 |-> 2]

\* Requests in both forms with none, one and two entries, one whose entry is too
\* large, and some with too many, without a direction or of no size.
Srb(z, c, d) == [size |-> z, n |-> Len(c), counts |-> c, dir |-> d]
MCSrbs == {Srb(5, <<1, 2>>, "both"), Srb(7, <<2, 1>>, "both"), Srb(3, <<2>>, "in"),
           Srb(4, <<1>>, "out"), Srb(1, <<>>, "in"), Srb(7, <<1, 3>>, "out"),
           Srb(3, <<1>>, "none"), Srb(0, <<1, 1, 1>>, "in"), Srb(7, <<1, 1, 1>>, "in")}

\* An EC with a PD chip, one whose PD chip takes larger requests than itself,
\* and one that answers the query but names no protocol and has no PD chip.
EC(q, p, v, d) == [req |-> q, resp |-> p, proto |-> v, pd |-> d]
MCEcs == {EC(3, 3, 3, 3), EC(2, 3, 3, 3), EC(3, 2, 0, 0)}

MCCmds == {[out |-> 2, in |-> 0, pass |-> FALSE, res |-> "ok"],
           [out |-> 0, in |-> 2, pass |-> FALSE, res |-> "busy"]}
=============================================================================
