----------------------------- MODULE MCSendFib ------------------------------
(***************************************************************************)
(* Small instances of SendFib.  The sizes keep the order of the real ones: *)
(* HdrSize < MaxFibSize < SizeLimit < U16.                                 *)
(***************************************************************************)
EXTENDS SendFib

CONSTANTS c1, c2, f1, f2

MCCallers == {c1, c2}
MCFibs == {f1, f2}

Request(s, n) ==
  [Size |-> s, SenderSize |-> n, brk |-> FALSE, magic |-> TRUE, xfer |-> {"HostOwned"}]

\* Fits the pool's buffer; needs a larger one; is refused; is longer than it
\* says; needs a larger one and is not a fib.
Fits == Request(1, 4)
NeedsBuffer == Request(3, 6)
TooLarge == Request(7, 0)
TooLong == Request(2, 1)
NotAFib == [NeedsBuffer EXCEPT !.magic = FALSE]

SizeHeaders == {Fits, NeedsBuffer, TooLarge, NotAFib}

\* None needs a larger buffer.
SmallHeaders == {Fits, TooLong, [Fits EXCEPT !.xfer = {}], [Fits EXCEPT !.brk = TRUE]}

I(h, s, r, n, g) == [headers |-> h, signals |-> s, resets |-> r, calls |-> n, mgt |-> g]

\* Every size without signals; small messages with signals, and two of
\* them with a call more; signals and larger buffers together, then with a
\* call more, so that a buffer is given out again; a reset.
MCInstances ==
  {I(SizeHeaders, FALSE, 0, 2, 2),
   I(SmallHeaders, TRUE, 0, 2, 1), I({Fits, TooLong}, TRUE, 0, 3, 1),
   I({Fits, NeedsBuffer}, TRUE, 0, 2, 2), I({NeedsBuffer}, TRUE, 0, 3, 2),
   I({Fits}, TRUE, 1, 2, 1)}
=============================================================================
