------------------------------- MODULE MicCopy -------------------------------
(***************************************************************************)
(* The copying of the MIC virtio host driver between the buffers of a card *)
(* and a program (auto_fix/patched_files/5-patched-mic_virtio.c:           *)
(* _mic_virtio_copy, mic_vringh_copy, mic_virtio_copy_to_user,             *)
(* mic_virtio_copy_from_user), for one vring.                              *)
(*                                                                         *)
(* A descriptor chain is a sequence of pieces of card memory to read and   *)
(* one of pieces to write.  A program passes a sequence of buffers; buffer *)
(* k begins at Stride * k.  Memory is a function on the addresses written  *)
(* so far, that of the program in the call; a byte that was never written  *)
(* is told by where it is.  A call goes on from where the last one left    *)
(* the chain.                                                              *)
(***************************************************************************)
EXTENDS Integers, Sequences, FiniteSets, SequencesExt, TLC

CONSTANTS
  Align,      \* alignment of the DMA engine
  BufSize,    \* MIC_INT_DMA_BUF_SIZE
  Stride,     \* distance between the buffers of a program
  NoHead      \* USHRT_MAX

ASSUME MicCopyAssumption ==
  /\ Align \in Nat \ {0} /\ BufSize \in Nat \ {0} /\ BufSize % Align = 0 /\ Stride \in Nat

VARIABLES
  vr,       \* chains: all that the card offers; last: how many are taken;
            \* used: what has been completed; info: the index the program sees;
            \* cur (ghost): the chain fetched last
  riov, wiov, head,
  call,     \* the call in progress: where it is, its buffers and its locals
  buf,      \* the intermediate buffer of the vring
  card, uspace,
  faults,   \* how many copies may still fail
  skewed    \* ghost: a transfer has gone the way that shifts its bytes

copyVars == <<vr, riov, wiov, head, call, buf, card, uspace, faults, skewed>>

RoundUp(n) == ((n + Align - 1) \div Align) * Align
Lesser(m, n) == IF m < n THEN m ELSE n
CardByte(a) == IF a \in DOMAIN card THEN card[a] ELSE <<"card", a>>
UserByte(a) == IF a \in DOMAIN uspace THEN uspace[a] ELSE <<"user", a>>
NoIov == [iov |-> <<>>, i |-> 1, consumed |-> 0]
AllDone(v) == v.i > Len(v.iov)
Idle == [pc |-> "idle"]

NewVring(chains) == [chains |-> chains, last |-> 0, used |-> <<>>, info |-> 0, cur |-> 0]
NewBuf == [k \in 0 .. BufSize - 1 |-> <<"zero", k>>]

CopyInit(chains, n) ==
  /\ vr = NewVring(chains) /\ buf = NewBuf
  /\ riov = NoIov /\ wiov = NoIov /\ head = NoHead /\ call = Idle
  /\ card = <<>> /\ uspace = <<>>
  /\ faults = n /\ skewed = FALSE

At(where) == call.pc = where
Goto(where) == call' = [call EXCEPT !.pc = where]

\* mic_vringh_iov_consumed.
Consumed(v) == v.consumed + FoldLeft(LAMBDA n, e : n + e.len, 0, SubSeq(v.iov, 1, v.i - 1))

-----------------------------------------------------------------------------
(***************************************************************************)
(* _mic_virtio_copy.                                                       *)
(***************************************************************************)
\* The call, and the fetch of a chain when the last one has been processed.
BeginCopy(bufs, update) ==
  LET new == [pc |-> "vec", bufs |-> bufs, update |-> update, k |-> 1, len |-> 0, ubuf |-> 0,
              out |-> 0, tot |-> 0, iov |-> "r", part |-> 0, daddr |-> 0, off |-> 0, at |-> 0,
              left |-> 0, err |-> FALSE]
  IN  /\ At("idle")
      /\ IF AllDone(riov) /\ AllDone(wiov)
         THEN /\ vr.last < Len(vr.chains)
              /\ vr' = [vr EXCEPT !.last = @ + 1, !.cur = vr.last + 1]
              /\ head' = vr.last + 1
              /\ riov' = [NoIov EXCEPT !.iov = vr.chains[vr.last + 1].r]
              /\ wiov' = [NoIov EXCEPT !.iov = vr.chains[vr.last + 1].w]
              /\ call' = [new EXCEPT !.at = 0]
         ELSE call' = [new EXCEPT !.at = Consumed(riov) + Consumed(wiov)] /\ UNCHANGED <<vr, head, riov, wiov>>
      /\ uspace' = <<>>
      /\ UNCHANGED <<buf, card, faults, skewed>>

\* A copy from or to the program, or a DMA, fails.
Fault ==
  /\ call.pc \in {"vec", "topart", "frompart", "memcpy"} /\ faults > 0
  /\ faults' = faults - 1
  /\ call' = [call EXCEPT !.pc = "used", !.err = TRUE]
  /\ UNCHANGED <<vr, riov, wiov, head, buf, card, uspace, skewed>>

\* A new buffer of the program, if there is one.
FetchIovec ==
  /\ At("vec")
  /\ call' = IF call.k > Len(call.bufs) THEN [call EXCEPT !.pc = "used"]
             ELSE [call EXCEPT !.pc = "loop", !.iov = "r", !.tot = 0,
                               !.len = call.bufs[call.k], !.ubuf = Stride * call.k]
  /\ UNCHANGED <<vr, riov, wiov, head, buf, card, uspace, faults, skewed>>

-----------------------------------------------------------------------------
(***************************************************************************)
(* mic_vringh_copy, first of the pieces to read, then of those to write.   *)
(***************************************************************************)
Iov == IF call.iov = "r" THEN riov ELSE wiov
SetIov(v) == IF call.iov = "r" THEN riov' = v /\ UNCHANGED wiov ELSE wiov' = v /\ UNCHANGED riov

\* What is written goes by DMA when its address is aligned and there is room
\* for its length rounded up.
ByDma(e, part) == e.base % Align = 0 /\ RoundUp(part) <= e.len

\* A piece: how it is copied.  What is read is read from an aligned address.
Piece ==
  LET e == Iov.iov[Iov.i]
      part == Lesser(e.len, call.len)
      off == IF call.iov = "r" THEN e.base % Align ELSE 0
      way == IF call.iov = "r" THEN "topart"
             ELSE IF ByDma(e, part) THEN "frompart" ELSE "memcpy"
  IN  /\ At("loop") /\ call.len > 0 /\ ~AllDone(Iov)
      /\ call' = [call EXCEPT !.pc = way, !.part = part, !.daddr = e.base - off, !.off = off,
                              !.left = part + off]
      /\ skewed' = (skewed \/ (off > 0 /\ part + off > BufSize))
      /\ UNCHANGED <<vr, riov, wiov, head, buf, card, uspace, faults>>

\* Mutant of the next: the bytes before an unaligned address go with them.
ToUserPartUnaligned ==
  LET part == Lesser(call.left, BufSize)
      dma == [k \in 0 .. RoundUp(part) - 1 |-> CardByte(call.daddr + k)]
      src == call.ubuf + (call.part + call.off - call.left)
  IN  /\ At("topart") /\ call.left > 0
      /\ buf' = dma @@ buf
      /\ uspace' = [a \in src .. src + part - call.off - 1 |-> dma[a - src]] @@ uspace
      /\ call' = [call EXCEPT !.daddr = @ + part, !.left = @ - part, !.off = 0,
                              !.part = @ + call.off]
      /\ UNCHANGED <<vr, riov, wiov, head, card, faults, skewed>>

\* One round of mic_virtio_copy_to_user: a DMA into the intermediate buffer,
\* and a copy to the program without the bytes before the unaligned address.
\* The program's address is moved by all of the part.
ToUserPart ==
  LET part == Lesser(call.left, BufSize)
      dma == [k \in 0 .. RoundUp(part) - 1 |-> CardByte(call.daddr + k)]
      moved == call.daddr - (Iov.iov[Iov.i].base - (Iov.iov[Iov.i].base % Align))
      dst == call.ubuf + moved
  IN  /\ At("topart") /\ call.left > 0
      /\ buf' = dma @@ buf
      /\ uspace' = [a \in dst .. dst + part - call.off - 1 |-> dma[a - dst + call.off]] @@ uspace
      /\ call' = [call EXCEPT !.daddr = @ + part, !.left = @ - part, !.off = 0]
      /\ UNCHANGED <<vr, riov, wiov, head, card, faults, skewed>>

\* One round of mic_virtio_copy_from_user by DMA; the last one is rounded up.
FromUserPart ==
  LET part == Lesser(call.left, BufSize)
      src == call.ubuf + call.part - call.left
      filled == [k \in 0 .. part - 1 |-> UserByte(src + k)] @@ buf
  IN  /\ At("frompart") /\ call.left > 0
      /\ buf' = filled
      /\ card' = [a \in call.daddr .. call.daddr + RoundUp(part) - 1 |-> filled[a - call.daddr]] @@ card
      /\ call' = [call EXCEPT !.daddr = @ + part, !.left = @ - part]
      /\ UNCHANGED <<vr, riov, wiov, head, uspace, faults, skewed>>

Memcpy ==
  /\ At("memcpy") /\ call.left > 0
  /\ card' = [a \in call.daddr .. call.daddr + call.part - 1 |-> UserByte(call.ubuf + a - call.daddr)] @@ card
  /\ call' = [call EXCEPT !.left = 0]
  /\ UNCHANGED <<vr, riov, wiov, head, buf, uspace, faults, skewed>>

\* "Fix up old iov element then increment."
Advanced(v, part) ==
  LET e == v.iov[v.i]
      c == v.consumed + part
      rest == [base |-> e.base + part, len |-> e.len - part]
  IN  IF rest.len > 0 THEN [v EXCEPT !.iov[v.i] = rest, !.consumed = c]
      ELSE [iov |-> [v.iov EXCEPT ![v.i] = [base |-> rest.base - c, len |-> c]],
            i |-> v.i + 1, consumed |-> 0]

PieceDone ==
  /\ call.pc \in {"topart", "frompart", "memcpy"} /\ call.left = 0
  /\ SetIov(Advanced(Iov, call.part))
  /\ call' = [call EXCEPT !.pc = "loop", !.len = @ - call.part, !.ubuf = @ + call.part,
                          !.tot = @ + call.part]
  /\ UNCHANGED <<vr, head, buf, card, uspace, faults, skewed>>

\* The pieces to read are done or the buffer is full: those to write follow,
\* then the next buffer, unless the chain is finished.
PiecesDone ==
  /\ At("loop") /\ (call.len = 0 \/ AllDone(Iov))
  /\ LET out == call.out + call.tot
         k == IF call.len = 0 THEN call.k + 1 ELSE call.k
         finished == AllDone(riov) /\ AllDone(wiov)
     IN  call' = IF call.iov = "r" THEN [call EXCEPT !.iov = "w", !.out = out, !.tot = 0]
                 ELSE [call EXCEPT !.k = k, !.out = out, !.tot = 0,
                                   !.pc = IF finished THEN "used" ELSE "vec"]
  /\ UNCHANGED <<vr, riov, wiov, head, buf, card, uspace, faults, skewed>>

-----------------------------------------------------------------------------
\* The used ring is updated when the program asks for it and data was copied.
UpdateUsed ==
  /\ At("used")
  /\ Goto("ret")
  /\ IF head # NoHead /\ call.out > 0 /\ call.update
     THEN /\ vr' = [vr EXCEPT !.used = Append(@, [id |-> head, total |-> Consumed(riov) + Consumed(wiov)]),
                              !.info = vr.last]
          /\ head' = NoHead /\ riov' = NoIov /\ wiov' = NoIov
     ELSE UNCHANGED <<vr, head, riov, wiov>>
  /\ UNCHANGED <<buf, card, uspace, faults, skewed>>

CopyStep ==
  \/ Fault \/ FetchIovec \/ Piece \/ ToUserPart \/ FromUserPart \/ Memcpy \/ PieceDone
  \/ PiecesDone \/ UpdateUsed

-----------------------------------------------------------------------------
(***************************************************************************)
(* The reference: the bytes of a chain in order, and those of a call.      *)
(***************************************************************************)
Bytes(pieces) ==
  FoldLeft(LAMBDA s, e : s \o [k \in 1 .. e.len |-> e.base + k - 1], <<>>, pieces)
BufferBytes(bufs) ==
  Bytes([k \in 1 .. Len(bufs) |-> [base |-> Stride * k, len |-> bufs[k]]])
ReadBytes == Bytes(vr.chains[vr.cur].r)
WriteBytes == Bytes(vr.chains[vr.cur].w)

\* What a call has copied is what it says: byte p of it is the byte of the
\* chain that follows those of the calls before, the pieces to read first,
\* whatever the pieces, the buffers and the alignment.
CopiedBytes ==
  (At("ret") /\ ~call.err /\ ~skewed) =>
    LET n == Len(ReadBytes)
        mine == BufferBytes(call.bufs)
    IN  \A p \in 1 .. call.out :
          IF call.at + p <= n THEN UserByte(mine[p]) = <<"card", ReadBytes[call.at + p]>>
          ELSE CardByte(WriteBytes[call.at + p - n]) = <<"user", mine[p]>>

\* Nothing is written on the card but in the pieces offered for it, though DMA
\* rounds its lengths up, and nothing in the program but in its buffers.
WithinPieces ==
  /\ DOMAIN card \subseteq UNION {Range(Bytes(vr.chains[c].w)) : c \in 1 .. Len(vr.chains)}
  /\ (At("idle") \/ skewed) \/ DOMAIN uspace \subseteq Range(BufferBytes(call.bufs))

\* The card is told how many bytes of a chain have been used: all those that
\* the calls on it have reported, when none of them failed.
TotalsAreExact ==
  (At("ret") /\ ~call.err /\ vr.used # <<>> /\ head = NoHead /\ call.out > 0 /\ call.update)
     => Last(vr.used).total = call.at + call.out

\* The copying as a whole: the right bytes, within what was offered, counted.
CopyExact == CopiedBytes /\ WithinPieces /\ TotalsAreExact
=============================================================================
