------------------------------ MODULE Drivers ------------------------------
(***************************************************************************)
(* The handlers with a double fetch, each on its own: a behaviour is one   *)
(* of FHandle, of SclpCtl, of RawSrb or of CrosEc, chosen in the initial   *)
(* state; the variables of the others stay "off".                          *)
(***************************************************************************)
EXTENDS Integers, FiniteSets, Sequences

CONSTANTS
  Threads, None,
  CallBounds, WriteBounds,    \* bounds: calls and writes of the user, per handler
  Files, Need, MaxHandleSz, Bytes, Word, MaxFds,                     \* FHandle
  Lengths, PageSize, MinLength, Pages,                               \* SclpCtl
  Srbs, Base, E32, E64, MaxSg, MaxCount, MaxFib,                     \* RawSrb
  ReqHdr, RespHdr, ReqI2c, RespI2c, InfoSize, Proto2Max, Ecs, Cmds,  \* CrosEc
  Answers, Retries

Systems == {"fhandle", "sclp", "rawsrb", "cros"}

ASSUME BoundsAssumption ==
  CallBounds \in [Systems -> Nat] /\ WriteBounds \in [Systems -> Nat]

ASSUME ThreadsAssumption ==
  IsFiniteSet(Threads) /\ None \notin Threads /\ "nobody" \notin Threads

\* A file's handle has at least a word.
ASSUME FHandleAssumption ==
  /\ None \notin Files /\ Files \cap Threads = {}
  /\ Need \in [Files -> Nat \ {0}] /\ Word \in Nat \ {0}
  /\ Bytes \subseteq Nat /\ MaxHandleSz \in Nat /\ MaxFds \in Nat

ASSUME SclpAssumption ==
  Lengths \subseteq Nat /\ PageSize \in Nat /\ MinLength \in Nat /\ Pages \in Nat

\* A packet of an EC has room for its header.
ASSUME CrosAssumption ==
  /\ {ReqHdr, RespHdr, ReqI2c, RespI2c, InfoSize, Proto2Max, Retries} \subseteq Nat
  /\ Answers \subseteq Nat
  /\ \A e \in Ecs : /\ e.req \in Nat /\ e.req >= ReqHdr
                    /\ e.resp \in Nat /\ e.resp >= RespHdr
                    /\ e.pd \in Nat /\ (e.pd = 0 \/ e.pd >= ReqHdr)
                    /\ e.proto \in {0, 2, 3}
  /\ Cmds \subseteq [out : Nat, in : Nat, pass : BOOLEAN, res : {"ok", "busy"}]

VARIABLES sys,
          ufh, want, f_handle, handle, heap, mnts, dents, fds, named,
          ulen, fetched, length, pages, refused, altered,
          host64, usrb, pool, fib, at, size, cmd, sg, psg, byte_count, data, given, alloc,
          adapter, rcode,
          ec, ucmd, proto, pkt, maxReq, maxResp, maxPass, dinSize, doutSize,
          din, dout, lock, busy, u, s, room, got, polls, lost, bug,
          ret, pc, calls, writes

fvars == <<ufh, want, f_handle, handle, heap, mnts, dents, fds, named>>
svars == <<ulen, fetched, length, pages, refused, altered>>
rvars == <<host64, usrb, pool, fib, at, size, cmd, sg, psg, byte_count, data, given, alloc,
           adapter, rcode>>
cvars == <<ec, ucmd, proto, pkt, maxReq, maxResp, maxPass, dinSize, doutSize,
           din, dout, lock, busy, u, s, room, got, polls, lost, bug>>
vars  == <<sys, fvars, svars, rvars, cvars, ret, pc, calls, writes>>

FH == INSTANCE FHandle WITH
          MaxCalls <- CallBounds["fhandle"], MaxWrites <- WriteBounds["fhandle"]

SC == INSTANCE SclpCtl WITH
          MaxCalls <- CallBounds["sclp"], MaxWrites <- WriteBounds["sclp"]

RS == INSTANCE RawSrb WITH
          heap <- alloc, Fibs <- Threads,
          MaxCalls <- CallBounds["rawsrb"], MaxWrites <- WriteBounds["rawsrb"]

CE == INSTANCE CrosEc WITH
          Callers <- Threads,
          MaxCalls <- CallBounds["cros"], MaxWrites <- WriteBounds["cros"]

\* A request has as many counts as it says; what an adapter has is never None.
ASSUME SrbAssumption ==
  /\ \A r \in Srbs : /\ r.size \in Nat /\ r.n \in Nat
                     /\ r.counts \in [1 .. r.n -> Nat]
                     /\ r.dir \in RS!Directions
  /\ None \notin RS!Requests
  /\ {Base, E32, E64, MaxSg, MaxCount, MaxFib} \subseteq Nat

FOff == /\ ufh = "off" /\ want = "off" /\ f_handle = "off" /\ handle = "off" /\ heap = "off"
        /\ mnts = "off" /\ dents = "off" /\ fds = "off" /\ named = "off"
SOff == /\ ulen = "off" /\ fetched = "off" /\ length = "off" /\ pages = "off" /\ refused = "off"
        /\ altered = "off"
ROff == /\ host64 = "off" /\ usrb = "off" /\ pool = "off" /\ fib = "off" /\ at = "off"
        /\ size = "off" /\ cmd = "off" /\ sg = "off" /\ psg = "off" /\ byte_count = "off"
        /\ data = "off" /\ given = "off" /\ alloc = "off" /\ adapter = "off"
        /\ rcode = "off"
COff == /\ ec = "off" /\ ucmd = "off" /\ proto = "off" /\ pkt = "off" /\ maxReq = "off"
        /\ maxResp = "off" /\ maxPass = "off" /\ dinSize = "off" /\ doutSize = "off" /\ din = "off"
        /\ dout = "off" /\ lock = "off" /\ busy = "off" /\ u = "off" /\ s = "off"
        /\ room = "off" /\ got = "off" /\ polls = "off" /\ lost = "off" /\ bug = FALSE

Init == \/ sys = "fhandle" /\ FH!Init /\ SOff /\ ROff /\ COff
        \/ sys = "sclp" /\ SC!Init /\ FOff /\ ROff /\ COff /\ ret = "off"
        \/ sys = "rawsrb" /\ RS!Init /\ FOff /\ SOff /\ COff /\ ret = "off"
           /\ pc = [t \in Threads |-> "off"]
        \/ sys = "cros" /\ CE!Init /\ FOff /\ SOff /\ ROff

CrosStep(c) == sys = "cros" /\ CE!Step(c) /\ UNCHANGED <<sys, fvars, svars, rvars>>

Next == \/ sys = "fhandle" /\ FH!Next /\ UNCHANGED <<sys, svars, rvars, cvars>>
        \/ sys = "sclp" /\ SC!Next /\ UNCHANGED <<sys, fvars, rvars, cvars, ret>>
        \/ sys = "rawsrb" /\ RS!Next /\ UNCHANGED <<sys, fvars, svars, cvars, ret, pc>>
        \/ sys = "cros" /\ CE!Next /\ UNCHANGED <<sys, fvars, svars, rvars>>

\* Callers of the EC run on, and i2c transfers end by themselves.
Spec == Init /\ [][Next]_vars /\ \A c \in Threads : WF_vars(CrosStep(c))

-----------------------------------------------------------------------------
\* Every way out gives back what was taken: references, memory and descriptors
\* of name_to_handle_at and open_by_handle_at; the page of sclp_ctl_ioctl_sccb,
\* but for a refused length; buffers, copies and the fib of aac_send_raw_srb.
Balanced ==
    /\ sys = "fhandle" => FH!TypeOK /\ FH!Balanced
    /\ sys = "sclp" => SC!TypeOK /\ SC!PagesAccounted
    /\ sys = "rawsrb" => RS!TypeOK /\ RS!SrbBalanced

\* What is copied and handed on is what was checked: the SCLP block stays in its
\* page unless its length was altered after the check; the list the adapter
\* works on is that of the program's request, fetched in two parts, and the
\* program gets back what the adapter wrote.
CopiesFit ==
    /\ sys = "sclp" => SC!WithinPage
    /\ sys = "rawsrb" => RS!ListIsTheProgramsOwn /\ RS!DataGivenBack

\* FHandle: a handle given by name_to_handle_at and not written since opens the
\* file it was made for, and after EOVERFLOW the header asks for enough room.
HandlesServe ==
    /\ [](sys = "fhandle" => FH!RoundTrip)
    /\ [][sys = "fhandle" => FH!RetryStep]_vars

\* FHandle: the patched handle_to_path acts on the header it has checked, as
\* CheckedFetch says.
Checked == INSTANCE CheckedFetch WITH
               Callers <- Threads, NoHeader <- FH!NoHeader,
               Acceptable <- {h \in FH!Header : FH!SizeOk(h)},
               phase  <- [t \in Threads |-> IF sys = "fhandle" THEN FH!Phase(t) ELSE "idle"],
               header <- [t \in Threads |-> IF sys = "fhandle" THEN FH!ActsOn(t)
                                            ELSE FH!NoHeader]
ActsOnChecked == Checked!Spec

\* CrosEc: what a caller reads is the answer to its own command and fits;
\* packets that pass the size checks fit the buffers there are; a command the EC
\* still executes is reported done only after the last status query.
CommandsExact ==
    sys = "cros" => CE!TypeOK /\ CE!AnswerIsOwn /\ CE!PacketsFit /\ CE!GivenUpLate

\* CrosEc: every call returns, unless a BUG_ON stops the machine.
EveryCallReturns ==
    \A c \in Threads : (sys = "cros" /\ pc[c] # "idle") ~> (pc[c] = "idle" \/ bug)
=============================================================================
