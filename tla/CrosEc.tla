------------------------------ MODULE CrosEc -------------------------------
(***************************************************************************)
(* The ChromeOS embedded controller: the character device as patched       *)
(* (3-patched-cros_ec_dev.c), the protocol layer (cros_ec_proto.c) and the *)
(* i2c transport (cros_ec_i2c.c).  Callers share one ec_device: its lock,  *)
(* the protocol it has found, and the buffers dout and din, which a v3     *)
(* transfer fills and reads.  Headers a caller sends come from user memory *)
(* that another thread may write.  Sizes are in units of one byte of data; *)
(* ReqHdr, RespHdr, ReqI2c and RespI2c are the sizes of the packet headers *)
(* and of what i2c puts before them.                                       *)
(***************************************************************************)
EXTENDS Integers, FiniteSets

CONSTANTS Callers,
          ReqHdr, RespHdr,      \* ec_host_request, ec_host_response
          ReqI2c, RespI2c,      \* EC_MAX_REQUEST_OVERHEAD, EC_MAX_RESPONSE_OVERHEAD
          InfoSize,             \* ec_response_get_protocol_info
          Proto2Max,            \* EC_PROTO2_MAX_PARAM_SIZE
          Ecs,                  \* ECs there may be: packet sizes, protocol, PD chip
          Cmds,                 \* headers of commands a user writes
          Answers,              \* sizes of the data of an answer
          Retries,              \* EC_COMMAND_RETRIES
          MaxCalls, MaxWrites   \* bounds: calls, writes of the user

VARIABLES ec,                   \* the EC: req, resp and pd are packet sizes
          ucmd,                 \* the command in user memory: its header
          proto,                \* proto_version, 0 is EC_PROTO_VERSION_UNKNOWN
          pkt,                  \* pkt_xfer is set
          maxReq, maxResp, maxPass,
          dinSize, doutSize,    \* what ec_device says of its buffers
          din, dout,            \* what is allocated: size and whose data
          lock,                 \* who holds ec_device's mutex
          busy,                 \* the caller whose command the EC still executes
          pc, u, s,             \* per caller: place, u_cmd, s_cmd
          room,                 \* per caller: data bytes its s_cmd has room for
          got,                  \* per caller: data bytes received for its command
          polls,                \* per caller: status queries of this command
          ret,                  \* per caller: a result below zero, or not
          lost,                 \* allocation of the buffers has failed
          bug,                  \* a BUG_ON was hit
          calls, writes

dev  == <<ec, proto, pkt, maxReq, maxResp, maxPass, dinSize, doutSize, lost>>
vars == <<ucmd, dev, din, dout, lock, busy, pc, u, s, room, got, polls, ret,
          bug, calls, writes>>

Nobody == "nobody"
\* A header: sizes out and in, pass if for the PD chip, res its result field.
NoCmd == [out |-> -1, in |-> -1, pass |-> FALSE, res |-> "ok"]
Buffer(n) == [size |-> n, of |-> Nobody]
NoBuffer == [size |-> -1, of |-> Nobody]

\* cros_ec_i2c_probe and cros_ec_register (external): buffers for the query of
\* the protocol, and no protocol yet: the EC was not listening.
Init == /\ ec \in Ecs
        /\ ucmd \in Cmds
        /\ proto = 0 /\ pkt = TRUE
        /\ maxReq = 0 /\ maxResp = 0 /\ maxPass = 0
        /\ dinSize = RespHdr + RespI2c + InfoSize
        /\ doutSize = ReqHdr + ReqI2c
        /\ din = Buffer(dinSize) /\ dout = Buffer(doutSize)
        /\ lock = Nobody /\ busy = Nobody
        /\ pc = [c \in Callers |-> "idle"]
        /\ u = [c \in Callers |-> NoCmd]
        /\ s = [c \in Callers |-> NoCmd]
        /\ room = [c \in Callers |-> 0]
        /\ got = [c \in Callers |-> -1]
        /\ polls = [c \in Callers |-> 0]
        /\ ret = [c \in Callers |-> "none"]
        /\ lost = FALSE /\ bug = FALSE /\ calls = 0 /\ writes = 0

At(c, where) == pc[c] = where /\ ~ bug
Go(c, where) == pc' = [pc EXCEPT ![c] = where]
Larger(a, b) == IF a > b THEN a ELSE b

-----------------------------------------------------------------------------
UserWrites == /\ writes < MaxWrites /\ ~ bug
              /\ \E h \in Cmds \ {ucmd} : ucmd' = h
              /\ writes' = writes + 1
              /\ UNCHANGED <<dev, din, dout, lock, busy, pc, u, s, room, got,
                             polls, ret, bug, calls>>

\* The end of a call: s_cmd is freed.
Leave(c) ==    /\ Go(c, "idle")
               /\ ret' = [ret EXCEPT ![c] = "none"]
               /\ u' = [u EXCEPT ![c] = NoCmd]
               /\ s' = [s EXCEPT ![c] = NoCmd]
               /\ room' = [room EXCEPT ![c] = 0]
               /\ got' = [got EXCEPT ![c] = -1]
               /\ polls' = [polls EXCEPT ![c] = 0]

\* ec_device_ioctl_xcmd fetches the header and allocates for its sizes (a
\* fault and a lack of memory leave nothing behind).
XcmdFetch(c) ==
    /\ At(c, "idle") /\ calls < MaxCalls
    /\ calls' = calls + 1
    /\ Go(c, "refetch")
    /\ u' = [u EXCEPT ![c] = ucmd]
    /\ room' = [room EXCEPT ![c] = Larger(ucmd.out, ucmd.in)]
    /\ UNCHANGED <<ucmd, dev, din, dout, lock, busy, s, got, polls, ret, bug, writes>>

SameCommandUnchecked(c, h) == TRUE

\* The patch: memcmp of the two headers.
SameCommand(c, h) == u[c] = h

\* The command as a whole; the offset of the device makes it one for the PD chip.
XcmdRefetch(c) ==
    /\ At(c, "refetch")
    /\ SameCommand(c, ucmd)
    /\ \E pd \in BOOLEAN : s' = [s EXCEPT ![c] = [ucmd EXCEPT !.pass = @ \/ pd]]
    /\ Go(c, "lock")
    /\ UNCHANGED <<ucmd, dev, din, dout, lock, busy, u, room, got, polls, ret,
                   bug, calls, writes>>

XcmdRefused(c) == /\ At(c, "refetch")
                  /\ Leave(c)
                  /\ UNCHANGED <<ucmd, dev, din, dout, lock, busy, bug, calls, writes>>

\* ec_device_read asks for the version: a command of the kernel's own (no u_cmd).
\* Its result field is not set before the transfer.
ReadVersion(c) ==
    /\ At(c, "idle") /\ calls < MaxCalls
    /\ calls' = calls + 1
    /\ \E r \in {"ok", "busy"} :
          s' = [s EXCEPT ![c] = [out |-> 0, in |-> InfoSize, pass |-> FALSE, res |-> r]]
    /\ room' = [room EXCEPT ![c] = InfoSize]
    /\ Go(c, "lock")
    /\ UNCHANGED <<ucmd, dev, din, dout, lock, busy, u, got, polls, ret, bug, writes>>

-----------------------------------------------------------------------------
\* cros_ec_cmd_xfer.  The mutex is taken; with no protocol yet the EC is asked.
LockFree == lock = Nobody

Lock(c) == /\ At(c, "lock")
           /\ LockFree
           /\ lock' = c
           /\ Go(c, IF proto = 0 THEN "query" ELSE "sizes")
           /\ UNCHANGED <<ucmd, dev, din, dout, busy, u, s, room, got, polls,
                          ret, bug, calls, writes>>

Unlock(c) == lock' = Nobody

\* A transfer of n in, m out: the checks of cros_ec_pkt_xfer_i2c (BUG_ON).
Fits(in, out, inSize, outSize) == /\ in + RespHdr + RespI2c <= inSize
                                  /\ out + ReqHdr + ReqI2c <= outSize

\* cros_ec_query_all: the v3 query answers with the sizes of packets and the
\* protocols of the EC.  The sizes are changed here, the buffers only later.
SizesOf(q, p) == /\ maxReq'   = q - ReqHdr
                 /\ maxResp'  = p - RespHdr
                 /\ dinSize'  = p + RespI2c
                 /\ doutSize' = q + ReqI2c

QueryV3(c) == /\ At(c, "query") /\ pkt
              /\ Fits(InfoSize, 0, dinSize, doutSize)
              /\ SizesOf(ec.req, ec.resp)
              /\ proto' = ec.proto
              /\ Go(c, "query_pd")
              /\ UNCHANGED <<ucmd, ec, pkt, maxPass, lost, din, dout, lock, busy, u,
                             s, room, got, polls, ret, bug, calls, writes>>

\* The query fails, or i2c is known to speak v2 only: a v2 hello is tried.
QueryV3Fails(c) == /\ At(c, "query")
                   /\ proto' = 2
                   /\ Go(c, "query_v2")
                   /\ UNCHANGED <<ucmd, ec, pkt, maxReq, maxResp, maxPass, dinSize,
                                  doutSize, lost, din, dout, lock, busy, u, s,
                                  room, got, polls, ret, bug, calls, writes>>

\* The same query of the PD chip, with the new sizes and the old buffers.  With
\* no PD chip the query of the EC has not failed, but its result is what
\* cros_ec_query_all returns.
QueryPd(c) == /\ At(c, "query_pd")
              /\ proto > 2 => Fits(InfoSize, 0, dinSize, doutSize)
              /\ \/ ec.pd > 0 /\ maxPass' = ec.pd - ReqHdr /\ UNCHANGED ret
                 \/ maxPass' = 0 /\ ret' = [ret EXCEPT ![c] = "error"]
              /\ Go(c, "realloc")
              /\ UNCHANGED <<ucmd, ec, proto, pkt, maxReq, maxResp, dinSize, doutSize,
                             lost, din, dout, lock, busy, u, s, room, got, polls,
                             bug, calls, writes>>

\* EC_MSG_BYTES is the largest v2 message with its header and trailer.
QueryV2(c) == /\ At(c, "query_v2")
              /\ maxReq' = Proto2Max /\ maxResp' = Proto2Max /\ maxPass' = 0
              /\ dinSize' = Proto2Max + ReqI2c + RespI2c
              /\ doutSize' = Proto2Max + ReqI2c + RespI2c
              /\ pkt' = FALSE
              /\ Go(c, "realloc")
              /\ UNCHANGED <<ucmd, ec, proto, lost, din, dout, lock, busy, u, s, room,
                             got, polls, ret, bug, calls, writes>>

\* Neither answers: the command is aborted, the protocol is asked for next time.
QueryFails(c) == /\ At(c, "query_v2")
                 /\ proto' = 0
                 /\ Unlock(c)
                 /\ Leave(c)
                 /\ UNCHANGED <<ucmd, ec, pkt, maxReq, maxResp, maxPass, dinSize,
                                doutSize, lost, din, dout, busy, bug, calls, writes>>

\* Buffers of the new sizes.  The command goes on if the query returned 0.
Realloc(c) == /\ At(c, "realloc")
              /\ din' = Buffer(dinSize) /\ dout' = Buffer(doutSize)
              /\ \/ /\ ret[c] # "error"
                    /\ Go(c, "sizes")
                    /\ UNCHANGED <<lock, u, s, room, got, polls, ret>>
                 \/ /\ ret[c] = "error"
                    /\ Unlock(c)
                    /\ Leave(c)
              /\ UNCHANGED <<ucmd, dev, busy, bug, calls, writes>>

\* No memory: the command is aborted, but the protocol stays known and the
\* next command goes ahead with what is left of the buffers.
ReallocFails(c) == /\ At(c, "realloc")
                   /\ din' = NoBuffer /\ dout' = NoBuffer
                   /\ lost' = TRUE
                   /\ Unlock(c)
                   /\ Leave(c)
                   /\ UNCHANGED <<ucmd, ec, proto, pkt, maxReq, maxResp, maxPass,
                                  dinSize, doutSize, busy, bug, calls, writes>>

-----------------------------------------------------------------------------
TooBig(c) == s[c].out > IF s[c].pass THEN maxPass ELSE maxReq

\* The size to receive is clamped to what the EC can send; a request over the
\* limit of its destination is refused.
CheckSizes(c) ==
    /\ At(c, "sizes")
    /\ ~ TooBig(c)
    /\ s' = [s EXCEPT ![c].in = IF @ > maxResp THEN maxResp ELSE @]
    /\ Go(c, "send")
    /\ UNCHANGED <<ucmd, dev, din, dout, lock, busy, u, room, got, polls, ret,
                   bug, calls, writes>>

RefuseLocked(c) == /\ At(c, "sizes")
                   /\ TooBig(c)
                   /\ Leave(c)
                   /\ UNCHANGED <<ucmd, dev, din, dout, lock, busy, bug, calls, writes>>

Refuse(c) == /\ At(c, "sizes")
             /\ TooBig(c)
             /\ Unlock(c)
             /\ Leave(c)
             /\ UNCHANGED <<ucmd, dev, din, dout, busy, bug, calls, writes>>

-----------------------------------------------------------------------------
\* send_command.  Protocol 3 puts the packet in dout, under the checks that it
\* fits the buffers.
Prepare(c) == /\ At(c, "send")
              /\ proto = 3 /\ ~ lost
              /\ Fits(s[c].in, s[c].out, dinSize, doutSize)
              /\ dout' = [dout EXCEPT !.of = c]
              /\ Go(c, "xfer")
              /\ UNCHANGED <<ucmd, dev, din, lock, busy, u, s, room, got, polls,
                             ret, bug, calls, writes>>

\* BUG_ON of a packet that does not fit, or the use of buffers that are gone.
Bug(c) == /\ \/ At(c, "send") /\ proto = 3 /\ ~ Fits(s[c].in, s[c].out, dinSize, doutSize)
             \/ At(c, "query_pd") /\ proto = 3 /\ ~ Fits(InfoSize, 0, dinSize, doutSize)
             \/ At(c, "query") /\ ~ Fits(InfoSize, 0, dinSize, doutSize)
             \/ At(c, "send") /\ proto = 3 /\ lost
             \/ At(c, "query") /\ lost
          /\ bug' = TRUE
          /\ UNCHANGED <<ucmd, dev, din, dout, lock, busy, pc, u, s, room, got,
                         polls, ret, calls, writes>>

\* i2c_transfer: the EC gets what is in dout and its answer goes to din.
Transfer(c) == /\ At(c, "xfer")
               /\ din' = [din EXCEPT !.of = dout.of]
               /\ Go(c, "read")
               /\ UNCHANGED <<ucmd, dev, dout, lock, busy, u, s, room, got, polls,
                              ret, bug, calls, writes>>

\* Protocol 2 has buffers of its own for each transfer.
TransferV2(c) == /\ At(c, "send") /\ proto # 3
                 /\ Go(c, "read")
                 /\ UNCHANGED <<ucmd, dev, din, dout, lock, busy, u, s, room, got,
                                polls, ret, bug, calls, writes>>

\* After the transfer the result field decides: EC_RES_IN_PROGRESS is polled for.
AfterTransfer(c, res, r) ==
    /\ ret' = [ret EXCEPT ![c] = r]
    /\ s' = [s EXCEPT ![c].res = res]
    /\ Go(c, IF res = "busy" THEN "poll" ELSE "unlock")

TooLong(c, n) == n > s[c].in

\* The answer is read: n bytes of data, refused if they are more than asked for.
ReadAnswer(c) ==
    /\ At(c, "read")
    /\ \E n \in Answers :
          IF TooLong(c, n) THEN AfterTransfer(c, "ok", "error") /\ UNCHANGED got
          ELSE /\ got' = [got EXCEPT ![c] = n]
               /\ \E r \in {"ok", "error"} : AfterTransfer(c, "ok", r) \* checksum
    /\ UNCHANGED <<ucmd, dev, din, dout, lock, busy, u, room, polls, bug, calls, writes>>

\* The EC says it is not done yet.
InProgress(c) == /\ At(c, "read") /\ busy = Nobody
                 /\ busy' = c
                 /\ AfterTransfer(c, "busy", "error")
                 /\ UNCHANGED <<ucmd, dev, din, dout, lock, u, room, got, polls,
                                bug, calls, writes>>

\* The transfer fails: the result field is what it was before.
TransferFails(c) == /\ \/ At(c, "xfer")
                       \/ At(c, "send") /\ proto # 3
                    /\ AfterTransfer(c, s[c].res, "error")
                    /\ UNCHANGED <<ucmd, dev, din, dout, lock, busy, u, room, got,
                                   polls, bug, calls, writes>>

RoundsLeft(c) == polls[c] < Retries

\* One round of the status loop, always with the command transfer: the query
\* fails, the EC is still at it, or it is done.
Poll(c) == /\ At(c, "poll") /\ RoundsLeft(c)
           /\ polls' = [polls EXCEPT ![c] = @ + 1]
           /\ ret' = [ret EXCEPT ![c] = "ok"]
           /\ s' = [s EXCEPT ![c].res = "ok"]
           /\ Go(c, IF busy = Nobody THEN "unlock" ELSE "poll")
           /\ UNCHANGED <<ucmd, dev, din, dout, lock, busy, u, room, got, bug,
                          calls, writes>>

\* The query fails (or there is no memory for it).
PollFails(c) == /\ At(c, "poll") /\ RoundsLeft(c)
                /\ ret' = [ret EXCEPT ![c] = "error"]
                /\ Go(c, "unlock")
                /\ UNCHANGED <<ucmd, dev, din, dout, lock, busy, u, s, room, got,
                               polls, bug, calls, writes>>

\* The EC answers the query with an error: that is the result of the command,
\* and no error of the call.
PollRefused(c) == /\ At(c, "poll") /\ RoundsLeft(c)
                  /\ ret' = [ret EXCEPT ![c] = "ok"]
                  /\ s' = [s EXCEPT ![c].res = "refused"]
                  /\ Go(c, "unlock")
                  /\ UNCHANGED <<ucmd, dev, din, dout, lock, busy, u, room, got,
                                 polls, bug, calls, writes>>

\* The rounds are used up: the last answer is the result, busy or not.
PollEnds(c) == /\ At(c, "poll") /\ ~ RoundsLeft(c)
               /\ Go(c, "unlock")
               /\ UNCHANGED <<ucmd, dev, din, dout, lock, busy, u, s, room, got,
                              polls, ret, bug, calls, writes>>

\* The EC completes the command (external).
EcFinishes == /\ busy # Nobody /\ ~ bug
              /\ busy' = Nobody
              /\ UNCHANGED <<ucmd, dev, din, dout, lock, pc, u, s, room, got,
                             polls, ret, bug, calls, writes>>

\* The mutex is released; only a result that is no error goes to the user.
Release(c) == /\ At(c, "unlock")
              /\ Unlock(c)
              /\ \/ /\ ret[c] = "ok"
                    /\ Go(c, "give")
                    /\ UNCHANGED <<u, s, room, got, polls, ret>>
                 \/ /\ ret[c] # "ok"
                    /\ Leave(c)
              /\ UNCHANGED <<ucmd, dev, din, dout, busy, bug, calls, writes>>

\* The answer is copied out: for an ioctl the header with it.
Give(c) == /\ At(c, "give")
           /\ ucmd' = IF u[c] = NoCmd THEN ucmd ELSE s[c]
           /\ Leave(c)
           /\ UNCHANGED <<dev, din, dout, lock, busy, bug, calls, writes>>

Query(c) == \/ QueryV3(c) \/ QueryV3Fails(c) \/ QueryPd(c) \/ QueryV2(c)
            \/ QueryFails(c) \/ Realloc(c) \/ ReallocFails(c)
Send(c) == \/ Prepare(c) \/ Transfer(c) \/ TransferV2(c) \/ ReadAnswer(c)
           \/ InProgress(c) \/ TransferFails(c) \/ Poll(c) \/ PollFails(c)
           \/ PollRefused(c) \/ PollEnds(c)
Step(c) == \/ XcmdRefetch(c) \/ XcmdRefused(c) \/ Lock(c) \/ Query(c)
           \/ CheckSizes(c) \/ Refuse(c) \/ Send(c) \/ Release(c) \/ Give(c)
           \/ Bug(c)

Next == \/ UserWrites \/ EcFinishes
        \/ \E c \in Callers : XcmdFetch(c) \/ ReadVersion(c) \/ Step(c)

-----------------------------------------------------------------------------
TypeOK ==
    /\ ucmd \in [out : Nat, in : Nat, pass : BOOLEAN, res : {"ok", "busy", "refused"}]
    /\ proto \in {0, 2, 3} /\ pkt \in BOOLEAN
    /\ ec \in Ecs
    /\ {maxReq, maxResp, maxPass, dinSize, doutSize} \subseteq Nat
    /\ lock \in Callers \cup {Nobody} /\ busy \in Callers \cup {Nobody}
    /\ polls \in [Callers -> 0..Retries]

\* The answer a caller reads from the shared buffer is the answer to its own
\* command, and what it reads fits the room it allocated from the header it
\* fetched first (the lock of cros_ec_cmd_xfer, the patched xcmd, the length
\* check of the transports).
AnswerIsOwn ==
    /\ \A c \in Callers : pc[c] = "read" /\ proto = 3 => din.of = c
    /\ \A c \in Callers : got[c] <= room[c] /\ s[c].out <= room[c]

\* A packet that passes the checks on the sizes fits the buffers there are,
\* also for the query of the PD chip, which runs between the change of the
\* sizes and the allocation of the buffers.
PacketsFit == ~ lost => \A c \in Callers :
    /\ pc[c] = "xfer" => Fits(s[c].in, s[c].out, din.size, dout.size)
    /\ pc[c] \in {"query", "query_pd"} /\ Fits(InfoSize, 0, dinSize, doutSize)
          => Fits(InfoSize, 0, din.size, dout.size)

\* A command is reported done while the EC is still at it only when all the
\* status queries are used up (send_command's loop).
GivenUpLate == \A c \in Callers :
    pc[c] = "give" /\ busy = c /\ polls[c] > 0 /\ s[c].res = "ok" => polls[c] = Retries

=============================================================================
