--------------------------- MODULE AuditCmdProofs ---------------------------
(***************************************************************************)
(* Proofs about the commands of the audit subsystem, for any clients and   *)
(* capabilities, any messages in their skbs, any features and users.       *)
(***************************************************************************)
EXTENDS AuditCmd, TLAPS

Conf == [enabled : 0 .. LOCKED, failure : 0 .. 2, rate_limit : Nat, backlog_limit : Nat,
         backlog_wait_time : 0 .. MaxWait]

Pcs == {"idle", "lock", "msg", "ack", "relock"}

Errs == {"ok", "ECONNREFUSED", "EOPNOTSUPP", "EPERM", "EINVAL", "ENOMEM", "LSM", "EACCES", "EEXIST"}

Answer == [kind : {"ack", "reply"}, seq : Nat, err : Errs]

Login == [loginuid : Uids \cup {UnsetUid}, sessionid : Nat \cup {UnsetUid}]

TypeInv ==
  /\ conf \in Conf /\ audit_ever_enabled \in BOOLEAN
  /\ af \in [features : SUBSET Features, lock : SUBSET Features] /\ rules \in Nat
  /\ skb \in [Clients -> Seq(Messages)] /\ pc \in [Clients -> Pcs] /\ err \in [Clients -> Errs]
  /\ seqno \in [Clients -> Nat] /\ inbox \in [Clients -> Seq(Answer)]
  /\ login \in [Users -> Login] /\ session_id \in Nat

\* The mutex is held by the client that handles a message, by it alone.
MutexInv ==
  /\ mutex \in Clients \cup {0}
  /\ \A c \in Clients : pc[c] \in {"msg", "ack"} <=> mutex = c
  /\ \A c \in Clients : pc[c] \in {"ack", "relock"} => skb[c] # <<>>

\* A reply thread belongs to a message that has been acknowledged, or that is
\* about to be while the mutex keeps the thread from running.
ThreadInv ==
  \A t \in threads :
    /\ t.portid \in Clients /\ t.seq \in Nat
    /\ \/ t.seq < seqno[t.portid]
       \/ t.seq = seqno[t.portid] /\ pc[t.portid] = "ack" /\ ~t.ready

\* A client has received answers to messages that are done with, and each
\* acknowledgement came after every answer to an earlier message.
Ordered(box, n) ==
  /\ \A j \in 1 .. Len(box) : box[j].seq < n
  /\ \A i, j \in 1 .. Len(box) : i < j /\ box[j].kind = "ack" => box[i].seq < box[j].seq

InboxInv == \A c \in Clients : Ordered(inbox[c], seqno[c])

\* What audit_enabled has been, fork knows.
EverInv == conf.enabled # OFF => audit_ever_enabled

IInv == TypeInv /\ MutexInv /\ ThreadInv /\ InboxInv /\ EverInv

-----------------------------------------------------------------------------
\* A state of AUDIT_SET: the settings are good, and audit_ever_enabled is not
\* behind audit_enabled.
Good(st) ==
  /\ st = [conf |-> st.conf, pid |-> st.pid, ever |-> st.ever, err |-> st.err]
  /\ st.conf \in Conf /\ st.ever \in BOOLEAN /\ st.err \in Errs
  /\ st.conf.enabled # OFF => st.ever

\* What one part of the message may do to it.
Follows(st, new) ==
  /\ Good(new)
  /\ st.conf.enabled = LOCKED => new.conf = st.conf
  /\ st.ever => new.ever

\* A failure changes nothing else.
LEMMA FailFollows ==
  ASSUME NEW st, Good(st), NEW e \in Errs
  PROVE  Follows(st, Fail(st, e))
  BY DEF Good, Follows, Fail

\* audit_do_config_change: nothing is changed once it is locked.
LEMMA ChangeFollows ==
  ASSUME NEW st, Good(st), NEW weird \in BOOLEAN, NEW field \in Fields \ {"enabled"}, NEW new \in Nat,
         field = "failure" => new \in 0 .. 2, field = "backlog_wait_time" => new \in 0 .. MaxWait
  PROVE  Follows(st, AuditDoConfigChange(st, field, new, weird))
  <1> DEFINE res == AuditDoConfigChange(st, field, new, weird)
  <1>1. CASE weird /\ st.conf.enabled # OFF
    BY <1>1, FailFollows DEF AuditDoConfigChange, Errs
  <1>2. CASE ~(weird /\ st.conf.enabled # OFF) /\ st.conf.enabled = LOCKED
    BY <1>2, FailFollows DEF AuditDoConfigChange, Errs
  <1>3. CASE ~(weird /\ st.conf.enabled # OFF) /\ st.conf.enabled # LOCKED
    <2> DEFINE nc == [st.conf EXCEPT ![field] = new]
    <2>1. res = [st EXCEPT !.conf = nc]
      BY <1>3 DEF AuditDoConfigChange
    <2>2. nc \in Conf /\ nc.enabled = st.conf.enabled
      BY DEF Good, Conf, Fields
    <2> HIDE DEF nc
    <2>3. Good([st EXCEPT !.conf = nc])
      BY <2>2 DEF Good
    <2> QED BY <1>3, <2>1, <2>2, <2>3 DEF Follows, Good
  <1> QED BY <1>1, <1>2, <1>3

\* audit_set_enabled, which also sets audit_ever_enabled.
LEMMA EnabledFollows ==
  ASSUME NEW st, Good(st), st.err = "ok", NEW weird \in BOOLEAN, NEW state \in Nat
  PROVE  Follows(st, AuditSetEnabled(st, state, weird))
  <1> DEFINE new == AuditDoConfigChange(st, "enabled", state, weird)
             res == AuditSetEnabled(st, state, weird)
  <1>1. CASE state > LOCKED
    BY <1>1, FailFollows DEF AuditSetEnabled, Errs
  <1>2. CASE ~(state > LOCKED) /\ (weird /\ st.conf.enabled # OFF)
    <2>1. new = Fail(st, "LSM") /\ new.err = "LSM"
      BY <1>2 DEF AuditDoConfigChange, Fail, Good
    <2>2. res = Fail(st, "LSM")
      BY <1>2, <2>1 DEF AuditSetEnabled
    <2> QED BY <2>2, FailFollows DEF Errs
  <1>3. CASE ~(state > LOCKED) /\ ~(weird /\ st.conf.enabled # OFF) /\ st.conf.enabled = LOCKED
    <2>1. new = Fail(st, "EPERM") /\ new.err = "EPERM"
      BY <1>3 DEF AuditDoConfigChange, Fail, Good
    <2>2. res = Fail(st, "EPERM")
      BY <1>3, <2>1 DEF AuditSetEnabled
    <2> QED BY <2>2, FailFollows DEF Errs
  <1>4. CASE ~(state > LOCKED) /\ ~(weird /\ st.conf.enabled # OFF) /\ st.conf.enabled # LOCKED
    <2> DEFINE nc == [st.conf EXCEPT !["enabled"] = state]
               ev == st.ever \/ state # OFF
    <2>1. new = [st EXCEPT !.conf = nc]
      BY <1>4 DEF AuditDoConfigChange
    <2>2. nc \in Conf /\ nc.enabled = state
      BY <1>4 DEF Good, Conf, LOCKED
    <2> HIDE DEF nc
    <2>3. new.err = "ok" /\ new.ever = st.ever
      BY <2>1 DEF Good
    <2>4. res = [new EXCEPT !.ever = ev]
      <3> HIDE DEF new
      <3>1. res = [new EXCEPT !.ever = @ \/ state # OFF]
        BY <1>4, <2>3 DEF AuditSetEnabled, new
      <3> QED BY <2>3, <3>1
    <2>5. ev \in BOOLEAN /\ (state # OFF => ev) /\ (st.ever => ev)
      BY DEF Good
    <2> HIDE DEF ev
    <2>6. res = [conf |-> nc, pid |-> st.pid, ever |-> ev, err |-> "ok"]
      BY <2>1, <2>4 DEF Good
    <2>7. Good(res)
      BY <2>2, <2>5, <2>6 DEF Good, Errs
    <2> QED BY <1>4, <2>5, <2>6, <2>7 DEF Follows
  <1> QED BY <1>1, <1>2, <1>3, <1>4

\* audit_set_failure, the limits, the pid and the wait time.
LEMMA OthersFollow ==
  ASSUME NEW st, Good(st), NEW m, StatusFields(m), NEW weird \in BOOLEAN, NEW alive \in BOOLEAN,
         NEW requester
  PROVE  /\ Follows(st, AuditSetFailure(st, m.failure, weird))
         /\ Follows(st, SetPid(st, m, requester, alive))
         /\ Follows(st, AuditSetLimit(st, "rate_limit", m.rate_limit, weird))
         /\ Follows(st, AuditSetLimit(st, "backlog_limit", m.backlog_limit, weird))
         /\ Follows(st, AuditSetBacklogWaitTime(st, m, weird))
  <1>1. Follows(st, AuditSetFailure(st, m.failure, weird))
    BY ChangeFollows, FailFollows DEF StatusFields, AuditSetFailure, Fields, Errs
  <1>2. Follows(st, SetPid(st, m, requester, alive))
    <2>1. Follows(st, [st EXCEPT !.pid = m.pid])
      BY DEF Follows, Good
    <2> QED BY <2>1, FailFollows DEF SetPid, Errs
  <1>3. /\ Follows(st, AuditSetLimit(st, "rate_limit", m.rate_limit, weird))
        /\ Follows(st, AuditSetLimit(st, "backlog_limit", m.backlog_limit, weird))
    BY ChangeFollows DEF StatusFields, AuditSetLimit, Fields
  <1>4. Follows(st, AuditSetBacklogWaitTime(st, m, weird))
    <2>1. MaxWait \in Nat
      BY AuditCmdAssumption
    <2> QED BY <2>1, ChangeFollows, FailFollows
         DEF StatusFields, AuditSetBacklogWaitTime, Fields, Errs
  <1> QED BY <1>1, <1>2, <1>3, <1>4

\* A part that is not asked for, or comes after a failure, does nothing.
LEMMA PartFollows ==
  ASSUME NEW st, Good(st), NEW m, NEW part, NEW new, st.err = "ok" => Follows(st, new)
  PROVE  Follows(st, Part(st, m, part, new)) /\ Good(Part(st, m, part, new))
  BY DEF Part, Follows

\* The parts one after the other.
LEMMA FollowsOn ==
  ASSUME NEW a, NEW b, NEW c, Follows(a, b), Follows(b, c)
  PROVE  Follows(a, c)
  BY DEF Follows

\* AUDIT_SET as a whole: what is locked is not changed by any of its parts,
\* whichever of them fails.
LEMMA AuditSetFollows ==
  ASSUME TypeInv, EverInv, NEW m \in Messages, m.type = "SET", NEW requester,
         NEW weird \in BOOLEAN, NEW alive \in BOOLEAN
  PROVE  LET st == AuditSet(m, requester, weird, alive)
         IN  /\ Good(st) /\ (conf.enabled = LOCKED => st.conf = conf)
             /\ audit_ever_enabled => st.ever
  <1> DEFINE s0 == [conf |-> conf, pid |-> audit_pid, ever |-> audit_ever_enabled, err |-> "ok"]
             s1 == Part(s0, m, "enabled", AuditSetEnabled(s0, m.enabled, weird))
             s2 == Part(s1, m, "failure", AuditSetFailure(s1, m.failure, weird))
             s3 == Part(s2, m, "pid", SetPid(s2, m, requester, alive))
             s4 == Part(s3, m, "rate_limit", AuditSetLimit(s3, "rate_limit", m.rate_limit, weird))
             s5 == Part(s4, m, "backlog_limit",
                        AuditSetLimit(s4, "backlog_limit", m.backlog_limit, weird))
             s6 == Part(s5, m, "backlog_wait_time", AuditSetBacklogWaitTime(s5, m, weird))
  <1>1. StatusFields(m)
    BY AuditCmdAssumption
  <1>2. Good(s0) /\ s0.conf = conf /\ s0.ever = audit_ever_enabled
    BY DEF Good, TypeInv, EverInv, Errs
  <1>3. AuditSet(m, requester, weird, alive) = s6
    BY DEF AuditSet
  <1> HIDE DEF s0
  <1>4. Follows(s0, s1) /\ Good(s1)
    BY <1>1, <1>2, EnabledFollows, PartFollows DEF StatusFields
  <1> HIDE DEF s1
  <1>5. Follows(s1, s2) /\ Good(s2)
    BY <1>1, <1>4, OthersFollow, PartFollows
  <1> HIDE DEF s2
  <1>6. Follows(s2, s3) /\ Good(s3)
    BY <1>1, <1>5, OthersFollow, PartFollows
  <1> HIDE DEF s3
  <1>7. Follows(s3, s4) /\ Good(s4)
    BY <1>1, <1>6, OthersFollow, PartFollows
  <1> HIDE DEF s4
  <1>8. Follows(s4, s5) /\ Good(s5)
    BY <1>1, <1>7, OthersFollow, PartFollows
  <1> HIDE DEF s5
  <1>9. Follows(s5, s6) /\ Good(s6)
    BY <1>1, <1>8, OthersFollow, PartFollows
  <1> HIDE DEF s6
  <1>10. Follows(s0, s6)
    BY <1>4, <1>5, <1>6, <1>7, <1>8, <1>9, FollowsOn
  <1> QED BY <1>2, <1>3, <1>9, <1>10 DEF Follows

-----------------------------------------------------------------------------
\* A message is handled and audit_receive_msg returns: what that does to the
\* mutex, the client and the reply threads, whatever the message.
Handled(c) ==
  /\ pc[c] = "msg" /\ skb[c] # <<>> /\ UNCHANGED <<mutex, users>>
  /\ \E e \in Errs : Return(c, e)
  /\ \/ UNCHANGED threads
     \/ \E n : threads' = threads \cup {[portid |-> c, seq |-> seqno[c], left |-> n, ready |-> FALSE]}

\* The messages that are handled under the mutex.
Message(c) ==
  \/ Refused(c) \/ Get(c) \/ Set(c) \/ SetFeature(c) \/ RuleChange(c) \/ Trees(c) \/ User(c)

\* What audit_netlink_ok answers is an error code.
LEMMA NetlinkOkErrs ==
  ASSUME NEW c, NEW type
  PROVE  AuditNetlinkOk(c, type) \in Errs
  BY DEF AuditNetlinkOk, Errs

\* The message at hand is one of those the client has sent.
LEMMA HeadIsMessage ==
  ASSUME TypeInv, NEW c \in Clients, skb[c] # <<>>
  PROVE  Head(skb[c]) \in Messages /\ Tail(skb[c]) \in Seq(Messages)
  <1>1. skb[c] \in Seq(Messages)
    BY DEF TypeInv
  <1> QED BY <1>1

\* AUDIT_SET as an action.
LEMMA SetFacts ==
  ASSUME TypeInv, EverInv, NEW c \in Clients, Set(c)
  PROVE  /\ conf' \in Conf /\ audit_ever_enabled' \in BOOLEAN
         /\ conf'.enabled # OFF => audit_ever_enabled'
         /\ conf.enabled = LOCKED => conf' = conf
         /\ audit_ever_enabled => audit_ever_enabled'
         /\ \E e \in Errs : Return(c, e)
  <1> DEFINE m == Head(skb[c])
  <1>1. m \in Messages /\ m.type = "SET"
    BY HeadIsMessage DEF Set, Handles
  <1>2. PICK weird \in BOOLEAN, alive \in BOOLEAN :
          LET st == AuditSet(m, c, weird, alive)
          IN  /\ conf' = st.conf /\ audit_pid' = st.pid /\ audit_ever_enabled' = st.ever
              /\ Return(c, st.err)
    BY DEF Set
  <1> DEFINE st == AuditSet(m, c, weird, alive)
  <1>3. /\ Good(st) /\ (conf.enabled = LOCKED => st.conf = conf)
        /\ audit_ever_enabled => st.ever
    BY <1>1, AuditSetFollows
  <1>4. conf' = st.conf /\ audit_ever_enabled' = st.ever /\ Return(c, st.err)
    BY <1>2
  <1> HIDE DEF st, m
  <1> QED BY <1>3, <1>4 DEF Good

\* Every message is handled that way.
LEMMA MessageHandled ==
  ASSUME TypeInv, EverInv, NEW c \in Clients, Message(c)
  PROVE  Handled(c)
  <1>1. CASE Refused(c)
    <2>1. \E e \in Errs : Return(c, e)
      BY <1>1, NetlinkOkErrs DEF Refused, Errs
    <2> QED BY <1>1, <2>1 DEF Refused, Handled
  <1>2. CASE Get(c)
    <2>1. \E e \in Errs : Return(c, e)
      BY <1>2 DEF Get, Errs
    <2>2. \/ UNCHANGED threads
          \/ \E n : threads' = threads \cup {[portid |-> c, seq |-> seqno[c], left |-> n, ready |-> FALSE]}
      BY <1>2, Zenon DEF Get, Replies
    <2> QED BY <1>2, <2>1, <2>2 DEF Get, Handles, Handled
  <1>3. CASE Set(c)
    BY <1>3, SetFacts DEF Set, Handles, Handled
  <1>4. CASE SetFeature(c)
    BY <1>4 DEF SetFeature, Handles, Handled, Errs
  <1>5. CASE RuleChange(c)
    BY <1>5 DEF RuleChange, Handles, Handled, Errs
  <1>6. CASE Trees(c)
    BY <1>6 DEF Trees, Handles, Handled, Errs
  <1>7. CASE User(c)
    BY <1>7 DEF User, Handles, Handled, Errs
  <1> QED BY <1>1, <1>2, <1>3, <1>4, <1>5, <1>6, <1>7 DEF Message

\* The types are kept.
LEMMA TypeStep ==
  ASSUME TypeInv, MutexInv, ThreadInv, EverInv, Next
  PROVE  TypeInv'
  <1> USE DEF TypeInv
  <1>1. ASSUME NEW c \in Clients, Message(c)
        PROVE  TypeInv'
    <2>1. /\ pc' \in [Clients -> Pcs] /\ err' \in [Clients -> Errs]
          /\ UNCHANGED <<skb, seqno, inbox, login, session_id>>
      <3>1. PICK e \in Errs : Return(c, e)
        BY <1>1, MessageHandled DEF Handled
      <3>2. UNCHANGED <<login, session_id>>
        BY <1>1, MessageHandled DEF Handled, users
      <3> QED BY <3>1, <3>2 DEF Return, Pcs
    <2>2. CASE Refused(c)
      BY <2>1, <2>2 DEF Refused, settings
    <2>3. CASE Get(c)
      BY <2>1, <2>3 DEF Get, settings
    <2>4. CASE Set(c)
      BY <2>1, <2>4, SetFacts DEF Set
    <2>5. CASE SetFeature(c)
      <3>1. AuditSetFeature(Head(skb[c])) \in [features : SUBSET Features, lock : SUBSET Features]
        BY DEF AuditSetFeature
      <3>2. af' \in [features : SUBSET Features, lock : SUBSET Features]
        BY <2>5, <3>1 DEF SetFeature
      <3> QED BY <2>1, <2>5, <3>2 DEF SetFeature
    <2>6. CASE RuleChange(c)
      <3>1. rules' \in Nat
        BY <2>6 DEF RuleChange
      <3> QED BY <2>1, <2>6, <3>1 DEF RuleChange
    <2>7. CASE Trees(c)
      BY <2>1, <2>7 DEF Trees
    <2>8. CASE User(c)
      BY <2>1, <2>8 DEF User, settings
    <2> QED BY <1>1, <2>2, <2>3, <2>4, <2>5, <2>6, <2>7, <2>8 DEF Message
  <1>2. ASSUME NEW c \in Clients, AuditReceive(c) \/ Received(c) \/ UserUnlocks(c) \/ UserRelocks(c)
        PROVE  TypeInv'
    BY <1>2 DEF AuditReceive, Received, UserUnlocks, UserRelocks, Return, Pcs, Errs, settings, users
  <1>3. ASSUME NEW c \in Clients, Ack(c)
        PROVE  TypeInv'
    <2>1. skb[c] # <<>>
      BY <1>3 DEF Ack, MutexInv
    <2>2. Tail(skb[c]) \in Seq(Messages)
      BY <2>1, HeadIsMessage
    <2>3. skb' \in [Clients -> Seq(Messages)] /\ seqno' \in [Clients -> Nat]
      BY <1>3, <2>2 DEF Ack
    <2>4. pc' \in [Clients -> Pcs] /\ err' \in [Clients -> Errs]
      BY <1>3 DEF Ack, Pcs, Errs
    <2>5. [kind |-> "ack", seq |-> seqno[c], err |-> err[c]] \in Answer
      BY DEF Answer
    <2>6. inbox' \in [Clients -> Seq(Answer)]
      BY <1>3, <2>5 DEF Ack
    <2> QED BY <1>3, <2>3, <2>4, <2>6 DEF Ack, settings, users
  <1>4. ASSUME NEW c \in Clients, NEW s \in Skbs, Send(c, s)
        PROVE  TypeInv'
    <2>1. s \in Seq(Messages)
      BY AuditCmdAssumption
    <2> QED BY <1>4, <2>1 DEF Send, Pcs, settings, users
  <1>5. ASSUME NEW t \in threads, ReplyThread(t)
        PROVE  TypeInv'
    BY <1>5 DEF ReplyThread, settings, users
  <1>6. ASSUME NEW t \in threads, ReplySends(t)
        PROVE  TypeInv'
    <2>1. [kind |-> "reply", seq |-> t.seq, err |-> "ok"] \in Answer /\ t.portid \in Clients
      BY DEF ThreadInv, Answer, Errs
    <2>2. inbox' \in [Clients -> Seq(Answer)]
      BY <1>6, <2>1 DEF ReplySends
    <2> QED BY <1>6, <2>2 DEF ReplySends, settings, users
  <1>7. CASE DaemonGone
    BY <1>7 DEF DaemonGone, users
  <1>8. ASSUME NEW u \in Users, NEW uid \in Uids \cup {UnsetUid}, NEW capable \in BOOLEAN,
               AuditSetLoginuid(u, uid, capable)
        PROVE  TypeInv'
    <2>1. [loginuid |-> uid, sessionid |-> IF uid # UnsetUid THEN session_id + 1 ELSE UnsetUid] \in Login
      BY DEF Login
    <2>2. login' \in [Users -> Login] /\ session_id' \in Nat
      <3>1. CASE AuditSetLoginuidPerm(u, uid, capable)
        <4>1. login' = [login EXCEPT ![u] = [loginuid |-> uid,
                          sessionid |-> IF uid # UnsetUid THEN session_id + 1 ELSE UnsetUid]]
          BY <1>8, <3>1 DEF AuditSetLoginuid
        <4>2. session_id' \in Nat
          BY <1>8, <3>1 DEF AuditSetLoginuid
        <4> QED BY <2>1, <4>1, <4>2
      <3>2. CASE ~AuditSetLoginuidPerm(u, uid, capable)
        BY <1>8, <3>2 DEF AuditSetLoginuid
      <3> QED BY <3>1, <3>2
    <2> QED BY <1>8, <2>2 DEF AuditSetLoginuid, settings
  <1> QED BY <1>1, <1>2, <1>3, <1>4, <1>5, <1>6, <1>7, <1>8 DEF Next, Handle, Message

\* The mutex is where it should be after every step.
LEMMA MutexStep ==
  ASSUME TypeInv, MutexInv, EverInv, Next
  PROVE  MutexInv'
  <1> USE AuditCmdAssumption DEF TypeInv, MutexInv
  <1>0. CASE UNCHANGED <<mutex, pc, skb>>
    BY <1>0
  <1>1. ASSUME NEW c \in Clients, Message(c)
        PROVE  MutexInv'
    <2>1. pc[c] = "msg" /\ skb[c] # <<>> /\ UNCHANGED <<mutex, skb>> /\ pc' = [pc EXCEPT ![c] = "ack"]
      BY <1>1, MessageHandled DEF Handled, Return
    <2> QED BY <2>1
  <1>2. ASSUME NEW c \in Clients, AuditReceive(c)
        PROVE  MutexInv'
    BY <1>2 DEF AuditReceive
  <1>3. ASSUME NEW c \in Clients, Received(c)
        PROVE  MutexInv'
    BY <1>3 DEF Received
  <1>4. ASSUME NEW c \in Clients, UserUnlocks(c)
        PROVE  MutexInv'
    BY <1>4 DEF UserUnlocks
  <1>5. ASSUME NEW c \in Clients, UserRelocks(c)
        PROVE  MutexInv'
    BY <1>5 DEF UserRelocks, Return
  <1>6. ASSUME NEW c \in Clients, Ack(c)
        PROVE  MutexInv'
    BY <1>6 DEF Ack
  <1>7. ASSUME NEW c \in Clients, NEW s \in Skbs, Send(c, s)
        PROVE  MutexInv'
    BY <1>7 DEF Send
  <1>8. ASSUME NEW t \in threads, ReplyThread(t) \/ ReplySends(t)
        PROVE  MutexInv'
    BY <1>0, <1>8 DEF ReplyThread, ReplySends
  <1>9. CASE DaemonGone
    BY <1>0, <1>9 DEF DaemonGone
  <1>10. ASSUME NEW u \in Users, NEW uid \in Uids \cup {UnsetUid}, NEW capable \in BOOLEAN,
                AuditSetLoginuid(u, uid, capable)
         PROVE  MutexInv'
    BY <1>0, <1>10 DEF AuditSetLoginuid
  <1> QED BY <1>1, <1>2, <1>3, <1>4, <1>5, <1>6, <1>7, <1>8, <1>9, <1>10 DEF Next, Handle, Message

\* A reply thread runs only when its message has been acknowledged: the
\* client keeps the mutex from the message to its acknowledgement.
LEMMA ThreadStep ==
  ASSUME TypeInv, MutexInv, ThreadInv, EverInv, Next
  PROVE  ThreadInv'
  <1> USE DEF TypeInv, ThreadInv
  <1>1. ASSUME NEW c \in Clients, Message(c)
        PROVE  ThreadInv'
    <2>1. /\ pc[c] = "msg" /\ UNCHANGED seqno /\ pc' = [pc EXCEPT ![c] = "ack"]
          /\ \/ UNCHANGED threads
             \/ \E n : threads' = threads \cup {[portid |-> c, seq |-> seqno[c], left |-> n, ready |-> FALSE]}
      BY <1>1, MessageHandled DEF Handled, Return
    <2>2. \A t \in threads : /\ t.portid \in Clients /\ t.seq \in Nat
                             /\ \/ t.seq < seqno'[t.portid]
                                \/ t.seq = seqno'[t.portid] /\ pc'[t.portid] = "ack" /\ ~t.ready
      BY <2>1
    <2>3. CASE UNCHANGED threads
      BY <2>2, <2>3
    <2>4. ASSUME NEW n, threads' = threads \cup {[portid |-> c, seq |-> seqno[c], left |-> n, ready |-> FALSE]}
          PROVE  ThreadInv'
      <3> DEFINE r == [portid |-> c, seq |-> seqno[c], left |-> n, ready |-> FALSE]
      <3>1. /\ r.portid \in Clients /\ r.seq \in Nat
            /\ r.seq = seqno'[r.portid] /\ pc'[r.portid] = "ack" /\ ~r.ready
        BY <2>1
      <3> HIDE DEF r
      <3>2. threads' = threads \cup {r}
        BY <2>4 DEF r
      <3> QED BY <2>2, <3>1, <3>2
    <2> QED BY <2>1, <2>3, <2>4
  <1>2. ASSUME NEW c \in Clients, AuditReceive(c) \/ Received(c) \/ UserUnlocks(c) \/ UserRelocks(c)
        PROVE  ThreadInv'
    BY <1>2 DEF AuditReceive, Received, UserUnlocks, UserRelocks, Return
  <1>3. ASSUME NEW c \in Clients, Ack(c)
        PROVE  ThreadInv'
    BY <1>3 DEF Ack
  <1>4. ASSUME NEW c \in Clients, NEW s \in Skbs, Send(c, s)
        PROVE  ThreadInv'
    BY <1>4 DEF Send
  <1>5. ASSUME NEW t \in threads, ReplyThread(t)
        PROVE  ThreadInv'
    <2> DEFINE r == [t EXCEPT !.ready = TRUE]
    <2>1. r.portid = t.portid /\ r.seq = t.seq
      OBVIOUS
    <2>2. pc[t.portid] # "ack"
      BY <1>5, AuditCmdAssumption DEF ReplyThread, MutexInv
    <2>3. r.portid \in Clients /\ r.seq \in Nat /\ r.seq < seqno[r.portid]
      BY <2>1, <2>2
    <2> HIDE DEF r
    <2>4. threads' = (threads \ {t}) \cup {r} /\ UNCHANGED <<seqno, pc>>
      BY <1>5 DEF ReplyThread, r
    <2> QED BY <2>3, <2>4
  <1>6. ASSUME NEW t \in threads, ReplySends(t)
        PROVE  ThreadInv'
    <2> DEFINE r == [t EXCEPT !.left = @ - 1]
    <2>1. r.portid = t.portid /\ r.seq = t.seq
      OBVIOUS
    <2>2. r.portid \in Clients /\ r.seq \in Nat /\ r.seq < seqno[r.portid]
      BY <1>6, <2>1 DEF ReplySends
    <2> HIDE DEF r
    <2>3. threads' \subseteq threads \cup {r} /\ UNCHANGED <<seqno, pc>>
      BY <1>6 DEF ReplySends, r
    <2> QED BY <2>2, <2>3
  <1>7. CASE DaemonGone
    BY <1>7 DEF DaemonGone
  <1>8. ASSUME NEW u \in Users, NEW uid \in Uids \cup {UnsetUid}, NEW capable \in BOOLEAN,
               AuditSetLoginuid(u, uid, capable)
        PROVE  ThreadInv'
    BY <1>8 DEF AuditSetLoginuid
  <1> QED BY <1>1, <1>2, <1>3, <1>4, <1>5, <1>6, <1>7, <1>8 DEF Next, Handle, Message

-----------------------------------------------------------------------------
\* An inbox stays in order when an acknowledgement of the message at hand is
\* added to it, or a reply to one that is done with.
LEMMA OrderedAppends ==
  ASSUME NEW box \in Seq(Answer), NEW n \in Nat, Ordered(box, n), NEW a \in Answer
  PROVE  /\ a.seq = n => Ordered(Append(box, a), n + 1)
         /\ a.kind = "reply" /\ a.seq < n => Ordered(Append(box, a), n)
         /\ Ordered(box, n + 1)
  <1> DEFINE new == Append(box, a)
  <1>1. /\ Len(box) \in Nat /\ Len(new) = Len(box) + 1 /\ new[Len(box) + 1] = a
        /\ \A i \in 1 .. Len(box) : new[i] = box[i] /\ box[i].seq \in Nat
    <2>1. \A i \in 1 .. Len(box) : box[i] \in Answer
      OBVIOUS
    <2>2. \A i \in 1 .. Len(box) : box[i].seq \in Nat
      BY <2>1 DEF Answer
    <2>3. /\ Len(box) \in Nat /\ Len(new) = Len(box) + 1 /\ new[Len(box) + 1] = a
          /\ \A i \in 1 .. Len(box) : new[i] = box[i]
      OBVIOUS
    <2> QED BY <2>2, <2>3
  <1>2. \A j \in 1 .. Len(new) : j \in 1 .. Len(box) \/ j = Len(box) + 1
    BY <1>1
  <1>3. a.seq \in Nat
    BY DEF Answer
  <1> HIDE DEF new
  <1>4. Ordered(box, n + 1)
    BY <1>1 DEF Ordered
  <1>5. ASSUME a.seq = n
        PROVE  Ordered(new, n + 1)
    <2>1. \A j \in 1 .. Len(new) : new[j].seq < n + 1
      BY <1>1, <1>2, <1>3, <1>5 DEF Ordered
    <2>2. ASSUME NEW i \in 1 .. Len(new), NEW j \in 1 .. Len(new), i < j, new[j].kind = "ack"
          PROVE  new[i].seq < new[j].seq
      BY <1>1, <1>2, <1>5, <2>2 DEF Ordered
    <2> QED BY <2>1, <2>2 DEF Ordered
  <1>6. ASSUME a.kind = "reply", a.seq < n
        PROVE  Ordered(new, n)
    <2>1. \A j \in 1 .. Len(new) : new[j].seq < n
      BY <1>1, <1>2, <1>3, <1>6 DEF Ordered
    <2>2. ASSUME NEW i \in 1 .. Len(new), NEW j \in 1 .. Len(new), i < j, new[j].kind = "ack"
          PROVE  new[i].seq < new[j].seq
      BY <1>1, <1>2, <1>6, <2>2 DEF Ordered
    <2> QED BY <2>1, <2>2 DEF Ordered
  <1> QED BY <1>4, <1>5, <1>6 DEF new

\* The inboxes stay in order.
LEMMA InboxStep ==
  ASSUME TypeInv, MutexInv, ThreadInv, InboxInv, EverInv, Next
  PROVE  InboxInv'
  <1> USE DEF TypeInv
  <1>0. CASE UNCHANGED <<inbox, seqno>>
    BY <1>0 DEF InboxInv
  <1>1. ASSUME NEW c \in Clients, Message(c)
        PROVE  InboxInv'
    BY <1>0, <1>1, MessageHandled DEF Handled, Return
  <1>2. ASSUME NEW c \in Clients, AuditReceive(c) \/ Received(c) \/ UserUnlocks(c) \/ UserRelocks(c)
        PROVE  InboxInv'
    BY <1>0, <1>2 DEF AuditReceive, Received, UserUnlocks, UserRelocks, Return
  <1>3. ASSUME NEW c \in Clients, Ack(c)
        PROVE  InboxInv'
    <2> DEFINE a == [kind |-> "ack", seq |-> seqno[c], err |-> err[c]]
    <2>1. a \in Answer /\ a.seq = seqno[c]
      BY DEF Answer
    <2>2. /\ seqno' = [seqno EXCEPT ![c] = seqno[c] + 1]
          /\ \/ inbox' = [inbox EXCEPT ![c] = Append(inbox[c], a)]
             \/ inbox' = inbox
      BY <1>3 DEF Ack
    <2> HIDE DEF a
    <2>3. inbox[c] \in Seq(Answer) /\ seqno[c] \in Nat /\ Ordered(inbox[c], seqno[c])
      BY DEF InboxInv
    <2>4. Ordered(Append(inbox[c], a), seqno[c] + 1) /\ Ordered(inbox[c], seqno[c] + 1)
      BY <2>1, <2>3, OrderedAppends
    <2>5. Ordered(inbox'[c], seqno'[c])
      BY <2>2, <2>4
    <2>6. ASSUME NEW d \in Clients, d # c
          PROVE  Ordered(inbox'[d], seqno'[d])
      BY <2>2, <2>6 DEF InboxInv
    <2> QED BY <2>5, <2>6 DEF InboxInv
  <1>4. ASSUME NEW c \in Clients, NEW s \in Skbs, Send(c, s)
        PROVE  InboxInv'
    BY <1>0, <1>4 DEF Send
  <1>5. ASSUME NEW t \in threads, ReplyThread(t)
        PROVE  InboxInv'
    BY <1>0, <1>5 DEF ReplyThread
  <1>6. ASSUME NEW t \in threads, ReplySends(t)
        PROVE  InboxInv'
    <2> DEFINE a == [kind |-> "reply", seq |-> t.seq, err |-> "ok"]
               c == t.portid
    <2>1. c \in Clients /\ t.seq \in Nat /\ t.seq < seqno[c]
      BY <1>6 DEF ThreadInv, ReplySends
    <2>2. a \in Answer /\ a.kind = "reply" /\ a.seq < seqno[c]
      BY <2>1 DEF Answer, Errs
    <2>3. UNCHANGED seqno /\ inbox' = [inbox EXCEPT ![c] = Append(inbox[c], a)]
      BY <1>6 DEF ReplySends
    <2> HIDE DEF a, c
    <2>4. Ordered(Append(inbox[c], a), seqno[c])
      BY <2>1, <2>2, OrderedAppends DEF InboxInv
    <2>5. ASSUME NEW d \in Clients
          PROVE  Ordered(inbox'[d], seqno'[d])
      BY <2>1, <2>3, <2>4 DEF InboxInv
    <2> QED BY <2>5 DEF InboxInv
  <1>7. CASE DaemonGone
    BY <1>0, <1>7 DEF DaemonGone
  <1>8. ASSUME NEW u \in Users, NEW uid \in Uids \cup {UnsetUid}, NEW capable \in BOOLEAN,
               AuditSetLoginuid(u, uid, capable)
        PROVE  InboxInv'
    BY <1>0, <1>8 DEF AuditSetLoginuid
  <1> QED BY <1>1, <1>2, <1>3, <1>4, <1>5, <1>6, <1>7, <1>8 DEF Next, Handle, Message

-----------------------------------------------------------------------------
(***************************************************************************)
(* The three parts of LocksHold, as what a step does.                      *)
(***************************************************************************)
\* No step changes the settings or the rules once they are locked, and none
\* leaves audit_ever_enabled behind.
LEMMA ConfStep ==
  ASSUME TypeInv, EverInv, Next
  PROVE  /\ conf.enabled = LOCKED => UNCHANGED <<conf, rules>>
         /\ conf'.enabled # OFF => audit_ever_enabled'
         /\ audit_ever_enabled => audit_ever_enabled'
  <1> DEFINE Goal == /\ conf.enabled = LOCKED => UNCHANGED <<conf, rules>>
                     /\ conf'.enabled # OFF => audit_ever_enabled'
                     /\ audit_ever_enabled => audit_ever_enabled'
  <1>0. CASE UNCHANGED <<conf, audit_ever_enabled>> /\ (conf.enabled = LOCKED => UNCHANGED rules)
    BY <1>0 DEF EverInv
  <1>1. ASSUME NEW c \in Clients, Set(c)
        PROVE  Goal
    <2>1. UNCHANGED rules
      BY <1>1 DEF Set
    <2> QED BY <1>1, <2>1, SetFacts
  <1>2. ASSUME NEW c \in Clients, RuleChange(c)
        PROVE  Goal
    BY <1>0, <1>2 DEF RuleChange
  <1>3. ASSUME NEW c \in Clients,
               Refused(c) \/ Get(c) \/ SetFeature(c) \/ Trees(c) \/ User(c) \/ AuditReceive(c)
               \/ Received(c) \/ UserUnlocks(c) \/ UserRelocks(c) \/ Ack(c)
        PROVE  Goal
    BY <1>0, <1>3 DEF Refused, Get, SetFeature, Trees, User, AuditReceive, Received, UserUnlocks,
       UserRelocks, Ack, settings
  <1>4. ASSUME NEW c \in Clients, NEW s \in Skbs, Send(c, s)
        PROVE  Goal
    BY <1>0, <1>4 DEF Send, settings
  <1>5. ASSUME NEW t \in threads, ReplyThread(t) \/ ReplySends(t)
        PROVE  Goal
    BY <1>0, <1>5 DEF ReplyThread, ReplySends, settings
  <1>6. CASE DaemonGone
    BY <1>0, <1>6 DEF DaemonGone
  <1>7. ASSUME NEW u \in Users, NEW uid \in Uids \cup {UnsetUid}, NEW capable \in BOOLEAN,
               AuditSetLoginuid(u, uid, capable)
        PROVE  Goal
    BY <1>0, <1>7 DEF AuditSetLoginuid, settings
  <1> QED BY <1>1, <1>2, <1>3, <1>4, <1>5, <1>6, <1>7 DEF Next, Handle

\* A locked feature keeps its value and its lock: audit_set_feature refuses
\* the whole message before it changes anything.
LEMMA FeatureStep ==
  ASSUME TypeInv, Next
  PROVE  af.lock \subseteq af'.lock /\ af.lock \cap af'.features = af.lock \cap af.features
  <1> DEFINE Goal == af.lock \subseteq af'.lock /\ af.lock \cap af'.features = af.lock \cap af.features
  <1>0. CASE UNCHANGED af
    BY <1>0
  <1>1. ASSUME NEW c \in Clients, SetFeature(c)
        PROVE  Goal
    <2> DEFINE m == Head(skb[c])
               mask == m.mask \cap Features
    <2>1. CASE FeatureRefused(m)
      BY <1>0, <1>1, <2>1 DEF SetFeature
    <2>2. CASE ~FeatureRefused(m)
      <3>1. /\ af'.features = (af.features \ mask) \cup (m.features \cap mask)
            /\ af'.lock = af.lock \cup (m.lock \cap mask)
        BY <1>1, <2>2 DEF SetFeature, AuditSetFeature
      <3>2. \A i \in Features : i \in m.mask /\ i \in af.lock => (i \in m.features <=> i \in af.features)
        BY <2>2 DEF FeatureRefused, Changes
      <3> HIDE DEF m
      <3> QED BY <3>1, <3>2
    <2> QED BY <2>1, <2>2
  <1>2. ASSUME NEW c \in Clients,
               Refused(c) \/ Get(c) \/ Set(c) \/ RuleChange(c) \/ Trees(c) \/ User(c) \/ AuditReceive(c)
               \/ Received(c) \/ UserUnlocks(c) \/ UserRelocks(c) \/ Ack(c)
        PROVE  Goal
    BY <1>0, <1>2 DEF Refused, Get, Set, RuleChange, Trees, User, AuditReceive, Received, UserUnlocks,
       UserRelocks, Ack, settings
  <1>3. ASSUME NEW c \in Clients, NEW s \in Skbs, Send(c, s)
        PROVE  Goal
    BY <1>0, <1>3 DEF Send, settings
  <1>4. ASSUME NEW t \in threads, ReplyThread(t) \/ ReplySends(t)
        PROVE  Goal
    BY <1>0, <1>4 DEF ReplyThread, ReplySends, settings
  <1>5. CASE DaemonGone
    BY <1>0, <1>5 DEF DaemonGone
  <1>6. ASSUME NEW u \in Users, NEW uid \in Uids \cup {UnsetUid}, NEW capable \in BOOLEAN,
               AuditSetLoginuid(u, uid, capable)
        PROVE  Goal
    BY <1>0, <1>6 DEF AuditSetLoginuid, settings
  <1> QED BY <1>1, <1>2, <1>3, <1>4, <1>5, <1>6 DEF Next, Handle

\* With the immutable feature on, a login uid that is set is not changed.
LEMMA LoginStep ==
  ASSUME TypeInv, EverInv, Next
  PROVE  \A u \in Users : "IMMUTABLE" \in af.features /\ login[u].loginuid # UnsetUid => login'[u] = login[u]
  <1> DEFINE Goal == \A u \in Users : "IMMUTABLE" \in af.features /\ login[u].loginuid # UnsetUid
                                        => login'[u] = login[u]
  <1>0. CASE UNCHANGED login
    BY <1>0
  <1>1. ASSUME NEW u \in Users, NEW uid \in Uids \cup {UnsetUid}, NEW capable \in BOOLEAN,
               AuditSetLoginuid(u, uid, capable)
        PROVE  Goal
    <2>1. CASE ~AuditSetLoginuidPerm(u, uid, capable)
      BY <1>0, <1>1, <2>1 DEF AuditSetLoginuid
    <2>2. CASE AuditSetLoginuidPerm(u, uid, capable)
      <3>1. login[u].loginuid = UnsetUid \/ "IMMUTABLE" \notin af.features
        BY <2>2 DEF AuditSetLoginuidPerm
      <3>2. \A v \in Users : v # u => login'[v] = login[v]
        BY <1>1, <2>2 DEF AuditSetLoginuid, TypeInv
      <3> QED BY <3>1, <3>2
    <2> QED BY <2>1, <2>2
  <1>2. ASSUME NEW c \in Clients, Message(c)
        PROVE  Goal
    BY <1>0, <1>2, MessageHandled DEF Handled, users
  <1>3. ASSUME NEW c \in Clients,
               AuditReceive(c) \/ Received(c) \/ UserUnlocks(c) \/ UserRelocks(c) \/ Ack(c)
        PROVE  Goal
    BY <1>0, <1>3 DEF AuditReceive, Received, UserUnlocks, UserRelocks, Ack, users
  <1>4. ASSUME NEW c \in Clients, NEW s \in Skbs, Send(c, s)
        PROVE  Goal
    BY <1>0, <1>4 DEF Send, users
  <1>5. ASSUME NEW t \in threads, ReplyThread(t) \/ ReplySends(t)
        PROVE  Goal
    BY <1>0, <1>5 DEF ReplyThread, ReplySends, users
  <1>6. CASE DaemonGone
    BY <1>0, <1>6 DEF DaemonGone, users
  <1> QED BY <1>1, <1>2, <1>3, <1>4, <1>5, <1>6 DEF Next, Handle, Message

-----------------------------------------------------------------------------
\* The inductive invariant holds at the start.
LEMMA InitIInv == Init => IInv
  <1> SUFFICES ASSUME Init PROVE IInv
    OBVIOUS
  <1>1. PICK audit_default \in 0 .. 1, limit \in BootLimits :
          /\ conf = [enabled |-> audit_default, failure |-> 1, rate_limit |-> 0,
                     backlog_limit |-> limit, backlog_wait_time |-> 6]
          /\ audit_ever_enabled = (audit_default # 0)
    BY DEF Init
  <1>2. conf \in Conf
    BY <1>1, AuditCmdAssumption DEF Conf, LOCKED
  <1>3. audit_ever_enabled \in BOOLEAN /\ EverInv
    BY <1>1 DEF EverInv, OFF
  <1>4. TypeInv
    BY <1>2, <1>3 DEF Init, TypeInv, Pcs, Errs, Login
  <1>5. MutexInv /\ ThreadInv
    BY AuditCmdAssumption DEF Init, MutexInv, ThreadInv
  <1>6. InboxInv
    BY DEF Init, InboxInv, Ordered
  <1> QED BY <1>3, <1>4, <1>5, <1>6 DEF IInv

\* Every step, and every stuttering step, keeps the inductive invariant.
LEMMA NextIInv == IInv /\ [Next]_vars => IInv'
  <1> SUFFICES ASSUME IInv, [Next]_vars PROVE IInv'
    OBVIOUS
  <1>1. CASE Next
    BY <1>1, TypeStep, MutexStep, ThreadStep, InboxStep, ConfStep DEF IInv, EverInv
  <1>2. CASE UNCHANGED vars
    BY <1>2 DEF IInv, TypeInv, MutexInv, ThreadInv, InboxInv, EverInv, vars, settings, users
  <1> QED BY <1>1, <1>2

\* Order of the answers: what was received before an acknowledgement belongs
\* to an earlier message.
LEMMA IInvImplies == IInv => AnswersInOrder
  <1> SUFFICES ASSUME IInv PROVE AnswersInOrder
    OBVIOUS
  <1>1. TypeOK
    <2>1. conf.enabled \in 0 .. LOCKED /\ conf.failure \in 0 .. 2 /\ conf.backlog_wait_time \in 0 .. MaxWait
      BY DEF IInv, TypeInv, Conf
    <2>2. \A c \in Clients : (pc[c] \in {"msg", "ack"}) = (mutex = c)
      BY DEF IInv, MutexInv
    <2> QED BY <2>1, <2>2 DEF IInv, TypeInv, MutexInv, TypeOK
  <1>2. ASSUME NEW c \in Clients, NEW i \in DOMAIN inbox[c], NEW j \in DOMAIN inbox[c],
               inbox[c][j].kind = "ack"
        PROVE  /\ i < j => inbox[c][i].kind = "reply" \/ inbox[c][i].seq < inbox[c][j].seq
               /\ inbox[c][i].kind = "reply" /\ inbox[c][i].seq = inbox[c][j].seq => j < i
    <2>1. inbox[c] \in Seq(Answer) /\ Ordered(inbox[c], seqno[c])
      BY DEF IInv, TypeInv, InboxInv
    <2>2. i \in 1 .. Len(inbox[c]) /\ j \in 1 .. Len(inbox[c]) /\ inbox[c][i].seq \in Nat
      <3>1. i \in 1 .. Len(inbox[c]) /\ j \in 1 .. Len(inbox[c]) /\ inbox[c][i] \in Answer
        BY <2>1
      <3> QED BY <3>1 DEF Answer
    <2>3. i < j => inbox[c][i].seq < inbox[c][j].seq
      BY <1>2, <2>1, <2>2 DEF Ordered
    <2>4. i = j => inbox[c][i].kind = "ack"
      BY <1>2
    <2> QED BY <2>2, <2>3, <2>4
  <1> QED BY <1>1, <1>2 DEF AnswersInOrder, RepliesAfterAck

(***************************************************************************)
(* The inductive invariant holds in every behaviour.                       *)
(***************************************************************************)
THEOREM Invariance == Spec => []IInv
  BY InitIInv, NextIInv, PTL DEF Spec

(***************************************************************************)
(* The mutex is held by the client whose message is handled and by it      *)
(* alone, and no client receives a reply before the acknowledgement of its *)
(* message, nor acknowledgements out of order, whatever else is under way. *)
(***************************************************************************)
THEOREM AnswersCorrect == Spec => []AnswersInOrder
  BY Invariance, IInvImplies, PTL

\* A step of LockedIsFinal, LockedFeatures and EverEnabled each.
LEMMA LockSteps ==
  ASSUME IInv, [Next]_vars
  PROVE  /\ [conf.enabled = LOCKED => UNCHANGED <<conf, rules>>]_vars
         /\ [/\ af.lock \subseteq af'.lock /\ af.lock \cap af'.features = af.lock \cap af.features
             /\ \A u \in Users : "IMMUTABLE" \in af.features /\ login[u].loginuid # UnsetUid
                                 => login'[u] = login[u]]_vars
         /\ [/\ conf'.enabled # OFF => audit_ever_enabled'
             /\ audit_ever_enabled => audit_ever_enabled']_vars
  <1>1. CASE UNCHANGED vars
    BY <1>1
  <1>2. CASE Next
    <2>1. TypeInv /\ EverInv
      BY DEF IInv
    <2> QED BY <1>2, <2>1, ConfStep, FeatureStep, LoginStep
  <1> QED BY <1>1, <1>2

(***************************************************************************)
(* What is locked stays as it is, and what has been switched on is         *)
(* remembered: no interleaving of commands, replies, logins and departing  *)
(* daemons changes a setting or rule after AUDIT_LOCKED, a locked feature, *)
(* or an immutable login uid.                                              *)
(***************************************************************************)
THEOREM LocksCorrect == Spec => LocksHold
  <1>1. Spec => LockedIsFinal
    <2>1. IInv /\ [Next]_vars => [conf.enabled = LOCKED => UNCHANGED <<conf, rules>>]_vars
      BY LockSteps
    <2> QED BY <2>1, Invariance, PTL DEF Spec, LockedIsFinal
  <1>2. Spec => LockedFeatures
    <2>1. IInv /\ [Next]_vars =>
            [/\ af.lock \subseteq af'.lock /\ af.lock \cap af'.features = af.lock \cap af.features
             /\ \A u \in Users : "IMMUTABLE" \in af.features /\ login[u].loginuid # UnsetUid
                                 => login'[u] = login[u]]_vars
      BY LockSteps
    <2> QED BY <2>1, Invariance, PTL DEF Spec, LockedFeatures
  <1>3. Spec => EverEnabled
    <2>1. IInv /\ [Next]_vars => [EverKnown]_vars
      BY LockSteps DEF EverKnown
    <2> QED BY <2>1, Invariance, PTL DEF Spec, EverEnabled
  <1> QED BY <1>1, <1>2, <1>3 DEF LocksHold
=============================================================================
