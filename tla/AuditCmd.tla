------------------------------ MODULE AuditCmd ------------------------------
(***************************************************************************)
(* The commands of the audit subsystem                                     *)
(* (cocci/testdir/truecases/audit.c: audit_receive and what it calls, with *)
(* audit_set_loginuid of auto_fix/patched_files/1-patched-auditsc.c).      *)
(*                                                                         *)
(* A client sends an skb, a sequence of messages, which are handled in its *)
(* own context under audit_cmd_mutex; a message of user space is logged    *)
(* with the mutex released.  Replies are sent by threads that take and     *)
(* release the mutex first, so that they come after the ACK.  What is      *)
(* logged is left to AuditLog, the rules to external code (auditfilter.c). *)
(***************************************************************************)
EXTENDS Integers, Sequences, FiniteSets

CONSTANTS
  Clients,         \* their pids
  Caps,            \* the capabilities of a client: a set, with "init_ns"
  Skbs,            \* what a client may send: sequences of messages
  Features,
  Uids, UnsetUid, Users,  \* login uids; tasks that log in
  BootLimits,      \* what audit_backlog_limit= may be, and the default
  MaxWait,         \* 10 * AUDIT_BACKLOG_WAIT_TIME
  FullSize, Header,       \* sizeof(struct audit_status), NLMSG_HDRLEN
  MaxSkbs, MaxSessions    \* bounds

Messages == UNION {{s[i] : i \in DOMAIN s} : s \in Skbs}

\* The fields of struct audit_status are unsigned.
StatusFields(m) ==
  /\ m.enabled \in Nat /\ m.failure \in Nat /\ m.rate_limit \in Nat /\ m.backlog_limit \in Nat
  /\ m.backlog_wait_time \in Nat /\ m.len \in Nat

ASSUME AuditCmdAssumption ==
  /\ 0 \notin Clients /\ UnsetUid \notin Uids /\ Header \in Nat /\ FullSize \in Nat
  /\ BootLimits \subseteq Nat /\ MaxWait \in Nat /\ MaxWait >= 6
  /\ \A s \in Skbs : s \in Seq(Messages)
  /\ \A m \in Messages : m.type = "SET" => StatusFields(m)

OFF == 0
LOCKED == 2
Fields == {"enabled", "failure", "rate_limit", "backlog_limit", "backlog_wait_time"}

VARIABLES
  conf,        \* audit_enabled, audit_failure and the limits
  audit_pid, audit_ever_enabled, kauditd_task,
  af,          \* [features, lock]
  rules, trees,           \* rules and tagged trees, as counts
  mutex,       \* the pid of the holder of audit_cmd_mutex, 0 if it is free
  skb,         \* per client: the messages still to be handled
  pc,          \* per client: "idle", "lock", "msg", "ack", "relock"
  err,         \* per client: what audit_receive_msg returned
  seqno,       \* per client: messages handled in all
  threads,     \* reply threads: [portid, seq, left, ready]
  inbox,       \* per client: what it has received
  login,       \* per user task: [loginuid, sessionid]
  session_id, sent

settings == <<conf, audit_pid, audit_ever_enabled, af, rules, trees>>
users == <<login, session_id>>
vars == <<settings, kauditd_task, mutex, skb, pc, err, seqno, threads, inbox, users, sent>>

\* audit_init after the boot parameters audit= and audit_backlog_limit=.
Init ==
  /\ \E audit_default \in 0 .. 1, limit \in BootLimits :
       /\ conf = [enabled |-> audit_default, failure |-> 1, rate_limit |-> 0,
                  backlog_limit |-> limit, backlog_wait_time |-> 6]
       /\ audit_ever_enabled = (audit_default # 0)
  /\ audit_pid = 0 /\ kauditd_task = FALSE
  /\ af = [features |-> {}, lock |-> {}] /\ rules = 0 /\ trees = 0
  /\ mutex = 0 /\ skb = [c \in Clients |-> <<>>] /\ pc = [c \in Clients |-> "idle"]
  /\ err = [c \in Clients |-> "ok"]
  /\ seqno = [c \in Clients |-> 0] /\ threads = {} /\ inbox = [c \in Clients |-> <<>>]
  /\ login = [u \in Users |-> [loginuid |-> UnsetUid, sessionid |-> UnsetUid]]
  /\ session_id = 0 /\ sent = 0

-----------------------------------------------------------------------------
(***************************************************************************)
(* AUDIT_SET: a state st goes through the settings in the order of the     *)
(* code; the first error ends it and leaves what was done before.          *)
(***************************************************************************)
Fail(st, e) == [st EXCEPT !.err = e]

\* Mutant: the lock is looked at for audit_enabled only.
AuditDoConfigChangeUnlocked(st, field, new, weird) ==
  IF weird /\ st.conf.enabled # OFF THEN Fail(st, "LSM")
  ELSE IF st.conf.enabled = LOCKED /\ field = "enabled" THEN Fail(st, "EPERM")
  ELSE [st EXCEPT !.conf[field] = new]

\* audit_do_config_change; weird is a failure of audit_log_task_context, met
\* only if the change is logged.
AuditDoConfigChange(st, field, new, weird) ==
  IF weird /\ st.conf.enabled # OFF THEN Fail(st, "LSM")
  ELSE IF st.conf.enabled = LOCKED THEN Fail(st, "EPERM")
  ELSE [st EXCEPT !.conf[field] = new]

AuditSetEnabled(st, state, weird) ==
  LET new == AuditDoConfigChange(st, "enabled", state, weird)
  IN  IF state > LOCKED THEN Fail(st, "EINVAL")
      ELSE IF new.err # "ok" THEN new
      ELSE [new EXCEPT !.ever = @ \/ state # OFF]

AuditSetFailure(st, state, weird) ==
  IF state \notin 0 .. 2 THEN Fail(st, "EINVAL") ELSE AuditDoConfigChange(st, "failure", state, weird)

\* audit_set_rate_limit and audit_set_backlog_limit.
AuditSetLimit(st, field, new, weird) == AuditDoConfigChange(st, field, new, weird)

\* The size of the message is compared with its header included.
AuditSetBacklogWaitTime(st, m, weird) ==
  IF FullSize > Header + m.len \/ m.backlog_wait_time > MaxWait THEN Fail(st, "EINVAL")
  ELSE AuditDoConfigChange(st, "backlog_wait_time", m.backlog_wait_time, weird)

\* AUDIT_STATUS_PID: alive says that audit_replace reaches the daemon there is.
SetPid(st, m, requester, alive) ==
  IF m.pid = 0 /\ requester # st.pid THEN Fail(st, "EACCES")
  ELSE IF st.pid # 0 /\ m.pid # 0 /\ alive THEN Fail(st, "EEXIST")
  ELSE [st EXCEPT !.pid = m.pid]

\* One part of the message, which is done if the mask has it and nothing failed
\* before.
Part(st, m, part, new) == IF part \in m.mask /\ st.err = "ok" THEN new ELSE st

AuditSet(m, requester, weird, alive) ==
  LET s0 == [conf |-> conf, pid |-> audit_pid, ever |-> audit_ever_enabled, err |-> "ok"]
      s1 == Part(s0, m, "enabled", AuditSetEnabled(s0, m.enabled, weird))
      s2 == Part(s1, m, "failure", AuditSetFailure(s1, m.failure, weird))
      s3 == Part(s2, m, "pid", SetPid(s2, m, requester, alive))
      s4 == Part(s3, m, "rate_limit", AuditSetLimit(s3, "rate_limit", m.rate_limit, weird))
      s5 == Part(s4, m, "backlog_limit", AuditSetLimit(s4, "backlog_limit", m.backlog_limit, weird))
  IN  Part(s5, m, "backlog_wait_time", AuditSetBacklogWaitTime(s5, m, weird))

\* audit_set_feature checks all features before it changes one.
Changes(m, i) == i \in m.mask /\ (i \in m.features) # (i \in af.features)

FeatureRefused(m) == \E i \in Features : Changes(m, i) /\ i \in af.lock

\* A bit of the mask that stands for no feature is ignored.
AuditSetFeature(m) ==
  LET mask == m.mask \cap Features
  IN  [features |-> (af.features \ mask) \cup (m.features \cap mask),
       lock |-> af.lock \cup (m.lock \cap mask)]

-----------------------------------------------------------------------------
(***************************************************************************)
(* A client and its messages.                                              *)
(***************************************************************************)
\* audit_netlink_ok.
Control == {"GET", "SET", "GET_FEATURE", "SET_FEATURE", "LIST_RULES", "ADD_RULE", "DEL_RULE",
            "SIGNAL_INFO", "TRIM", "MAKE_EQUIV", "TTY_GET", "TTY_SET"}

AuditNetlinkOk(c, type) ==
  CASE "init_ns" \notin Caps[c] -> "ECONNREFUSED"
    [] type \in {"LIST", "ADD", "DEL"} -> "EOPNOTSUPP"
    [] type \in Control -> IF "CONTROL" \in Caps[c] THEN "ok" ELSE "EPERM"
    [] type \in {"USER", "USER_AVC", "USER_TTY"} -> IF "WRITE" \in Caps[c] THEN "ok" ELSE "EPERM"
    [] OTHER -> "EINVAL"

\* netlink calls audit_receive in the context of the sender.
Send(c, s) ==
  /\ pc[c] = "idle" /\ sent < MaxSkbs /\ sent' = sent + 1
  /\ skb' = [skb EXCEPT ![c] = s] /\ pc' = [pc EXCEPT ![c] = "lock"]
  /\ UNCHANGED <<settings, kauditd_task, mutex, err, seqno, threads, inbox, users>>

AuditReceive(c) ==
  /\ pc[c] = "lock" /\ mutex = 0 /\ mutex' = c /\ pc' = [pc EXCEPT ![c] = "msg"]
  /\ UNCHANGED <<settings, kauditd_task, skb, err, seqno, threads, inbox, users, sent>>

\* The messages of the skb are done.
Received(c) ==
  /\ pc[c] = "msg" /\ skb[c] = <<>> /\ mutex' = 0 /\ pc' = [pc EXCEPT ![c] = "idle"]
  /\ UNCHANGED <<settings, kauditd_task, skb, err, seqno, threads, inbox, users, sent>>

\* audit_receive_msg returns.
Return(c, e) ==
  /\ pc' = [pc EXCEPT ![c] = "ack"] /\ err' = [err EXCEPT ![c] = e] /\ UNCHANGED <<skb, seqno, inbox>>

\* audit_receive_skb: an error, or a message that asks for it, is acknowledged;
\* then comes the next message.
Ack(c) ==
  /\ pc[c] = "ack" /\ pc' = [pc EXCEPT ![c] = "msg"] /\ err' = [err EXCEPT ![c] = "ok"]
  /\ inbox' = IF err[c] # "ok" \/ Head(skb[c]).ack
              THEN [inbox EXCEPT ![c] = Append(@, [kind |-> "ack", seq |-> seqno[c], err |-> err[c]])]
              ELSE inbox
  /\ skb' = [skb EXCEPT ![c] = Tail(@)] /\ seqno' = [seqno EXCEPT ![c] = @ + 1]
  /\ UNCHANGED <<settings, kauditd_task, mutex, threads, users, sent>>

\* The message at hand; kauditd is started with the first one that is allowed.
Handles(c, types) ==
  /\ pc[c] = "msg" /\ skb[c] # <<>> /\ Head(skb[c]).type \in types
  /\ AuditNetlinkOk(c, Head(skb[c]).type) = "ok"
  /\ kauditd_task' = TRUE /\ UNCHANGED <<mutex, users, sent>>

Refused(c) ==
  /\ pc[c] = "msg" /\ skb[c] # <<>>
  /\ LET e == AuditNetlinkOk(c, Head(skb[c]).type)
     IN  \/ e # "ok" /\ Return(c, e)
         \/ e = "ok" /\ ~kauditd_task /\ Return(c, "ENOMEM")        \* kthread_run failed
  /\ UNCHANGED <<settings, kauditd_task, mutex, threads, users, sent>>

\* audit_send_reply, or the list of rules: a thread, if there is memory.
Replies(c, n) ==
  \/ UNCHANGED threads
  \/ threads' = threads \cup {[portid |-> c, seq |-> seqno[c], left |-> n, ready |-> FALSE]}

\* AUDIT_GET, AUDIT_GET_FEATURE, AUDIT_TTY_GET, AUDIT_SIGNAL_INFO,
\* AUDIT_LIST_RULES (the rules and an end mark).
Get(c) ==
  /\ Handles(c, {"GET", "GET_FEATURE", "TTY_GET", "SIGNAL_INFO", "LIST_RULES"})
  /\ \/ Replies(c, IF Head(skb[c]).type = "LIST_RULES" THEN rules + 1 ELSE 1) /\ Return(c, "ok")
     \/ Head(skb[c]).type = "SIGNAL_INFO" /\ UNCHANGED threads /\ Return(c, "ENOMEM")
  /\ UNCHANGED settings

Set(c) ==
  /\ Handles(c, {"SET"})
  /\ \E weird, alive \in BOOLEAN :
       LET st == AuditSet(Head(skb[c]), c, weird, alive)
       IN  /\ conf' = st.conf /\ audit_pid' = st.pid /\ audit_ever_enabled' = st.ever
           /\ Return(c, st.err)
  /\ UNCHANGED <<af, rules, trees, threads>>

SetFeature(c) ==
  /\ Handles(c, {"SET_FEATURE"})
  /\ LET m == Head(skb[c])
     IN  IF FeatureRefused(m) THEN Return(c, "EPERM") /\ UNCHANGED af
         ELSE Return(c, "ok") /\ af' = AuditSetFeature(m)
  /\ UNCHANGED <<conf, audit_pid, audit_ever_enabled, rules, trees, threads>>

\* AUDIT_ADD_RULE and AUDIT_DEL_RULE; audit_rule_change may refuse the rule.
RuleChange(c) ==
  /\ Handles(c, {"ADD_RULE", "DEL_RULE"})
  /\ LET add == Head(skb[c]).type = "ADD_RULE"
     IN  \/ conf.enabled = LOCKED /\ Return(c, "EPERM") /\ UNCHANGED rules
         \/ conf.enabled # LOCKED /\ Return(c, "EINVAL") /\ UNCHANGED rules
         \/ /\ conf.enabled # LOCKED /\ (add \/ rules > 0) /\ Return(c, "ok")
            /\ rules' = IF add THEN rules + 1 ELSE rules - 1
  /\ UNCHANGED <<conf, audit_pid, audit_ever_enabled, af, trees, threads>>

\* AUDIT_TRIM, AUDIT_MAKE_EQUIV (after its strings are unpacked) and
\* AUDIT_TTY_SET do not look at the lock.
Trees(c) ==
  /\ Handles(c, {"TRIM", "MAKE_EQUIV", "TTY_SET"})
  /\ \/ trees' = (IF Head(skb[c]).type = "MAKE_EQUIV" THEN 1 ELSE IF Head(skb[c]).type = "TRIM" THEN 0 ELSE trees)
        /\ Return(c, "ok")
     \/ Head(skb[c]).type # "TRIM" /\ UNCHANGED trees /\ Return(c, "EINVAL")
  /\ UNCHANGED <<conf, audit_pid, audit_ever_enabled, af, rules, threads>>

\* A message of user space: dropped when auditing is off, filtered, the
\* terminal's pending input pushed, and else logged without the mutex.
User(c) ==
  /\ Handles(c, {"USER", "USER_AVC", "USER_TTY"})
  /\ \/ Return(c, "ok")
     \/ Head(skb[c]).type = "USER_TTY" /\ conf.enabled # OFF /\ Return(c, "ENOMEM")
  /\ UNCHANGED <<settings, threads>>

UserUnlocks(c) ==
  /\ pc[c] = "msg" /\ skb[c] # <<>> /\ Head(skb[c]).type \in {"USER", "USER_AVC", "USER_TTY"}
  /\ AuditNetlinkOk(c, Head(skb[c]).type) = "ok"
  /\ conf.enabled # OFF \/ Head(skb[c]).type = "USER_AVC"
  /\ kauditd_task' = TRUE /\ mutex' = 0 /\ pc' = [pc EXCEPT ![c] = "relock"]
  /\ UNCHANGED <<settings, skb, err, seqno, threads, inbox, users, sent>>

\* Mutant: the mutex is forgotten after the message is logged.
UserRelocksNot(c) ==
  /\ pc[c] = "relock" /\ mutex = -1 /\ UNCHANGED vars

UserRelocks(c) ==
  /\ pc[c] = "relock" /\ mutex = 0 /\ mutex' = c /\ Return(c, "ok")
  /\ UNCHANGED <<settings, kauditd_task, threads, users, sent>>

-----------------------------------------------------------------------------
\* Mutant: the thread does not wait for its parent.
ReplyThreadAtOnce(t) ==
  /\ ~t.ready /\ threads' = (threads \ {t}) \cup {[t EXCEPT !.ready = TRUE]}
  /\ UNCHANGED <<settings, kauditd_task, mutex, skb, pc, err, seqno, inbox, users, sent>>

\* audit_send_reply_thread and audit_send_list: the mutex is taken and given
\* back, then the parts are sent.
ReplyThread(t) ==
  /\ ~t.ready /\ mutex = 0 /\ threads' = (threads \ {t}) \cup {[t EXCEPT !.ready = TRUE]}
  /\ UNCHANGED <<settings, kauditd_task, mutex, skb, pc, err, seqno, inbox, users, sent>>

ReplySends(t) ==
  /\ t.ready
  /\ inbox' = [inbox EXCEPT ![t.portid] = Append(@, [kind |-> "reply", seq |-> t.seq, err |-> "ok"])]
  /\ threads' = (threads \ {t}) \cup (IF t.left > 1 THEN {[t EXCEPT !.left = @ - 1]} ELSE {})
  /\ UNCHANGED <<settings, kauditd_task, mutex, skb, pc, err, seqno, users, sent>>

\* The daemon is gone: kauditd_send_skb or audit_net_exit (AuditLog).
DaemonGone ==
  /\ audit_pid # 0 /\ audit_pid' = 0
  /\ UNCHANGED <<conf, audit_ever_enabled, af, rules, trees, kauditd_task, mutex, skb, pc, err, seqno,
                 threads, inbox, users, sent>>

\* audit_set_loginuid_perm.
AuditSetLoginuidPerm(u, loginuid, capable) ==
  \/ login[u].loginuid = UnsetUid
  \/ /\ "IMMUTABLE" \notin af.features /\ capable
     /\ "ONLY_UNSET" \in af.features => loginuid = UnsetUid

\* audit_set_loginuid: a login begins a session, an unset ends it.
AuditSetLoginuid(u, loginuid, capable) ==
  /\ loginuid # UnsetUid => session_id < MaxSessions
  /\ IF ~AuditSetLoginuidPerm(u, loginuid, capable) THEN UNCHANGED <<login, session_id>>
     ELSE /\ session_id' = IF loginuid # UnsetUid THEN session_id + 1 ELSE session_id
          /\ login' = [login EXCEPT ![u] =
                         [loginuid |-> loginuid,
                          sessionid |-> IF loginuid # UnsetUid THEN session_id + 1 ELSE UnsetUid]]
  /\ UNCHANGED <<settings, kauditd_task, mutex, skb, pc, err, seqno, threads, inbox, sent>>

Handle(c) ==
  \/ AuditReceive(c) \/ Ack(c) \/ Received(c) \/ Refused(c) \/ Get(c) \/ Set(c) \/ SetFeature(c)
  \/ RuleChange(c) \/ Trees(c) \/ User(c) \/ UserUnlocks(c) \/ UserRelocks(c)

Next ==
  \/ \E c \in Clients : Handle(c) \/ \E s \in Skbs : Send(c, s)
  \/ \E t \in threads : ReplyThread(t) \/ ReplySends(t)
  \/ DaemonGone
  \/ \E u \in Users, uid \in Uids \cup {UnsetUid}, capable \in BOOLEAN : AuditSetLoginuid(u, uid, capable)

\* The mutex is granted to each of those that ask for it again and again; a
\* thread runs.
Fairness ==
  /\ \A c \in Clients : SF_vars(Handle(c))
  /\ SF_vars(\E t \in threads : ReplyThread(t)) /\ WF_vars(\E t \in threads : ReplySends(t))

Spec == Init /\ [][Next]_vars /\ Fairness

-----------------------------------------------------------------------------
(***************************************************************************)
(* Properties.                                                             *)
(***************************************************************************)
\* Types; the mutex is held by the client that handles a message, by it alone.
TypeOK ==
  /\ conf.enabled \in 0 .. LOCKED /\ conf.failure \in 0 .. 2 /\ conf.backlog_wait_time \in 0 .. MaxWait
  /\ af \in [features : SUBSET Features, lock : SUBSET Features] /\ rules \in Nat
  /\ mutex \in Clients \cup {0} /\ \A c \in Clients : (pc[c] \in {"msg", "ack"}) = (mutex = c)

\* The lock is final: once audit_enabled is AUDIT_LOCKED no command of any
\* client changes a setting or a rule, also not one that had begun before and
\* gave the mutex away in between.
LockedIsFinal == [][conf.enabled = LOCKED => UNCHANGED <<conf, rules>>]_vars

\* A locked feature keeps its value and stays locked; with the immutable
\* feature on, a login uid that is set is never changed, by whatever task.
LockedFeatures ==
  [][/\ af.lock \subseteq af'.lock /\ af.lock \cap af'.features = af.lock \cap af.features
     /\ \A u \in Users : "IMMUTABLE" \in af.features /\ login[u].loginuid # UnsetUid => login'[u] = login[u]]_vars

\* audit_ever_enabled, by which fork decides to make contexts (AuditContext),
\* is never behind audit_enabled and never goes back.
EverKnown == (conf'.enabled # OFF => audit_ever_enabled') /\ (audit_ever_enabled => audit_ever_enabled')

EverEnabled == [][EverKnown]_vars

\* What is locked stays as it is, whichever clients' commands interleave, and
\* what has once been switched on is remembered.
LocksHold == LockedIsFinal /\ LockedFeatures /\ EverEnabled

\* "wait for parent to finish and send an ACK": no reply to a message comes
\* before its acknowledgement, and acknowledgements come in the order of the
\* messages, although a later message of the skb may give the mutex away.
RepliesAfterAck ==
  \A c \in Clients : \A i, j \in DOMAIN inbox[c] :
    /\ i < j /\ inbox[c][j].kind = "ack" => inbox[c][i].kind = "reply" \/ inbox[c][i].seq < inbox[c][j].seq
    /\ inbox[c][j].kind = "ack" /\ inbox[c][i].kind = "reply" /\ inbox[c][i].seq = inbox[c][j].seq => j < i

\* The mutex is held by whom it should be, and answers come in order.
AnswersInOrder == TypeOK /\ RepliesAfterAck

\* Every skb is worked through and every reply sent, although the mutex is
\* given away in the middle of an skb.
AllHandled ==
  /\ \A c \in Clients : pc[c] # "idle" ~> pc[c] = "idle"
  /\ <>[](threads = {})
=============================================================================
