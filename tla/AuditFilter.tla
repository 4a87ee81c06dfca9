---------------------------- MODULE AuditFilter -----------------------------
(***************************************************************************)
(* The filter rules of system call auditing                                *)
(* (auto_fix/patched_files/1-patched-auditsc.c): which rule decides        *)
(* whether a call is recorded.                                             *)
(*                                                                         *)
(* A rule has a priority, an action, a key, the set of system calls it is  *)
(* for, and fields that must all match.  A task, a context and a name are  *)
(* records; their field "val" maps the types of fields that are read from  *)
(* them to values, so that one clause stands for all types that are looked *)
(* up in the same way.  The comparators, the security module and           *)
(* audit_classify_syscall are outside this file: external.                 *)
(***************************************************************************)
EXTENDS AuditTrees, SequencesExt

CONSTANTS NoName, NoCtx, Unset   \* NULL, NULL, AUDIT_INO_UNSET

\* audit_comparator and its uid and gid forms, for = and !=.
Comparator(a, op, b) == IF op = "equal" THEN a = b ELSE a # b

\* The types of fields, by where their value comes from.
TaskTypes == {"PID", "EXE", "UID", "EUID", "SUID", "FSUID", "SGID", "FSGID", "PERS",
              "LOGINUID", "LOGINUID_SET", "SUBJ"}
GroupTypes == {"GID", "EGID"}
CtxTypes == {"PPID", "ARCH", "ARG"}
ExitTypes == {"EXIT", "SUCCESS"}
NameTypes == {"DEVMAJOR", "DEVMINOR", "INODE", "OBJ_UID", "OBJ_GID"}

\* audit_match_perm: the kinds of access the call is known to make.
AuditMatchPerm(ctx, mask) == ctx # NoCtx /\ mask \cap ctx.val["PERM"] # {}

\* audit_match_filetype looks at all names, never at the one being filtered.
AuditMatchFiletype(ctx, mode) ==
  ctx # NoCtx /\ \E i \in DOMAIN ctx.names :
                   ctx.names[i].ino # Unset /\ ctx.names[i].val["MODE"] = mode

\* audit_compare_uid and audit_compare_gid: the name being filtered, and then
\* all names.
AuditCompareId(id, name, f, ctx) ==
  \/ name # NoName /\ Comparator(id, f.op, name.val[f.with])
  \/ ctx # NoCtx /\ \E i \in DOMAIN ctx.names :
                      Comparator(id, f.op, ctx.names[i].val[f.with])

\* audit_field_compare: an id of the task with the names, or with another id
\* of the task.
AuditFieldCompare(tsk, f, ctx, name) ==
  IF f.with \in NameTypes THEN AuditCompareId(tsk.val[f.val], name, f, ctx)
  ELSE Comparator(tsk.val[f.val], f.op, tsk.val[f.with])

\* One field of audit_filter_rules; the name's value if there is a name, else
\* that of any name of the context.
FieldMatches(f, tsk, ctx, name, chain) ==
  LET names == IF name # NoName THEN {name}
               ELSE IF ctx # NoCtx THEN {ctx.names[i] : i \in DOMAIN ctx.names} ELSE {}
  IN  \/ f.type \in TaskTypes /\ Comparator(tsk.val[f.type], f.op, f.val)
      \/ /\ f.type \in GroupTypes
         /\ Comparator(TRUE, f.op, f.val = tsk.val[f.type] \/ f.val \in tsk.groups)
      \/ f.type \in CtxTypes /\ ctx # NoCtx /\ Comparator(ctx.val[f.type], f.op, f.val)
      \/ /\ f.type \in ExitTypes /\ ctx # NoCtx /\ ctx.return_valid # "invalid"
         /\ Comparator(IF f.type = "EXIT" THEN ctx.return_code ELSE ctx.return_valid, f.op, f.val)
      \/ /\ f.type \in NameTypes
         /\ \E n \in names : Comparator(IF f.type = "INODE" THEN n.ino ELSE n.val[f.type], f.op, f.val)
      \/ f.type = "WATCH" /\ name # NoName /\ name.ino = f.val
      \/ f.type = "DIR" /\ ctx # NoCtx /\ MatchTreeRefs(chain, f.val)
      \/ /\ f.type = "OBJ"
         /\ \/ \E n \in names : Comparator(n.val["OSID"], f.op, f.val)
            \/ ctx # NoCtx /\ ctx.type = "IPC" /\ Comparator(ctx.val["OSID"], f.op, f.val)
      \/ f.type = "FILTERKEY"
      \/ f.type = "PERM" /\ AuditMatchPerm(ctx, f.val)
      \/ f.type = "FILETYPE" /\ AuditMatchFiletype(ctx, f.val)
      \/ f.type = "FIELD_COMPARE" /\ AuditFieldCompare(tsk, f, ctx, name)

FieldsMatch(r, tsk, ctx, name, chain) ==
  \A f \in r.fields : FieldMatches(f, tsk, ctx, name, chain)

\* Mutant: the last list to match decides.
AuditFilterRulesLast(r, tsk, ctx, name, chain) == FieldsMatch(r, tsk, ctx, name, chain)

\* audit_filter_rules: with a context, a rule only counts if its priority is
\* higher than that of what was decided before.
AuditFilterRules(r, tsk, ctx, name, chain) ==
  FieldsMatch(r, tsk, ctx, name, chain) /\ (ctx # NoCtx => r.prio > ctx.prio)

StateOf(r) == IF r.action = "never" THEN "DISABLED" ELSE "RECORD"

\* What a matching rule leaves in the context.
Decided(ctx, r) ==
  [ctx EXCEPT !.prio = r.prio, !.current_state = StateOf(r),
              !.filterkey = IF r.key # "none" THEN r.key ELSE @]

\* The first of the places in a list where a rule or a name matches, 0 if there
\* is none.
FirstMatch(hits) == IF hits = {} THEN 0 ELSE CHOOSE i \in hits : \A j \in hits : i <= j

\* audit_filter_task, at fork: the state and the key.
AuditFilterTask(list, tsk) ==
  LET i == FirstMatch({k \in DOMAIN list : AuditFilterRules(list[k], tsk, NoCtx, NoName, NoChain)})
  IN  IF i = 0 THEN [state |-> "BUILD", key |-> "none"]
      ELSE [state |-> StateOf(list[i]),
            key |-> IF StateOf(list[i]) = "RECORD" THEN list[i].key ELSE "none"]

\* audit_filter_syscall: the state it returns and the context it leaves.  The
\* audit daemon is not audited.
AuditFilterSyscall(list, tsk, ctx, chain) ==
  LET i == FirstMatch({k \in DOMAIN list : /\ ctx.major \in list[k].mask
                                         /\ AuditFilterRules(list[k], tsk, ctx, NoName, chain)})
  IN  IF tsk.auditd THEN [state |-> "DISABLED", ctx |-> ctx]
      ELSE IF i = 0 THEN [state |-> "BUILD", ctx |-> ctx]
      ELSE [state |-> StateOf(list[i]), ctx |-> Decided(ctx, list[i])]

\* audit_filter_inode_name: the rules of the name's hash bucket.
AuditFilterInodeName(buckets, tsk, ctx, n, chain) ==
  LET list == buckets[n.ino]
      i == FirstMatch({k \in DOMAIN list : /\ ctx.major \in list[k].mask
                                         /\ AuditFilterRules(list[k], tsk, ctx, n, chain)})
  IN  IF i = 0 THEN ctx ELSE Decided(ctx, list[i])

\* audit_filter_inodes stops at the first name one of whose rules matches.
AuditFilterInodes(buckets, tsk, ctx, chain) ==
  LET hits == {i \in DOMAIN ctx.names :
                 AuditFilterInodeName(buckets, tsk, ctx, ctx.names[i], chain) # ctx}
  IN  IF tsk.auditd \/ hits = {} THEN ctx
      ELSE AuditFilterInodeName(buckets, tsk, ctx, ctx.names[FirstMatch(hits)], chain)

\* The decision at the end of a call: the exit list, then the inode rules.
ExitFilters(exits, buckets, tsk, ctx, chain) ==
  AuditFilterInodes(buckets, tsk, AuditFilterSyscall(exits, tsk, ctx, chain).ctx, chain)
=============================================================================
