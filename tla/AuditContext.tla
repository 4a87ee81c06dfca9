---------------------------- MODULE AuditContext ----------------------------
(***************************************************************************)
(* The audit context of a task                                             *)
(* (auto_fix/patched_files/1-patched-auditsc.c): made at fork, filled by   *)
(* the hooks of a system call, logged at its end if a rule or a record     *)
(* written meanwhile asks for it, and emptied for the next call.           *)
(*                                                                         *)
(* One task, since a context is only touched by its own task.  Others may  *)
(* switch auditing on and off, register the task as the audit daemon and   *)
(* change the rules between any two steps.  File names are reference       *)
(* counted objects; a dentry is the inode it has, the name it was reached  *)
(* by and the chunks on the way to the root.  Records are the kinds of     *)
(* lines audit_log_exit writes; each of them may be lost (AuditLog).       *)
(***************************************************************************)
EXTENDS AuditFilter

CONSTANTS
  Filenames,          \* struct filename objects a call may use
  Dentries,           \* [ino, name, path]: what a call may look up
  RuleSets,           \* [task, entry, exit : lists; inode : buckets]
  Majors,             \* system call numbers
  Tasks,              \* what the filters may find out about the task
  Specials,           \* context->type values, with "IPC"
  Pids,               \* targets of signals
  PreNames,           \* AUDIT_NAMES, preallocated entries
  AuxPids,            \* AUDIT_AUX_PIDS
  TopPrio,            \* ~0ULL
  MaxOps, MaxBlocks   \* bounds: hooks in one call, blocks of the chain

VARIABLES
  ctx,        \* tsk->audit_context
  chain, refs,         \* its tree references; references taken to each chunk
  walk,       \* handle_path in progress
  refcnt,     \* of each file name
  aname,      \* filename->aname: an index into names, 0 for NULL
  phase,      \* "none" (no task), "user", "kernel"
  tsk, rules, audit_enabled, audit_ever_enabled,
  mine,       \* file names the call itself holds
  did,        \* what the hooks of this call have recorded
  event,      \* the records written at the end of the last call
  ops

\* The rules of all lists, the inodes there are, and what a context holds.
AllRules ==
  UNION {Range(s.task) \cup Range(s.entry) \cup Range(s.exit)
           \cup UNION {Range(s.inode[i]) : i \in DOMAIN s.inode} : s \in RuleSets}

Inos == {d.ino : d \in Dentries} \cup {Unset}
Keys == {"none"} \cup {r.key : r \in AllRules}
NoVal == [t \in {} |-> 0]
Vals == {NoVal} \cup {t.call : t \in Tasks}
EntryVal == [t \in {"OBJ_UID", "OBJ_GID", "DEVMAJOR", "DEVMINOR", "OSID", "MODE"} |-> 0]

Name ==
  [name : Filenames \cup {NoName}, ino : Inos, hidden : BOOLEAN, val : {EntryVal},
   type : {"UNKNOWN", "NORMAL", "PARENT", "CREATE", "DELETE"}]

Context ==
  [state : {"BUILD", "RECORD"}, current_state : {"DISABLED", "BUILD", "RECORD"},
   in_syscall : BOOLEAN, dummy : BOOLEAN, prio : Nat, stamped : BOOLEAN,
   filterkey : Keys, major : Majors \cup {0},
   return_valid : {"invalid", "success", "failure"}, return_code : {0, 1},
   val : Vals, names : Seq(Name), aux : Nat,
   aux_pids : Seq(Seq(Pids)), target : Pids \cup {"none"}, type : Specials \cup {"none"},
   fds : BOOLEAN, sockaddr : BOOLEAN, pwd : BOOLEAN]

\* A rule is put in front of its list with a priority above, or behind it with
\* one below all there are (auditfilter.c), so lists are sorted, a priority
\* names a rule, and none is near 0 or ~0ULL.
Sorted(list) == \A i, j \in DOMAIN list : i < j => list[i].prio > list[j].prio

ASSUME AuditContextAssumption ==
  /\ NoName \notin Filenames /\ NoCtx \notin Context
  /\ "none" \notin Pids /\ "none" \notin Specials
  /\ AuxPids \in Nat \ {0} /\ TopPrio \in Nat \ {0}
  /\ \A d \in Dentries : d.path \in Seq(Chunks \cup {NoChunk})
  /\ \A t \in Tasks : {"auditd", "call"} \subseteq DOMAIN t /\ t.auditd \in BOOLEAN
  /\ \A s \in RuleSets :
       /\ {s.task, s.entry, s.exit} \subseteq Seq(AllRules) /\ Sorted(s.exit)
       /\ Inos \subseteq DOMAIN s.inode
       /\ \A i \in Inos : s.inode[i] \in Seq(AllRules) /\ Sorted(s.inode[i])
  /\ \A r \in AllRules : r.prio \in Nat /\ 1 < r.prio /\ r.prio < TopPrio
  /\ \A r, s \in AllRules : r.prio = s.prio => r = s

settings == <<tsk, rules, audit_enabled, audit_ever_enabled>>
vars == <<ctx, chain, refs, walk, refcnt, aname, phase, settings, mine, did, event, ops>>

NoWalk == [todo |-> <<>>, path |-> <<>>, at |-> 0, left |-> 0, busy |-> FALSE]

\* audit_alloc_context.  fds is context->fds[0] >= 0: kzalloc leaves fds[0] 0.
NewContext(state, key) ==
  [state |-> state, current_state |-> "DISABLED", in_syscall |-> FALSE, dummy |-> FALSE,
   prio |-> IF state = "RECORD" THEN TopPrio ELSE 0, stamped |-> FALSE, filterkey |-> key,
   major |-> 0, return_valid |-> "invalid", return_code |-> 0, val |-> NoVal,
   names |-> <<>>, aux |-> 0, aux_pids |-> <<>>, target |-> "none", type |-> "none",
   fds |-> TRUE, sockaddr |-> FALSE, pwd |-> FALSE]

Init ==
  /\ ctx = NoCtx /\ chain = NoChain /\ refs = [k \in Chunks |-> 0] /\ walk = NoWalk
  /\ refcnt = [f \in Filenames |-> 0] /\ aname = [f \in Filenames |-> 0]
  /\ phase = "none" /\ tsk \in Tasks /\ rules \in RuleSets
  /\ audit_enabled \in BOOLEAN /\ audit_ever_enabled = audit_enabled
  /\ mine = {} /\ did = {} /\ event = {} /\ ops = 0

-----------------------------------------------------------------------------
(***************************************************************************)
(* Tree references.                                                        *)
(***************************************************************************)
\* Mutant: the call gets a priority and is still not recorded.
AuditableLater(c) == IF c.prio = 0 THEN [c EXCEPT !.prio = 1] ELSE c

\* audit_set_auditable, and auditsc_get_stamp's version of it.
Auditable(c) == IF c.prio = 0 THEN [c EXCEPT !.prio = 1, !.current_state = "RECORD"] ELSE c

\* handle_one: a chunk of the inode itself; without memory for another block
\* the call becomes auditable instead.
HandleOne(d, c) ==
  IF d.path = <<>> \/ Head(d.path) = NoChunk THEN ctx' = c /\ UNCHANGED <<chain, refs>>
  ELSE LET k == Head(d.path)
       IN  \/ /\ HasRoom(chain) /\ chain' = PutTreeRef(chain, k)
              /\ refs' = [refs EXCEPT ![k] = @ + 1] /\ ctx' = c
           \/ /\ ~HasRoom(chain) /\ Len(chain.c) < MaxBlocks
              /\ chain' = PutTreeRef(GrowTreeRefs(chain), k)
              /\ refs' = [refs EXCEPT ![k] = @ + 1] /\ ctx' = c
           \/ /\ ~HasRoom(chain) /\ ctx' = Auditable(c)
              /\ chain' = UnrollTreeRefs(chain, chain.at, chain.left) /\ UNCHANGED refs

\* handle_path starts at the dentry of an inode that has just been recorded.
StartWalk(d) ==
  walk' = [todo |-> d.path, path |-> d.path, at |-> chain.at, left |-> chain.left,
           busy |-> d.path # <<>>]

Unwind(t) ==
  /\ chain' = UnrollTreeRefs(t, walk.at, walk.left)
  /\ refs' = [k \in Chunks |-> refs[k] - Dropped(t, walk.at, walk.left, k)]

\* One step up the path.
WalkUp ==
  /\ walk.busy /\ walk.todo # <<>>
  /\ LET k == Head(walk.todo)
     IN  \/ k = NoChunk /\ UNCHANGED <<chain, refs>>
         \/ /\ k # NoChunk /\ HasRoom(chain)
            /\ chain' = PutTreeRef(chain, k) /\ refs' = [refs EXCEPT ![k] = @ + 1]
  /\ walk' = [walk EXCEPT !.todo = Tail(@)]
  /\ UNCHANGED <<ctx, refcnt, aname, phase, settings, mine, did, event, ops>>

\* The root is reached, and nothing was renamed meanwhile; or something was.
WalkEnds ==
  /\ walk.busy /\ walk.todo = <<>>
  /\ \/ walk' = NoWalk /\ UNCHANGED <<chain, refs>>
     \/ walk' = [walk EXCEPT !.todo = walk.path] /\ Unwind(chain)
  /\ UNCHANGED <<ctx, refcnt, aname, phase, settings, mine, did, event, ops>>

\* No room: the chunk is dropped, the chain grows and the walk starts again,
\* or it does not and the call becomes auditable.
WalkFull ==
  /\ walk.busy /\ walk.todo # <<>> /\ Head(walk.todo) # NoChunk /\ ~HasRoom(chain)
  /\ \/ /\ Len(chain.c) < MaxBlocks
        /\ walk' = [walk EXCEPT !.todo = walk.path] /\ Unwind(GrowTreeRefs(chain)) /\ UNCHANGED ctx
     \/ walk' = NoWalk /\ Unwind(chain) /\ ctx' = Auditable(ctx)
  /\ UNCHANGED <<refcnt, aname, phase, settings, mine, did, event, ops>>

-----------------------------------------------------------------------------
(***************************************************************************)
(* The life of the context.                                                *)
(***************************************************************************)
\* audit_alloc at fork.
AuditAlloc ==
  /\ phase = "none" /\ phase' = "user"
  /\ LET r == AuditFilterTask(rules.task, tsk)
     IN  \/ ctx' = IF audit_ever_enabled /\ r.state # "DISABLED" THEN NewContext(r.state, r.key)
                   ELSE NoCtx
         \/ audit_ever_enabled /\ r.state # "DISABLED" /\ UNCHANGED ctx       \* no memory
  /\ chain' = NoChain /\ event' = {} /\ did' = {}
  /\ UNCHANGED <<refs, walk, refcnt, aname, settings, mine, ops>>

\* audit_n_rules counts the rules of all lists but those for tasks.
NRules == Len(rules.entry) + Len(rules.exit)
          + Cardinality({i \in DOMAIN rules.inode : rules.inode[i] # <<>>})

\* __audit_syscall_entry.
AuditSyscallEntry(major) ==
  /\ phase = "user" /\ phase' = "kernel"
  /\ event' = {} /\ did' = {} /\ ops' = 0
  /\ IF ctx = NoCtx \/ ~audit_enabled THEN UNCHANGED ctx
     ELSE LET dummy == NRules = 0
              c == [ctx EXCEPT !.major = major, !.val = tsk.call, !.dummy = dummy]
              build == ~dummy /\ ctx.state = "BUILD"
              r == IF build THEN AuditFilterSyscall(rules.entry, tsk, [c EXCEPT !.prio = 0], chain)
                   ELSE [state |-> ctx.state, ctx |-> c]
          IN  ctx' = IF r.state = "DISABLED" THEN r.ctx
                     ELSE [r.ctx EXCEPT !.stamped = FALSE, !.in_syscall = TRUE, !.current_state = r.state]
  /\ UNCHANGED <<chain, refs, walk, refcnt, aname, settings, mine>>

\* audit_take_context: the last filters.
Taken(valid) ==
  LET c == [ctx EXCEPT !.return_valid = valid, !.return_code = IF valid = "success" THEN 0 ELSE 1]
  IN  IF c.in_syscall /\ ~c.dummy THEN ExitFilters(rules.exit, rules.inode, tsk, c, chain) ELSE c

\* show_special: one record of the kind the context holds.
ShowSpecial(c) == IF c.type # "none" THEN {<<"SPECIAL", c.type>>} ELSE {}

\* audit_log_pid_context, for the target in the context and those in blocks.
PidRecords(c) ==
  (IF c.target # "none" THEN {<<"OBJ_PID", c.target>>} ELSE {})
  \cup UNION {{<<"OBJ_PID", b[i]>> : i \in DOMAIN b \cap (1 .. AuxPids)} : b \in Range(c.aux_pids)}

\* audit_log_exit: the records the context calls for.
Wanted(c) ==
  {<<"SYSCALL", c.filterkey>>} \cup {<<"PROCTITLE", "">>, <<"EOE", "">>}
  \cup (IF c.aux > 0 THEN {<<"BPRM_FCAPS", c.aux>>} ELSE {})
  \cup ShowSpecial(c) \cup PidRecords(c)
  \cup (IF c.fds THEN {<<"FD_PAIR", "">>} ELSE {})
  \cup (IF c.sockaddr THEN {<<"SOCKADDR", "">>} ELSE {})
  \cup (IF c.pwd THEN {<<"CWD", "">>} ELSE {})
  \cup {<<"PATH", i>> : i \in {j \in DOMAIN c.names : ~c.names[j].hidden}}

\* Without the first record there is none; others may be missing.
AuditLogExit(c) ==
  \/ event' = {}
  \/ event' = Wanted(c)
  \/ \E r \in Wanted(c) : r[1] # "SYSCALL" /\ event' = Wanted(c) \ {r}

LogIfRecorded(c) ==
  IF c.in_syscall /\ c.current_state = "RECORD" THEN AuditLogExit(c) ELSE event' = {}

NamesOf(c, f) == Cardinality({i \in DOMAIN c.names : c.names[i].name = f})

\* audit_free_names and unroll_tree_refs(context, NULL, 0).
FreeNamesAndTrees(c) ==
  /\ refcnt' = [f \in Filenames |-> refcnt[f] - NamesOf(c, f)]
  /\ aname' = [f \in Filenames |-> 0]
  /\ chain' = UnrollTreeRefs(chain, 0, 0)
  /\ refs' = [k \in Chunks |-> refs[k] - Dropped(chain, 0, 0, k)]

\* The call gives back its own file names before it ends.
PutName(f) ==
  /\ phase = "kernel" /\ ~walk.busy /\ f \in mine
  /\ mine' = mine \ {f} /\ refcnt' = [refcnt EXCEPT ![f] = @ - 1]
  /\ UNCHANGED <<ctx, chain, refs, walk, aname, phase, settings, did, event, ops>>

\* Mutant of the next: the kind of special data survives the call.
ForNextCallKeepsType(c) ==
  [c EXCEPT !.in_syscall = FALSE, !.prio = IF c.state = "RECORD" THEN TopPrio ELSE 0,
            !.names = <<>>, !.pwd = FALSE, !.aux = 0, !.aux_pids = <<>>, !.target = "none",
            !.sockaddr = FALSE, !.fds = FALSE]

\* The context is kept for the next call, emptied.
ForNextCall(c) ==
  [c EXCEPT !.in_syscall = FALSE, !.prio = IF c.state = "RECORD" THEN TopPrio ELSE 0,
            !.names = <<>>, !.pwd = FALSE, !.aux = 0, !.aux_pids = <<>>, !.target = "none",
            !.sockaddr = FALSE, !.type = "none", !.fds = FALSE,
            !.filterkey = IF c.state # "RECORD" THEN "none" ELSE @]

\* __audit_syscall_exit.
AuditSyscallExit(valid) ==
  /\ phase = "kernel" /\ phase' = "user" /\ mine = {} /\ ~walk.busy
  /\ IF ctx = NoCtx THEN event' = {} /\ UNCHANGED <<ctx, chain, refs, refcnt, aname>>
     ELSE LET c == Taken(valid)
          IN  /\ LogIfRecorded(c)
              /\ ctx' = ForNextCall(c)
              /\ FreeNamesAndTrees(c)
  /\ UNCHANGED <<walk, settings, mine, did, ops>>

\* __audit_free at the end of the task, within a call (exit_group) or after a
\* failed fork.
AuditFree ==
  /\ phase \in {"user", "kernel"} /\ phase' = "none" /\ mine = {} /\ ~walk.busy
  /\ ctx' = NoCtx
  /\ IF ctx = NoCtx THEN event' = {} /\ UNCHANGED <<chain, refs, refcnt, aname>>
     ELSE LogIfRecorded(Taken("invalid")) /\ FreeNamesAndTrees(ctx)
  /\ UNCHANGED <<walk, settings, mine, did, ops>>

-----------------------------------------------------------------------------
(***************************************************************************)
(* The hooks of a call.  They are called when there is a context and it is *)
(* not a dummy (the inline wrappers of audit.h).                           *)
(***************************************************************************)
Hook ==
  /\ phase = "kernel" /\ ~walk.busy /\ ctx # NoCtx /\ ~ctx.dummy /\ ops < MaxOps
  /\ ops' = ops + 1
  /\ UNCHANGED <<phase, settings, event>>

Records(what) == did' = IF ctx.in_syscall THEN did \cup what ELSE did

Entry(name, ino, type) ==
  [name |-> name, ino |-> ino, type |-> type, hidden |-> FALSE, val |-> EntryVal]

\* audit_alloc_name: only the entries after the preallocated ones can fail.
MayFail(c) == Len(c.names) >= PreNames

\* __audit_getname, for a name just brought in from user memory.
AuditGetname(f) ==
  /\ Hook /\ f \notin mine /\ mine' = mine \cup {f}
  /\ \/ /\ ctx.in_syscall
        /\ ctx' = [ctx EXCEPT !.names = Append(@, Entry(f, Unset, "UNKNOWN")), !.pwd = TRUE]
        /\ refcnt' = [refcnt EXCEPT ![f] = @ + 2] /\ aname' = [aname EXCEPT ![f] = Len(ctx.names) + 1]
        /\ Records({<<"PATH", Len(ctx.names) + 1>>, <<"CWD", "">>})
     \/ /\ (~ctx.in_syscall \/ MayFail(ctx))
        /\ refcnt' = [refcnt EXCEPT ![f] = @ + 1] /\ UNCHANGED <<ctx, aname, did>>
  /\ UNCHANGED <<chain, refs, walk>>

\* __audit_reusename: a name at the same user address is taken again.
AuditReusename(f) ==
  /\ Hook /\ f \notin mine /\ NamesOf(ctx, f) > 0
  /\ mine' = mine \cup {f} /\ refcnt' = [refcnt EXCEPT ![f] = @ + 1]
  /\ UNCHANGED <<ctx, chain, refs, walk, aname, did>>

\* __audit_inode: the entry it fills in, 0 for a new one.  An entry without an
\* inode has ino AUDIT_INO_UNSET, which is not 0, so names are never compared.
RightType(n, parent) == IF parent THEN n.type \in {"PARENT", "UNKNOWN"} ELSE n.type # "PARENT"

InodeEntry(f, d, parent) ==
  LET same == {i \in DOMAIN ctx.names : ctx.names[i].ino = d.ino /\ RightType(ctx.names[i], parent)}
  IN  IF f = NoName THEN 0
      ELSE IF aname[f] # 0 /\ RightType(ctx.names[aname[f]], parent) THEN aname[f]
      ELSE IF same # {} THEN CHOOSE i \in same : \A j \in same : i >= j ELSE 0

Fill(n, d, parent, hidden) ==
  [n EXCEPT !.ino = d.ino, !.type = IF parent THEN "PARENT" ELSE "NORMAL", !.hidden = @ \/ hidden]

AuditInode(f, d, parent, hidden) ==
  /\ Hook /\ (f # NoName => f \in mine) /\ (hidden => parent) /\ UNCHANGED mine
  /\ LET i == InodeEntry(f, d, parent)
     IN  \/ /\ ~ctx.in_syscall /\ UNCHANGED <<ctx, refcnt, did, walk>>
         \/ /\ ctx.in_syscall /\ i # 0
            /\ ctx' = [ctx EXCEPT !.names[i] = Fill(@, d, parent, hidden)]
            /\ did' = IF hidden THEN did \ {<<"PATH", i>>} ELSE did
            /\ StartWalk(d) /\ UNCHANGED refcnt
         \/ /\ ctx.in_syscall /\ i = 0
            /\ ctx' = [ctx EXCEPT !.names = Append(@, Fill(Entry(f, d.ino, "UNKNOWN"), d, parent, hidden))]
            /\ IF hidden THEN UNCHANGED did ELSE Records({<<"PATH", Len(ctx.names) + 1>>})
            /\ refcnt' = IF f = NoName THEN refcnt ELSE [refcnt EXCEPT ![f] = @ + 1]
            /\ StartWalk(d)
         \/ ctx.in_syscall /\ i = 0 /\ MayFail(ctx) /\ UNCHANGED <<ctx, refcnt, did, walk>>
  /\ UNCHANGED <<chain, refs, aname>>

\* __audit_inode_child: the entry of the parent directory, and one of the
\* child, which shares the file name of its parent.  Any allocation may fail.
FirstName(c, types, name, inos) ==
  FirstMatch({i \in DOMAIN c.names : /\ c.names[i].name # NoName /\ c.names[i].name = name
                                     /\ c.names[i].type \in types /\ c.names[i].ino \in inos})

AuditInodeChild(parent, d, type) ==
  /\ Hook /\ UNCHANGED <<mine, aname, walk>>
  /\ LET p == FirstName(ctx, {"PARENT", "UNKNOWN"}, d.name, {parent.ino})
         c1 == IF p = 0 THEN ctx ELSE [ctx EXCEPT !.names[p].type = "PARENT"]
         ch == FirstName(c1, {type, "UNKNOWN"}, d.name, {n.ino : n \in Range(c1.names)})
         c2 == IF ch = 0 THEN c1 ELSE [c1 EXCEPT !.names[ch].type = type]
         c3 == IF p # 0 THEN c2 ELSE [c2 EXCEPT !.names = Append(@, Entry(NoName, parent.ino, "PARENT"))]
         f == IF p # 0 THEN ctx.names[p].name ELSE NoName
         c4 == IF ch # 0 THEN [c3 EXCEPT !.names[ch].ino = d.ino]
               ELSE [c3 EXCEPT !.names = Append(@, Entry(f, d.ino, type))]
         Paths(c) == {<<"PATH", i>> : i \in Len(ctx.names) + 1 .. Len(c.names)}
         Done(c) == HandleOne(d, c) /\ Records(Paths(c))
     IN  \/ ~ctx.in_syscall /\ UNCHANGED <<ctx, chain, refs, refcnt, did>>
         \/ /\ ctx.in_syscall /\ Done(c4)
            /\ refcnt' = IF ch = 0 /\ f # NoName THEN [refcnt EXCEPT ![f] = @ + 1] ELSE refcnt
         \/ ctx.in_syscall /\ p = 0 /\ MayFail(c2) /\ Done(c2) /\ UNCHANGED refcnt
         \/ ctx.in_syscall /\ ch = 0 /\ MayFail(c3) /\ Done(c3) /\ UNCHANGED refcnt

\* __audit_mq_open, _mq_sendrecv, _mq_notify, _mq_getsetattr, _ipc_obj, _bprm,
\* _socketcall, _log_capset, _mmap_fd: one kind of data, the last one wins.
Special(t) ==
  /\ Hook /\ ctx' = [ctx EXCEPT !.type = t]
  /\ did' = IF ctx.in_syscall THEN {r \in did : r[1] # "SPECIAL"} \cup {<<"SPECIAL", t>>} ELSE did
  /\ UNCHANGED <<chain, refs, walk, refcnt, aname, mine>>

\* __audit_fd_pair, __audit_sockaddr (a buffer may have to be allocated),
\* __audit_log_bprm_fcaps (entries are stacked).
FdPair ==
  /\ Hook /\ ctx' = [ctx EXCEPT !.fds = TRUE] /\ Records({<<"FD_PAIR", "">>})
  /\ UNCHANGED <<chain, refs, walk, refcnt, aname, mine>>

AuditSockaddr ==
  /\ Hook /\ ctx' = [ctx EXCEPT !.sockaddr = TRUE] /\ Records({<<"SOCKADDR", "">>})
  /\ UNCHANGED <<chain, refs, walk, refcnt, aname, mine>>

BprmFcaps ==
  /\ Hook /\ ctx' = [ctx EXCEPT !.aux = @ + 1]
  /\ did' = IF ctx.in_syscall THEN {r \in did : r[1] # "BPRM_FCAPS"} \cup {<<"BPRM_FCAPS", ctx.aux + 1>>}
            ELSE did
  /\ UNCHANGED <<chain, refs, walk, refcnt, aname, mine>>

\* __audit_ptrace comes first in its call.
AuditPtrace(p) ==
  /\ Hook /\ ctx.target = "none"
  /\ ctx' = [ctx EXCEPT !.target = p] /\ Records({<<"OBJ_PID", p>>})
  /\ UNCHANGED <<chain, refs, walk, refcnt, aname, mine>>

\* __audit_signal_info: the first target in the context, others in blocks.
AuditSignalInfo(p) ==
  /\ Hook
  /\ LET full == ~(ctx.aux_pids # <<>> /\ Len(ctx.aux_pids[1]) < AuxPids)
     IN  \/ ctx.target = "none" /\ ctx' = [ctx EXCEPT !.target = p] /\ Records({<<"OBJ_PID", p>>})
         \/ /\ ctx.target # "none" /\ ~full
            /\ ctx' = [ctx EXCEPT !.aux_pids[1] = Append(@, p)] /\ Records({<<"OBJ_PID", p>>})
         \/ /\ ctx.target # "none" /\ full
            /\ ctx' = [ctx EXCEPT !.aux_pids = <<<<p>>>> \o @] /\ Records({<<"OBJ_PID", p>>})
         \/ ctx.target # "none" /\ full /\ UNCHANGED <<ctx, did>>          \* -ENOMEM
  /\ UNCHANGED <<chain, refs, walk, refcnt, aname, mine>>

\* Some other part of the kernel logs with this context: auditsc_get_stamp.
LogInCall ==
  /\ phase = "kernel" /\ ~walk.busy /\ ctx # NoCtx /\ UNCHANGED <<phase, settings, event, ops>>
  /\ ctx' = IF ctx.in_syscall THEN [Auditable(ctx) EXCEPT !.stamped = TRUE] ELSE ctx
  /\ UNCHANGED <<chain, refs, walk, refcnt, aname, mine, did>>

-----------------------------------------------------------------------------
\* Others: AUDIT_SET of audit_enabled and of audit_pid, changes of the rules.
SetEnabled ==
  /\ audit_enabled' = ~audit_enabled /\ audit_ever_enabled' = TRUE
  /\ UNCHANGED <<ctx, chain, refs, walk, refcnt, aname, phase, tsk, rules, mine, did, event, ops>>

BecomesAuditd ==
  /\ tsk' = [tsk EXCEPT !.auditd = ~@]
  /\ UNCHANGED <<ctx, chain, refs, walk, refcnt, aname, phase, rules, audit_enabled,
                 audit_ever_enabled, mine, did, event, ops>>

ChangeRules ==
  /\ rules' \in RuleSets
  /\ UNCHANGED <<ctx, chain, refs, walk, refcnt, aname, phase, tsk, audit_enabled,
                 audit_ever_enabled, mine, did, event, ops>>

NextHook ==
  \/ \E f \in Filenames : AuditGetname(f) \/ AuditReusename(f)
  \/ \E f \in Filenames \cup {NoName}, d \in Dentries, parent, hidden \in BOOLEAN :
       AuditInode(f, d, parent, hidden)
  \/ \E p, d \in Dentries, type \in {"CREATE", "DELETE"} : AuditInodeChild(p, d, type)
  \/ \E t \in Specials : Special(t)
  \/ FdPair \/ AuditSockaddr \/ BprmFcaps \/ LogInCall
  \/ \E p \in Pids : AuditPtrace(p) \/ AuditSignalInfo(p)

Next ==
  \/ AuditAlloc \/ AuditFree
  \/ \E major \in Majors : AuditSyscallEntry(major)
  \/ \E valid \in {"success", "failure"} : AuditSyscallExit(valid)
  \/ \E f \in Filenames : PutName(f)
  \/ WalkUp \/ WalkEnds \/ WalkFull
  \/ NextHook
  \/ SetEnabled \/ BecomesAuditd \/ ChangeRules

Spec == Init /\ [][Next]_vars

-----------------------------------------------------------------------------
(***************************************************************************)
(* Properties.                                                             *)
(***************************************************************************)
\* Types; BUG_ON(context->in_syscall || context->name_count) at the entry of a
\* call, and a task outside a call has nothing of the last call in its context.
TypeOK ==
  /\ ctx \in Context \cup {NoCtx} /\ IsChain(chain) /\ refs \in [Chunks -> Nat] /\ refcnt \in [Filenames -> Nat]
  /\ aname \in [Filenames -> Nat] /\ mine \subseteq Filenames
  /\ phase \in {"none", "user", "kernel"} /\ (phase # "kernel" => ~walk.busy)
  /\ phase = "user" /\ ctx # NoCtx =>
       ~ctx.in_syscall /\ ctx.names = <<>> /\ ctx.prio \in {0, TopPrio}

\* The references held on a chunk are the entries of the chain with it, in
\* every state of a walk, of a walk started again or given up, and the free
\* part of the chain is empty (put_tree_ref, unroll_tree_refs).
RefsExact ==
  /\ \A k \in Chunks : refs[k] = Count(chain, k)
  /\ \A x \in Places(chain) :
       (x[1] > chain.at \/ (x[1] = chain.at /\ x[2] <= chain.left)) => chain.c[x[1]][x[2]] = NoChunk

\* A walk that ends has put every chunk of the path into the chain, where a
\* rule for a directory finds it, or the call has become auditable: a lost
\* reference never loses a record.
WalkIsComplete ==
  [][walk.busy /\ ~walk'.busy =>
       \/ \A i \in DOMAIN walk.path : walk.path[i] # NoChunk => MatchTreeRefs(chain', walk.path[i])
       \/ ctx'.prio > 0 /\ (ctx.prio = 0 => ctx'.current_state = "RECORD")]_vars

\* A file name has one reference for the call that uses it and one for each
\* entry of the names list that has it: it is neither freed while an entry
\* points to it nor leaked, and filename->aname points to an entry that has it.
NamesCounted ==
  \A f \in Filenames :
    /\ refcnt[f] = (IF f \in mine THEN 1 ELSE 0) + (IF ctx = NoCtx THEN 0 ELSE NamesOf(ctx, f))
    /\ aname[f] # 0 => ctx # NoCtx /\ aname[f] \in DOMAIN ctx.names /\ ctx.names[aname[f]].name = f

\* The references a context holds, on chunks and on file names, are exact in
\* every state of a call and between calls.
ReferencesExact == TypeOK /\ RefsExact /\ NamesCounted

\* What the end of this call will write is what the hooks of this call have
\* recorded: nothing of an earlier call, nothing lost, whatever was switched
\* on or off in between.  fds[0] of a new context is the exception:
\* it comes zeroed, and 0 is a file descriptor, so that the first call of a
\* task is taken to have made a pair.
EventIsThisCall ==
  phase = "kernel" /\ ctx # NoCtx /\ ctx.in_syscall =>
    {r \in Wanted(ctx) : r[1] \notin {"SYSCALL", "PROCTITLE", "EOE", "FD_PAIR"}}
      = {r \in did : r[1] # "FD_PAIR"}

\* The rules for this call that match when it ends, whatever their priority.
MatchingExit(c) ==
  {r \in Range(rules.exit) : c.major \in r.mask /\ FieldsMatch(r, tsk, c, NoName, chain)}
MatchingInode(c) ==
  UNION {{r \in Range(rules.inode[n.ino]) : c.major \in r.mask /\ FieldsMatch(r, tsk, c, n, chain)} :
           n \in Range(c.names)}

\* The decision is that of a matching rule, or of what was decided before the
\* end, with the highest priority: no exit rule that matches has a higher one,
\* and an inode rule has the last word only if it has the higher priority.
DecisionByPriority ==
  phase = "kernel" /\ ctx # NoCtx /\ ctx.in_syscall /\ ~ctx.dummy /\ ~tsk.auditd =>
    \A valid \in {"success", "failure"} :
      LET c == Taken(valid)
          before == [prio |-> ctx.prio, state |-> ctx.current_state]
          As(r) == [prio |-> r.prio, state |-> StateOf(r)]
          exits == {before} \cup {As(r) : r \in MatchingExit(c)}
          top == CHOOSE e \in exits : \A o \in exits : o.prio <= e.prio
          above == {As(r) : r \in {x \in MatchingInode(c) : x.prio > top.prio}}
      IN  [prio |-> c.prio, state |-> c.current_state] \in (IF above = {} THEN {top} ELSE above)

=============================================================================
