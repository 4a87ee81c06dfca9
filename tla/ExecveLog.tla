----------------------------- MODULE ExecveLog ------------------------------
(***************************************************************************)
(* The arguments of execve in the audit log                                *)
(* (auto_fix/patched_files/1-patched-auditsc.c: audit_log_execve_info,     *)
(* audit_log_single_execve_arg, audit_log_proctitle) and the buffer they   *)
(* are formatted into (cocci/testdir/truecases/audit.c).                   *)
(*                                                                         *)
(* An argument is fetched twice from the memory of the process: first in   *)
(* chunks, to see whether it has control characters and must be logged in  *)
(* hex, then, if it is long, again to be logged.  Characters are "p"       *)
(* (plain), "c" (to be escaped) and "0".  The process may change its       *)
(* memory at any time.                                                     *)
(***************************************************************************)
EXTENDS Integers, Sequences, FiniteSets, SequencesExt

CONSTANTS
  Argvs,       \* what the arguments may be: sequences of sequences
  Titles,      \* what get_cmdline may return
  MaxLen,      \* MAX_EXECVE_AUDIT_LEN
  NumLen,      \* arg_num_len
  BufSize,     \* AUDIT_BUFSIZ
  Digits,      \* what audit_log_format writes for one argument
  MaxChanges   \* bound: changes of the memory

ASSUME ExecveAssumption == MaxLen \in Nat \ {0, 1} /\ BufSize \in Nat \ {0} /\ NumLen \in Nat

VARIABLES
  mem,         \* the arguments, each with its end mark
  argv,        \* what they were when execve ended
  pc, arg, len, off, len_left, has_cntl, i,
  buf,         \* the kernel buffer
  ab,          \* the record being written, NoRecord
  len_sent, records, changes, title, proctitle

NoRecord == [frags |-> <<>>, used |-> -1, cap |-> 0, full |-> FALSE]

fetch == <<len, off, len_left, has_cntl, i, buf>>
vars == <<mem, argv, pc, arg, fetch, ab, len_sent, records, changes, title, proctitle>>

Least(a, b) == IF a < b THEN a ELSE b
Most(a, b) == IF a > b THEN a ELSE b

\* audit_log_start: a fresh skb.
NewRecord == [frags |-> <<>>, used |-> 0, cap |-> BufSize, full |-> FALSE]

Init ==
  /\ argv \in Argvs /\ mem = argv /\ pc = "next" /\ arg = 0
  /\ len = 0 /\ off = 0 /\ len_left = 0 /\ has_cntl = FALSE /\ i = 0 /\ buf = <<>>
  /\ ab = NewRecord /\ len_sent = 0 /\ records = <<>> /\ changes = 0
  /\ title \in Titles /\ proctitle = <<>>

-----------------------------------------------------------------------------
(***************************************************************************)
(* The buffer: used of cap bytes are written.  ok is the success of        *)
(* pskb_expand_head; without it the text is left out.                      *)
(***************************************************************************)
Avail(b) == b.cap - b.used

\* audit_expand
AuditExpand(b, extra) == [b EXCEPT !.cap = @ + extra]
Skip(b) == [b EXCEPT !.full = TRUE]
Put(b, n) == [b EXCEPT !.used = @ + n]

\* audit_log_vformat: a text of n characters.
AuditLogFormat(b, n, ok) ==
  LET b1 == IF Avail(b) = 0 THEN AuditExpand(b, BufSize) ELSE b
  IN  IF Avail(b) = 0 /\ ~ok THEN Skip(b)
      ELSE IF n < Avail(b1) THEN Put(b1, n)
      ELSE IF ~ok THEN Skip(b1)
      ELSE Put(AuditExpand(b1, Most(BufSize, 1 + n - Avail(b1))), n)

\* Mutant: the end mark is forgotten.
AuditLogNHexTight(b, n, ok) ==
  IF 2 * n <= Avail(b) THEN Put(b, 2 * n)
  ELSE IF ~ok THEN Skip(b)
  ELSE Put(AuditExpand(b, BufSize * (((2 * n - Avail(b)) \div BufSize) + 1)), 2 * n)

\* audit_log_n_hex: the request is rounded up to a multiple of the size.
AuditLogNHex(b, n, ok) ==
  IF 2 * n < Avail(b) THEN Put(b, 2 * n)
  ELSE IF ~ok THEN Skip(b)
  ELSE Put(AuditExpand(b, BufSize * (((2 * n - Avail(b)) \div BufSize) + 1)), 2 * n)

\* audit_log_n_string: quotes, and an end mark.
AuditLogNString(b, n, ok) ==
  IF n + 3 <= Avail(b) THEN Put(b, n + 2)
  ELSE IF ~ok THEN Skip(b)
  ELSE Put(AuditExpand(b, n + 3), n + 2)

\* audit_string_contains_control
ContainsControl(s) == \E k \in DOMAIN s : s[k] # "p"

\* audit_log_n_untrustedstring
AuditLogNUntrusted(b, s, ok) ==
  IF ContainsControl(s) THEN AuditLogNHex(b, Len(s), ok) ELSE AuditLogNString(b, Len(s), ok)

-----------------------------------------------------------------------------
(***************************************************************************)
(* One argument.                                                           *)
(***************************************************************************)
\* strnlen_user, without the end mark.
Strnlen(s) == IF Contains(s, "0") THEN SelectInSeq(s, LAMBDA x : x = "0") - 1 ELSE Len(s)

\* copy_from_user of n characters at o (the memory goes on behind the argument
\* with what this abstraction calls the end mark).
CopyFromUser(s, o, n) == [k \in 1 .. n |-> IF o + k <= Len(s) THEN s[o + k] ELSE "0"]

NextArg ==
  /\ pc = "next" /\ arg < Len(mem) /\ arg' = arg + 1 /\ pc' = "check"
  /\ len' = Strnlen(mem[arg + 1]) /\ len_left' = Strnlen(mem[arg + 1])
  /\ off' = 0 /\ i' = 0 /\ has_cntl' = FALSE /\ buf' = <<>>
  /\ UNCHANGED <<mem, argv, ab, len_sent, records, changes, title, proctitle>>

\* The walk that looks for control characters stops at the first chunk that
\* has one.
CheckChunk ==
  /\ pc = "check"
  /\ LET to_send == Least(len_left, MaxLen)
         b == CopyFromUser(mem[arg], off, to_send)
         more == ~ContainsControl(b) /\ len_left > to_send
     IN  /\ buf' = b /\ has_cntl' = ContainsControl(b)
         /\ pc' = IF more THEN "check" ELSE "log"
         /\ off' = IF more THEN off + to_send ELSE 0
         /\ len_left' = IF more THEN len_left - to_send ELSE len
  /\ UNCHANGED <<mem, argv, arg, len, i, ab, len_sent, records, changes, title, proctitle>>

\* Hex takes two characters each, so half as many are sent at a time.
MaxChunk == IF has_cntl THEN MaxLen \div 2 ELSE MaxLen
ToSend == Least(len_left, MaxChunk)
Weight(n) == IF has_cntl THEN 2 * n ELSE n

NoRoom == MaxLen - NumLen - len_sent - Weight(ToSend) < 0

\* There is no room in this record: another one, if there is one to be had.
NewExecveRecord ==
  /\ pc = "log" /\ len_left > 0 /\ NoRoom
  /\ records' = Append(records, ab) /\ len_sent' = 0
  /\ \/ ab' = NewRecord /\ pc' = "chunk"
     \/ ab' = NoRecord /\ pc' = "title"
  /\ UNCHANGED <<mem, argv, arg, fetch, changes, title, proctitle>>

SameRecord ==
  /\ pc = "log" /\ len_left > 0 /\ ~NoRoom /\ pc' = "chunk"
  /\ UNCHANGED <<mem, argv, arg, fetch, ab, len_sent, records, changes, title, proctitle>>

\* Mutant: p is not advanced.
RefetchedFromStart == IF len >= MaxChunk THEN CopyFromUser(mem[arg], 0, ToSend) ELSE buf

\* A short argument is still in buf; a long one is fetched again.
Refetched == IF len >= MaxChunk THEN CopyFromUser(mem[arg], off, ToSend) ELSE buf

\* The plain form goes through audit_log_string, which stops at an end mark.
LogChunk ==
  /\ pc = "chunk" /\ pc' = "log"
  /\ buf' = Refetched
  /\ LET n == ToSend
         text == IF has_cntl THEN Refetched
                 ELSE IF Contains(Refetched, "0") THEN SubSeq(Refetched, 1, Strnlen(Refetched)) ELSE Refetched
     IN  /\ \E ok \in BOOLEAN :
              LET head == AuditLogFormat(ab, Digits, ok)
                  body == IF has_cntl THEN AuditLogNHex(head, n, ok)
                          ELSE AuditLogNString(head, Len(text), ok)
              IN  ab' = IF body.used = head.used THEN body
                        ELSE [body EXCEPT !.frags = Append(@, [arg |-> arg, no |-> i, hex |-> has_cntl, text |-> text])]
         /\ off' = off + n /\ len_left' = len_left - n /\ i' = i + 1
         /\ len_sent' = len_sent + NumLen + Weight(n)
  /\ UNCHANGED <<mem, argv, arg, len, has_cntl, records, changes, title, proctitle>>

ArgDone ==
  /\ pc = "log" /\ len_left = 0 /\ pc' = "next"
  /\ UNCHANGED <<mem, argv, arg, fetch, ab, len_sent, records, changes, title, proctitle>>

\* All arguments are logged: audit_log_end.
ExecveDone ==
  /\ pc = "next" /\ arg = Len(mem) /\ pc' = "title"
  /\ records' = Append(records, ab) /\ ab' = NoRecord
  /\ UNCHANGED <<mem, argv, arg, fetch, len_sent, changes, title, proctitle>>

-----------------------------------------------------------------------------
\* audit_proctitle_rtrim: back to the last printable character or the first
\* one, which is dropped if it is not printable.
AuditProctitleRtrim(s) ==
  LET printed == {k \in DOMAIN s : s[k] = "p"}
      end == CHOOSE k \in printed \cup {1} : \A j \in printed \cup {1} : j <= k
  IN  IF s[end] = "p" THEN end ELSE end - 1

\* audit_log_proctitle: the title is kept in the context; without memory, or
\* for a task without a command line, it is "(null)".
AuditLogProctitle ==
  /\ pc = "title" /\ pc' = "done"
  /\ \/ proctitle' = (IF proctitle # <<>> \/ title = <<>> THEN proctitle
                      ELSE SubSeq(title, 1, AuditProctitleRtrim(title)))
     \/ UNCHANGED proctitle                                                \* no memory, or no record
  /\ \E ok \in BOOLEAN : ab' = AuditLogNUntrusted(AuditLogFormat(NewRecord, Digits, ok), proctitle', ok)
  /\ UNCHANGED <<mem, argv, arg, fetch, len_sent, records, changes, title>>

\* The process changes a character of an argument.
Change(a, k, x) ==
  /\ changes < MaxChanges /\ changes' = changes + 1 /\ pc # "done"
  /\ mem' = [mem EXCEPT ![a][k] = x]
  /\ UNCHANGED <<argv, pc, arg, fetch, ab, len_sent, records, title, proctitle>>

Next ==
  \/ NextArg \/ CheckChunk \/ NewExecveRecord \/ SameRecord \/ LogChunk \/ ArgDone \/ ExecveDone
  \/ AuditLogProctitle
  \/ \E a \in DOMAIN mem : \E k \in DOMAIN mem[a], x \in {"p", "c", "0"} : Change(a, k, x)

Spec == Init /\ [][Next]_vars

-----------------------------------------------------------------------------
(***************************************************************************)
(* Properties.                                                             *)
(***************************************************************************)
All == Append(records, ab)
Frags == FlattenSeq([r \in DOMAIN All |-> All[r].frags])
FragsOf(a) == SelectSeq(Frags, LAMBDA f : f.arg = a)
Text(a) == FlattenSeq([f \in DOMAIN FragsOf(a) |-> FragsOf(a)[f].text])

\* Types; what is copied fits the kernel buffer of MaxLen + 1 characters.
TypeOK ==
  /\ pc \in {"next", "check", "log", "chunk", "title", "done"} /\ arg \in 0 .. Len(mem)
  /\ Len(buf) <= MaxLen /\ len_left \in 0 .. len /\ off + len_left <= len

\* No text is written past the end of an skb: there is room for the end mark,
\* after any mixture of formats, hex and strings, and failed expansions.
WithinBuffer == \A r \in DOMAIN All : All[r].used < All[r].cap \/ All[r] = NoRecord

\* Nothing is lost in the cut: if no expansion has failed, the fragments of an
\* argument that is done are numbered from 0, and put together are the
\* argument, unless the process has changed it.
ArgumentsWhole ==
  (\A r \in DOMAIN All : ~All[r].full) =>
    \A a \in 1 .. (IF pc = "next" THEN arg ELSE arg - 1) :
      /\ \A f \in DOMAIN FragsOf(a) : FragsOf(a)[f].no = f - 1
      /\ changes = 0 => Text(a) = SubSeq(argv[a], 1, Strnlen(argv[a]))

\* "within about 500 bytes" of MAX_EXECVE_AUDIT_LEN: a record is over the
\* limit by no more than the number of one argument, and only if it has one
\* fragment.
RecordsBounded ==
  \A r \in DOMAIN All :
    LET fs == All[r].frags
        size == FoldLeft(LAMBDA n, f : n + NumLen + (IF f.hex THEN 2 * Len(f.text) ELSE Len(f.text)), 0, fs)
    IN  size <= MaxLen \/ (Len(fs) = 1 /\ size <= MaxLen + NumLen)

\* What is logged in quotes needs no escape, as long as the two fetches of the
\* argument see the same.
QuotedIfUnchanged ==
  changes = 0 => \A f \in DOMAIN Frags : ~Frags[f].hex => ~ContainsControl(Frags[f].text)

\* The title that is kept is the longest part that ends in a printable
\* character.
TitleTrimmed ==
  proctitle # <<>> => /\ IsPrefix(proctitle, title) /\ Last(proctitle) = "p"
                      /\ \A k \in Len(proctitle) + 1 .. Len(title) : title[k] # "p"

\* What is fetched fits the kernel's buffer, what is formatted the skb, and what
\* is logged of an argument the record.
TextFits == TypeOK /\ WithinBuffer /\ RecordsBounded

\* What is logged is what the process has: arguments whole, escaped where they
\* need it, and the title without its unprintable end.
TextExact == ArgumentsWhole /\ QuotedIfUnchanged /\ TitleTrimmed
=============================================================================
