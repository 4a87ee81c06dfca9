------------------------------- MODULE RawSrb -------------------------------
(***************************************************************************)
(* aac_send_raw_srb of 2-patched-commctrl.c: a SCSI request of a program,  *)
(* with a list of its buffers, is fetched (its size first, then all of     *)
(* it), given buffers of the kernel and sent to the adapter; what the      *)
(* adapter wrote is copied back.  The list comes in entries of 32 or of 64 *)
(* bits, told apart by the size of the request, and the adapter takes one  *)
(* of the two.  Any step may fail, and a signal may end the wait while the *)
(* adapter still has the request.  How a fib is sent is SendFib's subject. *)
(***************************************************************************)
EXTENDS Integers, Sequences, FiniteSets

CONSTANTS
  Fibs, None,
  Srbs,             \* requests the program may hold: size, n and counts of its
                    \* entries, dir
  Base, E32, E64,   \* size of a request without its entries, of an entry
  MaxSg,            \* entries of sg_list
  MaxCount,         \* bytes an entry may have
  MaxFib,           \* room in a fib
  MaxCalls,         \* bound: calls of the ioctl
  MaxWrites         \* bound: writes of the program to its request

VARIABLES
  host64,      \* the adapter takes entries of 64 bits
  usrb,        \* the request in user memory
  pool, fib,   \* free fibs, the one of the call
  at,          \* where the call is
  size, cmd,   \* the first fetch, and the second (user_srbcmd)
  sg, psg,     \* sg_list, and the list in the fib
  byte_count,  \* bytes of the lines of that list
  data,        \* what each buffer of the call holds
  given,       \* what the program has been given back
  heap,        \* memory the call has allocated and not freed
  adapter,     \* the request the adapter has with a fib
  rcode, calls, writes

vars == <<host64, usrb, pool, fib, at, size, cmd, sg, psg, byte_count, data, given, heap,
          adapter, rcode, calls, writes>>

Init ==
  /\ host64 \in BOOLEAN /\ usrb \in Srbs
  /\ pool = Fibs /\ adapter = [f \in Fibs |-> None]
  /\ heap = {} /\ calls = 0 /\ writes = 0
  /\ fib = None /\ at = "idle" /\ size = 0 /\ cmd = None /\ sg = <<>> /\ psg = <<>>
  /\ byte_count = 0 /\ data = <<>> /\ given = <<>> /\ rcode = "ok"

Goto(from, to) == at = from /\ at' = to

\* user_srbcmd, and usg, in memory; buffers are numbered.
Copy == <<"srb", 0>>
List == <<"usg", 0>>

\* goto cleanup; usg is freed before.
Fail(err) == at' = "cleanup" /\ rcode' = err /\ heap' = heap \ {List}

Sends == {"out", "both"}
Receives == {"in", "both"}
Size32(n) == Base + n * E32
Size64(n) == Base + n * E64
Is64 == Size64(cmd.n) = size

UserWrites ==
  /\ writes < MaxWrites /\ writes' = writes + 1
  /\ usrb' \in Srbs \ {usrb}
  /\ UNCHANGED <<host64, pool, fib, at, size, cmd, sg, psg, byte_count, data, given, heap, adapter, rcode, calls>>

-----------------------------------------------------------------------------
\* A call that gets a fib (the others return at once).
Begin(f) ==
  /\ Goto("idle", "size") /\ calls < MaxCalls /\ f \in pool
  /\ calls' = calls + 1 /\ pool' = pool \ {f} /\ fib' = f
  /\ UNCHANGED <<host64, usrb, size, cmd, sg, psg, byte_count, data, given, heap, adapter, rcode, writes>>

FetchSize ==
  /\ at = "size"
  /\ size' = usrb.size
  /\ IF usrb.size < Base \/ usrb.size > MaxFib THEN Fail("EINVAL")
     ELSE at' = "srb" /\ UNCHANGED <<rcode, heap>>
  /\ UNCHANGED <<host64, usrb, pool, fib, cmd, sg, psg, byte_count, data, given, adapter, calls, writes>>

\* The request, of the size fetched before; the copy may fault behind the kmalloc.
FetchSrb ==
  /\ at = "srb"
  /\ heap' = heap \cup {Copy}
  /\ cmd' = usrb
  /\ \/ at' = "check" /\ UNCHANGED rcode
     \/ at' = "cleanup" /\ rcode' = "EFAULT"
  /\ UNCHANGED <<host64, usrb, pool, fib, size, sg, psg, byte_count, data, given, adapter, calls, writes>>

\* The number of entries must be that of the size, in one of the two forms.
Acceptable ==
  /\ cmd.n <= MaxSg
  /\ size \in {Size32(cmd.n), Size64(cmd.n)}
  /\ cmd.dir = "none" => cmd.n = 0

\* A list of 32 bits for an adapter of 64 is copied.
CheckSrb ==
  /\ at = "check"
  /\ IF Acceptable
     THEN /\ at' = "map" /\ UNCHANGED rcode
          /\ heap' = heap \cup IF host64 /\ ~Is64 THEN {List} ELSE {}
     ELSE Fail("EINVAL")
  /\ UNCHANGED <<host64, usrb, pool, fib, size, cmd, sg, psg, byte_count, data, given, adapter, calls, writes>>

\* The first fetch faults.
FetchFaults ==
  /\ at = "size" /\ Fail("EFAULT")
  /\ UNCHANGED <<host64, usrb, pool, fib, size, cmd, sg, psg, byte_count, data, given, adapter, calls, writes>>

\* There is no memory for the request, for the copy of its list or for a buffer.
NoMemory ==
  /\ \/ at = "srb"
     \/ at = "check" /\ Acceptable /\ host64 /\ ~Is64
     \/ at = "map" /\ Len(sg) < cmd.n /\ cmd.counts[Len(sg) + 1] <= MaxCount
  /\ Fail("ENOMEM")
  /\ UNCHANGED <<host64, usrb, pool, fib, size, cmd, sg, psg, byte_count, data, given, adapter, calls, writes>>

\* Bytes of an entry that are copied in: the list of 32 bits is read as one of
\* 64 there, so that they are any number.
Copied(i) == IF host64 /\ ~Is64 THEN 0 .. MaxCount + 1 ELSE {cmd.counts[i]}

\* A buffer for the next entry, with the program's data; then its line of the list.
MapEntry ==
  LET i == Len(sg) + 1
      b == <<"buffer", i>>
  IN  /\ at = "map" /\ i <= cmd.n
      /\ IF cmd.counts[i] > MaxCount
         THEN Fail("EINVAL") /\ UNCHANGED <<sg, psg, byte_count, data>>
         ELSE /\ sg' = Append(sg, b)
              /\ \/ /\ heap' = heap \cup {b}
                    /\ \E n \in IF cmd.dir \in Sends THEN Copied(i) ELSE {0} :
                         data' = Append(data, [of |-> "program", len |-> n])
                    /\ psg' = Append(psg, [buf |-> b, count |-> cmd.counts[i]])
                    /\ byte_count' = byte_count + cmd.counts[i]
                    /\ UNCHANGED <<at, rcode>>
                 \/ /\ cmd.dir \in Sends   \* the copy faults
                    /\ at' = "cleanup" /\ rcode' = "EFAULT"
                    /\ heap' = (heap \cup {b}) \ {List}
                    /\ UNCHANGED <<psg, byte_count, data>>
      /\ UNCHANGED <<host64, usrb, pool, fib, size, cmd, given, adapter, calls, writes>>

\* sg_indx is 0 for the first entry, and for none.
SgIndx == IF sg = <<>> THEN 0 ELSE Len(sg) - 1

\* Mutant of the next: the index of the last entry.
SgCountShort == SgIndx

\* The number of entries the adapter is told.
SgCount == IF cmd.n # 0 THEN SgIndx + 1 ELSE 0

\* aac_fib_send with wait: the adapter gets the list, or the fib is not sent.
Send ==
  /\ at = "map" /\ Len(sg) = cmd.n
  /\ \/ /\ at' = "wait" /\ UNCHANGED rcode /\ heap' = heap \ {List}
        /\ adapter' = [adapter EXCEPT ![fib] =
             [list |-> SubSeq(psg, 1, SgCount), dir |-> cmd.dir, mine |-> data,
              total |-> byte_count]]
     \/ Fail("ENXIO") /\ UNCHANGED adapter
  /\ UNCHANGED <<host64, usrb, pool, fib, size, cmd, sg, psg, byte_count, data, given, calls, writes>>

\* The adapter is done with a fib: what it wrote is in the buffers.
Answer(f) ==
  /\ adapter[f] # None
  /\ adapter' = [adapter EXCEPT ![f] = None]
  /\ IF at = "wait" /\ fib = f
     THEN /\ at' = "back"
          /\ data' = IF adapter[f].dir \in Receives
                       THEN [i \in DOMAIN data |-> [of |-> "adapter", len |-> adapter[f].list[i].count]]
                       ELSE data
          /\ UNCHANGED pool
     ELSE pool' = pool \cup {f} /\ UNCHANGED <<at, data>>   \* given up: freed in its place
  /\ UNCHANGED <<host64, usrb, fib, size, cmd, sg, psg, byte_count, given, heap, rcode, calls, writes>>

Signal ==
  /\ Goto("wait", "cleanup") /\ rcode' = "ERESTARTSYS"
  /\ UNCHANGED <<host64, usrb, pool, fib, size, cmd, sg, psg, byte_count, data, given, heap, adapter, calls, writes>>

BackDone == cmd.dir \notin Receives \/ Len(given) > SgIndx

\* One buffer is copied to the program.  Without entries the first is the null
\* pointer, with a count that was left in the fib and an address never set.
CopyBack ==
  /\ at = "back" /\ ~BackDone
  /\ LET i == Len(given) + 1
     IN  \/ /\ given' = Append(given, IF sg = <<>> THEN [of |-> "fib", len |-> 0]
                                      ELSE [data[i] EXCEPT !.len = psg[i].count])
            /\ UNCHANGED <<at, rcode>>
         \/ at' = "cleanup" /\ rcode' = "EFAULT" /\ UNCHANGED given
  /\ UNCHANGED <<host64, usrb, pool, fib, size, cmd, sg, psg, byte_count, data, heap, adapter, calls, writes>>

CopyReply ==
  /\ at = "back" /\ BackDone
  /\ at' = "cleanup" /\ rcode' \in {"ok", "EFAULT"}
  /\ UNCHANGED <<host64, usrb, pool, fib, size, cmd, sg, psg, byte_count, data, given, heap, adapter, calls, writes>>

Freed == {Copy} \cup {sg[i] : i \in DOMAIN sg \cap 1 .. SgIndx + 1}

\* A fib whose wait was aborted is left to the interrupt.
Cleanup ==
  /\ at = "cleanup"
  /\ heap' = heap \ Freed
  /\ pool' = IF rcode = "ERESTARTSYS" THEN pool ELSE pool \cup {fib}
  /\ fib' = None /\ at' = "idle" /\ size' = 0 /\ cmd' = None /\ sg' = <<>> /\ psg' = <<>>
  /\ byte_count' = 0 /\ data' = <<>> /\ given' = <<>> /\ rcode' = "ok"
  /\ UNCHANGED <<host64, usrb, adapter, calls, writes>>

Next ==
  \/ UserWrites \/ FetchSize \/ FetchFaults \/ FetchSrb \/ CheckSrb \/ NoMemory \/ MapEntry
  \/ Send \/ Signal \/ CopyBack \/ CopyReply \/ Cleanup
  \/ \E f \in Fibs : Begin(f) \/ Answer(f)

-----------------------------------------------------------------------------
Directions == {"in", "out", "both", "none"}

\* What an adapter may have of a call.
Requests == [list : Seq([buf : {"buffer"} \X Nat, count : Nat]), dir : Directions,
             mine : Seq([of : {"program", "adapter"}, len : Nat]), total : Nat]

TypeOK ==
  /\ host64 \in BOOLEAN /\ usrb \in Srbs /\ pool \subseteq Fibs /\ fib \in Fibs \cup {None}
  /\ adapter \in [Fibs -> Requests \cup {None}]
  /\ Len(psg) <= Len(sg) /\ Len(sg) <= MaxSg /\ Len(data) = Len(psg)
  /\ calls \in 0 .. MaxCalls /\ writes \in 0 .. MaxWrites

\* Whatever fails on whichever way, a call that is over has freed all it has
\* allocated, and its fib is free or with the adapter.
SrbBalanced ==
  at = "idle" => /\ heap = {}
                 /\ pool = {f \in Fibs : adapter[f] = None}

\* t is the sum of the first n counts: there are partial sums that lead to it.
IsSum(t, counts, n) ==
  \E p \in [0 .. n -> 0 .. t] :
    p[0] = 0 /\ p[n] = t /\ \A i \in 1 .. n : p[i] = p[i - 1] + counts[i]

\* The list an adapter works on for a waiting call has a line for each entry of
\* the request, with buffers that are not freed and as large as the program
\* says, and the total is theirs, although the request is fetched in two parts
\* and may have come in the other form.  The program's data is in the buffers,
\* but for the form whose counts are misread.
ListIsTheProgramsOwn ==
  at = "wait" =>
    LET r == adapter[fib]
    IN  /\ Len(r.list) = cmd.n
        /\ \A i \in 1 .. cmd.n : r.list[i].buf \in heap /\ r.list[i].count = cmd.counts[i]
        /\ IsSum(r.total, cmd.counts, cmd.n)
        /\ (cmd.dir \in Sends /\ ~(host64 /\ ~Is64)) =>
              \A i \in 1 .. cmd.n : r.mine[i].len = r.list[i].count

\* A call that succeeds has given the program all that the adapter wrote for
\* its entries, and for no more than them.
DataGivenBack ==
  (at = "cleanup" /\ rcode = "ok" /\ cmd.dir \in Receives /\ cmd.n > 0) =>
    given = [i \in 1 .. cmd.n |-> [of |-> "adapter", len |-> cmd.counts[i]]]
=============================================================================
