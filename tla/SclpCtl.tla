------------------------------ MODULE SclpCtl ------------------------------
(***************************************************************************)
(* The SCLP control device, 6-patched-sclp_ctl.c (the fixer left the file  *)
(* as it was): a request block is read from user memory, header first to   *)
(* learn its length, then as a whole, handed to the service processor and  *)
(* written back.  The length in the page is the one of the second fetch,   *)
(* and the service processor may change it again.                          *)
(***************************************************************************)
EXTENDS Integers, FiniteSets

CONSTANTS Threads,        \* threads that make the ioctl
          Lengths,        \* lengths a user writes to the block
          PageSize, MinLength,
          Pages,          \* bound: zeroed pages there are
          MaxCalls,       \* bound: ioctl calls
          MaxWrites       \* bound: writes of the user to its block

VARIABLES ulen,           \* the length in user memory
          pc,             \* per thread: where its call is
          fetched,        \* per thread: bytes the second fetch was asked for
          length,         \* per thread: sccb->length in its page
          pages,          \* pages taken and not freed
          refused,        \* calls that ended with -EINVAL for their length
          altered,        \* per thread: its length changed after the check
          calls, writes

vars == <<ulen, pc, fetched, length, pages, refused, altered, calls, writes>>

Init == /\ ulen \in Lengths
        /\ pc      = [t \in Threads |-> "idle"]
        /\ fetched = [t \in Threads |-> 0]
        /\ length  = [t \in Threads |-> 0]
        /\ pages = 0 /\ refused = 0
        /\ altered = [t \in Threads |-> FALSE]
        /\ calls = 0 /\ writes = 0

UserWrites == /\ writes < MaxWrites
              /\ \E l \in Lengths \ {ulen} : ulen' = l
              /\ writes' = writes + 1
              /\ UNCHANGED <<pc, fetched, length, pages, refused, altered, calls>>

Return(t) == /\ pc'      = [pc EXCEPT ![t] = "idle"]
             /\ fetched' = [fetched EXCEPT ![t] = 0]
             /\ length'  = [length EXCEPT ![t] = 0]
             /\ altered' = [altered EXCEPT ![t] = FALSE]

\* The ioctl with a supported command word gets its page (the calls that fail
\* before, for a fault, the command word or the page, leave nothing behind).
Begin(t) == /\ pc[t] = "idle" /\ calls < MaxCalls /\ pages < Pages
            /\ calls' = calls + 1
            /\ pages' = pages + 1
            /\ pc' = [pc EXCEPT ![t] = "header"]
            /\ UNCHANGED <<ulen, fetched, length, refused, altered, writes>>

FetchHeader(t) == /\ pc[t] = "header"
                  /\ length' = [length EXCEPT ![t] = ulen]
                  /\ pc' = [pc EXCEPT ![t] = "check"]
                  /\ UNCHANGED <<ulen, fetched, pages, refused, altered, calls, writes>>

LengthOk(l) == l <= PageSize /\ l >= MinLength

\* A length that fails the check returns at once: the page is not freed.
CheckFails(t) == /\ pc[t] = "check"
                 /\ ~ LengthOk(length[t])
                 /\ refused' = refused + 1
                 /\ Return(t)
                 /\ UNCHANGED <<ulen, pages, calls, writes>>

\* The second fetch takes the length it was given by the first, and brings the
\* user's present header with it.
FetchAll(t) == /\ pc[t] = "check"
               /\ LengthOk(length[t])
               /\ fetched' = [fetched EXCEPT ![t] = length[t]]
               /\ length'  = [length EXCEPT ![t] = ulen]
               /\ altered' = [altered EXCEPT ![t] = ulen # length[t]]
               /\ pc' = [pc EXCEPT ![t] = "request"]
               /\ UNCHANGED <<ulen, pages, refused, calls, writes>>

\* sclp_sync_request succeeds; the answer (external) may have another length.
Request(t) == /\ pc[t] = "request"
              /\ \E l \in Lengths : /\ length'  = [length EXCEPT ![t] = l]
                                    /\ altered' = [altered EXCEPT
                                                     ![t] = @ \/ l # length[t]]
              /\ pc' = [pc EXCEPT ![t] = "give"]
              /\ UNCHANGED <<ulen, fetched, pages, refused, calls, writes>>

\* out_free after a fault of one of the fetches or a failed request.
Fail(t) == /\ pc[t] \in {"header", "check", "request"}
           /\ pc[t] = "check" => LengthOk(length[t])
           /\ pages' = pages - 1
           /\ Return(t)
           /\ UNCHANGED <<ulen, refused, calls, writes>>

\* The answer goes back, as long as it says it is; a fault changes the result
\* only.  The page is freed.
Give(t) == /\ pc[t] = "give"
           /\ ulen' = length[t]
           /\ pages' = pages - 1
           /\ Return(t)
           /\ UNCHANGED <<refused, calls, writes>>

Next == \/ UserWrites
        \/ \E t \in Threads : \/ Begin(t) \/ FetchHeader(t) \/ CheckFails(t)
                              \/ FetchAll(t) \/ Request(t) \/ Fail(t) \/ Give(t)

TypeOK == /\ ulen \in Lengths
          /\ pc \in [Threads -> {"idle", "header", "check", "request", "give"}]
          /\ fetched \in [Threads -> Lengths \cup {0}]
          /\ length \in [Threads -> Lengths \cup {0}]
          /\ pages \in 0..Pages /\ refused \in 0..MaxCalls
          /\ altered \in [Threads -> BOOLEAN]

\* Every page taken belongs to a call under way or to a call refused for its
\* length: all the other exits of sclp_ctl_ioctl_sccb free it, and the refused
\* ones, which return before out_free, use up the pages one by one.
PagesAccounted ==
    pages = Cardinality({t \in Threads : pc[t] # "idle"}) + refused

\* The second fetch stays within the page, and the bytes written back do too
\* unless the length was altered after it was checked: by the user between the
\* two fetches, or by the answer.  Nothing else makes the copy leave the page.
WithinPage == \A t \in Threads :
    /\ fetched[t] <= PageSize
    /\ pc[t] = "give" => LengthOk(length[t]) \/ altered[t]
=============================================================================
