------------------------------ MODULE FHandle ------------------------------
(***************************************************************************)
(* File handles as patched (4-patched-fhandle.c): name_to_handle_at writes *)
(* the handle of a file to a user's buffer, open_by_handle_at reads one    *)
(* and opens the file.  The buffer is the user's: another thread may write *)
(* it between any two accesses of the kernel.  A handle is a header (its   *)
(* size in bytes and its type) and the file it identifies; sizes are       *)
(* rounded down to whole words (handle_bytes >> 2).                        *)
(***************************************************************************)
EXTENDS Integers, FiniteSetsExt

CONSTANTS Threads,        \* threads that make the system calls
          Files,          \* the files of the mounted file system
          Need,           \* Need[f]: words of the handle of file f
          MaxHandleSz,    \* MAX_HANDLE_SZ, in bytes
          Bytes,          \* sizes a user writes to handle_bytes
          Word,           \* bytes per word, sizeof(u32)
          MaxCalls,       \* bound: system calls
          MaxWrites,      \* bound: writes of the user to the buffer
          MaxFds,         \* bound: file descriptors of the process
          None            \* no file

VARIABLES ufh,            \* the handle in user memory
          pc,             \* per thread: where it is in its call
          want,           \* per thread: the file name_to_handle_at looked up
          f_handle,       \* per thread: the header fetched first
          handle,         \* per thread: the kernel's copy of the handle
          heap,           \* threads whose call holds a kmalloc'ed handle
          mnts,           \* references to the mount that are held
          dents,          \* references to dentries that are held
          fds,            \* per descriptor: its file, the thread that reserved it, None
          ret,            \* per thread: what its last call returned
          named,          \* the file whose handle is in ufh since a call put it
          calls, writes

vars == <<ufh, pc, want, f_handle, handle, heap, mnts, dents, fds, ret, named, calls, writes>>

Header == [bytes : Bytes \cup {Word * Need[f] : f \in Files},
           type : {"ok", "invalid"}]
NoHeader == [bytes |-> -1, type |-> "none"]
Handle == [hdr : Header, file : Files \cup {None}]
NoHandle == [hdr |-> NoHeader, file |-> None]

Init == /\ ufh \in [hdr : [bytes : Bytes, type : {"invalid"}], file : {None}]
        /\ pc       = [t \in Threads |-> "idle"]
        /\ want     = [t \in Threads |-> None]
        /\ f_handle = [t \in Threads |-> NoHeader]
        /\ handle   = [t \in Threads |-> NoHandle]
        /\ heap = {} /\ mnts = 0 /\ dents = 0 /\ fds = [n \in 1..MaxFds |-> None]
        /\ ret = [t \in Threads |-> "none"]
        /\ named = None /\ calls = 0 /\ writes = 0

Words(b) == b \div Word

-----------------------------------------------------------------------------
\* The end of a call: its locals are gone.
Return(t, r) == /\ pc'       = [pc EXCEPT ![t] = "idle"]
                /\ ret'      = [ret EXCEPT ![t] = r]
                /\ want'     = [want EXCEPT ![t] = None]
                /\ f_handle' = [f_handle EXCEPT ![t] = NoHeader]
                /\ handle'   = [handle EXCEPT ![t] = NoHandle]

Begin(t) == /\ pc[t] = "idle" /\ calls < MaxCalls
            /\ calls' = calls + 1
            /\ ret' = [ret EXCEPT ![t] = "none"]

\* The user program writes its buffer, whatever the kernel is doing with it.
UserWrites == /\ writes < MaxWrites
              /\ \E h \in Handle : h # ufh /\ ufh' = h
              /\ writes' = writes + 1
              /\ named' = None
              /\ UNCHANGED <<pc, want, f_handle, handle, heap, mnts, dents,
                             fds, ret, calls>>

\* name_to_handle_at has found the file (the path is held until the call ends)
\* and fetches the header; a size over the limit and a fault end the call.
NameFetch(t, f) ==
    /\ Begin(t)
    /\ IF ufh.hdr.bytes <= MaxHandleSz
       THEN /\ pc'       = [pc EXCEPT ![t] = "encode"]
            /\ want'     = [want EXCEPT ![t] = f]
            /\ f_handle' = [f_handle EXCEPT ![t] = ufh.hdr]
            /\ mnts' = mnts + 1 /\ dents' = dents + 1
       ELSE UNCHANGED <<pc, want, f_handle, mnts, dents>>
    /\ UNCHANGED <<ufh, handle, heap, fds, named, writes>>

\* exportfs_encode_fh (external): the number of words the handle takes, and
\* whether it went into the words there are.
EncodeFh(f, words) == [words |-> Need[f],
                       type  |-> IF Need[f] <= words THEN "ok" ELSE "invalid"]

StoredHeaderKept(t, e) ==
    [bytes |-> IF e.type = "ok" THEN e.words * Word ELSE f_handle[t].bytes,
     type  |-> e.type]

\* The size goes back to bytes, the result is the type.
StoredHeader(t, e) == [bytes |-> e.words * Word, type |-> e.type]

\* The call allocates and encodes; without memory it ends.
NameEncode(t) ==
    /\ pc[t] = "encode"
    /\ LET e == EncodeFh(want[t], Words(f_handle[t].bytes))
           h == [hdr |-> StoredHeader(t, e), file |-> want[t]]
       IN  /\ handle' = [handle EXCEPT ![t] = h]
           /\ pc' = [pc EXCEPT ![t] = "give"]
           /\ heap' = heap \cup {t}
    /\ UNCHANGED <<ufh, want, f_handle, mnts, dents, fds, ret, named,
                   calls, writes>>

NameNoMemory(t) ==
    /\ pc[t] = "encode"
    /\ Return(t, "ENOMEM")
    /\ mnts' = mnts - 1 /\ dents' = dents - 1
    /\ UNCHANGED <<ufh, heap, fds, named, calls, writes>>

\* The handle does not fit what the user had room for.
Overflows(t) == \/ handle[t].hdr.bytes > f_handle[t].bytes
                \/ handle[t].hdr.type = "invalid"

\* The handle goes to the user, only its header if it did not fit.
NameGive(t) ==
    /\ pc[t] = "give"
    /\ LET over == Overflows(t)
       IN  /\ ufh'   = [hdr  |-> handle[t].hdr,
                        file |-> IF over THEN ufh.file ELSE handle[t].file]
           /\ named' = IF over THEN None ELSE handle[t].file
           /\ Return(t, IF over THEN "EOVERFLOW" ELSE "ok")
    /\ heap' = heap \ {t}
    /\ mnts' = mnts - 1 /\ dents' = dents - 1
    /\ UNCHANGED <<fds, calls, writes>>

\* A fault in copy_to_user: the buffer is left as it was.
NameFaults(t) ==
    /\ pc[t] = "give"
    /\ Return(t, "EFAULT")
    /\ heap' = heap \ {t}
    /\ mnts' = mnts - 1 /\ dents' = dents - 1
    /\ UNCHANGED <<ufh, fds, named, calls, writes>>

-----------------------------------------------------------------------------
\* open_by_handle_at, for a thread with CAP_DAC_READ_SEARCH: the header is
\* fetched and its size checked (sizes outside the limits end the call).
SizeOk(h) == h.bytes > 0 /\ h.bytes <= MaxHandleSz

OpenFetch(t) ==
    /\ Begin(t)
    /\ IF SizeOk(ufh.hdr)
       THEN /\ pc' = [pc EXCEPT ![t] = "refetch"]
            /\ f_handle' = [f_handle EXCEPT ![t] = ufh.hdr]
            /\ heap' = heap \cup {t}
       ELSE UNCHANGED <<pc, f_handle, heap>>
    /\ UNCHANGED <<ufh, want, handle, mnts, dents, fds, named, writes>>

SameHeaderUnchecked(t, h) == TRUE

\* The patch: the header of the second fetch is compared with the first.
SameHeader(t, h) == f_handle[t] = h.hdr

\* The whole handle is fetched, header included.
OpenRefetch(t) ==
    /\ pc[t] = "refetch"
    /\ SameHeader(t, ufh)
    /\ handle' = [handle EXCEPT ![t] = ufh]
    /\ pc' = [pc EXCEPT ![t] = "mount"]
    /\ UNCHANGED <<ufh, want, f_handle, heap, mnts, dents, fds, ret, named, calls, writes>>

\* A fault in the second fetch, or another header: -EFAULT.
OpenRefused(t) ==
    /\ pc[t] = "refetch"
    /\ Return(t, "EFAULT")
    /\ heap' = heap \ {t}
    /\ UNCHANGED <<ufh, mnts, dents, fds, named, calls, writes>>

\* get_vfsmount_from_fd: the mount of the directory the handle is relative to;
\* a descriptor that is not open ends the call.
OpenMount(t) ==
    /\ pc[t] = "mount"
    /\ mnts' = mnts + 1
    /\ pc' = [pc EXCEPT ![t] = "decode"]
    /\ UNCHANGED <<ufh, want, f_handle, handle, heap, dents, fds, ret, named, calls, writes>>

OpenBadDir(t) ==
    /\ pc[t] = "mount"
    /\ Return(t, "EBADF")
    /\ heap' = heap \ {t}
    /\ UNCHANGED <<ufh, mnts, dents, fds, named, calls, writes>>

\* exportfs_decode_fh (external): a file, when the handle has its words and type.
Decodes(h) == /\ h.file # None
              /\ h.hdr.type = "ok"
              /\ Words(h.hdr.bytes) >= Need[h.file]

\* The handle is decoded and its copy freed.
OpenDecode(t) ==
    /\ pc[t] = "decode"
    /\ Decodes(handle[t])
    /\ dents' = dents + 1
    /\ heap' = heap \ {t}
    /\ pc' = [pc EXCEPT ![t] = "open"]
    /\ UNCHANGED <<ufh, want, f_handle, handle, mnts, fds, ret, named,
                   calls, writes>>

\* out_mnt: what cannot be decoded gives the mount back.
OpenStale(t) ==
    /\ pc[t] = "decode"
    /\ ~ Decodes(handle[t])
    /\ mnts' = mnts - 1
    /\ heap' = heap \ {t}
    /\ Return(t, "ESTALE")
    /\ UNCHANGED <<ufh, dents, fds, named, calls, writes>>

PathPutDentry == mnts' = mnts /\ dents' = dents - 1

\* path_put of the opener's path.
PathPut == mnts' = mnts - 1 /\ dents' = dents - 1

FreeFds == {n \in DOMAIN fds : fds[n] = None}

\* The lowest free descriptor is reserved; if there is none the path is put.
OpenFd(t) ==
    /\ pc[t] = "open"
    /\ FreeFds # {}
    /\ fds' = [fds EXCEPT ![Min(FreeFds)] = t]
    /\ pc' = [pc EXCEPT ![t] = "install"]
    /\ UNCHANGED <<ufh, want, f_handle, handle, heap, mnts, dents, ret, named, calls, writes>>

OpenNoFd(t) ==
    /\ pc[t] = "open"
    /\ FreeFds = {}
    /\ PathPut
    /\ Return(t, "EMFILE")
    /\ UNCHANGED <<ufh, heap, fds, named, calls, writes>>

Reserved(t) == CHOOSE n \in DOMAIN fds : fds[n] = t

\* The file is opened, with references of its own, and installed; the opener's
\* path is put.
OpenInstall(t) ==
    /\ pc[t] = "install"
    /\ fds' = [fds EXCEPT ![Reserved(t)] = handle[t].file]
    /\ UNCHANGED <<mnts, dents>>          \* the file's reference less the path's
    /\ Return(t, "ok")
    /\ UNCHANGED <<ufh, heap, named, calls, writes>>

\* file_open_root fails: the descriptor is given up, the path put.
OpenFails(t) ==
    /\ pc[t] = "install"
    /\ fds' = [fds EXCEPT ![Reserved(t)] = None]
    /\ PathPut
    /\ Return(t, "error")
    /\ UNCHANGED <<ufh, heap, named, calls, writes>>

\* The user closes a descriptor (external): the file's references go.
Close == /\ \E n \in DOMAIN fds : /\ fds[n] \in Files
                                  /\ fds' = [fds EXCEPT ![n] = None]
         /\ PathPut
         /\ UNCHANGED <<ufh, pc, want, f_handle, handle, heap, ret, named, calls, writes>>

Step(t) == \/ NameEncode(t) \/ NameNoMemory(t) \/ NameGive(t) \/ NameFaults(t)
           \/ OpenRefetch(t) \/ OpenRefused(t) \/ OpenMount(t) \/ OpenBadDir(t)
           \/ OpenDecode(t) \/ OpenStale(t) \/ OpenFd(t) \/ OpenNoFd(t)
           \/ OpenInstall(t) \/ OpenFails(t)

Next == \/ UserWrites \/ Close
        \/ \E t \in Threads : Step(t) \/ OpenFetch(t)
        \/ \E t \in Threads, f \in Files : NameFetch(t, f)

-----------------------------------------------------------------------------
TypeOK ==
    /\ ufh \in Handle
    /\ pc \in [Threads -> {"idle", "encode", "give", "refetch", "mount",
                           "decode", "open", "install"}]
    /\ want \in [Threads -> Files \cup {None}]
    /\ f_handle \in [Threads -> Header \cup {NoHeader}]
    /\ handle \in [Threads -> Handle \cup {NoHandle}]
    /\ heap \subseteq Threads
    /\ mnts \in Nat /\ dents \in Nat
    /\ fds \in [1..MaxFds -> Files \cup Threads \cup {None}]
    /\ named \in Files \cup {None}
    /\ calls \in 0..MaxCalls /\ writes \in 0..MaxWrites

Holding(where) == Cardinality({t \in Threads : pc[t] \in where})
OpenFiles == Cardinality({n \in DOMAIN fds : fds[n] \in Files})

\* References, memory and descriptors balance on every path out of the two
\* calls: what is held is what calls under way and installed files account for
\* (the error exits of handle_to_path, do_handle_to_path and do_handle_open).
Balanced ==
    /\ mnts  = Holding({"encode", "give", "decode", "open", "install"}) + OpenFiles
    /\ dents = Holding({"encode", "give", "open", "install"}) + OpenFiles
    /\ heap  = {t \in Threads : pc[t] \in {"give", "refetch", "mount", "decode"}}
    /\ \A t \in Threads : pc[t] = "install" <=> \E n \in DOMAIN fds : fds[n] = t

\* A handle name_to_handle_at gave, and nobody has written since, opens the
\* file it was asked for: a thread that fetched it twice decodes it to that
\* file, so the size and the type the first call stored are the ones the second
\* one's word count and decoder need.
RoundTrip == named # None => Decodes(ufh) /\ ufh.file = named /\ SizeOk(ufh.hdr)

\* After EOVERFLOW the user's header says how much room is needed: a call with
\* that header, for the same file, does not overflow again (the comment on
\* sys_name_to_handle_at: the field is updated to the minimum value required).
RetryStep == \A t \in Threads :
    ret[t] = "none" /\ ret'[t] = "EOVERFLOW" =>
        EncodeFh(want[t], Words(ufh'.hdr.bytes)).type = "ok"

\* The patched handle_to_path acts on the header it has checked.
Phase(t) == CASE pc[t] = "refetch" -> "checked"
              [] pc[t] \in {"mount", "decode", "open", "install"} -> "acts"
              [] OTHER -> "idle"
ActsOn(t) == CASE Phase(t) = "checked" -> f_handle[t]
               [] Phase(t) = "acts" -> handle[t].hdr
               [] OTHER -> NoHeader
=============================================================================
