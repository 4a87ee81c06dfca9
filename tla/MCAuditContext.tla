--------------------------- MODULE MCAuditContext ---------------------------
(***************************************************************************)
(* Small instances of AuditContext: two file names, a directory with a     *)
(* watched tree above it, one preallocated entry, blocks of two.           *)
(***************************************************************************)
EXTENDS AuditContext

CONSTANTS f1, f2, k1, k2

\* Inode 1 is a directory, 2 a file in it; k1 watches 1, k2 the root.
MCDentries == {[ino |-> 1, name |-> f1, path |-> <<k1, NoChunk, k2>>],
               [ino |-> 2, name |-> f2, path |-> <<NoChunk, k1, k2>>]}

MCTasks == {[auditd |-> FALSE, groups |-> {0},
             call |-> [t \in CtxTypes \cup {"PERM", "OSID"} |-> IF t = "PERM" THEN {"write"} ELSE 0],
             val |-> [t \in TaskTypes \cup GroupTypes |-> 0]]}

Rule(prio, action, fields) ==
  [prio |-> prio, action |-> action, key |-> "none", mask |-> {1}, fields |-> fields]
F(type, op, val) == [type |-> type, op |-> op, val |-> val, with |-> "none"]

NoBuckets == [i \in {1, 2, Unset} |-> <<>>]

\* No rules; and rules of all lists, of several kinds of fields.
MCRuleSets ==
  {[task |-> <<>>, entry |-> <<>>, exit |-> <<>>, inode |-> NoBuckets],
   [task |-> <<Rule(10, "always", {F("GID", "equal", 0)})>>,
    entry |-> <<Rule(9, "always", {F("UID", "equal", 1)})>>,
    exit |-> <<Rule(8, "never", {F("FILETYPE", "equal", 0), F("OBJ_UID", "equal", 0), F("EXIT", "equal", 1)}),
               Rule(7, "never", {F("DIR", "equal", k1), F("SUCCESS", "equal", "success")}),
               Rule(5, "always", {F("OBJ", "equal", 0), F("ARCH", "equal", 0), F("FILTERKEY", "equal", 0)}),
               Rule(3, "never", {[type |-> "FIELD_COMPARE", op |-> "equal", val |-> "UID", with |-> "OBJ_UID"]})>>,
    inode |-> [NoBuckets EXCEPT ![2] = <<Rule(4, "never", {F("WATCH", "equal", 2)})>>,
                                ![1] = <<Rule(2, "always", {F("PERM", "equal", {"write"})})>>]]}
=============================================================================
