----------------------------- MODULE MCAuditCmd -----------------------------
(***************************************************************************)
(* Small instances of AuditCmd: an administrator and a service that may    *)
(* only write.                                                             *)
(***************************************************************************)
EXTENDS AuditCmd

MCCaps == [c \in Clients |-> IF c = 1 THEN {"init_ns", "CONTROL", "WRITE"} ELSE {"init_ns", "CONTROL"}]

M(type) == [type |-> type, ack |-> TRUE]
Status(mask, enabled, failure, pid) ==
  [type |-> "SET", ack |-> FALSE, mask |-> mask, enabled |-> enabled, failure |-> failure, pid |-> pid,
   rate_limit |-> 1, backlog_limit |-> 1, backlog_wait_time |-> 7, len |-> 40]
FeatureSet(features, lock) ==
  [type |-> "SET_FEATURE", ack |-> TRUE, mask |-> Features \cup {"unknown"}, features |-> features, lock |-> lock]

MCSkbs ==
  {<<M("GET"), M("USER"), M("ADD_RULE")>>,
   <<Status({"enabled", "failure", "backlog_limit"}, 2, 1, 0)>>,
   <<Status({"pid", "rate_limit", "backlog_wait_time"}, 0, 0, 1)>>,
   <<Status({"pid", "enabled", "failure"}, 1, 3, 0), M("LIST_RULES"), M("MAKE_EQUIV")>>,
   <<FeatureSet({"IMMUTABLE"}, {"IMMUTABLE"}), M("DEL_RULE"), M("LIST")>>,
   <<FeatureSet({"ONLY_UNSET", "unknown"}, {}), M("SIGNAL_INFO"), M("USER_TTY")>>}
=============================================================================
