----------------------------- MODULE MCAuditLog -----------------------------
(* A small instance of AuditLog: a task that logs and a daemon. *)
EXTENDS AuditLog, TLC

CONSTANTS t1, d1

MCTasks == {t1, d1}
MCDaemons == {d1}

\* Before auditing is switched on, losses are fatal; and with a rate limit,
\* without a hold queue.
Booting ==
  [limit |-> 1, rate |-> FALSE, failure |-> "panic", default |-> TRUE, enabled |-> FALSE]
Limited ==
  [limit |-> 1, rate |-> TRUE, failure |-> "printk", default |-> FALSE, enabled |-> TRUE]
MCSettings == {Booting, Limited}
=============================================================================
