---------------------------- MODULE MCExecveLog -----------------------------
(***************************************************************************)
(* Small instances of ExecveLog: one or two arguments of up to MaxLen + 1  *)
(* characters.                                                             *)
(***************************************************************************)
EXTENDS ExecveLog

Strings(n) == UNION {[1 .. m -> {"p", "c"}] : m \in 0 .. n}
MCArgvs == {<<s>> : s \in Strings(5)} \cup {<<s, t>> : s, t \in Strings(2)} \cup
           {<<s, <<"p">>>> : s \in [1 .. 4 -> {"p", "c"}]}
MCTitles == {<<>>, <<"p">>, <<"c">>, <<"c", "c">>, <<"p", "c", "p", "c", "c">>}
=============================================================================
