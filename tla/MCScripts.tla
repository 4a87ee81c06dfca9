----------------------------- MODULE MCScripts ------------------------------
(***************************************************************************)
(* Three files, two of them of one name; the tree that start.sh walks      *)
(* holds any of them, and the one in the middle is no source file.         *)
(***************************************************************************)
EXTENDS Scripts

CONSTANTS f1, f2, f3, a, b

MCFiles == {f1, f2, f3}
MCName == [f \in MCFiles |-> IF f = f3 THEN b ELSE a]
MCSources == {f1, f2}
MCTrees == {SelectSeq(<<f1, f3, f2>>, LAMBDA f : f \in S) : S \in SUBSET MCFiles}
=============================================================================
