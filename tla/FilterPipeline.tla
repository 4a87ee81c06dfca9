--------------------------- MODULE FilterPipeline ---------------------------
(***************************************************************************)
(* The two phases of the text-level filter on one file, as                 *)
(* text-filter/start.sh runs them: filter.py on the lines sed left, and,   *)
(* if that created a file in output/, filter2.py on this file.  Phase 2    *)
(* also meets files an earlier run left in output/, finished or cut short. *)
(*                                                                         *)
(* raw, from1 and from2 are history variables: the bodies phase 1 has      *)
(* read, as it read them, and where in them the lines of the two files are *)
(* from.  They let the output of the second phase be compared with what    *)
(* was in the source.                                                      *)
(***************************************************************************)
EXTENDS Filter1, FiniteSets

CONSTANTS
  SourceLines,   \* the lines the source may have
  OldFiles       \* files that may be left in output/

ASSUME SourceLinesAssumption == SourceLines \subseteq Line

\* All start with a path: it is the first line phase 1 writes.
ASSUME OldFilesAssumption ==
  \A f \in OldFiles : f \in Seq(Line \cup {OriginLine}) /\ Len(f) > 0 /\ f[1] = OriginLine

VARIABLES
  old,   \* the file of an earlier run phase 2 is started on, or <<>>
  \* filter2.py; the variables of filter.py are those of Filter1
  pc2, pos, curState2, decl2, list2, flags2, s1, s1_case_level, s1_case_index,
  s2, s2_case_level, s2_case_index, i2, out2,
  raw, from1, from2

vars2 == <<pc2, pos, curState2, decl2, list2, flags2, s1, s1_case_level, s1_case_index,
           s2, s2_case_level, s2_case_index, i2, out2>>
history == <<raw, from1, from2>>
pipelineVars == <<vars, vars2, old, history>>

infile2 == IF old # <<>> THEN old ELSE outfile

P2 == INSTANCE Filter2 WITH
        infile <- infile2, pc <- pc2, curState <- curState2, temp_funcDecl <- decl2, in_list <- list2,
        flags <- flags2, i <- i2, outfile <- out2

PipelineInit ==
  /\ Init /\ P2!Start /\ raw = <<>> /\ from1 = <<>> /\ from2 = <<>>
  /\ old \in OldFiles \cup {<<>>}

-----------------------------------------------------------------------------
(***************************************************************************)
(* A line is from <<m, k>>: from item k of the m-th body, the declaration  *)
(* being -1, the braces 0 and one more than the items; the path is from    *)
(* <<0, 0>>.                                                               *)
(***************************************************************************)
TextAt(r, p) ==
  IF p[1] = 0 THEN OriginLine
  ELSE IF p[2] = -1 THEN r[p[1]].decl
  ELSE IF p[2] = 0 THEN LeftLine
  ELSE IF p[2] > Len(r[p[1]].items) THEN RightLine
  ELSE r[p[1]].items[p[2]]

\* The lines a phase adds at a step, by what its writing loop is at: it opens a
\* file and a body, writes item k, or closes the body (k is one too many then).
Opens(from, path, decl, left) == (IF from = <<>> THEN <<path>> ELSE from) \o <<decl, left>>

From1 ==
  LET m == Len(raw)
  IN  IF pc = "process" /\ pc' = "write" THEN Opens(from1, <<0, 0>>, <<m, -1>>, <<m, 0>>)
      ELSE IF Len(outfile') > Len(outfile) THEN Append(from1, <<m, i>>)
      ELSE from1

\* The items of the body are the lines of the file before the last one read.
From2 ==
  LET left == pos - Len(list2) - 1
  IN  IF pc2 = "outer" /\ pc2' = "write" THEN Opens(from2, from1[1], from1[left - 1], from1[left])
      ELSE IF Len(out2') > Len(out2) THEN Append(from2, from1[left + i2])
      ELSE from2

\* scandir: phase 1.
Phase1 ==
  /\ old = <<>>
  /\ (\E line \in SourceLines : Read(line)) \/ Step
  /\ raw' = IF pc = "collect" /\ pc' # "collect"
              THEN Append(raw, [decl |-> temp_funcDecl, items |-> in_list])
              ELSE raw
  /\ from1' = From1
  /\ UNCHANGED <<vars2, old, from2>>

\* check_indentical: phase 2, on a file that exists.
Phase2 ==
  /\ pc = "done" \/ old # <<>>
  /\ infile2 # <<>>
  /\ UNCHANGED <<vars, old, raw, from1>>
  /\ P2!Next
  /\ from2' = IF old = <<>> THEN From2 ELSE from2

\* The script runs one program after the other and waits for each.
PipelineSpec ==
  PipelineInit /\ [][Phase1 \/ Phase2]_pipelineVars /\ WF_pipelineVars(Phase1 \/ Phase2)

-----------------------------------------------------------------------------
\* Where the lines are from that should be there of the first n bodies, if
\* keep[m] are the items to be kept of the m-th: nothing of a body without any,
\* of the others also the declaration, the braces and the path.
Marks(r, m) == {-1, 0, Len(r[m].items) + 1}
Due(r, keep, n) ==
  UNION {{<<0, 0>>} \cup {<<m, k>> : k \in keep[m] \cup Marks(r, m)} : m \in {b \in 1..n : keep[b] # {}}}

Before(p, q) == p[1] < q[1] \/ (p[1] = q[1] /\ p[2] < q[2])

\* The lines f are those of the positions P, in the order of the source.
IsText(r, f, from, P) ==
  /\ Len(from) = Len(f) /\ {from[j] : j \in 1..Len(from)} = P
  /\ \A j \in 1..Len(from) : f[j] = TextAt(r, from[j])
  /\ \A j, k \in 1..Len(from) : j < k => Before(from[j], from[k])

\* What the filter should say: the double fetches of each body.
Expected == Due(raw, [m \in 1..Len(raw) |-> P2!Fetches(raw[m].items)], Len(raw))

Ended == pc2 \in {"done", "crashed"} \/ (pc = "done" /\ outfile = <<>>)

(***************************************************************************)
(* The variables of filter2.py keep their types; in particular its flags   *)
(* stay within the current body.                                           *)
(***************************************************************************)
TypeOK2 == P2!TypeOK

(***************************************************************************)
(* On a file in the format of phase 1, finished or cut short, the double   *)
(* loop of process_skeleton flags exactly the double fetches of the body   *)
(* and their labels.                                                       *)
(***************************************************************************)
FlagsAreFetches == P2!FlagsAreFetches

(***************************************************************************)
(* process_skeleton runs over the end of a body only in a file of an       *)
(* earlier run that phase 1 has not finished, never in one that came       *)
(* through phase 1 just now.                                               *)
(***************************************************************************)
CrashNeedsUnfinishedFile == P2!CrashNeedsUnfinishedFile /\ (pc2 = "crashed" => old # <<>>)

(***************************************************************************)
(* From a well-formed file phase 2 writes a well-formed file, and once it  *)
(* is done a complete one, even if its input was cut short.                *)
(***************************************************************************)
Output2WellFormed == P2!OutputWellFormed

(***************************************************************************)
(* Phase 2 by itself: its double loop finds exactly the double fetches, it *)
(* fails on unfinished files only, and whatever it reads, what it has      *)
(* written is a well-formed file.                                          *)
(***************************************************************************)
Phase2Sound == TypeOK2 /\ FlagsAreFetches /\ CrashNeedsUnfinishedFile /\ Output2WellFormed

(***************************************************************************)
(* Filtering in two steps loses nothing: what phase 2 keeps of what        *)
(* phase 1 kept is exactly what the reference keeps of the bodies of the   *)
(* source file, line by line and in order, although phase 1 has removed    *)
(* items and labels in between and phase 2 infers sections from the labels *)
(* that are left.                                                          *)
(***************************************************************************)
EndToEnd == (Ended /\ old = <<>>) => IsText(raw, out2, from2, Expected)

(***************************************************************************)
(* "pick out all the identical transfer funcs" (filter2.py:193): whenever  *)
(* two complete transfer calls on one path are given the same pointer,     *)
(* both are flagged, whichever of the two functions each of them calls.    *)
(***************************************************************************)
IdenticalArePicked == P2!IdenticalArePicked

(***************************************************************************)
(* Every file gets through the phases it is given to, by finishing or by   *)
(* an exception, so the script gets to the files behind it.                *)
(***************************************************************************)
PipelineEnds == <>Ended
=============================================================================
