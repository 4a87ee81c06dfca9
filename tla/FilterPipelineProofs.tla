------------------------ MODULE FilterPipelineProofs ------------------------
(***************************************************************************)
(* Proofs about each phase of the text-level filter by itself, for sources *)
(* and files of any length and any sets of declarations and calls: first   *)
(* phase 1 (the specification of Filter1), then phase 2 on what phase 1    *)
(* has just written and on files left by earlier runs (FilterPipeline);    *)
(* and that the two together keep exactly the double fetches of the        *)
(* source, line by line.                                                   *)
(***************************************************************************)
EXTENDS FilterPipeline, SequenceTheorems, WellFoundedInduction, TLAPS

-----------------------------------------------------------------------------
(***************************************************************************)
(* What one more item does to the reference.                               *)
(***************************************************************************)

\* The lengths around one.
LEMMA AroundOne ==
  \A n \in Nat : /\ n >= 1 /\ n # 1 => n > 1 /\ 2 \in 1..n
                 /\ n # 0 /\ ~(n > 1) => n = 1
                 /\ n >= 3 => n # 1 /\ n >= 1
OBVIOUS

\* identify gives a line one class only.
LEMMA Classes ==
  ASSUME NEW x, IsItem(x)
  PROVE  IsTrans(x) <=> ~IsCase(x)
BY DEF IsItem, IsTrans, IsCase

\* A label adds nothing to what is kept of the items before it.
LEMMA KeptStepCase ==
  ASSUME NEW L, NEW n \in Nat, IsCase(L[n + 1])
  PROVE  KeptUpTo(L, n + 1) = KeptUpTo(L, n)
<1>1. ~IsTrans(L[n + 1])
  BY DEF IsTrans, IsCase
<1>2. PairedUpTo(L, n + 1) = PairedUpTo(L, n)
  BY <1>1 DEF PairedUpTo, Pair
<1> QED
  BY <1>2 DEF KeptUpTo, LabelOf, PairedUpTo

\* In a body that starts with a transfer, a transfer adds the first item,
\* itself and its label.
LEMMA KeptStepPair ==
  ASSUME NEW L, NEW n \in Nat, n >= 1,
         IsTrans(L[1]), IsTrans(L[n + 1])
  PROVE  KeptUpTo(L, n + 1) = KeptUpTo(L, n) \cup {1, n + 1} \cup
                              {c \in 1..n : LabelOf(L, c, n + 1)}
<1> DEFINE S == {c \in 1..n : LabelOf(L, c, n + 1)}
<1>1. ~IsCase(L[1]) /\ ~IsCase(L[n + 1])
  BY DEF IsTrans, IsCase
<1>2. NoCase(L, 1, 1)
  BY <1>1 DEF NoCase
<1>3. Pair(L, 1, n + 1)
  BY <1>2 DEF Pair, SamePath
<1>4. ASSUME NEW a \in 2..n, IsTrans(L[a]) PROVE a \in PairedUpTo(L, n)
  BY <1>2, <1>4 DEF PairedUpTo, Pair, SamePath
<1>5. PairedUpTo(L, n + 1) = PairedUpTo(L, n) \cup {1, n + 1}
  BY <1>3, <1>4 DEF PairedUpTo, Pair
<1>6. \A c \in 1..(n + 1) : ~LabelOf(L, c, 1)
  BY DEF LabelOf
<1>7. \A c \in 1..(n + 1) : LabelOf(L, c, n + 1) <=> c \in S
  BY DEF LabelOf
<1>8. \A j \in PairedUpTo(L, n) : j \in 1..n
  BY DEF PairedUpTo
<1>9. \A j \in PairedUpTo(L, n) : ~LabelOf(L, n + 1, j)
  BY <1>8 DEF LabelOf
<1> QED
  BY <1>5, <1>6, <1>7, <1>9, SMT DEF KeptUpTo

\* In a body that starts with a label, the second transfer of a section
\* adds the whole section; the first one adds nothing.
LEMMA KeptStepCount ==
  ASSUME NEW L, NEW n \in Nat, NEW c \in 1..n,
         IsCase(L[1]), IsTrans(L[n + 1]),
         IsCase(L[c]), NoCase(L, c + 1, n),
         \A k \in 1..n : IsItem(L[k])
  PROVE  KeptUpTo(L, n + 1) =
           IF c < n THEN KeptUpTo(L, n) \cup c..(n + 1) ELSE KeptUpTo(L, n)
<1>1. ~IsCase(L[n + 1])
  BY DEF IsTrans, IsCase
<1>2. \A k \in (c + 1)..n : IsTrans(L[k])
  BY Classes DEF NoCase
<1>3. \A a \in 1..n : Pair(L, a, n + 1) <=> a \in (c + 1)..n
  <2> TAKE a \in 1..n
  <2>1. CASE a \in (c + 1)..n
    <3>1. NoCase(L, a + 1, n + 1)
      BY <1>1, <2>1 DEF NoCase
    <3> QED
      BY <1>2, <2>1, <3>1 DEF Pair, SamePath
  <2>2. CASE a = c
    BY <2>2 DEF Pair, IsTrans, IsCase
  <2>3. CASE a < c
    <3>1. ~NoCase(L, a + 1, n + 1)
      BY <2>3 DEF NoCase
    <3>2. ~NoCase(L, 1, a)
      BY DEF NoCase
    <3> QED
      BY <2>3, <3>1, <3>2 DEF Pair, SamePath
  <2> QED
    BY <2>1, <2>2, <2>3
<1>4. PairedUpTo(L, n + 1) =
        IF c < n THEN PairedUpTo(L, n) \cup (c + 1)..(n + 1) ELSE PairedUpTo(L, n)
  BY <1>3 DEF PairedUpTo
<1>5. ASSUME NEW j \in (c + 1)..(n + 1), NEW k \in 1..(n + 1)
      PROVE  LabelOf(L, k, j) <=> k = c
  <2>1. NoCase(L, c + 1, n + 1)
    BY <1>1 DEF NoCase
  <2> QED
    BY <2>1 DEF LabelOf, NoCase
<1>6. \A j \in PairedUpTo(L, n) : j \in 1..n /\ ~LabelOf(L, n + 1, j)
  BY DEF PairedUpTo, LabelOf
<1>7. CASE c = n
  BY <1>4, <1>6, <1>7 DEF KeptUpTo
<1>8. CASE c < n
  <2>1. PairedUpTo(L, n + 1) = PairedUpTo(L, n) \cup (c + 1)..(n + 1)
    BY <1>4, <1>8
  <2>2. n + 1 \in (c + 1)..(n + 1)
    BY <1>8
  <2> QED
    BY <1>5, <1>6, <1>8, <2>1, <2>2 DEF KeptUpTo
<1> QED
  BY <1>7, <1>8

-----------------------------------------------------------------------------
(***************************************************************************)
(* The inductive invariant.                                                *)
(***************************************************************************)

\* TypeOK in two parts: different provers handle them.
BooleansOK == eof \in BOOLEAN /\ incase \in BOOLEAN
ValuesOK ==
  /\ pc \in {"main", "collect", "process", "write", "done"}
  /\ nread \in 0..MaxLines
  /\ curState \in 0..3
  /\ temp_funcDecl \in Line \cup {NoDecl}
  /\ in_list \in Seq(Line)
  /\ flags \in SUBSET (1..Len(in_list))
  /\ i \in Nat
  /\ last_case \in Nat
  /\ case_counter \in Nat
  /\ outfile \in Seq(Line \cup {OriginLine})

\* What pc says of the lists and the index.
PhaseInv ==
  /\ \A k \in 1..Len(in_list) : IsItem(in_list[k])
  /\ pc \in {"main", "done"} => in_list = <<>> /\ flags = {}
  /\ pc = "collect" => in_list # <<>> /\ flags = {}
  /\ pc \in {"process", "write"} => Len(in_list) > 1
  /\ pc = "process" => i \in 2..(Len(in_list) + 1)
  /\ pc = "write" => i \in 1..(Len(in_list) + 1)

\* c is the label of the section that item n belongs to.
Section(L, c, n) == c \in 1..n /\ IsCase(L[c]) /\ NoCase(L, c + 1, n)

\* process_list's variables describe the section of the item before i.
LoopInv ==
  pc = "process" =>
    /\ flags = KeptUpTo(in_list, i - 1)
    /\ IsTrans(in_list[1]) =>
         IF incase THEN Section(in_list, last_case, i - 1)
                   ELSE NoCase(in_list, 1, i - 1)
    /\ IsCase(in_list[1]) =>
         /\ Section(in_list, last_case, i - 1)
         /\ case_counter = (i - 1) - last_case

\* While a body is written, flags is what process_list returned.
FlagsInv == pc = "write" => flags = Kept(in_list) /\ flags # {}

\* Inside a body a declaration has been read.
DeclInv ==
  /\ identify(temp_funcDecl) = "funcDecl"
  /\ (curState # 0 \/ pc \in {"collect", "process", "write"}) => temp_funcDecl \in Line

\* The last line written is the brace or the last flagged item before i.
LastLine(f) == f[Len(f)]
NoFlag(m, n) == \A k \in m..n : k \notin flags
OutInv ==
  /\ WellFormed(outfile)
  /\ pc # "write" => Complete(outfile)
  /\ pc = "write" =>
       /\ Len(outfile) >= 3
       /\ \/ LastLine(outfile) = LeftLine /\ NoFlag(1, i - 1)
          \/ \E m \in 1..(i - 1) : /\ m \in flags
                                  /\ LastLine(outfile) = in_list[m]
                                  /\ NoFlag(m + 1, i - 1)

IInv == BooleansOK /\ ValuesOK /\ PhaseInv /\ LoopInv /\ FlagsInv /\ DeclInv /\ OutInv

-----------------------------------------------------------------------------
\* The program starts with an empty body and no output.
LEMMA InitInv == Init => IInv
<1> SUFFICES ASSUME Init PROVE IInv
  OBVIOUS
<1>1. BooleansOK
  BY Zenon DEF Init, BooleansOK
<1>2. ValuesOK
  BY MaxLinesAssumption DEF Init, ValuesOK
<1>3. PhaseInv /\ LoopInv /\ FlagsInv
  BY DEF Init, PhaseInv, LoopInv, FlagsInv
<1>4. DeclInv
  BY DEF Init, DeclInv, NoDecl, identify, Trans, Cases
<1>5. OutInv
  BY DEF Init, OutInv, WellFormed, Complete
<1> QED
  BY <1>1, <1>2, <1>3, <1>4, <1>5 DEF IInv

\* Nothing is kept of a body before its second item is looked at.
LEMMA KeptOfOne ==
  ASSUME NEW L PROVE KeptUpTo(L, 1) = {}
<1>1. PairedUpTo(L, 1) = {}
  BY DEF PairedUpTo
<1> QED
  BY <1>1 DEF KeptUpTo

\* The two Boolean variables are only assigned constants.
LEMMA BooleanStep == BooleansOK /\ [Next]_vars => BooleansOK'
BY Zenon DEF BooleansOK, Next, Read, Step, vars, readVars, loopVars,
     ReadDecl, ReadRight, ReadLeft, ReadFirstItem, ReadIgnored, ReadEof,
     CollectItem, CollectIgnored, CollectRight, CollectEof, EndOfBody, ResetBuffers,
     PairTrans, PairCase, CountTrans, CountCase, OpenBody, DropBody, WriteItem, CloseBody

\* An opened file is a file that is not empty.
LEMMA OpenedType ==
  ASSUME NEW A, OriginLine \in A, NEW f \in Seq(A)
  PROVE  Opened(f) \in Seq(A) /\ Len(Opened(f)) >= 1
<1>1. CASE f = <<>>
  <2>1. Opened(f) = <<OriginLine>>
    BY <1>1 DEF Opened
  <2> QED
    BY <2>1
<1>2. CASE f # <<>>
  BY <1>2 DEF Opened
<1> QED
  BY <1>1, <1>2

\* A line can be read only within the bound on the file.
LEMMA ReadLineBound == ValuesOK /\ ReadLine => nread' \in 0..MaxLines
<1>1. ReadLine => nread < MaxLines /\ nread' = nread + 1
  BY Zenon DEF ReadLine
<1> QED
  BY <1>1, MaxLinesAssumption DEF ValuesOK

\* ValuesOK, PhaseInv, LoopInv and FlagsInv, action by action.
LEMMA CoreStep ==
  ASSUME ValuesOK, PhaseInv, LoopInv, FlagsInv, DeclInv, [Next]_vars
  PROVE  ValuesOK' /\ PhaseInv' /\ LoopInv' /\ FlagsInv'
<1> USE MaxLinesAssumption
<1>1. ASSUME NEW line \in Line, ReadDecl(line) \/ ReadRight(line) \/ ReadLeft(line) \/ ReadIgnored(line)
      PROVE  ValuesOK' /\ PhaseInv' /\ LoopInv' /\ FlagsInv'
  <2>1. /\ ReadLine /\ pc = "main"
        /\ UNCHANGED <<pc, in_list, loopVars, outfile>>
        /\ curState' = 0 \/ curState' = 1 \/ curState' = 2 \/ curState' = curState
        /\ temp_funcDecl' = line \/ temp_funcDecl' = temp_funcDecl
    BY <1>1, Zenon DEF ReadDecl, ReadRight, ReadLeft, ReadIgnored
  <2>2. nread' \in 0..MaxLines
    BY <2>1, ReadLineBound
  <2> QED
    BY <2>1, <2>2 DEF ValuesOK, PhaseInv, LoopInv, FlagsInv, loopVars
<1>2. ASSUME NEW line \in Line, ReadFirstItem(line)
      PROVE  ValuesOK' /\ PhaseInv' /\ LoopInv' /\ FlagsInv'
  <2>1. nread' \in 0..MaxLines
    BY <1>2, ReadLineBound DEF ReadFirstItem
  <2> QED
    BY <1>2, <2>1 DEF ValuesOK, PhaseInv, LoopInv, FlagsInv, ReadFirstItem, loopVars
<1>3. ASSUME NEW line \in Line, CollectItem(line) \/ CollectIgnored(line)
      PROVE  ValuesOK' /\ PhaseInv' /\ LoopInv' /\ FlagsInv'
  <2>1. ReadLine
    BY <1>3 DEF CollectItem, CollectIgnored
  <2>2. nread' \in 0..MaxLines
    BY <2>1, ReadLineBound
  <2>3. CASE CollectItem(line)
    BY <2>2, <2>3 DEF ValuesOK, PhaseInv, LoopInv, FlagsInv, CollectItem, loopVars
  <2>4. CASE CollectIgnored(line)
    BY <2>2, <2>4 DEF ValuesOK, PhaseInv, LoopInv, FlagsInv, CollectIgnored, loopVars
  <2> QED
    BY <1>3, <2>3, <2>4
<1>4. ASSUME pc = "collect", EndOfBody,
             nread' \in 0..MaxLines, curState' \in 0..3,
             UNCHANGED <<temp_funcDecl, outfile>>
      PROVE  ValuesOK' /\ PhaseInv' /\ LoopInv' /\ FlagsInv'
  <2>1. CASE Len(in_list) > 1
    <3>1. ValuesOK'
      BY <1>4, <2>1 DEF ValuesOK, EndOfBody
    <3>2. PhaseInv' /\ FlagsInv'
      BY <1>4, <2>1 DEF ValuesOK, PhaseInv, FlagsInv, EndOfBody
    <3>3. LoopInv'
      <4>1. flags' = KeptUpTo(in_list, 1)
        BY <1>4, <2>1, KeptOfOne DEF EndOfBody
      <4> QED
        BY <1>4, <2>1, <4>1 DEF ValuesOK, PhaseInv, LoopInv, EndOfBody, Section, NoCase,
                                IsItem, IsTrans, IsCase
    <3> QED
      BY <3>1, <3>2, <3>3
  <2>2. CASE ~(Len(in_list) > 1)
    <3>1. pc' = "main" /\ ResetBuffers
      BY <1>4, <2>2 DEF EndOfBody
    <3>2. ValuesOK'
      BY <1>4, <3>1 DEF ValuesOK, ResetBuffers
    <3> QED
      BY <3>1, <3>2 DEF PhaseInv, LoopInv, FlagsInv, ResetBuffers
  <2> QED
    BY <2>1, <2>2
<1>5. ASSUME NEW line \in Line, CollectRight(line)
      PROVE  ValuesOK' /\ PhaseInv' /\ LoopInv' /\ FlagsInv'
  <2>1. pc = "collect" /\ EndOfBody /\ UNCHANGED <<temp_funcDecl, outfile>>
    BY <1>5 DEF CollectRight
  <2>2. ReadLine /\ curState' = 0
    BY <1>5, Zenon DEF CollectRight
  <2>3. nread' \in 0..MaxLines /\ curState' \in 0..3
    BY <2>2, ReadLineBound
  <2> QED
    BY <1>4, <2>1, <2>3
<1>6. CASE CollectEof
  <2>1. pc = "collect" /\ EndOfBody /\ UNCHANGED <<temp_funcDecl, outfile>>
    BY <1>6 DEF CollectEof
  <2>2. nread' \in 0..MaxLines /\ curState' \in 0..3
    BY <1>6 DEF CollectEof, ValuesOK
  <2> QED
    BY <1>4, <2>1, <2>2
<1>7. CASE ReadEof
  BY <1>7 DEF ValuesOK, PhaseInv, LoopInv, FlagsInv, ReadEof, loopVars
<1>8. CASE PairTrans
  <2> DEFINE n == i - 1
  <2>1. n \in Nat /\ n >= 1 /\ n + 1 = i /\ i \in 1..Len(in_list) /\ pc = "process"
    BY <1>8 DEF PairTrans, Processing, PhaseInv, ValuesOK
  <2>2. IsTrans(in_list[1]) /\ IsTrans(in_list[n + 1])
    BY <1>8, <2>1 DEF PairTrans
  <2>3. {c \in 1..n : LabelOf(in_list, c, n + 1)} = IF incase THEN {last_case} ELSE {}
    <3>1. ~IsCase(in_list[n + 1])
      BY <2>2 DEF IsTrans, IsCase
    <3> QED
      BY <2>1, <2>2, <3>1 DEF LoopInv, Section, NoCase, LabelOf, ValuesOK
  <2>4. KeptUpTo(in_list, n + 1) =
          KeptUpTo(in_list, n) \cup {1, n + 1} \cup {c \in 1..n : LabelOf(in_list, c, n + 1)}
    BY <2>1, <2>2, KeptStepPair
  <2>5. flags' = KeptUpTo(in_list, i)
    BY <1>8, <2>1, <2>3, <2>4 DEF PairTrans, LoopInv
  <2>6. last_case \in 1..Len(in_list) \/ ~incase
    BY <2>1, <2>2 DEF LoopInv, Section, ValuesOK, PhaseInv
  <2>7. ValuesOK'
    BY <1>8, <2>1, <2>6 DEF ValuesOK, PairTrans, readVars
  <2>8. PhaseInv' /\ FlagsInv'
    BY <1>8, <2>1 DEF ValuesOK, PhaseInv, FlagsInv, PairTrans, readVars
  <2>9. LoopInv'
    <3>1. ~IsCase(in_list[1]) /\ ~IsCase(in_list[i])
      BY <2>1, <2>2 DEF IsTrans, IsCase
    <3> QED
      BY <1>8, <2>1, <2>2, <2>5, <3>1 DEF ValuesOK, LoopInv, PairTrans, Section, NoCase
  <2> QED
    BY <2>7, <2>8, <2>9
<1>9. CASE PairCase
  <2>1. i - 1 \in Nat /\ i \in 1..Len(in_list) /\ pc = "process"
    BY <1>9 DEF PairCase, Processing, PhaseInv, ValuesOK
  <2>2. KeptUpTo(in_list, (i - 1) + 1) = KeptUpTo(in_list, i - 1)
    <3>1. IsCase(in_list[(i - 1) + 1])
      BY <1>9, <2>1 DEF PairCase, ValuesOK
    <3> QED
      BY <2>1, <3>1, KeptStepCase
  <2>3. ValuesOK'
    BY <1>9, <2>1 DEF ValuesOK, PairCase, readVars
  <2>4. PhaseInv' /\ FlagsInv'
    BY <1>9, <2>1 DEF ValuesOK, PhaseInv, FlagsInv, PairCase, readVars
  <2>5. LoopInv'
    <3>1. ~IsCase(in_list[1])
      BY <1>9 DEF PairCase, IsTrans, IsCase
    <3>2. (i - 1) + 1 = i /\ i' - 1 = i
      BY <1>9, <2>1 DEF PairCase, ValuesOK
    <3> QED
      BY <1>9, <2>1, <2>2, <3>1, <3>2 DEF ValuesOK, LoopInv, PairCase, Section, NoCase
  <2> QED
    BY <2>3, <2>4, <2>5
<1>10. CASE CountTrans
  <2> DEFINE n == i - 1
  <2>1. n \in Nat /\ n >= 1 /\ n + 1 = i /\ i \in 1..Len(in_list) /\ pc = "process"
    BY <1>10 DEF CountTrans, Processing, PhaseInv, ValuesOK
  <2>2. IsCase(in_list[1]) /\ IsTrans(in_list[n + 1]) /\ ~IsTrans(in_list[1])
    BY <1>10, <2>1 DEF CountTrans, IsTrans, IsCase
  <2>3. last_case \in 1..n /\ IsCase(in_list[last_case]) /\ NoCase(in_list, last_case + 1, n)
        /\ case_counter = n - last_case
    BY <2>1, <2>2 DEF LoopInv, Section
  <2>4. \A k \in 1..n : IsItem(in_list[k])
    BY <2>1 DEF PhaseInv, ValuesOK
  <2>5. KeptUpTo(in_list, n + 1) =
           IF last_case < n THEN KeptUpTo(in_list, n) \cup last_case..(n + 1)
                            ELSE KeptUpTo(in_list, n)
    BY <2>1, <2>2, <2>3, <2>4, KeptStepCount
  <2>6. flags' = KeptUpTo(in_list, i)
    BY <1>10, <2>1, <2>3, <2>5 DEF CountTrans, LoopInv
  <2>7. ValuesOK'
    BY <1>10, <2>1, <2>3 DEF ValuesOK, CountTrans, readVars
  <2>8. PhaseInv' /\ FlagsInv'
    BY <1>10, <2>1 DEF ValuesOK, PhaseInv, FlagsInv, CountTrans, readVars
  <2>9. LoopInv'
    <3>1. ~IsCase(in_list[i])
      BY <2>1, <2>2 DEF IsTrans, IsCase
    <3> QED
      BY <1>10, <2>1, <2>2, <2>3, <2>6, <3>1
         DEF ValuesOK, LoopInv, CountTrans, Section, NoCase
  <2> QED
    BY <2>7, <2>8, <2>9
<1>11. CASE CountCase
  <2>1. i - 1 \in Nat /\ i \in 1..Len(in_list) /\ pc = "process"
    BY <1>11 DEF CountCase, Processing, PhaseInv, ValuesOK
  <2>2. KeptUpTo(in_list, (i - 1) + 1) = KeptUpTo(in_list, i - 1)
    <3>1. IsCase(in_list[(i - 1) + 1])
      BY <1>11, <2>1 DEF CountCase, ValuesOK
    <3> QED
      BY <2>1, <3>1, KeptStepCase
  <2>3. ValuesOK'
    BY <1>11, <2>1 DEF ValuesOK, CountCase, readVars
  <2>4. PhaseInv' /\ FlagsInv'
    BY <1>11, <2>1 DEF ValuesOK, PhaseInv, FlagsInv, CountCase, readVars
  <2>5. LoopInv'
    <3>1. ~IsTrans(in_list[1])
      BY <1>11 DEF CountCase, IsTrans, IsCase
    <3>2. (i - 1) + 1 = i /\ i' - 1 = i
      BY <1>11, <2>1 DEF CountCase, ValuesOK
    <3> QED
      BY <1>11, <2>1, <2>2, <3>1, <3>2 DEF ValuesOK, LoopInv, CountCase, Section, NoCase
  <2> QED
    BY <2>3, <2>4, <2>5
<1>12. CASE OpenBody
  <2>1. pc = "process" /\ i - 1 = Len(in_list)
    BY <1>12 DEF OpenBody, Processed, PhaseInv, ValuesOK
  <2>2. temp_funcDecl \in Line /\ LeftLine \in Line
    BY <2>1 DEF DeclInv, LeftLine, Line
  <2>3. outfile' \in Seq(Line \cup {OriginLine})
    <3> DEFINE A == Line \cup {OriginLine}
    <3>1. Opened(outfile) \in Seq(A) /\ temp_funcDecl \in A /\ LeftLine \in A
      BY <2>2, OpenedType DEF ValuesOK
    <3> HIDE DEF A
    <3>2. Append(Append(Opened(outfile), temp_funcDecl), LeftLine) \in Seq(A)
      BY <3>1
    <3> QED
      BY <1>12, <3>2 DEF OpenBody, A
  <2>4. ValuesOK'
    BY <1>12, <2>3 DEF ValuesOK, OpenBody, readVars
  <2>5. FlagsInv'
    BY <1>12, <2>1 DEF OpenBody, FlagsInv, LoopInv, Kept
  <2> QED
    BY <1>12, <2>1, <2>4, <2>5 DEF OpenBody, PhaseInv, LoopInv, ValuesOK, readVars
<1>13. CASE DropBody
  BY <1>13 DEF DropBody, Processed, ResetBuffers, ValuesOK, PhaseInv, LoopInv, FlagsInv, readVars
<1>14. CASE WriteItem
  BY <1>14 DEF WriteItem, ValuesOK, PhaseInv, LoopInv, FlagsInv, readVars
<1>15. CASE CloseBody
  <2>1. RightLine \in Line
    BY DEF RightLine, Line
  <2> QED
    BY <1>15, <2>1 DEF CloseBody, ResetBuffers, ValuesOK, PhaseInv, LoopInv, FlagsInv, readVars
<1>16. CASE UNCHANGED vars
  BY <1>16 DEF vars, readVars, loopVars, ValuesOK, PhaseInv, LoopInv, FlagsInv
<1> QED
  BY <1>1, <1>2, <1>3, <1>5, <1>6, <1>7, <1>8, <1>9, <1>10, <1>11, <1>12, <1>13,
     <1>14, <1>15, <1>16 DEF Next, Read, Step

-----------------------------------------------------------------------------
(***************************************************************************)
(* The format of the output.                                               *)
(***************************************************************************)

\* A line that may follow the last one keeps a file well formed.
LEMMA WellFormedAppend ==
  ASSUME NEW A, NEW f \in Seq(A), NEW x \in A, Len(f) >= 1, WellFormed(f),
         IF Len(f) = 1 THEN identify(x) = "funcDecl" ELSE MayFollow(LastLine(f), x)
  PROVE  WellFormed(Append(f, x)) /\ LastLine(Append(f, x)) = x /\ Len(Append(f, x)) = Len(f) + 1
<1> DEFINE g == Append(f, x)
<1>1. Len(g) = Len(f) + 1 /\ g[Len(f) + 1] = x /\ Len(f) \in Nat /\ Len(f) >= 1
  OBVIOUS
<1>2. \A k \in 1..Len(f) : g[k] = f[k]
  OBVIOUS
<1> HIDE DEF g
<1>3. g[1] = OriginLine
  BY <1>1, <1>2 DEF WellFormed
<1>4. identify(g[2]) = "funcDecl"
  <2>1. CASE Len(f) = 1
    <3>0. Len(f) + 1 = 2
      BY <2>1
    <3>1. g[2] = x
      BY <1>1, <3>0
    <3> QED
      BY <2>1, <3>1
  <2>2. CASE Len(f) # 1
    <3>0. Len(f) > 1 /\ 2 \in 1..Len(f)
      BY <1>1, <2>2, AroundOne
    <3>1. g[2] = f[2] /\ Len(f) > 1
      BY <1>2, <3>0
    <3> QED
      BY <3>1 DEF WellFormed
  <2> QED
    BY <2>1, <2>2
<1>5. ASSUME NEW k \in 2..(Len(g) - 1) PROVE MayFollow(g[k], g[k + 1])
  <2>1. CASE k = Len(f)
    BY <1>1, <1>2, <2>1 DEF LastLine
  <2>2. CASE k # Len(f)
    BY <1>1, <1>2, <2>2 DEF WellFormed
  <2> QED
    BY <2>1, <2>2
<1>6. WellFormed(g) /\ LastLine(g) = x
  BY <1>1, <1>3, <1>4, <1>5 DEF WellFormed, LastLine
<1> QED
  BY <1>1, <1>6 DEF g

\* A label that is kept is kept with the transfer that follows it.
LEMMA KeptLabel ==
  ASSUME NEW L, NEW n \in Nat, \A k \in 1..n : IsItem(L[k]),
         NEW c \in KeptUpTo(L, n), IsCase(L[c])
  PROVE  c + 1 \in KeptUpTo(L, n) /\ IsTrans(L[c + 1])
<1>1. c \notin PairedUpTo(L, n)
  BY DEF PairedUpTo, Pair, IsTrans, IsCase
<1>2. PICK j \in PairedUpTo(L, n) : LabelOf(L, c, j)
  BY <1>1 DEF KeptUpTo
<1>3. c \in 1..n /\ j \in 1..n /\ c < j /\ NoCase(L, c + 1, j)
  BY <1>1, <1>2 DEF KeptUpTo, PairedUpTo, LabelOf
<1>4. IsTrans(L[c + 1]) /\ IsTrans(L[j])
  BY <1>3, Classes DEF NoCase
<1>5. CASE j = c + 1
  BY <1>4, <1>5 DEF KeptUpTo
<1>6. CASE c + 1 < j
  <2>1. Pair(L, c + 1, j)
    BY <1>3, <1>4, <1>6 DEF Pair, SamePath, NoCase
  <2>2. c + 1 \in PairedUpTo(L, n)
    BY <1>3, <1>6, <2>1 DEF PairedUpTo
  <2> QED
    BY <1>4, <2>2 DEF KeptUpTo
<1> QED
  BY <1>3, <1>5, <1>6

\* The same, of the flags of a body that is being written.
LEMMA FlaggedLabel ==
  ASSUME ValuesOK, PhaseInv, FlagsInv, pc = "write", NEW m \in flags, IsCase(in_list[m])
  PROVE  m + 1 \in flags /\ IsTrans(in_list[m + 1])
<1>1. Len(in_list) \in Nat /\ \A k \in 1..Len(in_list) : IsItem(in_list[k])
  BY DEF ValuesOK, PhaseInv
<1>2. flags = KeptUpTo(in_list, Len(in_list))
  BY DEF FlagsInv, Kept
<1> QED
  BY <1>1, <1>2, KeptLabel

\* The classes of the braces.
LEMMA Braces ==
  /\ identify(LeftLine) = "{" /\ identify(RightLine) = "}"
  /\ LeftLine \in Line /\ RightLine \in Line
BY DEF LeftLine, RightLine, identify, Trans, Cases, Line

\* A body is attributed to the declaration read before its brace.
LEMMA DeclStep ==
  ASSUME ValuesOK, DeclInv, [Next]_vars PROVE DeclInv'
<1>1. ASSUME NEW line \in Line, Read(line) PROVE DeclInv'
  <2>1. CASE ReadDecl(line)
    BY <2>1 DEF DeclInv, ReadDecl
  <2>2. CASE ReadRight(line) \/ ReadLeft(line) \/ ReadFirstItem(line) \/ ReadIgnored(line)
    <3>1. UNCHANGED temp_funcDecl /\ (curState = 0 => curState' = 0 /\ pc' = pc)
      <4>1. CASE ReadRight(line)
        BY <4>1 DEF ReadRight
      <4>2. CASE ReadLeft(line)
        BY <4>2 DEF ReadLeft
      <4>3. CASE ReadFirstItem(line)
        BY <4>3 DEF ReadFirstItem
      <4>4. CASE ReadIgnored(line)
        BY <4>4, Zenon DEF ReadIgnored
      <4> QED
        BY <2>2, <4>1, <4>2, <4>3, <4>4
    <3> QED
      BY <3>1 DEF DeclInv
  <2>3. CASE CollectItem(line) \/ CollectIgnored(line) \/ CollectRight(line)
    BY <2>3 DEF DeclInv, CollectItem, CollectIgnored, CollectRight
  <2> QED
    BY <1>1, <2>1, <2>2, <2>3 DEF Read
<1>2. CASE Step
  BY <1>2 DEF DeclInv, Step, ReadEof, CollectEof, PairTrans, PairCase, CountTrans,
              CountCase, OpenBody, DropBody, WriteItem, CloseBody, Processing, Processed,
              readVars
<1>3. CASE UNCHANGED vars
  BY <1>3 DEF DeclInv, vars, readVars
<1> QED
  BY <1>1, <1>2, <1>3 DEF Next

\* What is written keeps the format, action by action: only OpenBody,
\* WriteItem and CloseBody write.
LEMMA OutStep ==
  ASSUME ValuesOK, PhaseInv, FlagsInv, DeclInv, OutInv, [Next]_vars
  PROVE  OutInv'
<1>1. ASSUME UNCHANGED outfile, pc # "write", pc' # "write" PROVE OutInv'
  BY <1>1 DEF OutInv
<1>2. ASSUME NEW line \in Line, Read(line) PROVE OutInv'
  <2>1. UNCHANGED outfile /\ pc \in {"main", "collect"} /\ pc' \in {"main", "collect", "process"}
    BY <1>2, Zenon DEF Read, ReadDecl, ReadRight, ReadLeft, ReadFirstItem, ReadIgnored,
                CollectItem, CollectIgnored, CollectRight, EndOfBody
  <2> QED
    BY <1>1, <2>1
<1>3. CASE ReadEof \/ CollectEof \/ PairTrans \/ PairCase \/ CountTrans \/ CountCase \/ DropBody
  <2>1. UNCHANGED outfile /\ pc # "write" /\ pc' # "write"
    BY <1>3 DEF ReadEof, CollectEof, EndOfBody, PairTrans, PairCase, CountTrans,
                CountCase, DropBody, Processing, Processed
  <2> QED
    BY <1>1, <2>1
<1>4. CASE OpenBody
  <2> DEFINE A == Line \cup {OriginLine}
             f == Opened(outfile)
             g == Append(f, temp_funcDecl)
  <2>1. pc = "process" /\ pc' = "write" /\ i' = 1 /\ outfile' = Append(g, LeftLine)
    BY <1>4 DEF OpenBody, Processed
  <2>2. temp_funcDecl \in A /\ LeftLine \in A /\ outfile \in Seq(A)
    BY <2>1 DEF DeclInv, LeftLine, Line, ValuesOK
  <2>3. f \in Seq(A) /\ Len(f) >= 1
    BY <2>2, OpenedType
  <2>4. WellFormed(f)
    BY <2>1 DEF Opened, OutInv, WellFormed
  <2>5. Len(f) # 1 => MayFollow(LastLine(f), temp_funcDecl)
    <3>1. ASSUME Len(f) # 1 PROVE identify(LastLine(f)) = "}"
      <4>1. f = outfile /\ Len(outfile) > 0
        BY <2>2, <2>3, <3>1 DEF Opened
      <4> QED
        BY <2>1, <4>1 DEF OutInv, Complete, LastLine
    <3> QED
      BY <3>1 DEF MayFollow, DeclInv, IsCase, IsTrans
  <2>6. identify(temp_funcDecl) = "funcDecl"
    BY DEF DeclInv
  <2> HIDE DEF A, f
  <2>7. WellFormed(g) /\ LastLine(g) = temp_funcDecl /\ Len(g) = Len(f) + 1
    BY <2>2, <2>3, <2>4, <2>5, <2>6, WellFormedAppend
  <2>8. g \in Seq(A)
    BY <2>2, <2>3
  <2>9. MayFollow(LastLine(g), LeftLine)
    BY <2>6, <2>7, Braces DEF MayFollow, IsCase, IsTrans
  <2> HIDE DEF g
  <2>10. WellFormed(outfile') /\ LastLine(outfile') = LeftLine /\ Len(outfile') = Len(g) + 1
    BY <2>1, <2>2, <2>3, <2>7, <2>8, <2>9, WellFormedAppend
  <2> QED
    BY <2>1, <2>3, <2>7, <2>10 DEF OutInv, NoFlag
<1>5. CASE WriteItem
  <2> DEFINE A == Line \cup {OriginLine}
  <2>1. /\ pc = "write" /\ pc' = "write" /\ i' = i + 1 /\ i \in 1..Len(in_list)
        /\ UNCHANGED <<in_list, flags>>
    BY <1>5 DEF WriteItem, PhaseInv, ValuesOK
  <2>2. CASE i \notin flags
    <3>1. UNCHANGED outfile
      BY <1>5, <2>2 DEF WriteItem
    <3> QED
      BY <2>1, <2>2, <3>1 DEF OutInv, NoFlag, ValuesOK
  <2>3. CASE i \in flags
    <3>1. outfile' = Append(outfile, in_list[i])
      BY <1>5, <2>3 DEF WriteItem
    <3>2. outfile \in Seq(A) /\ Len(outfile) >= 3 /\ in_list[i] \in A
      BY <2>1 DEF OutInv, ValuesOK
    <3>3. IsItem(in_list[i])
      BY <2>1 DEF PhaseInv
    <3>4. MayFollow(LastLine(outfile), in_list[i])
      <4>1. CASE LastLine(outfile) = LeftLine
        BY <3>3, <4>1, Braces DEF MayFollow, IsCase, IsTrans
      <4>2. ASSUME NEW m \in 1..(i - 1), m \in flags, LastLine(outfile) = in_list[m],
                   NoFlag(m + 1, i - 1)
            PROVE  MayFollow(LastLine(outfile), in_list[i])
        <5>1. CASE IsCase(in_list[m])
          <6>1. m + 1 \in flags /\ IsTrans(in_list[m + 1])
            BY <2>1, <4>2, <5>1, FlaggedLabel
          <6>2. m + 1 = i
            BY <2>1, <4>2, <6>1 DEF NoFlag, ValuesOK
          <6> QED
            BY <4>2, <5>1, <6>1, <6>2 DEF MayFollow, IsTrans, IsCase
        <5>2. CASE ~IsCase(in_list[m])
          <6>1. IsTrans(in_list[m])
            BY <2>1, <4>2, <5>2, Classes DEF PhaseInv, ValuesOK
          <6> QED
            BY <3>3, <4>2, <6>1 DEF MayFollow, IsTrans, IsCase
        <5> QED
          BY <5>1, <5>2
      <4> QED
        BY <2>1, <4>1, <4>2 DEF OutInv
    <3> HIDE DEF A
    <3>5. WellFormed(outfile') /\ LastLine(outfile') = in_list[i] /\ Len(outfile') = Len(outfile) + 1
      BY <3>1, <3>2, <3>4, WellFormedAppend DEF OutInv
    <3> QED
      BY <2>1, <2>3, <3>2, <3>5 DEF OutInv, NoFlag, ValuesOK
  <2> QED
    BY <2>2, <2>3
<1>6. CASE CloseBody
  <2> DEFINE A == Line \cup {OriginLine}
  <2>1. pc = "write" /\ pc' = "main" /\ i - 1 = Len(in_list) /\ outfile' = Append(outfile, RightLine)
    BY <1>6 DEF CloseBody, PhaseInv, ValuesOK
  <2>2. outfile \in Seq(A) /\ Len(outfile) >= 3 /\ RightLine \in A
    <3>1. pc = "write"
      BY <2>1
    <3> QED
      BY <3>1, Braces DEF OutInv, ValuesOK
  <2>3. ~NoFlag(1, i - 1)
    BY <2>1 DEF NoFlag, FlagsInv, ValuesOK
  <2>4. PICK m \in 1..(i - 1) : m \in flags /\ LastLine(outfile) = in_list[m] /\ NoFlag(m + 1, i - 1)
    BY <2>1, <2>3 DEF OutInv
  <2>5. ~IsCase(in_list[m])
    <3>1. ASSUME IsCase(in_list[m]) PROVE FALSE
      <4>1. m + 1 \in flags
        BY <2>1, <2>4, <3>1, FlaggedLabel
      <4> QED
        BY <2>1, <2>4, <4>1 DEF NoFlag, ValuesOK
    <3> QED
      BY <3>1
  <2>6. IsTrans(in_list[m])
    BY <2>1, <2>5, Classes DEF PhaseInv, ValuesOK
  <2>7. MayFollow(LastLine(outfile), RightLine) /\ identify(RightLine) = "}"
    BY <2>4, <2>6, Braces DEF MayFollow, IsCase, IsTrans
  <2> HIDE DEF A
  <2>8. WellFormed(outfile') /\ LastLine(outfile') = RightLine /\ Len(outfile') = Len(outfile) + 1
    <3>1. WellFormed(outfile) /\ Len(outfile) # 1
      <4>1. Len(outfile) \in Nat
        BY <2>2
      <4> QED
        BY <2>2, <4>1, AroundOne DEF OutInv
    <3>2. LET g == Append(outfile, RightLine)
          IN  WellFormed(g) /\ LastLine(g) = RightLine /\ Len(g) = Len(outfile) + 1
      <4>1. Len(outfile) >= 1
        BY <2>2
      <4> QED
        BY <2>2, <2>7, <3>1, <4>1, WellFormedAppend
    <3> QED
      BY <2>1, <3>2
  <2> QED
    BY <2>1, <2>7, <2>8 DEF OutInv, Complete, LastLine
<1>7. CASE UNCHANGED vars
  BY <1>7 DEF vars, readVars, loopVars, OutInv, NoFlag
<1> QED
  BY <1>2, <1>3, <1>4, <1>5, <1>6, <1>7 DEF Next, Step

-----------------------------------------------------------------------------
(***************************************************************************)
(* The theorems.                                                           *)
(***************************************************************************)

\* IInv is an invariant of phase 1.
THEOREM Invariance == Spec => []IInv
<1>1. IInv /\ [Next]_vars => IInv'
  BY BooleanStep, CoreStep, DeclStep, OutStep DEF IInv
<1> QED
  BY InitInv, <1>1, PTL DEF Spec

(***************************************************************************)
(* Every variable of filter.py keeps its type; in particular process_list  *)
(* flags only indexes of its list.                                         *)
(***************************************************************************)
THEOREM TypeCorrect == Spec => []TypeOK
<1>1. IInv => TypeOK
  BY DEF IInv, BooleansOK, ValuesOK, TypeOK
<1> QED
  BY Invariance, <1>1, PTL

(***************************************************************************)
(* For bodies of every length, the single pass of process_list computes    *)
(* the declarative reference.                                              *)
(***************************************************************************)
THEOREM FlagsCorrect == Spec => []FlagsAreKept
<1>1. IInv => FlagsAreKept
  <2> SUFFICES ASSUME IInv, Processed \/ pc = "write" PROVE flags = Kept(in_list)
    BY DEF FlagsAreKept
  <2>1. CASE Processed
    <3>1. pc = "process" /\ i - 1 = Len(in_list)
      BY <2>1 DEF Processed, IInv, PhaseInv, ValuesOK
    <3> QED
      BY <3>1 DEF IInv, LoopInv, Kept
  <2>2. CASE pc = "write"
    BY <2>2 DEF IInv, FlagsInv
  <2> QED
    BY <2>1, <2>2
<1> QED
  BY Invariance, <1>1, PTL

(***************************************************************************)
(* For files of every length, what phase 1 writes has the format phase 2   *)
(* relies on.                                                              *)
(***************************************************************************)
THEOREM OutputFormat == Spec => []OutputWellFormed
<1>1. IInv => OutputWellFormed
  BY DEF IInv, OutInv, OutputWellFormed
<1> QED
  BY Invariance, <1>1, PTL

(***************************************************************************)
(* For files of every length, no body with a pair of transfers is dropped. *)
(***************************************************************************)
THEOREM NothingDropped == Spec => DroppedHasNoPair
<1> DEFINE A == (pc \in {"collect", "process"} /\ pc' = "main") => (Kept(in_list) = {})
<1>1. IInv /\ [Next]_vars => [A]_vars
  <2> SUFFICES ASSUME IInv, Next, pc \in {"collect", "process"}, pc' = "main"
               PROVE  Kept(in_list) = {}
    BY DEF A
  <2>1. CASE pc = "process"
    <3>1. Processed /\ flags = {}
      BY <2>1, Zenon DEF Next, Read, Step, ReadDecl, ReadRight, ReadLeft, ReadFirstItem,
           ReadIgnored, ReadEof, CollectItem, CollectIgnored, CollectRight, CollectEof,
           PairTrans, PairCase, CountTrans, CountCase, OpenBody, DropBody, WriteItem, CloseBody
    <3>2. i - 1 = Len(in_list)
      BY <2>1, <3>1 DEF Processed, IInv, PhaseInv, ValuesOK
    <3> QED
      BY <2>1, <3>1, <3>2 DEF IInv, LoopInv, Kept
  <2>2. CASE pc = "collect"
    <3>1. EndOfBody
      BY <2>2, Zenon DEF Next, Read, Step, ReadDecl, ReadRight, ReadLeft, ReadFirstItem,
           ReadIgnored, ReadEof, CollectItem, CollectIgnored, CollectRight, CollectEof,
           PairTrans, PairCase, CountTrans, CountCase, OpenBody, DropBody, WriteItem,
           CloseBody, Processing, Processed
    <3>2. Len(in_list) = 1
      <4>1. ~(Len(in_list) > 1)
        BY <3>1 DEF EndOfBody
      <4>2. in_list \in Seq(Line) /\ in_list # <<>>
        BY <2>2 DEF IInv, PhaseInv, ValuesOK
      <4> QED
        <5>1. Len(in_list) \in Nat /\ Len(in_list) # 0
          BY <4>2, EmptySeq
        <5> QED
          BY <4>1, <5>1, AroundOne
    <3> QED
      BY <3>2, KeptOfOne DEF Kept
  <2> QED
    BY <2>1, <2>2
<1>2. Spec => [][A]_vars
  BY Invariance, <1>1, PTL DEF Spec
<1> QED
  BY <1>2 DEF DroppedHasNoPair

-----------------------------------------------------------------------------
(***************************************************************************)
(* Phase 2: the inductive invariant.                                       *)
(***************************************************************************)

Lines2 == Line \cup {OriginLine}
InBody2 == {"collect", "outer", "inner", "write", "crashed"}

\* The level and the label index of a loop that has passed the items up to n.
Level(L, level, c, n) == IF level = 0 THEN NoCase(L, 1, n) ELSE Section(L, c, n)

\* Every label has a transfer behind it, but for one at the end.
Labelled(L) == \A k \in 1..(Len(L) - 1) : IsCase(L[k]) => IsTrans(L[k + 1])

\* The types of filter2.py.
TypeInv2 ==
  /\ infile2 \in Seq(Lines2) /\ pos \in 0..Len(infile2)
  /\ pc2 \in {"start", "main", "done"} \cup InBody2
  /\ curState2 \in 0..3 /\ decl2 \in Lines2 \cup {NoDecl}
  /\ list2 \in Seq(Line) /\ flags2 \in SUBSET (1..Len(list2))
  /\ s1 \in Nat /\ s1_case_level \in Nat /\ s1_case_index \in Nat
  /\ s2 \in Nat /\ s2_case_level \in Nat /\ s2_case_index \in Nat
  /\ i2 \in Nat /\ out2 \in Seq(Lines2)

\* Phase 2 starts on a file of an earlier run, or when phase 1 is done.
InputInv == pc2 # "start" /\ old = <<>> => pc = "done"

\* What pc2 says of the lists and the indexes.
ShapeInv2 ==
  /\ \A k \in 1..Len(list2) : IsItem(list2[k])
  /\ pc2 = "start" => out2 = <<>> /\ pos = 0
  /\ pc2 \in {"start", "main", "done"} => list2 = <<>> /\ flags2 = {}
  /\ pc2 = "collect" => flags2 = {}
  /\ pc2 \in InBody2 => Len(list2) >= 1 /\ pos >= 2
  /\ pc2 # "start" => pos >= 1
  /\ pc2 = "outer" => s1 \in 1..(Len(list2) + 1)
  /\ pc2 = "inner" => s1 \in 1..Len(list2) /\ s2 \in (s1 + 1)..(Len(list2) + 2)
  /\ pc2 = "write" => i2 \in 1..(Len(list2) + 1) /\ flags2 # {}
  /\ pc2 \in {"outer", "inner"} /\ s1_case_level # 0 => s1_case_index \in 1..Len(list2)
  /\ pc2 = "inner" /\ s1_case_level = 0 /\ s2_case_level # 0 => s2_case_index \in 1..Len(list2)

\* Inside a body a declaration has been read.
DeclInv2 ==
  /\ identify(decl2) = "funcDecl"
  /\ curState2 # 0 \/ pc2 \in InBody2 => decl2 \in Lines2

\* The items are a piece of the file.
FormatInv2 ==
  WellFormed(infile2) =>
    /\ Labelled(list2)
    /\ pc2 = "collect" => list2[Len(list2)] = infile2[pos]
    /\ Complete(infile2) /\ pc2 \in InBody2 \ {"collect"} => ~IsCase(list2[Len(list2)])

\* The double loop: which pairs it has met, and which sections it is in.
OuterInv ==
  /\ flags2 = P2!WithLabels(list2, P2!FoundUpTo(list2, s1, 0))
  /\ Level(list2, s1_case_level, s1_case_index, s1 - 1)

InnerInv ==
  /\ flags2 = P2!WithLabels(list2, P2!FoundUpTo(list2, s1, s2))
  /\ IsTrans(list2[s1])
  /\ Level(list2, s1_case_level, s1_case_index, s1)
  /\ s2 <= Len(list2) + 1 =>
       /\ s2_case_level >= s1_case_level
       /\ s2_case_level = s1_case_level <=> NoCase(list2, s1 + 1, s2 - 1)
       /\ s1_case_level = 0 => Level(list2, s2_case_level, s2_case_index, s2 - 1)

LoopInv2 ==
  WellFormed(infile2) =>
    /\ pc2 = "outer" => OuterInv
    /\ pc2 = "inner" => InnerInv
    /\ pc2 = "write" => flags2 = P2!Fetches(list2)

CrashInv == pc2 = "crashed" => ~Complete(infile2)

\* The last line written is the brace or the last flagged item before i2.
NoFlag2(m, n) == \A k \in m..n : k \notin flags2
OutInv2 ==
  WellFormed(infile2) =>
    /\ WellFormed(out2)
    /\ pc2 # "write" => Complete(out2)
    /\ pc2 = "write" =>
         /\ Len(out2) >= 3
         /\ \/ LastLine(out2) = LeftLine /\ NoFlag2(1, i2 - 1)
            \/ \E m \in 1..(i2 - 1) : /\ m \in flags2
                                     /\ LastLine(out2) = list2[m]
                                     /\ NoFlag2(m + 1, i2 - 1)

Core2 ==
  TypeInv2 /\ ShapeInv2 /\ DeclInv2 /\ FormatInv2 /\ LoopInv2 /\ CrashInv /\ OutInv2

IInv2 == InputInv /\ Core2

-----------------------------------------------------------------------------
(***************************************************************************)
(* What one more comparison does to the reference.                         *)
(***************************************************************************)
\* Both phases have the same vocabulary.
LEMMA SameLines ==
  /\ P2!Line = Line /\ P2!OriginLine = OriginLine /\ P2!NoDecl = NoDecl
  /\ P2!LeftLine = LeftLine /\ P2!RightLine = RightLine
BY DEF P2!Line, Line, P2!OriginLine, OriginLine, P2!NoDecl, NoDecl, P2!LeftLine, LeftLine,
       P2!RightLine, RightLine, P2!Trans, Trans, P2!Cases, Cases

LEMMA SameClasses ==
  \A x : /\ P2!identify(x) = identify(x)
         /\ P2!IsTrans(x) <=> IsTrans(x)
         /\ P2!IsCase(x) <=> IsCase(x)
         /\ P2!IsItem(x) <=> IsItem(x)
BY DEF P2!identify, identify, P2!IsTrans, IsTrans, P2!IsCase, IsCase, P2!IsItem, IsItem,
       P2!Trans, Trans, P2!Cases, Cases

LEMMA SamePaths ==
  \A L, a, b : /\ P2!NoCase(L, a, b) <=> NoCase(L, a, b)
               /\ P2!Pair(L, a, b) <=> Pair(L, a, b)
               /\ P2!LabelOf(L, a, b) <=> LabelOf(L, a, b)
<1> USE DEF P2!NoCase, NoCase, P2!IsCase, IsCase, P2!IsTrans, IsTrans, P2!identify, identify,
         P2!Trans, Trans, P2!Cases, Cases
<1>1. ASSUME NEW L, NEW a, NEW b
      PROVE  P2!NoCase(L, a, b) <=> NoCase(L, a, b)
  OBVIOUS
<1>2. ASSUME NEW L, NEW a, NEW b
      PROVE  P2!Pair(L, a, b) <=> Pair(L, a, b)
  BY DEF P2!Pair, Pair, P2!SamePath, SamePath
<1>3. ASSUME NEW L, NEW a, NEW b
      PROVE  P2!LabelOf(L, a, b) <=> LabelOf(L, a, b)
  BY DEF P2!LabelOf, LabelOf
<1> QED
  BY <1>1, <1>2, <1>3

LEMMA SameFormat ==
  \A f : (P2!WellFormed(f) <=> WellFormed(f)) /\ (P2!Complete(f) <=> Complete(f))
<1> USE DEF P2!IsCase, IsCase, P2!IsTrans, IsTrans, P2!IsItem, IsItem, P2!identify, identify,
            P2!Trans, Trans, P2!Cases, Cases, P2!MayFollow, MayFollow, P2!OriginLine, OriginLine,
            P2!WellFormed, WellFormed, P2!Complete, Complete
<1>1. ASSUME NEW f
      PROVE  P2!WellFormed(f) <=> WellFormed(f)
  OBVIOUS
<1>2. ASSUME NEW f
      PROVE  P2!Complete(f) <=> Complete(f)
  OBVIOUS
<1> QED
  BY <1>1, <1>2

LEMMA TransNotCase ==
  \A x : IsTrans(x) => ~IsCase(x)
BY DEF IsTrans, IsCase

\* The label of a transfer is the one its section begins with.
LEMMA LabelOfSection ==
  ASSUME NEW L, NEW t \in Nat, IsTrans(L[t]), NEW c, Section(L, c, t)
  PROVE  \A j \in Nat \ {0} : LabelOf(L, j, t) <=> j = c
<1>1. ~IsCase(L[t])
  BY TransNotCase
<1>2. c \in 1..t /\ IsCase(L[c]) /\ NoCase(L, c + 1, t)
  BY DEF Section
<1>3. c < t
  BY <1>1, <1>2
<1> QED
  BY <1>2, <1>3 DEF LabelOf, NoCase

LEMMA NoLabel ==
  ASSUME NEW L, NEW t \in Nat, NoCase(L, 1, t)
  PROVE  \A j \in Nat \ {0} : ~LabelOf(L, j, t)
BY DEF LabelOf, NoCase

\* One more pair.
LEMMA AddPair ==
  ASSUME NEW L, NEW P, NEW a \in 1..Len(L), NEW b \in 1..Len(L)
  PROVE  P2!WithLabels(L, P \cup {<<a, b>>}) =
           P2!WithLabels(L, P) \cup {a, b}
             \cup {j \in 1..Len(L) : LabelOf(L, j, a) \/ LabelOf(L, j, b)}
<1> DEFINE Of(j, ab) == j = ab[1] \/ j = ab[2] \/ LabelOf(L, j, ab[1]) \/ LabelOf(L, j, ab[2])
<1>1. \A j : Of(j, <<a, b>>) <=> j \in {a, b} \/ LabelOf(L, j, a) \/ LabelOf(L, j, b)
  OBVIOUS
<1>2. \A Q : P2!WithLabels(L, Q) = {j \in 1..Len(L) : \E ab \in Q : Of(j, ab)}
  BY SamePaths DEF P2!WithLabels
<1> HIDE DEF Of
<1>3. {j \in 1..Len(L) : \E ab \in P \cup {<<a, b>>} : Of(j, ab)}
        = {j \in 1..Len(L) : \E ab \in P : Of(j, ab)} \cup {j \in 1..Len(L) : Of(j, <<a, b>>)}
  OBVIOUS
<1>4. {j \in 1..Len(L) : Of(j, <<a, b>>)}
        = {a, b} \cup {j \in 1..Len(L) : LabelOf(L, j, a) \/ LabelOf(L, j, b)}
  BY <1>1
<1> QED
  BY <1>2, <1>3, <1>4

\* The pairs the inner loop meets at item t.
LEMMA FoundStep ==
  ASSUME NEW A, NEW L \in Seq(A), NEW a \in 1..Len(L), NEW t \in (a + 1)..Len(L)
  PROVE  P2!FoundUpTo(L, a, t + 1) =
           IF P2!DoubleFetch(L, a, t) THEN P2!FoundUpTo(L, a, t) \cup {<<a, t>>}
           ELSE P2!FoundUpTo(L, a, t)
<1>1. Len(L) \in Nat
  OBVIOUS
<1>2. a < t /\ t \in 1..Len(L)
  BY <1>1
<1>3. \A ab \in (1..Len(L)) \X (1..Len(L)) :
        /\ ab[1] \in 1..Len(L) /\ ab[2] \in 1..Len(L)
        /\ ab = <<a, t>> <=> ab[1] = a /\ ab[2] = t
  OBVIOUS
<1>4. \A ab \in (1..Len(L)) \X (1..Len(L)) :
        (ab[1] < a \/ (ab[1] = a /\ ab[2] < t + 1))
          <=> (ab[1] < a \/ (ab[1] = a /\ ab[2] < t)) \/ ab = <<a, t>>
  BY <1>1, <1>2, <1>3
<1>5. <<a, t>> \in (1..Len(L)) \X (1..Len(L)) /\ <<a, t>>[1] = a /\ <<a, t>>[2] = t
  BY <1>2
<1>6. CASE P2!DoubleFetch(L, a, t)
  BY <1>2, <1>4, <1>5, <1>6 DEF P2!FoundUpTo
<1>7. CASE ~P2!DoubleFetch(L, a, t)
  BY <1>2, <1>4, <1>5, <1>7 DEF P2!FoundUpTo
<1> QED
  BY <1>6, <1>7

\* A label is in no pair.
LEMMA FoundLabel ==
  ASSUME NEW A, NEW L \in Seq(A), NEW a \in 1..Len(L), NEW t \in (a + 1)..Len(L), IsCase(L[t])
  PROVE  P2!FoundUpTo(L, a, t + 1) = P2!FoundUpTo(L, a, t)
<1>1. ~P2!DoubleFetch(L, a, t)
  BY TransNotCase, SamePaths DEF P2!DoubleFetch, Pair
<1> QED
  BY <1>1, FoundStep

\* What the body of the inner loop makes of the flags F, comparing item a with
\* item t, given the levels and labels of both.
Compared(F, L, a, t, l1, c1, l2, c2) ==
  IF ~P2!is_same(L[a], L[t]) THEN F
  ELSE IF l1 = 0
    THEN F \cup {a, t} \cup (IF l2 = 0 THEN {} ELSE {c2})
    ELSE IF l1 = l2 THEN F \cup {a, t, c1} ELSE F

\* Two sections are one if no label lies between.
LEMMA SameSection ==
  ASSUME NEW L, NEW a \in Nat, NEW t \in Nat, a < t, NEW c, Section(L, c, a), NoCase(L, a + 1, t)
  PROVE  Section(L, c, t)
BY DEF Section, NoCase

\* The levels and indexes tell which pairs are on one path and what their
\* labels are: the flags of one more comparison are those of the reference.
LEMMA CompareStep ==
  ASSUME NEW A, NEW L \in Seq(A), NEW a \in 1..Len(L), NEW t \in (a + 1)..Len(L),
         IsTrans(L[a]), IsTrans(L[t]),
         NEW l1 \in Nat, NEW c1, Level(L, l1, c1, a),
         NEW l2 \in Nat, NEW c2, l2 = l1 <=> NoCase(L, a + 1, t), l1 = 0 => Level(L, l2, c2, t)
  PROVE  Compared(P2!WithLabels(L, P2!FoundUpTo(L, a, t)), L, a, t, l1, c1, l2, c2)
           = P2!WithLabels(L, P2!FoundUpTo(L, a, t + 1))
<1> DEFINE F == P2!WithLabels(L, P2!FoundUpTo(L, a, t))
<1>0. a \in Nat /\ t \in Nat /\ a < t /\ t \in 1..Len(L) /\ a >= 1
  OBVIOUS
<1>1. l1 # 0 => ~NoCase(L, 1, a)
  BY <1>0 DEF Level, Section, NoCase
<1>2. l1 = 0 => NoCase(L, 1, a)
  BY DEF Level
<1>3. P2!DoubleFetch(L, a, t) <=> P2!is_same(L[a], L[t]) /\ (l1 = 0 \/ l1 = l2)
  BY <1>1, <1>2, SamePaths DEF P2!DoubleFetch, Pair, SamePath
<1>4. CASE ~P2!DoubleFetch(L, a, t)
  <2>1. P2!FoundUpTo(L, a, t + 1) = P2!FoundUpTo(L, a, t)
    BY <1>4, FoundStep
  <2> QED
    BY <1>3, <1>4, <2>1 DEF Compared
<1>5. CASE P2!DoubleFetch(L, a, t)
  <2> DEFINE N == {j \in 1..Len(L) : LabelOf(L, j, a) \/ LabelOf(L, j, t)}
  <2>1. P2!WithLabels(L, P2!FoundUpTo(L, a, t + 1)) = F \cup {a, t} \cup N
    <3>1. P2!FoundUpTo(L, a, t + 1) = P2!FoundUpTo(L, a, t) \cup {<<a, t>>}
      BY <1>5, FoundStep
    <3> QED
      BY <1>0, <3>1, AddPair
  <2>2. CASE l1 = 0 /\ l2 = 0
    <3>1. N = {}
      BY <1>0, <1>2, <2>2, NoLabel DEF Level
    <3> HIDE DEF N, F
    <3>2. Compared(F, L, a, t, l1, c1, l2, c2) = F \cup {a, t}
      BY <1>3, <1>5, <2>2 DEF Compared
    <3> QED
      BY <2>1, <3>1, <3>2 DEF F
  <2>3. CASE l1 = 0 /\ l2 # 0
    <3>1. Section(L, c2, t) /\ c2 \in 1..Len(L)
      BY <1>0, <2>3 DEF Level, Section
    <3>2. \A j \in Nat \ {0} : LabelOf(L, j, t) <=> j = c2
      BY <1>0, <3>1, LabelOfSection
    <3>3. \A j \in Nat \ {0} : ~LabelOf(L, j, a)
      BY <1>0, <1>2, <2>3, NoLabel
    <3>4. N = {c2}
      BY <3>1, <3>2, <3>3
    <3> HIDE DEF N, F
    <3>5. Compared(F, L, a, t, l1, c1, l2, c2) = F \cup {a, t} \cup {c2}
      BY <1>3, <1>5, <2>3 DEF Compared
    <3> QED
      BY <2>1, <3>4, <3>5 DEF F
  <2>4. CASE l1 # 0
    <3>1. l1 = l2 /\ NoCase(L, a + 1, t) /\ Section(L, c1, a) /\ c1 \in 1..Len(L)
      BY <1>0, <1>3, <1>5, <2>4 DEF Level, Section
    <3>2. Section(L, c1, t)
      BY <1>0, <3>1, SameSection
    <3>3. \A j \in Nat \ {0} : LabelOf(L, j, t) <=> j = c1
      BY <1>0, <3>2, LabelOfSection
    <3>4. \A j \in Nat \ {0} : LabelOf(L, j, a) <=> j = c1
      BY <1>0, <3>1, LabelOfSection
    <3>5. N = {c1}
      BY <3>1, <3>3, <3>4
    <3> HIDE DEF N, F
    <3>6. Compared(F, L, a, t, l1, c1, l2, c2) = F \cup {a, t, c1}
      BY <1>3, <1>5, <2>4, <3>1 DEF Compared
    <3> QED
      BY <2>1, <3>5, <3>6 DEF F
  <2> QED
    BY <2>2, <2>3, <2>4
<1> QED
  BY <1>4, <1>5

\* The loops: where the inner one begins and ends, and where the outer one ends.
LEMMA FoundBegin ==
  ASSUME NEW A, NEW L \in Seq(A), NEW a \in 1..Len(L)
  PROVE  P2!FoundUpTo(L, a, a + 1) = P2!FoundUpTo(L, a, 0)
<1>1. \A ab \in (1..Len(L)) \X (1..Len(L)) : ab[1] \in 1..Len(L) /\ ab[2] \in 1..Len(L)
  OBVIOUS
<1>2. \A ab \in (1..Len(L)) \X (1..Len(L)) :
        (ab[1] < ab[2] /\ (ab[1] < a \/ (ab[1] = a /\ ab[2] < a + 1)))
          <=> (ab[1] < ab[2] /\ (ab[1] < a \/ (ab[1] = a /\ ab[2] < 0)))
  BY <1>1
<1> QED
  BY <1>2 DEF P2!FoundUpTo

LEMMA FoundEnd ==
  ASSUME NEW A, NEW L \in Seq(A), NEW a \in 1..Len(L), NEW n \in Nat, n > Len(L)
  PROVE  P2!FoundUpTo(L, a + 1, 0) = P2!FoundUpTo(L, a, n)
<1>1. \A ab \in (1..Len(L)) \X (1..Len(L)) : ab[1] \in 1..Len(L) /\ ab[2] \in 1..Len(L)
  OBVIOUS
<1>2. \A ab \in (1..Len(L)) \X (1..Len(L)) :
        (ab[1] < a + 1 \/ (ab[1] = a + 1 /\ ab[2] < 0)) <=> (ab[1] < a \/ (ab[1] = a /\ ab[2] < n))
  BY <1>1
<1> QED
  BY <1>2 DEF P2!FoundUpTo

LEMMA FoundAll ==
  ASSUME NEW A, NEW L \in Seq(A), NEW a \in Nat, a >= Len(L)
  PROVE  P2!FoundUpTo(L, Len(L), 0) = P2!FoundUpTo(L, a, 0)
<1>1. \A ab \in (1..Len(L)) \X (1..Len(L)) : ab[1] \in 1..Len(L) /\ ab[2] \in 1..Len(L)
  OBVIOUS
<1>2. \A ab \in (1..Len(L)) \X (1..Len(L)) :
        (ab[1] < ab[2] /\ (ab[1] < a \/ (ab[1] = a /\ ab[2] < 0)))
          <=> (ab[1] < ab[2] /\ (ab[1] < Len(L) \/ (ab[1] = Len(L) /\ ab[2] < 0)))
  BY <1>1
<1> QED
  BY <1>2 DEF P2!FoundUpTo

\* A label is in no pair as the first item either.
LEMMA FoundOuterLabel ==
  ASSUME NEW A, NEW L \in Seq(A), NEW a \in 1..(Len(L) - 1), IsCase(L[a])
  PROVE  P2!FoundUpTo(L, a + 1, a + 2) = P2!FoundUpTo(L, a, 0)
<1>1. \A b : ~P2!DoubleFetch(L, a, b)
  BY TransNotCase, SamePaths DEF P2!DoubleFetch, Pair
<1>2. \A ab \in (1..Len(L)) \X (1..Len(L)) : ab[1] \in 1..Len(L) /\ ab[2] \in 1..Len(L)
  OBVIOUS
<1>3. \A ab \in (1..Len(L)) \X (1..Len(L)) :
        (ab[1] < ab[2] /\ (ab[1] < a + 1 \/ (ab[1] = a + 1 /\ ab[2] < a + 2)))
          <=> (ab[1] < ab[2] /\ (ab[1] < a \/ ab[1] = a))
  BY <1>2
<1>4. \A ab \in (1..Len(L)) \X (1..Len(L)) :
        (ab[1] < ab[2] /\ (ab[1] < a \/ (ab[1] = a /\ ab[2] < 0)))
          <=> (ab[1] < ab[2] /\ ab[1] < a)
  BY <1>2
<1> QED
  BY <1>1, <1>3, <1>4 DEF P2!FoundUpTo

-----------------------------------------------------------------------------
(***************************************************************************)
(* Reading.                                                                *)
(***************************************************************************)
\* An item of a file is a line, not the path.
LEMMA ItemIsLine ==
  ASSUME NEW x \in Lines2, IsItem(x)
  PROVE  x \in Line
BY DEF Lines2, IsItem, IsTrans, IsCase, identify, OriginLine, Trans, Cases

\* What is written does not change outside the loop that writes.
LEMMA OutFrame ==
  ASSUME OutInv2, infile2' = infile2, out2' = out2, pc2 # "write", pc2' # "write"
  PROVE  OutInv2'
BY DEF OutInv2

\* The line that is read.
LEMMA LineRead ==
  ASSUME TypeInv2, P2!ReadLine
  PROVE  /\ pos < Len(infile2) /\ pos' = pos + 1 /\ pos' \in 1..Len(infile2)
         /\ P2!line = infile2[pos'] /\ P2!line \in Lines2
<1>1. pos < Len(infile2) /\ pos' = pos + 1
  BY DEF P2!ReadLine
<1>2. pos \in Nat /\ pos <= Len(infile2) /\ Len(infile2) \in Nat
  BY DEF TypeInv2
<1>3. pos' \in 1..Len(infile2)
  BY <1>1, <1>2
<1> QED
  BY <1>1, <1>3 DEF P2!line, TypeInv2

\* Lines outside of the bodies.
LEMMA MainStep ==
  ASSUME Core2, infile2' = infile2,
         P2!ReadOrigin \/ P2!ReadDecl \/ P2!ReadLeft \/ P2!ReadRight \/ P2!ReadIgnored \/ P2!ReadEof
  PROVE  Core2'
<1> USE DEF P2!s1Vars, P2!s2Vars
<1>1. /\ pc2 \in {"start", "main"} /\ pc2' \in {"main", "done"}
      /\ UNCHANGED <<list2, flags2, s1, s1_case_level, s1_case_index,
                     s2, s2_case_level, s2_case_index, i2, out2>>
      /\ P2!ReadLine \/ (pos' = pos /\ pc2 = "main")
  BY DEF P2!ReadOrigin, P2!ReadDecl, P2!ReadLeft, P2!ReadRight, P2!ReadIgnored, P2!ReadEof, P2!readVars
<1>2. pos' \in 0..Len(infile2) /\ pos' >= 1
  <2>1. CASE P2!ReadLine
    BY <2>1, LineRead DEF Core2
  <2>2. CASE pos' = pos /\ pc2 = "main"
    BY <2>2 DEF Core2, TypeInv2, ShapeInv2
  <2> QED BY <1>1, <2>1, <2>2
<1>3. /\ curState2' \in 0..3 /\ decl2' \in Lines2 \cup {NoDecl} /\ identify(decl2') = "funcDecl"
      /\ curState2' # 0 => decl2' \in Lines2
  <2>1. CASE P2!ReadDecl
    <3>1. curState2' = 1 /\ decl2' = P2!line /\ P2!ReadLine /\ P2!identify(P2!line) = "funcDecl"
      BY <2>1 DEF P2!ReadDecl
    <3>2. P2!line \in Lines2
      BY <3>1, LineRead DEF Core2
    <3>3. identify(P2!line) = "funcDecl"
      BY <3>1, SameClasses
    <3> QED BY <3>1, <3>2, <3>3
  <2>2. CASE ~P2!ReadDecl
    <3>1. decl2' = decl2 /\ (curState2' = curState2 \/ curState2' = 0 \/ (curState2 = 1 /\ curState2' = 2))
      BY <2>2 DEF P2!ReadOrigin, P2!ReadLeft, P2!ReadRight, P2!ReadIgnored, P2!ReadEof, P2!readVars
    <3> QED BY <3>1 DEF Core2, TypeInv2, DeclInv2
  <2> QED BY <2>1, <2>2
<1>4. TypeInv2'
  BY <1>1, <1>2, <1>3 DEF Core2, TypeInv2
<1>5. ShapeInv2'
  BY <1>1, <1>2 DEF Core2, ShapeInv2, InBody2
<1>6. DeclInv2'
  BY <1>1, <1>3 DEF DeclInv2, InBody2
<1>7. FormatInv2'
  BY <1>1 DEF Core2, FormatInv2, InBody2
<1>8. LoopInv2' /\ CrashInv'
  BY <1>1 DEF LoopInv2, CrashInv
<1>9. OutInv2'
  BY <1>1, OutFrame DEF Core2
<1> QED BY <1>4, <1>5, <1>6, <1>7, <1>8, <1>9 DEF Core2

\* The first item of a body.
LEMMA FirstItemStep ==
  ASSUME Core2, infile2' = infile2, P2!ReadFirstItem
  PROVE  Core2'
<1> USE DEF P2!s1Vars, P2!s2Vars
<1>1. /\ pc2 = "main" /\ pc2' = "collect" /\ list2' = <<P2!line>> /\ curState2 = 2 /\ curState2' = 3
      /\ UNCHANGED <<decl2, flags2, s1, s1_case_level, s1_case_index,
                     s2, s2_case_level, s2_case_index, i2, out2>>
      /\ P2!ReadLine /\ P2!IsItem(P2!line)
  BY DEF P2!ReadFirstItem
<1>2. pos' \in 1..Len(infile2) /\ pos' = pos + 1 /\ P2!line = infile2[pos'] /\ P2!line \in Lines2
  BY <1>1, LineRead DEF Core2
<1>3. IsItem(P2!line) /\ P2!line \in Line
  BY <1>1, <1>2, SameClasses, ItemIsLine
<1>4. flags2 = {} /\ pos >= 1 /\ pos \in Nat
  BY <1>1 DEF Core2, ShapeInv2, TypeInv2
<1>5. Len(list2') = 1 /\ list2'[1] = P2!line /\ list2' \in Seq(Line)
  BY <1>1, <1>3
<1>6. TypeInv2'
  BY <1>1, <1>2, <1>4, <1>5 DEF Core2, TypeInv2, InBody2
<1>7. ShapeInv2'
  BY <1>1, <1>2, <1>3, <1>4, <1>5 DEF Core2, ShapeInv2, InBody2
<1>8. DeclInv2'
  BY <1>1 DEF Core2, DeclInv2
<1>9. FormatInv2'
  BY <1>1, <1>2, <1>5 DEF FormatInv2, Labelled
<1>10. LoopInv2' /\ CrashInv'
  BY <1>1 DEF LoopInv2, CrashInv
<1>11. OutInv2'
  BY <1>1, OutFrame DEF Core2
<1> QED BY <1>6, <1>7, <1>8, <1>9, <1>10, <1>11 DEF Core2

\* In a well-formed file the next line may follow the item read last.
LEMMA NextLine ==
  ASSUME Core2, pc2 = "collect", WellFormed(infile2), P2!ReadLine
  PROVE  MayFollow(list2[Len(list2)], P2!line)
<1>1. pos < Len(infile2) /\ pos' = pos + 1 /\ P2!line = infile2[pos']
  BY LineRead DEF Core2
<1>2. list2[Len(list2)] = infile2[pos] /\ pos >= 2 /\ pos \in Nat /\ Len(infile2) \in Nat
  BY DEF Core2, FormatInv2, ShapeInv2, TypeInv2, InBody2
<1>3. pos \in 2..(Len(infile2) - 1)
  BY <1>1, <1>2
<1>4. MayFollow(infile2[pos], infile2[pos + 1])
  BY <1>3 DEF WellFormed
<1> QED BY <1>1, <1>2, <1>4

\* One more item.
LEMMA ItemStep ==
  ASSUME Core2, infile2' = infile2, P2!CollectItem
  PROVE  Core2'
<1> USE DEF P2!s1Vars, P2!s2Vars
<1> DEFINE n == Len(list2)
<1>1. /\ pc2 = "collect" /\ pc2' = "collect" /\ list2' = Append(list2, P2!line)
      /\ UNCHANGED <<curState2, decl2, flags2, s1, s1_case_level, s1_case_index,
                     s2, s2_case_level, s2_case_index, i2, out2>>
      /\ P2!ReadLine /\ P2!IsItem(P2!line)
  BY DEF P2!CollectItem
<1>2. pos' \in 1..Len(infile2) /\ pos' = pos + 1 /\ P2!line = infile2[pos'] /\ P2!line \in Lines2
  BY <1>1, LineRead DEF Core2
<1>3. IsItem(P2!line) /\ P2!line \in Line
  BY <1>1, <1>2, SameClasses, ItemIsLine
<1>4. /\ flags2 = {} /\ pos >= 2 /\ pos \in Nat /\ n \in Nat /\ n >= 1
      /\ list2 \in Seq(Line) /\ \A k \in 1..n : IsItem(list2[k])
  BY <1>1 DEF Core2, ShapeInv2, TypeInv2, InBody2
<1>5. /\ Len(list2') = n + 1 /\ list2'[n + 1] = P2!line /\ list2' \in Seq(Line)
      /\ \A k \in 1..n : list2'[k] = list2[k]
  BY <1>1, <1>3, <1>4
<1> HIDE DEF n
<1>6. \A k \in 1..Len(list2') : IsItem(list2'[k])
  <2>1. ASSUME NEW k \in 1..Len(list2')
        PROVE  k \in 1..n \/ k = n + 1
    BY <1>4, <1>5
  <2> QED BY <1>3, <1>4, <1>5, <2>1
<1>7. TypeInv2'
  BY <1>1, <1>2, <1>4, <1>5 DEF Core2, TypeInv2, InBody2
<1>8. ShapeInv2'
  BY <1>1, <1>2, <1>4, <1>5, <1>6 DEF ShapeInv2, InBody2
<1>9. DeclInv2'
  BY <1>1 DEF Core2, DeclInv2
<1>10. FormatInv2'
  <2> SUFFICES ASSUME WellFormed(infile2)
               PROVE  Labelled(list2')
    BY <1>1, <1>2, <1>5 DEF FormatInv2
  <2>1. MayFollow(list2[n], P2!line) /\ Labelled(list2)
    BY <1>1, NextLine DEF Core2, FormatInv2, n
  <2>2. ASSUME NEW k \in 1..n, IsCase(list2'[k])
        PROVE  IsTrans(list2'[k + 1])
    <3>1. CASE k = n
      BY <1>4, <1>5, <2>1, <2>2, <3>1 DEF MayFollow
    <3>2. CASE k # n
      <4>1. k \in 1..(n - 1) /\ k + 1 \in 1..n
        BY <1>4, <3>2
      <4> QED BY <1>5, <2>1, <2>2, <4>1 DEF Labelled, n
    <3> QED BY <3>1, <3>2
  <2> QED BY <1>4, <1>5, <2>2 DEF Labelled
<1>11. LoopInv2' /\ CrashInv'
  BY <1>1 DEF LoopInv2, CrashInv
<1>12. OutInv2'
  BY <1>1, OutFrame DEF Core2
<1> QED BY <1>7, <1>8, <1>9, <1>10, <1>11, <1>12 DEF Core2

\* A line inside a body that is no item: a well-formed file has none.
LEMMA IgnoredStep ==
  ASSUME Core2, infile2' = infile2, P2!CollectIgnored
  PROVE  Core2'
<1> USE DEF P2!s1Vars, P2!s2Vars
<1>0. P2!ReadLine /\ ~P2!IsItem(P2!line) /\ P2!identify(P2!line) # "}"
  BY DEF P2!CollectIgnored
<1>1. /\ pc2 = "collect" /\ pc2' = "collect"
      /\ UNCHANGED <<curState2, decl2, list2, flags2, s1, s1_case_level, s1_case_index,
                     s2, s2_case_level, s2_case_index, i2, out2>>
  BY DEF P2!CollectIgnored
<1>2. /\ pos' \in 1..Len(infile2) /\ pos' = pos + 1 /\ pos \in Nat /\ pos >= 2
      /\ Len(list2) \in 1..Len(list2)
  <2>1. pos' \in 1..Len(infile2) /\ pos' = pos + 1
    BY <1>0, LineRead DEF Core2
  <2>2. pos \in Nat /\ pos >= 2 /\ Len(list2) \in Nat /\ Len(list2) >= 1
    BY <1>1 DEF Core2, ShapeInv2, TypeInv2, InBody2
  <2> QED BY <2>1, <2>2
<1>3. ~WellFormed(infile2)
  <2> SUFFICES ASSUME WellFormed(infile2) PROVE FALSE
    OBVIOUS
  <2>1. MayFollow(list2[Len(list2)], P2!line)
    BY <1>0, <1>1, NextLine
  <2>2. IsItem(list2[Len(list2)])
    BY <1>2 DEF Core2, ShapeInv2
  <2>3. ~IsItem(P2!line) /\ identify(P2!line) # "}"
    BY <1>0, SameClasses
  <2> QED BY <2>1, <2>2, <2>3 DEF MayFollow, IsItem
<1>4. TypeInv2'
  BY <1>1, <1>2 DEF Core2, TypeInv2, InBody2
<1>5. ShapeInv2'
  BY <1>1, <1>2 DEF Core2, ShapeInv2, InBody2
<1>6. DeclInv2'
  BY <1>1 DEF Core2, DeclInv2
<1>7. FormatInv2' /\ LoopInv2' /\ CrashInv'
  BY <1>1, <1>3 DEF FormatInv2, LoopInv2, CrashInv
<1>8. OutInv2'
  BY <1>1, OutFrame DEF Core2
<1> QED BY <1>4, <1>5, <1>6, <1>7, <1>8 DEF Core2

\* Before the loops there is no pair.
LEMMA FoundNone ==
  ASSUME NEW L
  PROVE  P2!WithLabels(L, P2!FoundUpTo(L, 1, 0)) = {}
<1>1. \A ab \in (1..Len(L)) \X (1..Len(L)) : ab[1] \in 1..Len(L) /\ ab[2] \in 1..Len(L)
  OBVIOUS
<1>2. P2!FoundUpTo(L, 1, 0) = {}
  BY <1>1 DEF P2!FoundUpTo
<1> QED BY <1>2 DEF P2!WithLabels

\* The end of a body, and of a file within one: the loops begin.
LEMMA BeginStep ==
  ASSUME Core2, infile2' = infile2, P2!CollectRight \/ P2!CollectEof
  PROVE  Core2'
<1> USE DEF P2!s1Vars, P2!s2Vars
<1> DEFINE n == Len(list2)
<1>1. /\ pc2 = "collect" /\ pc2' = "outer"
      /\ s1' = 1 /\ s1_case_level' = 0 /\ s1_case_index' = 0 /\ s2_case_index' = 0
      /\ UNCHANGED <<decl2, list2, flags2, s2, s2_case_level, i2, out2>>
  BY DEF P2!CollectRight, P2!CollectEof, P2!StartProcess
<1>2. \/ P2!ReadLine /\ P2!identify(P2!line) = "}" /\ curState2' = 0
      \/ pos = Len(infile2) /\ pos' = pos /\ curState2' = curState2
  BY DEF P2!CollectRight, P2!CollectEof
<1>3. /\ flags2 = {} /\ n \in Nat /\ n >= 1 /\ IsItem(list2[n]) /\ pos >= 2 /\ pos \in Nat
      /\ decl2 \in Lines2
  BY <1>1 DEF Core2, ShapeInv2, TypeInv2, DeclInv2, InBody2
<1>4. pos' \in 0..Len(infile2) /\ pos' >= 2 /\ curState2' \in 0..3
  <2>1. CASE P2!ReadLine /\ curState2' = 0
    <3>1. pos' \in 1..Len(infile2) /\ pos' = pos + 1
      BY <2>1, LineRead DEF Core2
    <3> QED BY <1>3, <2>1, <3>1
  <2>2. CASE pos' = pos /\ curState2' = curState2
    BY <1>3, <2>2 DEF Core2, TypeInv2
  <2> QED BY <1>2, <2>1, <2>2
<1>5. Complete(infile2) => ~IsCase(list2[n])
  <2> SUFFICES ASSUME Complete(infile2), IsCase(list2[n]) PROVE FALSE
    OBVIOUS
  <2>1. WellFormed(infile2) /\ list2[n] = infile2[pos]
    BY <1>1 DEF Core2, FormatInv2, Complete
  <2>2. CASE P2!ReadLine /\ P2!identify(P2!line) = "}"
    <3>1. MayFollow(list2[n], P2!line)
      BY <1>1, <2>1, <2>2, NextLine
    <3>2. identify(P2!line) = "}"
      BY <2>2, SameClasses
    <3> QED BY <3>1, <3>2 DEF MayFollow, IsTrans
  <2>3. CASE pos = Len(infile2)
    <3>1. Len(infile2) > 0
      BY <1>3, <2>3
    <3>2. identify(infile2[pos]) = "}"
      BY <2>3, <3>1 DEF Complete
    <3> QED BY <2>1, <3>2 DEF IsCase
  <2> QED BY <1>2, <2>2, <2>3
<1>6. TypeInv2'
  BY <1>1, <1>4 DEF Core2, TypeInv2, InBody2
<1>7. ShapeInv2'
  BY <1>1, <1>3, <1>4 DEF Core2, ShapeInv2, InBody2
<1>8. DeclInv2'
  BY <1>1, <1>3 DEF Core2, DeclInv2
<1>9. FormatInv2'
  BY <1>1, <1>5 DEF Core2, FormatInv2
<1>10. LoopInv2' /\ CrashInv'
  <2>1. Level(list2, 0, 0, 0)
    BY DEF Level, NoCase
  <2>2. OuterInv'
    BY <1>1, <1>3, <2>1, FoundNone DEF OuterInv
  <2> QED BY <1>1, <2>2 DEF LoopInv2, CrashInv
<1>11. OutInv2'
  BY <1>1, OutFrame DEF Core2
<1> QED BY <1>6, <1>7, <1>8, <1>9, <1>10, <1>11 DEF Core2

-----------------------------------------------------------------------------
(***************************************************************************)
(* The double loop.                                                        *)
(***************************************************************************)
\* What holds of the body and the indexes in the loops.
LEMMA LoopFacts ==
  ASSUME Core2, pc2 \in {"outer", "inner"}
  PROVE  /\ list2 \in Seq(Line) /\ Len(list2) \in Nat /\ Len(list2) >= 1
         /\ \A k \in 1..Len(list2) : IsCase(list2[k]) \/ IsTrans(list2[k])
         /\ flags2 \in SUBSET (1..Len(list2))
         /\ s1 \in Nat /\ s1 >= 1 /\ s1_case_level \in Nat
         /\ s2 \in Nat /\ s2_case_level \in Nat
         /\ s1_case_index \in Nat /\ s2_case_index \in Nat
BY DEF Core2, TypeInv2, ShapeInv2, InBody2, IsItem

\* What the loops leave alone.
LEMMA LoopFrame ==
  ASSUME Core2, infile2' = infile2, pc2 \in {"outer", "inner"}, pc2' \in {"outer", "inner"},
         UNCHANGED <<pos, curState2, decl2, list2, i2, out2>>
  PROVE  DeclInv2' /\ FormatInv2' /\ CrashInv' /\ OutInv2'
<1>1. DeclInv2'
  BY DEF Core2, DeclInv2, InBody2
<1>2. FormatInv2'
  BY DEF Core2, FormatInv2, InBody2
<1>3. CrashInv'
  BY DEF CrashInv
<1>4. OutInv2'
  BY OutFrame DEF Core2
<1> QED BY <1>1, <1>2, <1>3, <1>4

\* The indexes and the flags stay in the body.
LEMMA LoopShape ==
  ASSUME Core2, infile2' = infile2, pc2 \in {"outer", "inner"}, pc2' \in {"outer", "inner"},
         UNCHANGED <<pos, curState2, decl2, list2, i2, out2>>,
         flags2' \in SUBSET (1..Len(list2)),
         s1' \in Nat, s1_case_level' \in Nat, s1_case_index' \in Nat,
         s2' \in Nat, s2_case_level' \in Nat, s2_case_index' \in Nat,
         pc2' = "outer" => s1' \in 1..(Len(list2) + 1),
         pc2' = "inner" => s1' \in 1..Len(list2) /\ s2' \in (s1' + 1)..(Len(list2) + 2),
         s1_case_level' # 0 => s1_case_index' \in 1..Len(list2),
         pc2' = "inner" /\ s1_case_level' = 0 /\ s2_case_level' # 0
           => s2_case_index' \in 1..Len(list2)
  PROVE  TypeInv2' /\ ShapeInv2'
<1>1. TypeInv2'
  BY DEF Core2, TypeInv2, InBody2
<1>2. ShapeInv2'
  BY DEF Core2, ShapeInv2, InBody2
<1> QED BY <1>1, <1>2

\* A transfer leaves the level and the label as they are.
LEMMA LevelStep ==
  ASSUME NEW L, NEW n \in Nat, n >= 1, ~IsCase(L[n]),
         NEW level, NEW c, Level(L, level, c, n - 1)
  PROVE  Level(L, level, c, n)
<1>1. CASE level = 0
  BY <1>1 DEF Level, NoCase
<1>2. CASE level # 0
  BY <1>2 DEF Level, Section, NoCase
<1> QED BY <1>1, <1>2

\* A label begins a section.
LEMMA LevelLabel ==
  ASSUME NEW L, NEW n \in Nat, n >= 1, IsCase(L[n]), IsTrans(L[n + 1]), NEW level, level # 0
  PROVE  Level(L, level, n, n + 1)
<1>1. ~IsCase(L[n + 1])
  BY TransNotCase
<1> QED BY <1>1 DEF Level, Section, NoCase

LEMMA OuterTransStep ==
  ASSUME Core2, infile2' = infile2, P2!OuterTrans
  PROVE  Core2'
<1> USE DEF P2!s1Vars, P2!s2Vars
<1>1. /\ pc2 = "outer" /\ pc2' = "inner" /\ s1 < Len(list2)
      /\ s2' = s1 + 1 /\ s2_case_level' = s1_case_level
      /\ UNCHANGED <<pos, curState2, decl2, list2, flags2, s1, s1_case_level, s1_case_index,
                     s2_case_index, i2, out2>>
  BY DEF P2!OuterTrans, P2!EnterInner, P2!readVars
<1>2. ~IsCase(list2[s1])
  BY SameClasses DEF P2!OuterTrans
<1>3. /\ list2 \in Seq(Line) /\ Len(list2) \in Nat /\ s1 \in 1..Len(list2) /\ s1 \in Nat
      /\ s1_case_level \in Nat /\ s1_case_index \in Nat /\ s2_case_index \in Nat
      /\ flags2 \in SUBSET (1..Len(list2)) /\ IsTrans(list2[s1])
  BY <1>1, <1>2, LoopFacts
<1>4. s1_case_level # 0 => s1_case_index \in 1..Len(list2)
  BY <1>1 DEF Core2, ShapeInv2
<1>5. TypeInv2' /\ ShapeInv2'
  BY <1>1, <1>3, <1>4, LoopShape
<1>6. ASSUME WellFormed(infile2)
      PROVE  InnerInv'
  <2>1. OuterInv
    BY <1>1, <1>6 DEF Core2, LoopInv2
  <2>2. P2!FoundUpTo(list2, s1, s1 + 1) = P2!FoundUpTo(list2, s1, 0)
    BY <1>3, FoundBegin
  <2>3. Level(list2, s1_case_level, s1_case_index, s1)
    BY <1>2, <1>3, <2>1, LevelStep DEF OuterInv
  <2>4. NoCase(list2, s1 + 1, s1)
    BY <1>3 DEF NoCase
  <2>5. s1_case_level = 0 => Level(list2, s1_case_level, s2_case_index, s1)
    BY <2>3 DEF Level
  <2>6. s2' - 1 = s1
    BY <1>1, <1>3
  <2> QED BY <1>1, <1>3, <2>1, <2>2, <2>3, <2>4, <2>5, <2>6 DEF InnerInv, OuterInv
<1>7. LoopInv2'
  BY <1>1, <1>6 DEF LoopInv2
<1> QED BY <1>1, <1>5, <1>7, LoopFrame DEF Core2

LEMMA OuterCaseStep ==
  ASSUME Core2, infile2' = infile2, P2!OuterCase
  PROVE  Core2'
<1> USE DEF P2!s1Vars, P2!s2Vars
<1>1. /\ pc2 = "outer" /\ pc2' = "inner" /\ s1 < Len(list2)
      /\ s1' = s1 + 1 /\ s1_case_index' = s1 /\ s1_case_level' = s1_case_level + 1
      /\ s2' = s1' + 1 /\ s2_case_level' = s1_case_level'
      /\ UNCHANGED <<pos, curState2, decl2, list2, flags2, s2_case_index, i2, out2>>
  BY DEF P2!OuterCase, P2!EnterInner, P2!readVars
<1>2. IsCase(list2[s1])
  BY SameClasses DEF P2!OuterCase
<1>3. /\ list2 \in Seq(Line) /\ Len(list2) \in Nat /\ s1 \in Nat /\ s1 >= 1
      /\ s1_case_level \in Nat /\ s2_case_index \in Nat /\ flags2 \in SUBSET (1..Len(list2))
  BY <1>1, LoopFacts
<1>4. /\ s1' \in 1..Len(list2) /\ s1' \in Nat /\ s2' \in (s1' + 1)..(Len(list2) + 2) /\ s2' \in Nat
      /\ s1_case_level' \in Nat \ {0} /\ s1_case_index' \in 1..Len(list2)
      /\ s1 \in 1..(Len(list2) - 1) /\ s2' = s1 + 2 /\ s2' - 1 = s1 + 1
  BY <1>1, <1>3
<1>5. TypeInv2' /\ ShapeInv2'
  <2>1. s1_case_index' \in Nat /\ s2_case_level' \in Nat /\ s2_case_index' \in Nat
    BY <1>1, <1>3, <1>4
  <2> QED BY <1>1, <1>3, <1>4, <2>1, LoopShape
<1>6. ASSUME WellFormed(infile2)
      PROVE  InnerInv'
  <2>1. OuterInv /\ Labelled(list2)
    BY <1>1, <1>6 DEF Core2, LoopInv2, FormatInv2
  <2>2. IsTrans(list2[s1 + 1])
    BY <1>2, <1>4, <2>1 DEF Labelled
  <2>3. P2!FoundUpTo(list2, s1 + 1, s1 + 2) = P2!FoundUpTo(list2, s1, 0)
    BY <1>2, <1>3, <1>4, FoundOuterLabel
  <2>4. Level(list2, s1_case_level', s1, s1 + 1)
    BY <1>2, <1>3, <1>4, <2>2, LevelLabel
  <2>5. NoCase(list2, s1' + 1, s2' - 1)
    BY <1>1, <1>3, <1>4 DEF NoCase
  <2>6. flags2' = P2!WithLabels(list2', P2!FoundUpTo(list2', s1', s2'))
    BY <1>1, <1>4, <2>1, <2>3 DEF OuterInv
  <2> QED BY <1>1, <1>4, <2>2, <2>4, <2>5, <2>6 DEF InnerInv
<1>7. LoopInv2'
  BY <1>1, <1>6 DEF LoopInv2
<1> QED BY <1>1, <1>5, <1>7, LoopFrame DEF Core2

\* The flags after a comparison are those of Compared.
LEMMA CompareIs ==
  ASSUME NEW t, NEW level, NEW index, P2!Compare(t, level, index)
  PROVE  flags2' = Compared(flags2, list2, s1, t, s1_case_level, s1_case_index, level, index)
BY DEF P2!Compare, Compared

\* They stay in the body.
LEMMA ComparedType ==
  ASSUME NEW L, NEW F \in SUBSET (1..Len(L)), NEW a \in 1..Len(L), NEW t \in 1..Len(L),
         NEW l1, NEW c1, l1 # 0 => c1 \in 1..Len(L),
         NEW l2, NEW c2, l1 = 0 /\ l2 # 0 => c2 \in 1..Len(L)
  PROVE  Compared(F, L, a, t, l1, c1, l2, c2) \in SUBSET (1..Len(L))
BY DEF Compared

\* What holds in the inner loop whatever the format of the file.
LEMMA InnerFacts ==
  ASSUME Core2, pc2 = "inner"
  PROVE  /\ s1 \in 1..Len(list2) /\ s2 \in (s1 + 1)..(Len(list2) + 2)
         /\ s1_case_level # 0 => s1_case_index \in 1..Len(list2)
         /\ s1_case_level = 0 /\ s2_case_level # 0 => s2_case_index \in 1..Len(list2)
BY DEF Core2, ShapeInv2

LEMMA InnerTransStep ==
  ASSUME Core2, infile2' = infile2, P2!InnerTrans
  PROVE  Core2'
<1> USE DEF P2!s1Vars, P2!s2Vars
<1>1. /\ pc2 = "inner" /\ pc2' = "inner" /\ s2 <= Len(list2) /\ s2' = s2 + 1
      /\ UNCHANGED <<pos, curState2, decl2, list2, s1, s1_case_level, s1_case_index,
                     s2_case_level, s2_case_index, i2, out2>>
  BY DEF P2!InnerTrans, P2!readVars
<1>2. ~IsCase(list2[s2])
  BY SameClasses DEF P2!InnerTrans
<1>3. /\ list2 \in Seq(Line) /\ Len(list2) \in Nat /\ s1 \in Nat /\ s2 \in Nat
      /\ \A k \in 1..Len(list2) : IsCase(list2[k]) \/ IsTrans(list2[k])
      /\ s1_case_level \in Nat /\ s1_case_index \in Nat
      /\ s2_case_level \in Nat /\ s2_case_index \in Nat /\ flags2 \in SUBSET (1..Len(list2))
  BY <1>1, LoopFacts
<1>4. /\ s1 \in 1..Len(list2) /\ s2 \in (s1 + 1)..(Len(list2) + 2)
      /\ s1_case_level # 0 => s1_case_index \in 1..Len(list2)
      /\ s1_case_level = 0 /\ s2_case_level # 0 => s2_case_index \in 1..Len(list2)
  BY <1>1, InnerFacts
<1>5. /\ s2 \in (s1 + 1)..Len(list2) /\ s2 \in 1..Len(list2) /\ s1 < s2 /\ s2 - 1 \in Nat
      /\ s2' \in Nat /\ s2' \in (s1 + 1)..(Len(list2) + 2) /\ s2' - 1 = s2 /\ s2 <= Len(list2) + 1
  BY <1>1, <1>3, <1>4
<1>6. flags2' = Compared(flags2, list2, s1, s2, s1_case_level, s1_case_index,
                         s2_case_level, s2_case_index)
  BY CompareIs DEF P2!InnerTrans
<1>7. flags2' \in SUBSET (1..Len(list2))
  BY <1>3, <1>4, <1>5, <1>6, ComparedType
<1>8. TypeInv2' /\ ShapeInv2'
  BY <1>1, <1>3, <1>4, <1>5, <1>7, LoopShape
<1>9. ASSUME WellFormed(infile2)
      PROVE  InnerInv'
  <2>1. InnerInv
    BY <1>1, <1>9 DEF Core2, LoopInv2
  <2>2. /\ s2_case_level >= s1_case_level
        /\ s2_case_level = s1_case_level <=> NoCase(list2, s1 + 1, s2 - 1)
        /\ s1_case_level = 0 => Level(list2, s2_case_level, s2_case_index, s2 - 1)
        /\ IsTrans(list2[s1]) /\ Level(list2, s1_case_level, s1_case_index, s1)
        /\ flags2 = P2!WithLabels(list2, P2!FoundUpTo(list2, s1, s2))
    BY <1>5, <2>1 DEF InnerInv
  <2>3. IsTrans(list2[s2])
    BY <1>2, <1>3, <1>5
  <2>4. s2_case_level = s1_case_level <=> NoCase(list2, s1 + 1, s2)
    <3>1. NoCase(list2, s1 + 1, s2 - 1) <=> NoCase(list2, s1 + 1, s2)
      BY <1>2, <1>3, <1>5 DEF NoCase
    <3> QED BY <2>2, <3>1
  <2>5. s1_case_level = 0 => Level(list2, s2_case_level, s2_case_index, s2)
    BY <1>2, <1>3, <1>5, <2>2, LevelStep
  <2>6. flags2' = P2!WithLabels(list2, P2!FoundUpTo(list2, s1, s2 + 1))
    BY <1>3, <1>4, <1>5, <1>6, <2>2, <2>3, <2>4, <2>5, CompareStep
  <2> QED BY <1>1, <1>5, <2>2, <2>4, <2>5, <2>6 DEF InnerInv
<1>10. LoopInv2'
  BY <1>1, <1>9 DEF LoopInv2
<1> QED BY <1>1, <1>8, <1>10, LoopFrame DEF Core2

LEMMA InnerCaseStep ==
  ASSUME Core2, infile2' = infile2, P2!InnerCase
  PROVE  Core2'
<1> USE DEF P2!s1Vars, P2!s2Vars
<1>1. /\ pc2 = "inner" /\ pc2' = "inner" /\ s2 < Len(list2) /\ s2' = s2 + 2
      /\ s2_case_index' = s2 /\ s2_case_level' = s2_case_level + 1
      /\ UNCHANGED <<pos, curState2, decl2, list2, s1, s1_case_level, s1_case_index, i2, out2>>
  BY DEF P2!InnerCase, P2!readVars
<1>2. IsCase(list2[s2])
  BY SameClasses DEF P2!InnerCase
<1>3. /\ list2 \in Seq(Line) /\ Len(list2) \in Nat /\ s1 \in Nat /\ s2 \in Nat
      /\ s1_case_level \in Nat /\ s1_case_index \in Nat
      /\ s2_case_level \in Nat /\ flags2 \in SUBSET (1..Len(list2))
  BY <1>1, LoopFacts
<1>4. /\ s1 \in 1..Len(list2) /\ s2 \in (s1 + 1)..(Len(list2) + 2)
      /\ s1_case_level # 0 => s1_case_index \in 1..Len(list2)
  BY <1>1, InnerFacts
<1>5. /\ s2 \in (s1 + 1)..Len(list2) /\ s2 \in 1..(Len(list2) - 1) /\ s1 < s2 /\ s2 >= 1
      /\ s2 + 1 \in (s1 + 1)..Len(list2) /\ s2 + 1 \in 1..Len(list2)
      /\ s2' \in Nat /\ s2' \in (s1 + 1)..(Len(list2) + 2) /\ s2' - 1 = s2 + 1
      /\ s2' = (s2 + 1) + 1 /\ s2 <= Len(list2) + 1
      /\ s2_case_index' \in 1..Len(list2) /\ s2_case_index' \in Nat /\ s2_case_level' \in Nat \ {0}
  BY <1>1, <1>3, <1>4
<1>6. flags2' = Compared(flags2, list2, s1, s2 + 1, s1_case_level, s1_case_index, s2_case_level', s2)
  <2>1. P2!Compare(s2 + 1, s2_case_level', s2_case_index')
    BY DEF P2!InnerCase
  <2> QED BY <1>1, <2>1, CompareIs
<1>7. flags2' \in SUBSET (1..Len(list2))
  <2>1. s2 \in 1..Len(list2)
    BY <1>1, <1>5
  <2> QED BY <1>3, <1>4, <1>5, <1>6, <2>1, ComparedType
<1>8. TypeInv2' /\ ShapeInv2'
  BY <1>1, <1>3, <1>4, <1>5, <1>7, LoopShape
<1>9. ASSUME WellFormed(infile2)
      PROVE  InnerInv'
  <2>1. InnerInv /\ Labelled(list2)
    BY <1>1, <1>9 DEF Core2, LoopInv2, FormatInv2
  <2>2. /\ s2_case_level >= s1_case_level
        /\ IsTrans(list2[s1]) /\ Level(list2, s1_case_level, s1_case_index, s1)
        /\ flags2 = P2!WithLabels(list2, P2!FoundUpTo(list2, s1, s2))
    BY <1>5, <2>1 DEF InnerInv
  <2>3. IsTrans(list2[s2 + 1])
    BY <1>2, <1>5, <2>1 DEF Labelled
  <2>4. /\ s2_case_level' # s1_case_level /\ s2_case_level' >= s1_case_level
        /\ ~NoCase(list2, s1 + 1, s2 + 1)
    BY <1>1, <1>2, <1>3, <1>5, <2>2 DEF NoCase
  <2>5. Level(list2, s2_case_level', s2, s2 + 1)
    BY <1>2, <1>3, <1>5, <2>3, LevelLabel
  <2>6. flags2 = P2!WithLabels(list2, P2!FoundUpTo(list2, s1, s2 + 1))
    BY <1>2, <1>3, <1>4, <1>5, <2>2, FoundLabel
  <2>7. flags2' = P2!WithLabels(list2, P2!FoundUpTo(list2, s1, (s2 + 1) + 1))
    BY <1>3, <1>4, <1>5, <1>6, <2>2, <2>3, <2>4, <2>5, <2>6, CompareStep
  <2> QED BY <1>1, <1>5, <2>2, <2>4, <2>5, <2>7 DEF InnerInv
<1>10. LoopInv2'
  BY <1>1, <1>9 DEF LoopInv2
<1> QED BY <1>1, <1>8, <1>10, LoopFrame DEF Core2

\* Stepping over a label at the end of the body: only a file that phase 1 has
\* not finished has one.
LEMMA InnerLastCaseStep ==
  ASSUME Core2, infile2' = infile2, P2!InnerLastCase
  PROVE  Core2'
<1> USE DEF P2!s1Vars, P2!s2Vars
<1>1. /\ pc2 = "inner" /\ s2 = Len(list2) /\ s2' = s2 + 2
      /\ s2_case_index' = s2 /\ s2_case_level' = s2_case_level + 1
      /\ pc2' = IF s1_case_level = 0 THEN "crashed" ELSE "inner"
      /\ UNCHANGED <<pos, curState2, decl2, list2, flags2,
                     s1, s1_case_level, s1_case_index, i2, out2>>
  BY DEF P2!InnerLastCase, P2!readVars
<1>2. IsCase(list2[s2])
  BY SameClasses DEF P2!InnerLastCase
<1>3. /\ list2 \in Seq(Line) /\ Len(list2) \in Nat /\ s1 \in Nat /\ s2 \in Nat
      /\ s1_case_level \in Nat /\ s1_case_index \in Nat
      /\ s2_case_level \in Nat /\ flags2 \in SUBSET (1..Len(list2))
  BY <1>1, LoopFacts
<1>4. /\ s1 \in 1..Len(list2) /\ s2 \in (s1 + 1)..(Len(list2) + 2)
      /\ s1_case_level # 0 => s1_case_index \in 1..Len(list2)
  BY <1>1, InnerFacts
<1>5. /\ s2' \in Nat /\ s2' \in (s1 + 1)..(Len(list2) + 2) /\ ~(s2' <= Len(list2) + 1)
      /\ s2 \in (s1 + 1)..Len(list2) /\ s2 + 1 > Len(list2) /\ s2 + 2 > Len(list2)
      /\ s2 + 1 \in Nat /\ s2 + 2 \in Nat
      /\ s2_case_index' \in 1..Len(list2) /\ s2_case_index' \in Nat /\ s2_case_level' \in Nat
  BY <1>1, <1>3, <1>4
<1>6. CASE s1_case_level = 0
  <2>0. pc2' = "crashed"
    BY <1>1, <1>6
  <2>1. TypeInv2'
    BY <1>1, <1>3, <1>5, <2>0 DEF Core2, TypeInv2, InBody2
  <2>2. ShapeInv2'
    BY <1>1, <2>0 DEF Core2, ShapeInv2, InBody2
  <2>3. DeclInv2'
    BY <1>1, <2>0 DEF Core2, DeclInv2, InBody2
  <2>4. FormatInv2'
    BY <1>1, <2>0 DEF Core2, FormatInv2, InBody2
  <2>5. LoopInv2'
    BY <2>0 DEF LoopInv2
  <2>6. CrashInv'
    <3>1. WellFormed(infile2) /\ Complete(infile2) => ~IsCase(list2[Len(list2)])
      BY <1>1 DEF Core2, FormatInv2, InBody2
    <3>2. ~Complete(infile2)
      BY <1>1, <1>2, <3>1 DEF Complete
    <3> QED BY <3>2 DEF CrashInv, Complete
  <2>7. OutInv2'
    BY <1>1, <2>0, OutFrame DEF Core2
  <2> QED BY <2>1, <2>2, <2>3, <2>4, <2>5, <2>6, <2>7 DEF Core2
<1>7. CASE s1_case_level # 0
  <2>0. pc2' = "inner"
    BY <1>1, <1>7
  <2>1. TypeInv2' /\ ShapeInv2'
    BY <1>1, <1>3, <1>4, <1>5, <2>0, LoopShape
  <2>2. ASSUME WellFormed(infile2)
        PROVE  InnerInv'
    <3>1. /\ IsTrans(list2[s1]) /\ Level(list2, s1_case_level, s1_case_index, s1)
          /\ flags2 = P2!WithLabels(list2, P2!FoundUpTo(list2, s1, s2))
      BY <1>1, <2>2 DEF Core2, LoopInv2, InnerInv
    <3>2. P2!FoundUpTo(list2, s1, s2 + 1) = P2!FoundUpTo(list2, s1, s2)
      BY <1>2, <1>3, <1>4, <1>5, FoundLabel
    <3>3. P2!FoundUpTo(list2, s1 + 1, 0) = P2!FoundUpTo(list2, s1, s2 + 1)
      BY <1>3, <1>4, <1>5, FoundEnd
    <3>4. P2!FoundUpTo(list2, s1 + 1, 0) = P2!FoundUpTo(list2, s1, s2 + 2)
      BY <1>3, <1>4, <1>5, FoundEnd
    <3> QED BY <1>1, <1>5, <3>1, <3>2, <3>3, <3>4 DEF InnerInv
  <2>3. LoopInv2'
    BY <2>0, <2>2 DEF LoopInv2
  <2> QED BY <1>1, <2>0, <2>1, <2>3, LoopFrame DEF Core2
<1> QED BY <1>6, <1>7

LEMMA InnerExitStep ==
  ASSUME Core2, infile2' = infile2, P2!InnerExit
  PROVE  Core2'
<1> USE DEF P2!s1Vars, P2!s2Vars
<1>1. /\ pc2 = "inner" /\ pc2' = "outer" /\ s2 > Len(list2) /\ s1' = s1 + 1
      /\ UNCHANGED <<pos, curState2, decl2, list2, flags2, s1_case_level, s1_case_index,
                     s2, s2_case_level, s2_case_index, i2, out2>>
  BY DEF P2!InnerExit, P2!readVars
<1>2. /\ list2 \in Seq(Line) /\ Len(list2) \in Nat /\ s1 \in Nat /\ s2 \in Nat
      /\ s1_case_level \in Nat /\ s1_case_index \in Nat
      /\ s2_case_level \in Nat /\ s2_case_index \in Nat /\ flags2 \in SUBSET (1..Len(list2))
  BY <1>1, LoopFacts
<1>3. /\ s1 \in 1..Len(list2)
      /\ s1_case_level # 0 => s1_case_index \in 1..Len(list2)
  BY <1>1, InnerFacts
<1>4. s1' \in Nat /\ s1' \in 1..(Len(list2) + 1) /\ s1' - 1 = s1
  BY <1>1, <1>2, <1>3
<1>5. TypeInv2' /\ ShapeInv2'
  BY <1>1, <1>2, <1>3, <1>4, LoopShape
<1>6. ASSUME WellFormed(infile2)
      PROVE  OuterInv'
  <2>1. InnerInv
    BY <1>1, <1>6 DEF Core2, LoopInv2
  <2>2. P2!FoundUpTo(list2, s1 + 1, 0) = P2!FoundUpTo(list2, s1, s2)
    BY <1>1, <1>2, <1>3, FoundEnd
  <2> QED BY <1>1, <1>4, <2>1, <2>2 DEF InnerInv, OuterInv
<1>7. LoopInv2'
  BY <1>1, <1>6 DEF LoopInv2
<1> QED BY <1>1, <1>5, <1>7, LoopFrame DEF Core2

-----------------------------------------------------------------------------
(***************************************************************************)
(* Writing the flagged items.                                              *)
(***************************************************************************)
\* A label that is flagged has a flagged transfer in its section.
LEMMA FetchedLabel ==
  ASSUME NEW L, NEW c \in P2!Fetches(L), IsCase(L[c])
  PROVE  /\ c \in 1..Len(L)
         /\ \E j \in P2!Fetches(L) : j \in 1..Len(L) /\ c < j /\ NoCase(L, c + 1, j)
<1> DEFINE P == P2!FoundUpTo(L, Len(L), 0)
           Of(j, ab) == j = ab[1] \/ j = ab[2] \/ LabelOf(L, j, ab[1]) \/ LabelOf(L, j, ab[2])
<1>1. P2!Fetches(L) = {j \in 1..Len(L) : \E ab \in P : Of(j, ab)}
  BY SamePaths DEF P2!Fetches, P2!WithLabels
<1>2. \A ab \in P : /\ ab[1] \in 1..Len(L) /\ ab[2] \in 1..Len(L)
                    /\ IsTrans(L[ab[1]]) /\ IsTrans(L[ab[2]])
  <2>1. \A ab \in P : ab \in (1..Len(L)) \X (1..Len(L)) /\ P2!Pair(L, ab[1], ab[2])
    BY DEF P2!FoundUpTo, P2!DoubleFetch
  <2>2. \A ab \in P : Pair(L, ab[1], ab[2])
    BY <2>1, SamePaths
  <2> QED BY <2>1, <2>2 DEF Pair
<1> HIDE DEF P
<1>3. PICK ab \in P : Of(c, ab)
  BY <1>1
<1>4. ~IsCase(L[ab[1]]) /\ ~IsCase(L[ab[2]])
  BY <1>2, TransNotCase
<1>5. LabelOf(L, c, ab[1]) \/ LabelOf(L, c, ab[2])
  BY <1>3, <1>4
<1>6. ab[1] \in P2!Fetches(L) /\ ab[2] \in P2!Fetches(L)
  BY <1>1, <1>2
<1>7. c \in 1..Len(L)
  BY <1>1
<1> QED BY <1>2, <1>5, <1>6, <1>7 DEF LabelOf

\* Processed in terms of pc2, and what it says of the flags.
LEMMA ProcessedFlags ==
  ASSUME Core2, P2!Processed, WellFormed(infile2)
  PROVE  flags2 = P2!Fetches(list2)
<1>1. pc2 = "outer" /\ s1 >= Len(list2)
  BY DEF P2!Processed
<1>2. list2 \in Seq(Line) /\ s1 \in Nat
  BY <1>1, LoopFacts
<1>3. P2!FoundUpTo(list2, Len(list2), 0) = P2!FoundUpTo(list2, s1, 0)
  BY <1>1, <1>2, FoundAll
<1>4. OuterInv
  BY <1>1 DEF Core2, LoopInv2
<1> QED BY <1>3, <1>4 DEF OuterInv, P2!Fetches

LEMMA OpenStep ==
  ASSUME Core2, infile2' = infile2, P2!OpenBody
  PROVE  Core2'
<1> USE DEF P2!s1Vars, P2!s2Vars
<1> DEFINE f == P2!Opened(out2)
           g == Append(f, decl2)
<1>1. /\ pc2 = "outer" /\ pc2' = "write" /\ i2' = 1 /\ flags2 # {} /\ P2!Processed
      /\ UNCHANGED <<pos, curState2, decl2, list2, flags2, s1, s1_case_level, s1_case_index,
                     s2, s2_case_level, s2_case_index>>
  BY DEF P2!OpenBody, P2!Processed, P2!readVars
<1>2. out2' = Append(g, LeftLine)
  BY SameLines DEF P2!OpenBody
<1>3. /\ decl2 \in Lines2 /\ LeftLine \in Lines2 /\ out2 \in Seq(Lines2) /\ infile2[1] \in Lines2
      /\ Len(infile2) > 0
  <2>1. decl2 \in Lines2
    BY <1>1 DEF Core2, DeclInv2, InBody2
  <2>2. infile2 \in Seq(Lines2) /\ pos \in 0..Len(infile2) /\ pos >= 2 /\ out2 \in Seq(Lines2)
    BY <1>1 DEF Core2, TypeInv2, ShapeInv2, InBody2
  <2>3. 1 \in 1..Len(infile2) /\ Len(infile2) > 0
    BY <2>2
  <2>4. LeftLine \in Lines2
    BY Braces DEF Lines2
  <2>5. infile2[1] \in Lines2
    BY <2>2, <2>3
  <2> QED BY <2>1, <2>2, <2>3, <2>4, <2>5
<1>4. f \in Seq(Lines2) /\ Len(f) >= 1
  <2>1. CASE out2 = <<>>
    <3>1. f = <<infile2[1]>>
      BY <2>1 DEF P2!Opened
    <3> QED BY <1>3, <3>1
  <2>2. CASE out2 # <<>>
    BY <1>3, <2>2 DEF P2!Opened
  <2> QED BY <2>1, <2>2
<1>5. g \in Seq(Lines2)
  BY <1>3, <1>4
<1>6. out2' \in Seq(Lines2)
  BY <1>2, <1>3, <1>5
<1>7. TypeInv2'
  BY <1>1, <1>6 DEF Core2, TypeInv2, InBody2
<1>8. ShapeInv2'
  BY <1>1 DEF Core2, TypeInv2, ShapeInv2, InBody2
<1>9. DeclInv2' /\ CrashInv'
  BY <1>1 DEF Core2, DeclInv2, CrashInv, InBody2
<1>10. FormatInv2'
  BY <1>1 DEF Core2, FormatInv2, InBody2
<1>11. LoopInv2'
  BY <1>1, ProcessedFlags DEF LoopInv2
<1>12. OutInv2'
  <2> SUFFICES ASSUME WellFormed(infile2)
               PROVE  WellFormed(out2') /\ LastLine(out2') = LeftLine /\ Len(out2') >= 3
    BY <1>1 DEF OutInv2, NoFlag2
  <2>1. WellFormed(f)
    <3>1. CASE out2 = <<>>
      <4>1. f = <<infile2[1]>> /\ infile2[1] = OriginLine
        BY <1>3, <3>1 DEF P2!Opened, WellFormed
      <4> QED BY <4>1 DEF WellFormed
    <3>2. CASE out2 # <<>>
      BY <1>1, <3>2 DEF Core2, OutInv2, P2!Opened
    <3> QED BY <3>1, <3>2
  <2>2. identify(decl2) = "funcDecl"
    BY DEF Core2, DeclInv2
  <2>3. Len(f) # 1 => MayFollow(LastLine(f), decl2)
    <3>1. ASSUME Len(f) # 1 PROVE identify(LastLine(f)) = "}"
      <4>1. f = out2 /\ Len(out2) > 0
        BY <1>3, <1>4, <3>1 DEF P2!Opened
      <4> QED
        BY <1>1, <4>1 DEF Core2, OutInv2, Complete, LastLine
    <3> QED BY <2>2, <3>1 DEF MayFollow, IsCase, IsTrans
  <2> HIDE DEF f
  <2>4. WellFormed(g) /\ LastLine(g) = decl2 /\ Len(g) = Len(f) + 1
    BY <1>3, <1>4, <2>1, <2>2, <2>3, WellFormedAppend
  <2>5. MayFollow(LastLine(g), LeftLine)
    BY <2>2, <2>4, Braces DEF MayFollow, IsCase, IsTrans
  <2> HIDE DEF g
  <2>6. WellFormed(out2') /\ LastLine(out2') = LeftLine /\ Len(out2') = Len(g) + 1
    BY <1>2, <1>3, <1>4, <1>5, <2>4, <2>5, WellFormedAppend
  <2> QED BY <1>4, <2>4, <2>6
<1> QED BY <1>7, <1>8, <1>9, <1>10, <1>11, <1>12 DEF Core2

LEMMA DropStep ==
  ASSUME Core2, infile2' = infile2, P2!DropBody
  PROVE  Core2'
<1> USE DEF P2!s1Vars, P2!s2Vars
<1>1. /\ pc2 = "outer" /\ pc2' = "main" /\ list2' = <<>> /\ flags2' = {} /\ i2' = 0
      /\ UNCHANGED <<pos, curState2, decl2, s1, s1_case_level, s1_case_index,
                     s2, s2_case_level, s2_case_index, out2>>
  BY DEF P2!DropBody, P2!Processed, P2!ResetBuffers, P2!readVars
<1>2. TypeInv2'
  BY <1>1 DEF Core2, TypeInv2, InBody2
<1>3. ShapeInv2'
  BY <1>1 DEF Core2, ShapeInv2, InBody2
<1>4. DeclInv2' /\ CrashInv'
  BY <1>1 DEF Core2, DeclInv2, CrashInv, InBody2
<1>5. FormatInv2'
  BY <1>1 DEF FormatInv2, Labelled, InBody2
<1>6. LoopInv2'
  BY <1>1 DEF LoopInv2
<1>7. OutInv2'
  BY <1>1, OutFrame DEF Core2
<1> QED BY <1>2, <1>3, <1>4, <1>5, <1>6, <1>7 DEF Core2

\* What holds while a body is written.
LEMMA WriteFacts ==
  ASSUME Core2, pc2 = "write"
  PROVE  /\ list2 \in Seq(Line) /\ Len(list2) \in Nat /\ i2 \in 1..(Len(list2) + 1)
         /\ \A k \in 1..Len(list2) : IsItem(list2[k])
         /\ flags2 \in SUBSET (1..Len(list2)) /\ flags2 # {} /\ out2 \in Seq(Lines2)
         /\ WellFormed(infile2) =>
              /\ flags2 = P2!Fetches(list2)
              /\ WellFormed(out2) /\ Len(out2) >= 3
<1>1. /\ list2 \in Seq(Line) /\ Len(list2) \in Nat
      /\ flags2 \in SUBSET (1..Len(list2)) /\ out2 \in Seq(Lines2)
  BY DEF Core2, TypeInv2
<1>2. /\ \A k \in 1..Len(list2) : IsItem(list2[k])
      /\ i2 \in 1..(Len(list2) + 1) /\ flags2 # {}
  BY DEF Core2, ShapeInv2
<1>3. WellFormed(infile2) => flags2 = P2!Fetches(list2)
  BY DEF Core2, LoopInv2
<1>4. WellFormed(infile2) => WellFormed(out2) /\ Len(out2) >= 3
  BY DEF Core2, OutInv2
<1> QED BY <1>1, <1>2, <1>3, <1>4

LEMMA WriteStep ==
  ASSUME Core2, infile2' = infile2, P2!WriteItem
  PROVE  Core2'
<1> USE DEF P2!s1Vars, P2!s2Vars
<1>1. /\ pc2 = "write" /\ pc2' = "write" /\ i2 <= Len(list2) /\ i2' = i2 + 1
      /\ out2' = IF i2 \in flags2 THEN Append(out2, list2[i2]) ELSE out2
      /\ UNCHANGED <<pos, curState2, decl2, list2, flags2, s1, s1_case_level, s1_case_index,
                     s2, s2_case_level, s2_case_index>>
  BY DEF P2!WriteItem, P2!readVars
<1>2. /\ list2 \in Seq(Line) /\ Len(list2) \in Nat /\ i2 \in 1..(Len(list2) + 1)
      /\ \A k \in 1..Len(list2) : IsItem(list2[k])
      /\ flags2 \in SUBSET (1..Len(list2)) /\ flags2 # {} /\ out2 \in Seq(Lines2)
  BY <1>1, WriteFacts
<1>3. i2 \in 1..Len(list2) /\ i2' \in 1..(Len(list2) + 1) /\ i2' \in Nat /\ i2' - 1 = i2 /\ i2 \in Nat
  BY <1>1, <1>2
<1>4. list2[i2] \in Lines2 /\ IsItem(list2[i2])
  BY <1>2, <1>3 DEF Lines2
<1>5. TypeInv2'
  <2>1. out2' \in Seq(Lines2)
    BY <1>1, <1>2, <1>4
  <2> QED BY <1>1, <1>3, <2>1 DEF Core2, TypeInv2, InBody2
<1>6. ShapeInv2'
  BY <1>1, <1>2, <1>3 DEF Core2, ShapeInv2, InBody2
<1>7. DeclInv2' /\ CrashInv'
  BY <1>1 DEF Core2, DeclInv2, CrashInv, InBody2
<1>8. FormatInv2'
  BY <1>1 DEF Core2, FormatInv2, InBody2
<1>9. LoopInv2'
  BY <1>1 DEF Core2, LoopInv2
<1>10. OutInv2'
  <2> SUFFICES ASSUME WellFormed(infile2)
               PROVE  /\ WellFormed(out2') /\ Len(out2') >= 3
                      /\ \/ LastLine(out2') = LeftLine /\ NoFlag2(1, i2)
                         \/ \E m \in 1..i2 : /\ m \in flags2
                                             /\ LastLine(out2') = list2[m]
                                             /\ NoFlag2(m + 1, i2)
    BY <1>1, <1>3 DEF OutInv2, NoFlag2
  <2>1. /\ flags2 = P2!Fetches(list2) /\ WellFormed(out2) /\ Len(out2) >= 3
    BY <1>1, WriteFacts
  <2>2. \/ LastLine(out2) = LeftLine /\ NoFlag2(1, i2 - 1)
        \/ \E m \in 1..(i2 - 1) : /\ m \in flags2
                                  /\ LastLine(out2) = list2[m]
                                  /\ NoFlag2(m + 1, i2 - 1)
    BY <1>1 DEF Core2, OutInv2
  <2>3. CASE i2 \notin flags2
    <3>1. out2' = out2
      BY <1>1, <2>3
    <3>2. \A m \in 1..i2 : NoFlag2(m, i2 - 1) => NoFlag2(m, i2)
      BY <1>3, <2>3 DEF NoFlag2
    <3>3. CASE LastLine(out2) = LeftLine /\ NoFlag2(1, i2 - 1)
      <4>1. NoFlag2(1, i2)
        BY <1>3, <3>2, <3>3
      <4> QED BY <2>1, <3>1, <3>3, <4>1
    <3>4. CASE \E m \in 1..(i2 - 1) : /\ m \in flags2
                                      /\ LastLine(out2) = list2[m]
                                      /\ NoFlag2(m + 1, i2 - 1)
      <4>1. PICK m \in 1..(i2 - 1) : /\ m \in flags2
                                     /\ LastLine(out2) = list2[m]
                                     /\ NoFlag2(m + 1, i2 - 1)
        BY <3>4
      <4>2. m \in 1..i2 /\ m + 1 \in 1..i2
        BY <1>3
      <4>3. NoFlag2(m + 1, i2)
        BY <3>2, <4>1, <4>2
      <4> QED BY <2>1, <3>1, <4>1, <4>2, <4>3
    <3> QED BY <2>2, <3>3, <3>4
  <2>4. CASE i2 \in flags2
    <3>1. out2' = Append(out2, list2[i2])
      BY <1>1, <2>4
    <3>2. MayFollow(LastLine(out2), list2[i2])
      <4>1. CASE LastLine(out2) = LeftLine
        BY <1>4, <4>1, Braces DEF MayFollow, IsCase, IsTrans
      <4>2. ASSUME NEW m \in 1..(i2 - 1), m \in flags2, LastLine(out2) = list2[m],
                   NoFlag2(m + 1, i2 - 1)
            PROVE  MayFollow(LastLine(out2), list2[i2])
        <5>0. IsItem(list2[m])
          BY <1>2, <4>2
        <5>1. CASE IsCase(list2[m])
          <6>1. PICK j \in flags2 : j \in 1..Len(list2) /\ m < j /\ NoCase(list2, m + 1, j)
            BY <2>1, <4>2, <5>1, FetchedLabel
          <6>2. i2 \in (m + 1)..j
            BY <1>3, <4>2, <6>1 DEF NoFlag2
          <6>3. ~IsCase(list2[i2])
            BY <6>1, <6>2 DEF NoCase
          <6>4. IsTrans(list2[i2])
            BY <1>4, <6>3 DEF IsItem
          <6> QED
            BY <4>2, <5>1, <6>4 DEF MayFollow, IsTrans, IsCase
        <5>2. CASE ~IsCase(list2[m])
          <6>1. IsTrans(list2[m])
            BY <5>0, <5>2 DEF IsItem
          <6> QED
            BY <1>4, <4>2, <6>1 DEF MayFollow, IsTrans, IsCase
        <5> QED BY <5>1, <5>2
      <4> QED BY <2>2, <4>1, <4>2
    <3>3. Len(out2) >= 1 /\ Len(out2) # 1 /\ Len(out2) \in Nat
      <4>1. Len(out2) \in Nat
        BY <1>2
      <4> QED BY <2>1, <4>1, AroundOne
    <3>4. WellFormed(out2') /\ LastLine(out2') = list2[i2] /\ Len(out2') = Len(out2) + 1
      BY <1>2, <1>4, <2>1, <3>1, <3>2, <3>3, WellFormedAppend
    <3>5. NoFlag2(i2 + 1, i2) /\ i2 \in 1..i2 /\ Len(out2') >= 3
      BY <1>3, <2>1, <3>3, <3>4 DEF NoFlag2
    <3> QED BY <2>4, <3>4, <3>5
  <2> QED BY <2>3, <2>4
<1> QED BY <1>5, <1>6, <1>7, <1>8, <1>9, <1>10 DEF Core2

LEMMA CloseStep ==
  ASSUME Core2, infile2' = infile2, P2!CloseBody
  PROVE  Core2'
<1> USE DEF P2!s1Vars, P2!s2Vars
<1>1. /\ pc2 = "write" /\ pc2' = "main" /\ i2 > Len(list2)
      /\ list2' = <<>> /\ flags2' = {} /\ i2' = 0
      /\ UNCHANGED <<pos, curState2, decl2, s1, s1_case_level, s1_case_index,
                     s2, s2_case_level, s2_case_index>>
  BY DEF P2!CloseBody, P2!ResetBuffers, P2!readVars
<1>2. out2' = Append(out2, RightLine)
  BY SameLines DEF P2!CloseBody
<1>3. /\ list2 \in Seq(Line) /\ Len(list2) \in Nat /\ i2 \in 1..(Len(list2) + 1)
      /\ \A k \in 1..Len(list2) : IsItem(list2[k])
      /\ flags2 \in SUBSET (1..Len(list2)) /\ flags2 # {} /\ out2 \in Seq(Lines2)
  BY <1>1, WriteFacts
<1>4. RightLine \in Lines2 /\ out2' \in Seq(Lines2)
  <2>1. RightLine \in Lines2
    BY Braces DEF Lines2
  <2> QED BY <1>2, <1>3, <2>1
<1>5. TypeInv2'
  BY <1>1, <1>4 DEF Core2, TypeInv2, InBody2
<1>6. ShapeInv2'
  BY <1>1 DEF Core2, ShapeInv2, InBody2
<1>7. DeclInv2' /\ CrashInv'
  BY <1>1 DEF Core2, DeclInv2, CrashInv, InBody2
<1>8. FormatInv2'
  BY <1>1 DEF FormatInv2, Labelled, InBody2
<1>9. LoopInv2'
  BY <1>1 DEF LoopInv2
<1>10. OutInv2'
  <2> SUFFICES ASSUME WellFormed(infile2)
               PROVE  WellFormed(out2') /\ Complete(out2')
    BY <1>1 DEF OutInv2
  <2>1. flags2 = P2!Fetches(list2) /\ WellFormed(out2) /\ Len(out2) >= 3
    BY <1>1, WriteFacts
  <2>2. i2 - 1 = Len(list2)
    BY <1>1, <1>3
  <2>3. ~NoFlag2(1, i2 - 1)
    BY <1>3, <2>2 DEF NoFlag2
  <2>4. PICK m \in 1..(i2 - 1) : /\ m \in flags2
                                 /\ LastLine(out2) = list2[m]
                                 /\ NoFlag2(m + 1, i2 - 1)
    BY <1>1, <2>3 DEF Core2, OutInv2
  <2>5. ~IsCase(list2[m])
    <3> SUFFICES ASSUME IsCase(list2[m]) PROVE FALSE
      OBVIOUS
    <3>1. PICK j \in flags2 : j \in 1..Len(list2) /\ m < j
      BY <2>1, <2>4, FetchedLabel
    <3>2. j \in (m + 1)..(i2 - 1)
      BY <1>3, <2>2, <3>1
    <3> QED BY <2>4, <3>1, <3>2 DEF NoFlag2
  <2>6. IsTrans(list2[m])
    BY <1>3, <2>2, <2>5 DEF IsItem
  <2>7. MayFollow(LastLine(out2), RightLine) /\ identify(RightLine) = "}"
    BY <2>4, <2>6, Braces DEF MayFollow, IsCase, IsTrans
  <2>8. Len(out2) >= 1 /\ Len(out2) # 1 /\ Len(out2) \in Nat
    <3>1. Len(out2) \in Nat
      BY <1>3
    <3> QED BY <2>1, <3>1, AroundOne
  <2>9. WellFormed(out2') /\ LastLine(out2') = RightLine /\ Len(out2') = Len(out2) + 1
    BY <1>2, <1>3, <1>4, <2>1, <2>7, <2>8, WellFormedAppend
  <2> QED BY <2>7, <2>9 DEF Complete, LastLine
<1> QED BY <1>5, <1>6, <1>7, <1>8, <1>9, <1>10 DEF Core2

-----------------------------------------------------------------------------
(***************************************************************************)
(* The two phases together.                                                *)
(***************************************************************************)
\* A step of phase 2.
LEMMA Core2Step ==
  ASSUME Core2, infile2' = infile2, P2!Next
  PROVE  Core2'
BY MainStep, FirstItemStep, ItemStep, IgnoredStep, BeginStep, OuterTransStep, OuterCaseStep,
   InnerTransStep, InnerCaseStep, InnerLastCaseStep, InnerExitStep,
   OpenStep, DropStep, WriteStep, CloseStep DEF P2!Next

\* No step.
LEMMA Core2Stutter ==
  ASSUME Core2, infile2' = infile2, UNCHANGED vars2
  PROVE  Core2'
<1>1. UNCHANGED <<pc2, pos, curState2, decl2, list2, flags2, s1, s1_case_level, s1_case_index,
                  s2, s2_case_level, s2_case_index, i2, out2>>
  BY DEF vars2
<1>2. TypeInv2' /\ ShapeInv2' /\ DeclInv2' /\ FormatInv2' /\ CrashInv'
  BY <1>1 DEF Core2, TypeInv2, ShapeInv2, DeclInv2, FormatInv2, CrashInv
<1>3. LoopInv2'
  BY <1>1 DEF Core2, LoopInv2, OuterInv, InnerInv
<1>4. OutInv2'
  BY <1>1 DEF Core2, OutInv2, NoFlag2
<1> QED BY <1>2, <1>3, <1>4 DEF Core2

\* A file that has not been created is complete.
LEMMA NoFileIsComplete == WellFormed(<<>>) /\ Complete(<<>>)
BY DEF WellFormed, Complete

\* Before it starts phase 2 does not depend on the file.
LEMMA Core2Start ==
  ASSUME Core2, pc2 = "start", UNCHANGED vars2, infile2' \in Seq(Lines2)
  PROVE  Core2'
<1>1. UNCHANGED <<pc2, pos, curState2, decl2, list2, flags2, s1, s1_case_level, s1_case_index,
                  s2, s2_case_level, s2_case_index, i2, out2>>
  BY DEF vars2
<1>2. out2 = <<>> /\ pos = 0 /\ list2 = <<>>
  BY DEF Core2, ShapeInv2
<1>3. pos' \in 0..Len(infile2')
  BY <1>1, <1>2
<1>4. TypeInv2'
  BY <1>1, <1>3 DEF Core2, TypeInv2
<1>5. ShapeInv2' /\ DeclInv2'
  BY <1>1 DEF Core2, ShapeInv2, DeclInv2
<1>6. FormatInv2' /\ LoopInv2' /\ CrashInv'
  BY <1>1, <1>2 DEF FormatInv2, Labelled, LoopInv2, CrashInv, InBody2
<1>7. OutInv2'
  BY <1>1, <1>2, NoFileIsComplete DEF OutInv2
<1> QED BY <1>4, <1>5, <1>6, <1>7 DEF Core2

\* Phase 1 has steps until it is done.
LEMMA StepNotDone == Next => pc # "done"
<1>1. ASSUME NEW x \in Line, Read(x) PROVE pc # "done"
  BY <1>1, Zenon DEF Read, ReadDecl, ReadRight, ReadLeft, ReadFirstItem, ReadIgnored,
              CollectItem, CollectIgnored, CollectRight
<1>2. ASSUME Step PROVE pc # "done"
  BY <1>2 DEF Step, ReadEof, CollectEof, PairTrans, PairCase, CountTrans,
              CountCase, OpenBody, DropBody, WriteItem, CloseBody, Processing, Processed
<1> QED BY <1>1, <1>2 DEF Next

LEMMA PipelineInitInv == PipelineInit => IInv /\ IInv2
<1> SUFFICES ASSUME PipelineInit PROVE IInv /\ IInv2
  OBVIOUS
<1>1. IInv
  BY InitInv DEF PipelineInit
<1>2. /\ pc2 = "start" /\ pos = 0 /\ curState2 = 0 /\ decl2 = NoDecl /\ list2 = <<>> /\ flags2 = {}
      /\ s1 = 0 /\ s1_case_level = 0 /\ s1_case_index = 0
      /\ s2 = 0 /\ s2_case_level = 0 /\ s2_case_index = 0 /\ i2 = 0 /\ out2 = <<>>
  BY SameLines DEF PipelineInit, P2!Start
<1>3. infile2 \in Seq(Lines2)
  <2>1. outfile \in Seq(Lines2)
    BY <1>1 DEF IInv, ValuesOK, Lines2
  <2>2. old # <<>> => old \in Seq(Lines2)
    BY OldFilesAssumption DEF PipelineInit, Lines2
  <2> QED BY <2>1, <2>2 DEF infile2
<1>4. pos \in 0..Len(infile2)
  BY <1>2, <1>3
<1>5. TypeInv2
  BY <1>2, <1>3, <1>4 DEF TypeInv2
<1>6. ShapeInv2
  BY <1>2 DEF ShapeInv2, InBody2
<1>7. DeclInv2
  BY <1>2 DEF DeclInv2, InBody2, NoDecl, identify, Trans, Cases
<1>8. FormatInv2 /\ LoopInv2 /\ CrashInv
  BY <1>2 DEF FormatInv2, Labelled, LoopInv2, CrashInv, InBody2
<1>9. OutInv2
  BY <1>2, NoFileIsComplete DEF OutInv2
<1>10. InputInv
  BY <1>2 DEF InputInv
<1> QED BY <1>1, <1>5, <1>6, <1>7, <1>8, <1>9, <1>10 DEF IInv2, Core2

LEMMA PipelineStep ==
  ASSUME IInv, IInv2, [Phase1 \/ Phase2]_pipelineVars
  PROVE  IInv' /\ IInv2'
<1>0. IInv /\ [Next]_vars => IInv'
  BY BooleanStep, CoreStep, DeclStep, OutStep DEF IInv
<1>1. CASE Phase1
  <2>1. Next /\ old = <<>> /\ old' = old /\ UNCHANGED vars2
    BY <1>1, SourceLinesAssumption DEF Phase1, Next
  <2>2. IInv'
    BY <1>0, <2>1
  <2>3. pc2 = "start" /\ pc2' = "start"
    BY <2>1, StepNotDone DEF IInv2, InputInv, vars2
  <2>4. infile2' \in Seq(Lines2)
    BY <2>1, <2>2 DEF infile2, IInv, ValuesOK, Lines2
  <2>5. Core2'
    BY <2>1, <2>3, <2>4, Core2Start DEF IInv2
  <2> QED BY <2>2, <2>3, <2>5 DEF IInv2, InputInv
<1>2. CASE Phase2
  <2>1. UNCHANGED vars /\ old' = old /\ P2!Next /\ (pc = "done" \/ old # <<>>)
    BY <1>2 DEF Phase2
  <2>2. pc' = pc /\ outfile' = outfile
    BY <2>1 DEF vars
  <2>3. infile2' = infile2
    BY <2>1, <2>2 DEF infile2
  <2>4. Core2'
    BY <2>1, <2>3, Core2Step DEF IInv2
  <2> QED BY <1>0, <2>1, <2>2, <2>4 DEF IInv2, InputInv
<1>3. CASE UNCHANGED pipelineVars
  <2>1. UNCHANGED vars /\ old' = old /\ UNCHANGED vars2
    BY <1>3 DEF pipelineVars
  <2>2. pc' = pc /\ outfile' = outfile /\ pc2' = pc2
    BY <2>1 DEF vars, vars2
  <2>3. infile2' = infile2
    BY <2>1, <2>2 DEF infile2
  <2>4. Core2'
    BY <2>1, <2>3, Core2Stutter DEF IInv2
  <2> QED BY <1>0, <2>1, <2>2, <2>4 DEF IInv2, InputInv
<1> QED BY <1>1, <1>2, <1>3

(***************************************************************************)
(* The invariants of the two phases hold together: phase 1 is not          *)
(* disturbed, and filter2.py reads a file that no longer changes.          *)
(***************************************************************************)
THEOREM PipelineInvariance == PipelineSpec => [](IInv /\ IInv2)
<1>1. (IInv /\ IInv2) /\ [Phase1 \/ Phase2]_pipelineVars => (IInv /\ IInv2)'
  BY PipelineStep
<1> QED
  BY PipelineInitInv, <1>1, PTL DEF PipelineSpec

(***************************************************************************)
(* For sources and old files of any length: the double loop of             *)
(* process_skeleton (filter2.py), with its case levels and label indexes,  *)
(* flags exactly the double fetches of the body; the IndexError it can     *)
(* raise needs a file phase 1 did not finish; and what it writes is a      *)
(* well-formed file again.                                                 *)
(***************************************************************************)
THEOREM Phase2Correct == PipelineSpec => []Phase2Sound
<1>1. IInv /\ IInv2 => Phase2Sound
  <2> SUFFICES ASSUME IInv, IInv2 PROVE Phase2Sound
    OBVIOUS
  <2>1. TypeOK2
    BY SameLines DEF IInv2, Core2, TypeInv2, InBody2, Lines2, TypeOK2, P2!TypeOK
  <2>2. FlagsAreFetches
    BY SameFormat, ProcessedFlags DEF IInv2, FlagsAreFetches, P2!FlagsAreFetches
  <2>3. CrashNeedsUnfinishedFile
    <3>1. pc2 = "crashed" => ~Complete(infile2)
      BY DEF IInv2, Core2, CrashInv
    <3>2. pc2 = "crashed" /\ old = <<>> => Complete(infile2)
      BY DEF IInv2, InputInv, IInv, OutInv, infile2
    <3> QED BY <3>1, <3>2, SameFormat DEF CrashNeedsUnfinishedFile, P2!CrashNeedsUnfinishedFile
  <2>4. Output2WellFormed
    BY SameFormat DEF IInv2, Core2, OutInv2, Output2WellFormed, P2!OutputWellFormed
  <2> QED BY <2>1, <2>2, <2>3, <2>4 DEF Phase2Sound
<1> QED
  BY PipelineInvariance, <1>1, PTL

-----------------------------------------------------------------------------
(***************************************************************************)
(* Both phases together: the text of what is written.                      *)
(***************************************************************************)
Positions == Int \X Int

\* The lines f, of the positions P, with their types.
Text(r, f, from, P) == f \in Seq(Lines2) /\ from \in Seq(Positions) /\ IsText(r, f, from, P)

\* What is written of body m when the items K of it have been: all but the brace.
Begun(m, K) == {<<0, 0>>} \cup {<<m, k>> : k \in {-1, 0} \cup K}

Keep1(r) == [m \in 1..Len(r) |-> Kept(r[m].items)]
Keep2(r) == [m \in 1..Len(r) |-> P2!Fetches(r[m].items)]

-----------------------------------------------------------------------------
(***************************************************************************)
(* Texts and the positions in them.                                        *)
(***************************************************************************)
\* One more line, from behind all the others.
LEMMA AppendText ==
  ASSUME NEW r, NEW f, NEW from, NEW P, Text(r, f, from, P),
         NEW q \in Positions, \A p \in P : Before(p, q), TextAt(r, q) \in Lines2
  PROVE  Text(r, Append(f, TextAt(r, q)), Append(from, q), P \cup {q})
<1> DEFINE g == Append(f, TextAt(r, q))  to == Append(from, q)  n == Len(from)
<1>1. /\ n \in Nat /\ Len(f) = n /\ f \in Seq(Lines2) /\ from \in Seq(Positions)
      /\ {from[j] : j \in 1..n} = P
      /\ \A j \in 1..n : f[j] = TextAt(r, from[j])
      /\ \A j, k \in 1..n : j < k => Before(from[j], from[k])
  BY DEF Text, IsText
<1>2. /\ g \in Seq(Lines2) /\ to \in Seq(Positions) /\ Len(g) = n + 1 /\ Len(to) = n + 1
      /\ \A j \in 1..n : g[j] = f[j] /\ to[j] = from[j]
      /\ g[n + 1] = TextAt(r, q) /\ to[n + 1] = q
  BY <1>1
<1> HIDE DEF g, to, n
<1>3. \A j \in 1..(n + 1) : j \in 1..n \/ j = n + 1
  BY <1>1
<1>4. {to[j] : j \in 1..(n + 1)} = P \cup {q}
  <2>1. \A j \in 1..(n + 1) : to[j] \in P \cup {q}
    BY <1>1, <1>2, <1>3
  <2>2. \A p \in P : \E j \in 1..(n + 1) : to[j] = p
    <3> SUFFICES ASSUME NEW p \in P PROVE \E j \in 1..(n + 1) : to[j] = p
      OBVIOUS
    <3>1. PICK j \in 1..n : from[j] = p
      BY <1>1
    <3>2. j \in 1..(n + 1) /\ to[j] = p
      BY <1>1, <1>2, <3>1
    <3> QED BY <3>2
  <2>3. n + 1 \in 1..(n + 1) /\ to[n + 1] = q
    BY <1>1, <1>2
  <2> QED BY <2>1, <2>2, <2>3
<1>5. \A j \in 1..(n + 1) : g[j] = TextAt(r, to[j])
  BY <1>1, <1>2, <1>3
<1>6. \A j, k \in 1..(n + 1) : j < k => Before(to[j], to[k])
  <2> SUFFICES ASSUME NEW j \in 1..(n + 1), NEW k \in 1..(n + 1), j < k
               PROVE  Before(to[j], to[k])
    OBVIOUS
  <2>1. j \in 1..n
    BY <1>1
  <2>2. CASE k \in 1..n
    BY <1>1, <1>2, <2>1, <2>2
  <2>3. CASE k = n + 1
    BY <1>1, <1>2, <2>1, <2>3
  <2> QED BY <1>3, <2>2, <2>3
<1>7. Text(r, g, to, P \cup {q})
  BY <1>2, <1>4, <1>5, <1>6 DEF Text, IsText
<1> QED BY <1>7 DEF g, to

\* The empty file.
LEMMA EmptyText ==
  ASSUME NEW r PROVE Text(r, <<>>, <<>>, {})
<1>1. <<>> \in Seq(Lines2) /\ <<>> \in Seq(Positions) /\ Len(<<>>) = 0
  OBVIOUS
<1> QED BY <1>1 DEF Text, IsText

\* Nothing has been written if and only if nothing was due.
LEMMA NoText1 ==
  ASSUME NEW r, NEW f, NEW from, NEW P, Text(r, f, from, P)
  PROVE  /\ f = <<>> <=> P = {}
         /\ from = <<>> <=> P = {}
<1>1. /\ Len(from) = Len(f) /\ f \in Seq(Lines2) /\ from \in Seq(Positions) /\ Len(f) \in Nat
      /\ {from[j] : j \in 1..Len(from)} = P
  BY DEF Text, IsText
<1>2. (f = <<>> <=> Len(f) = 0) /\ (from = <<>> <=> Len(f) = 0)
  BY <1>1, EmptySeq
<1>3. Len(f) # 0 => P # {}
  <2> SUFFICES ASSUME Len(f) # 0 PROVE P # {}
    OBVIOUS
  <2>1. 1 \in 1..Len(from)
    BY <1>1
  <2> QED BY <1>1, <2>1
<1>4. Len(f) = 0 => P = {}
  <2> SUFFICES ASSUME Len(f) = 0 PROVE P = {}
    OBVIOUS
  <2>1. \A j : j \notin 1..Len(from)
    BY <1>1
  <2> QED BY <1>1, <2>1
<1> QED BY <1>2, <1>3, <1>4

-----------------------------------------------------------------------------
(***************************************************************************)
(* What is due, body by body.                                              *)
(***************************************************************************)
\* All that is written of body m, of which the items K are kept.
Whole(r, m, K) == {<<0, 0>>} \cup {<<m, k>> : k \in K \cup Marks(r, m)}

LEMMA DueIs ==
  ASSUME NEW r, NEW keep, NEW n
  PROVE  Due(r, keep, n) = UNION {Whole(r, m, keep[m]) : m \in {b \in 1..n : keep[b] # {}}}
BY DEF Due, Whole

LEMMA DueMember ==
  ASSUME NEW r, NEW keep, NEW n, NEW q
  PROVE  q \in Due(r, keep, n) <=> \E m \in 1..n : keep[m] # {} /\ q \in Whole(r, m, keep[m])
BY DueIs

\* Of a body without items to keep nothing is due.
LEMMA DueSkip ==
  ASSUME NEW r, NEW keep, NEW n \in Nat, NEW m \in Nat, m <= n,
         \A b \in (m + 1)..n : keep[b] = {}
  PROVE  Due(r, keep, n) = Due(r, keep, m)
<1>1. \A b \in 1..n : keep[b] # {} => b \in 1..m
  OBVIOUS
<1>2. \A b \in 1..m : b \in 1..n
  OBVIOUS
<1>3. \A q : q \in Due(r, keep, n) <=> q \in Due(r, keep, m)
  BY <1>1, <1>2, DueMember
<1> QED BY <1>3 DEF Due

LEMMA DueBody ==
  ASSUME NEW r, NEW keep, NEW n \in Nat, n >= 1, keep[n] # {}
  PROVE  Due(r, keep, n) = Due(r, keep, n - 1) \cup Whole(r, n, keep[n])
<1>1. \A b \in 1..n : b \in 1..(n - 1) \/ b = n
  OBVIOUS
<1>2. n \in 1..n /\ \A b \in 1..(n - 1) : b \in 1..n
  OBVIOUS
<1>3. \A q : q \in Due(r, keep, n) <=> q \in Due(r, keep, n - 1) \/ q \in Whole(r, n, keep[n])
  BY <1>1, <1>2, DueMember
<1> QED BY <1>3 DEF Due

\* It depends on the bodies so far only.
LEMMA DueSame ==
  ASSUME NEW r, NEW keep, NEW r1, NEW keep1, NEW n,
         \A m \in 1..n : keep1[m] = keep[m] /\ Len(r1[m].items) = Len(r[m].items)
  PROVE  Due(r1, keep1, n) = Due(r, keep, n)
<1>1. \A m \in 1..n : Whole(r1, m, keep1[m]) = Whole(r, m, keep[m])
  BY DEF Whole, Marks
<1>2. \A q : q \in Due(r1, keep1, n) <=> q \in Due(r, keep, n)
  BY <1>1, DueMember
<1> QED BY <1>2 DEF Due

LEMMA DueNone == ASSUME NEW r, NEW keep PROVE Due(r, keep, 0) = {}
<1>1. \A m : m \notin 1..0
  OBVIOUS
<1>2. \A q : q \notin Due(r, keep, 0)
  BY <1>1, DueMember
<1> QED BY <1>2 DEF Due

\* Bodies are sequences of items with a declaration.
Bodies == [decl : Line, items : Seq(Line)]
BodiesOK(r) ==
  /\ r \in Seq(Bodies)
  /\ \A m \in 1..Len(r) : /\ identify(r[m].decl) = "funcDecl"
                          /\ \A k \in 1..Len(r[m].items) : IsItem(r[m].items[k])

\* What is kept are items.
Items(r, keep) == \A m \in 1..Len(r) : keep[m] \in SUBSET (1..Len(r[m].items))

\* The positions that are due.
LEMMA DuePositions ==
  ASSUME NEW r, BodiesOK(r), NEW keep, Items(r, keep), NEW n \in 0..Len(r), NEW q \in Due(r, keep, n)
  PROVE  \/ q = <<0, 0>> /\ \E m \in 1..n : keep[m] # {}
         \/ /\ q[1] \in 1..n /\ keep[q[1]] # {}
            /\ q = <<q[1], q[2]>>
            /\ q[2] \in keep[q[1]] \cup {-1, 0, Len(r[q[1]].items) + 1}
            /\ q[2] \in -1..(Len(r[q[1]].items) + 1)
<1>1. PICK m \in 1..n : keep[m] # {} /\ q \in Whole(r, m, keep[m])
  BY DueMember
<1>2. CASE q = <<0, 0>>
  BY <1>1, <1>2
<1>3. CASE q # <<0, 0>>
  <2>1. PICK k \in keep[m] \cup Marks(r, m) : q = <<m, k>>
    BY <1>1, <1>3 DEF Whole
  <2>2. q[1] = m /\ q[2] = k
    BY <2>1
  <2>3. Len(r) \in Nat /\ m \in 1..Len(r)
    BY DEF BodiesOK
  <2>4. Len(r[m].items) \in Nat
    BY <2>3 DEF BodiesOK, Bodies
  <2>5. keep[m] \in SUBSET (1..Len(r[m].items))
    BY <2>3 DEF Items
  <2>6. k \in -1..(Len(r[m].items) + 1)
    BY <2>1, <2>4, <2>5 DEF Marks
  <2> QED BY <1>1, <2>1, <2>2, <2>6 DEF Marks
<1> QED BY <1>2, <1>3

\* The other way round.
LEMMA DueHas ==
  ASSUME NEW r, NEW keep, NEW n, NEW m \in 1..n, keep[m] # {}
  PROVE  /\ <<0, 0>> \in Due(r, keep, n)
         /\ \A k \in keep[m] \cup {-1, 0, Len(r[m].items) + 1} : <<m, k>> \in Due(r, keep, n)
BY DueMember DEF Whole, Marks

-----------------------------------------------------------------------------
(***************************************************************************)
(* The lines of a body, and writing them.                                  *)
(***************************************************************************)
LEMMA TextAtBody ==
  ASSUME NEW r, BodiesOK(r), NEW m \in 1..Len(r)
  PROVE  /\ Len(r) \in Nat /\ m \in Nat /\ m >= 1
         /\ r[m].items \in Seq(Line) /\ Len(r[m].items) \in Nat /\ r[m].decl \in Line
         /\ TextAt(r, <<0, 0>>) = OriginLine
         /\ TextAt(r, <<m, -1>>) = r[m].decl
         /\ TextAt(r, <<m, 0>>) = LeftLine
         /\ TextAt(r, <<m, Len(r[m].items) + 1>>) = RightLine
         /\ \A k \in 1..Len(r[m].items) : TextAt(r, <<m, k>>) = r[m].items[k]
<1>1. Len(r) \in Nat /\ m \in Nat /\ m # 0 /\ r[m] \in Bodies /\ m >= 1
  BY DEF BodiesOK
<1>2. r[m].items \in Seq(Line) /\ Len(r[m].items) \in Nat /\ r[m].decl \in Line
  BY <1>1 DEF Bodies
<1> QED BY <1>1, <1>2 DEF TextAt

LEMMA TextAtType ==
  ASSUME NEW r, BodiesOK(r), NEW m \in 1..Len(r)
  PROVE  /\ <<0, 0>> \in Positions /\ TextAt(r, <<0, 0>>) \in Lines2
         /\ \A k \in -1..(Len(r[m].items) + 1) :
              <<m, k>> \in Positions /\ TextAt(r, <<m, k>>) \in Lines2
<1>1. OriginLine \in Lines2 /\ LeftLine \in Lines2 /\ RightLine \in Lines2
  BY Braces DEF Lines2
<1>2. \A k \in -1..(Len(r[m].items) + 1) :
        k = -1 \/ k = 0 \/ k = Len(r[m].items) + 1 \/ k \in 1..Len(r[m].items)
  BY TextAtBody
<1>3. r[m].decl \in Lines2 /\ \A k \in 1..Len(r[m].items) : r[m].items[k] \in Lines2
  <2>1. r[m].decl \in Line /\ r[m].items \in Seq(Line)
    BY TextAtBody
  <2> QED BY <2>1 DEF Lines2
<1>4. ASSUME NEW k \in -1..(Len(r[m].items) + 1)
      PROVE  <<m, k>> \in Positions /\ TextAt(r, <<m, k>>) \in Lines2
  <2>1. <<m, k>> \in Positions
    BY TextAtBody DEF Positions
  <2>2. CASE k = -1
    <3>1. TextAt(r, <<m, -1>>) = r[m].decl
      BY TextAtBody
    <3> QED BY <2>1, <1>3, <2>2, <3>1
  <2>3. CASE k = 0
    <3>1. TextAt(r, <<m, 0>>) = LeftLine
      BY TextAtBody
    <3> QED BY <2>1, <1>1, <2>3, <3>1
  <2>4. CASE k = Len(r[m].items) + 1
    <3>1. TextAt(r, <<m, Len(r[m].items) + 1>>) = RightLine
      BY TextAtBody
    <3> QED BY <2>1, <1>1, <2>4, <3>1
  <2>5. CASE k \in 1..Len(r[m].items)
    <3>1. TextAt(r, <<m, k>>) = r[m].items[k]
      BY <2>5, TextAtBody
    <3> QED BY <2>1, <1>3, <2>5, <3>1
  <2> QED BY <1>2, <2>1, <2>2, <2>3, <2>4, <2>5
<1>5. <<0, 0>> \in Positions /\ TextAt(r, <<0, 0>>) \in Lines2
  BY <1>1 DEF Positions, TextAt
<1> QED BY <1>4, <1>5

\* The lines due of other bodies come before those of body m.
LEMMA DueBefore ==
  ASSUME NEW r, BodiesOK(r), NEW keep, Items(r, keep), NEW m \in 1..Len(r),
         NEW q \in Due(r, keep, m - 1), NEW k \in Int
  PROVE  Before(q, <<m, k>>)
<1>1. m - 1 \in 0..Len(r) /\ m \in Nat /\ m >= 1
  BY DEF BodiesOK
<1>2. q = <<0, 0>> \/ q[1] \in 1..(m - 1)
  BY <1>1, DuePositions
<1>3. CASE q = <<0, 0>>
  BY <1>1, <1>3 DEF Before
<1>4. CASE q[1] \in 1..(m - 1)
  BY <1>1, <1>4 DEF Before
<1> QED BY <1>2, <1>3, <1>4

\* Opening a body, and the file if nothing has been written.
LEMMA OpenText ==
  ASSUME NEW r, BodiesOK(r), NEW keep, Items(r, keep), NEW m \in 1..Len(r), NEW f, NEW from,
         Text(r, f, from, Due(r, keep, m - 1))
  PROVE  Text(r, Append(Append(Opened(f), r[m].decl), LeftLine),
              Opens(from, <<0, 0>>, <<m, -1>>, <<m, 0>>), Due(r, keep, m - 1) \cup Begun(m, {}))
<1> DEFINE P == Due(r, keep, m - 1)
           of == IF from = <<>> THEN <<<<0, 0>>>> ELSE from
<1>0. m \in Nat /\ m >= 1 /\ Len(r[m].items) \in Nat /\ m - 1 \in 0..Len(r)
  BY TextAtBody
<1>1. Text(r, Opened(f), of, P \cup {<<0, 0>>})
  <2>1. CASE P = {}
    <3>1. f = <<>> /\ from = <<>>
      BY <2>1, NoText1
    <3>2. TextAt(r, <<0, 0>>) = OriginLine
      BY TextAtBody
    <3>3. Opened(f) = Append(<<>>, TextAt(r, <<0, 0>>)) /\ of = Append(<<>>, <<0, 0>>)
      BY <3>1, <3>2 DEF Opened
    <3>4. Text(r, <<>>, <<>>, P) /\ \A p \in P : Before(p, <<0, 0>>)
      BY <2>1, EmptyText
    <3>5. <<0, 0>> \in Positions /\ TextAt(r, <<0, 0>>) \in Lines2
      BY TextAtType
    <3> HIDE DEF P, of
    <3>6. Text(r, Append(<<>>, TextAt(r, <<0, 0>>)), Append(<<>>, <<0, 0>>), P \cup {<<0, 0>>})
      BY <3>4, <3>5, AppendText
    <3> QED BY <3>3, <3>6
  <2>2. CASE P # {}
    <3>1. Opened(f) = f /\ of = from
      BY <2>2, NoText1 DEF Opened
    <3>2. PICK b \in 1..(m - 1) : keep[b] # {}
      BY <2>2, DueMember
    <3>3. <<0, 0>> \in P
      BY <3>2, DueHas
    <3>4. P \cup {<<0, 0>>} = P
      BY <3>3
    <3> QED BY <3>1, <3>4
  <2> QED BY <2>1, <2>2
<1>2. Text(r, Append(Opened(f), r[m].decl), Append(of, <<m, -1>>), P \cup {<<0, 0>>, <<m, -1>>})
  <2>1. \A p \in P \cup {<<0, 0>>} : Before(p, <<m, -1>>)
    BY <1>0, DueBefore DEF Before
  <2>2. <<m, -1>> \in Positions /\ TextAt(r, <<m, -1>>) = r[m].decl /\ TextAt(r, <<m, -1>>) \in Lines2
    <3>1. TextAt(r, <<m, -1>>) = r[m].decl
      BY TextAtBody
    <3>2. -1 \in -1..(Len(r[m].items) + 1)
      BY <1>0
    <3>3. <<m, -1>> \in Positions /\ TextAt(r, <<m, -1>>) \in Lines2
      BY <3>2, TextAtType
    <3> QED BY <3>1, <3>3
  <2>3. P \cup {<<0, 0>>} \cup {<<m, -1>>} = P \cup {<<0, 0>>, <<m, -1>>}
    OBVIOUS
  <2> HIDE DEF P, of
  <2>4. Text(r, Append(Opened(f), TextAt(r, <<m, -1>>)), Append(of, <<m, -1>>),
             P \cup {<<0, 0>>} \cup {<<m, -1>>})
    BY <1>1, <2>1, <2>2, AppendText
  <2> QED BY <2>2, <2>3, <2>4
<1>3. Text(r, Append(Append(Opened(f), r[m].decl), LeftLine), Append(Append(of, <<m, -1>>), <<m, 0>>),
           P \cup Begun(m, {}))
  <2>1. \A p \in P \cup {<<0, 0>>, <<m, -1>>} : Before(p, <<m, 0>>)
    BY <1>0, DueBefore DEF Before
  <2>2. <<m, 0>> \in Positions /\ TextAt(r, <<m, 0>>) = LeftLine /\ TextAt(r, <<m, 0>>) \in Lines2
    <3>1. TextAt(r, <<m, 0>>) = LeftLine
      BY TextAtBody
    <3>2. 0 \in -1..(Len(r[m].items) + 1)
      BY <1>0
    <3>3. <<m, 0>> \in Positions /\ TextAt(r, <<m, 0>>) \in Lines2
      BY <3>2, TextAtType
    <3> QED BY <3>1, <3>3
  <2>3. P \cup {<<0, 0>>, <<m, -1>>} \cup {<<m, 0>>} = P \cup Begun(m, {})
    BY DEF Begun
  <2> HIDE DEF P, of
  <2>4. Text(r, Append(Append(Opened(f), r[m].decl), TextAt(r, <<m, 0>>)),
             Append(Append(of, <<m, -1>>), <<m, 0>>), P \cup {<<0, 0>>, <<m, -1>>} \cup {<<m, 0>>})
    BY <1>2, <2>1, <2>2, AppendText
  <2> QED BY <2>2, <2>3, <2>4
<1>4. Opens(from, <<0, 0>>, <<m, -1>>, <<m, 0>>) = Append(Append(of, <<m, -1>>), <<m, 0>>)
  <2>1. of \in Seq(Positions)
    BY <1>1 DEF Text
  <2>2. of \o <<<<m, -1>>, <<m, 0>>>> = Append(Append(of, <<m, -1>>), <<m, 0>>)
    <3> HIDE DEF of
    <3>1. <<m, -1>> \in Positions /\ <<m, 0>> \in Positions
      BY <1>0 DEF Positions
    <3> QED BY <2>1, <3>1
  <2> QED BY <2>2 DEF Opens
<1> QED BY <1>3, <1>4

\* Writing item k, or the brace.
LEMMA WriteText ==
  ASSUME NEW r, BodiesOK(r), NEW keep, Items(r, keep), NEW m \in 1..Len(r), NEW f, NEW from,
         NEW K, Text(r, f, from, Due(r, keep, m - 1) \cup Begun(m, K)),
         NEW k \in 1..(Len(r[m].items) + 1), \A x \in K : x < k
  PROVE  Text(r, Append(f, TextAt(r, <<m, k>>)), Append(from, <<m, k>>),
              Due(r, keep, m - 1) \cup Begun(m, K \cup {k}))
<1>0. m \in Nat /\ m >= 1 /\ k \in Nat /\ k >= 1 /\ k \in -1..(Len(r[m].items) + 1)
  BY TextAtBody
<1>1. \A p \in Due(r, keep, m - 1) \cup Begun(m, K) : Before(p, <<m, k>>)
  BY <1>0, DueBefore DEF Before, Begun
<1>2. <<m, k>> \in Positions /\ TextAt(r, <<m, k>>) \in Lines2
  BY <1>0, TextAtType
<1>3. Due(r, keep, m - 1) \cup Begun(m, K) \cup {<<m, k>>} = Due(r, keep, m - 1) \cup Begun(m, K \cup {k})
  BY DEF Begun
<1>4. Text(r, Append(f, TextAt(r, <<m, k>>)), Append(from, <<m, k>>),
           Due(r, keep, m - 1) \cup Begun(m, K) \cup {<<m, k>>})
  BY <1>1, <1>2, AppendText
<1> QED BY <1>3, <1>4

\* When the brace has been written so has all that is due of the body.
LEMMA CloseText ==
  ASSUME NEW r, BodiesOK(r), NEW keep, Items(r, keep), NEW m \in 1..Len(r), NEW f, NEW from,
         Text(r, f, from, Due(r, keep, m - 1) \cup Begun(m, keep[m])), keep[m] # {}
  PROVE  Text(r, Append(f, RightLine), Append(from, <<m, Len(r[m].items) + 1>>), Due(r, keep, m))
<1> DEFINE n == Len(r[m].items)
<1>0. m \in Nat /\ m >= 1 /\ n \in Nat /\ n + 1 \in 1..(n + 1) /\ TextAt(r, <<m, n + 1>>) = RightLine
  <2>1. m \in Nat /\ m >= 1 /\ n \in Nat
    BY TextAtBody
  <2>2. TextAt(r, <<m, n + 1>>) = RightLine
    BY TextAtBody
  <2> QED BY <2>1, <2>2
<1>1. \A x \in keep[m] : x < n + 1
  BY <1>0 DEF Items
<1>2. Text(r, Append(f, RightLine), Append(from, <<m, n + 1>>),
           Due(r, keep, m - 1) \cup Begun(m, keep[m] \cup {n + 1}))
  BY <1>0, <1>1, WriteText
<1>3. Begun(m, keep[m] \cup {n + 1}) = Whole(r, m, keep[m])
  BY DEF Begun, Whole, Marks
<1>4. Due(r, keep, m) = Due(r, keep, m - 1) \cup Whole(r, m, keep[m])
  BY <1>0, DueBody
<1> QED BY <1>2, <1>3, <1>4

-----------------------------------------------------------------------------
(***************************************************************************)
(* What the two phases keep of a source.                                   *)
(***************************************************************************)
LEMMA KeepItems ==
  ASSUME NEW r
  PROVE  /\ Items(r, Keep1(r)) /\ Items(r, Keep2(r))
         /\ \A m \in 1..Len(r) : /\ Keep1(r)[m] = Kept(r[m].items)
                                 /\ Keep2(r)[m] = P2!Fetches(r[m].items)
<1>1. \A L : Kept(L) \in SUBSET (1..Len(L)) /\ P2!Fetches(L) \in SUBSET (1..Len(L))
  BY DEF Kept, KeptUpTo, PairedUpTo, P2!Fetches, P2!WithLabels
<1> QED BY <1>1 DEF Items, Keep1, Keep2

\* One more body.
LEMMA MoreRaw ==
  ASSUME NEW r, BodiesOK(r), NEW b \in Bodies, identify(b.decl) = "funcDecl",
         \A k \in 1..Len(b.items) : IsItem(b.items[k]),
         NEW f, NEW from, Text(r, f, from, Due(r, Keep1(r), Len(r)))
  PROVE  LET r1 == Append(r, b)
         IN  /\ BodiesOK(r1) /\ Len(r) \in Nat /\ Len(r1) = Len(r) + 1 /\ r1[Len(r1)] = b
             /\ Text(r1, f, from, Due(r1, Keep1(r1), Len(r)))
<1> DEFINE r1 == Append(r, b)  n == Len(r)
<1>1. r \in Seq(Bodies) /\ n \in Nat
  BY DEF BodiesOK
<1>2. /\ r1 \in Seq(Bodies) /\ Len(r1) = n + 1 /\ r1[n + 1] = b
      /\ \A m \in 1..n : r1[m] = r[m]
  BY <1>1
<1> HIDE DEF r1
<1>3. BodiesOK(r1)
  <2>1. \A m \in 1..(n + 1) : m \in 1..n \/ m = n + 1
    BY <1>1
  <2> QED BY <1>2, <2>1 DEF BodiesOK
<1>4. Due(r1, Keep1(r1), n) = Due(r, Keep1(r), n)
  <2>1. \A m \in 1..n : m \in 1..Len(r1) /\ m \in 1..Len(r)
    BY <1>1, <1>2
  <2>2. \A m \in 1..n : Keep1(r1)[m] = Keep1(r)[m] /\ Len(r1[m].items) = Len(r[m].items)
    BY <1>2, <2>1, KeepItems
  <2> QED BY <2>2, DueSame
<1>5. \A q \in Due(r, Keep1(r), n) : TextAt(r1, q) = TextAt(r, q)
  <2> SUFFICES ASSUME NEW q \in Due(r, Keep1(r), n) PROVE TextAt(r1, q) = TextAt(r, q)
    OBVIOUS
  <2>1. n \in 0..Len(r) /\ Items(r, Keep1(r))
    BY <1>1, KeepItems
  <2>2. q = <<0, 0>> \/ q[1] \in 1..n
    BY <2>1, DuePositions
  <2>3. q[1] = 0 \/ q[1] \in 1..n
    BY <2>2
  <2> QED BY <1>2, <2>3 DEF TextAt
<1>6. Text(r1, f, from, Due(r1, Keep1(r1), n))
  <2> DEFINE D == Due(r, Keep1(r), n)
  <2>0. Text(r, f, from, D) /\ \A q \in D : TextAt(r1, q) = TextAt(r, q)
    BY <1>5
  <2> HIDE DEF D
  <2>1. \A j \in 1..Len(from) : from[j] \in D
    BY <2>0 DEF Text, IsText
  <2>2. Text(r1, f, from, D)
    BY <2>0, <2>1 DEF Text, IsText
  <2> QED BY <1>4, <2>2 DEF D
<1> QED BY <1>1, <1>2, <1>3, <1>6 DEF r1

-----------------------------------------------------------------------------
(***************************************************************************)
(* Phase 1.                                                                *)
(***************************************************************************)
\* The bodies read so far and what has been written of them.
SourceInv ==
  old = <<>> =>
    /\ BodiesOK(raw)
    /\ pc \in {"process", "write"} =>
         Len(raw) >= 1 /\ raw[Len(raw)].decl = temp_funcDecl /\ raw[Len(raw)].items = in_list
    /\ pc \notin {"process", "write"} => Text(raw, outfile, from1, Due(raw, Keep1(raw), Len(raw)))
    /\ pc = "process" => Text(raw, outfile, from1, Due(raw, Keep1(raw), Len(raw) - 1))
    /\ pc = "write" =>
         Text(raw, outfile, from1,
              Due(raw, Keep1(raw), Len(raw) - 1) \cup Begun(Len(raw), {k \in flags : k < i}))

\* Without writing or ending a body the history stays as it is.
LEMMA SourceFrame ==
  ASSUME SourceInv, old = <<>>, Phase1, outfile' = outfile, pc \notin {"process", "write"},
         pc' \notin {"process", "write"}, pc = "collect" => pc' = "collect"
  PROVE  SourceInv'
<1>1. raw' = raw /\ old' = old
  BY DEF Phase1
<1>2. from1' = from1
  <2>1. outfile \in Seq(Lines2)
    BY DEF SourceInv, Text
  <2>2. ~(Len(outfile') > Len(outfile))
    BY <2>1
  <2> QED BY <2>2 DEF Phase1, From1
<1> QED BY <1>1, <1>2 DEF SourceInv

\* A body ends: with one item it is forgotten, otherwise it is processed.
LEMMA SourceEnd ==
  ASSUME IInv, SourceInv, old = <<>>, Phase1, pc = "collect", EndOfBody,
         temp_funcDecl' = temp_funcDecl, outfile' = outfile
  PROVE  SourceInv'
<1> DEFINE b == [decl |-> temp_funcDecl, items |-> in_list]
<1>1. /\ in_list \in Seq(Line) /\ Len(in_list) \in Nat /\ in_list # <<>>
      /\ \A k \in 1..Len(in_list) : IsItem(in_list[k])
      /\ temp_funcDecl \in Line /\ identify(temp_funcDecl) = "funcDecl"
  BY DEF IInv, ValuesOK, PhaseInv, DeclInv
<1>2. b \in Bodies /\ b.decl = temp_funcDecl /\ b.items = in_list
  BY <1>1 DEF Bodies
<1>3. pc' \in {"process", "main"} /\ (pc' = "process" => in_list' = in_list)
      /\ (pc' = "main" => ~(Len(in_list) > 1))
  BY DEF EndOfBody
<1>4. raw' = Append(raw, b) /\ old' = old
  BY <1>3 DEF Phase1
<1>5. from1' = from1
  <2>1. outfile \in Seq(Lines2)
    BY DEF SourceInv, Text
  <2>2. ~(Len(outfile') > Len(outfile))
    BY <2>1
  <2> QED BY <2>2 DEF Phase1, From1
<1> HIDE DEF b
<1>6. /\ BodiesOK(raw') /\ Len(raw) \in Nat /\ Len(raw') = Len(raw) + 1 /\ raw'[Len(raw')] = b
      /\ Text(raw', outfile, from1, Due(raw', Keep1(raw'), Len(raw)))
  <2>1. BodiesOK(raw) /\ Text(raw, outfile, from1, Due(raw, Keep1(raw), Len(raw)))
    BY DEF SourceInv
  <2> QED BY <1>1, <1>2, <1>4, <2>1, MoreRaw
<1>7. CASE pc' = "process"
  <2>1. Len(raw') - 1 = Len(raw) /\ Len(raw') >= 1
    BY <1>6
  <2>2. (pc' \in {"process", "write"}) /\ (pc' # "write")
    BY <1>7
  <2> QED BY <1>2, <1>3, <1>5, <1>6, <1>7, <2>1, <2>2 DEF SourceInv
<1>8. CASE pc' = "main"
  <2>1. Len(in_list) = 1
    <3>1. Len(in_list) # 0
      BY <1>1, EmptySeq
    <3>2. ~(Len(in_list) > 1)
      BY <1>3, <1>8
    <3> QED BY <1>1, <3>1, <3>2, AroundOne
  <2>2. Kept(in_list) = {}
    BY <2>1, KeptOfOne DEF Kept
  <2>3. Keep1(raw')[Len(raw')] = {}
    <3>1. Len(raw') \in 1..Len(raw')
      BY <1>6
    <3> QED BY <1>2, <1>6, <2>2, <3>1, KeepItems
  <2>4. Due(raw', Keep1(raw'), Len(raw')) = Due(raw', Keep1(raw'), Len(raw))
    <3>1. \A x \in (Len(raw) + 1)..Len(raw') : x = Len(raw')
      BY <1>6
    <3>2. Len(raw') \in Nat /\ Len(raw) <= Len(raw')
      BY <1>6
    <3> QED BY <1>6, <2>3, <3>1, <3>2, DueSkip
  <2> QED BY <1>4, <1>5, <1>6, <1>8, <2>4 DEF SourceInv
<1> QED BY <1>3, <1>7, <1>8

\* The loop of process_list.
LEMMA SourceLoop ==
  ASSUME SourceInv, old = <<>>, Phase1, pc = "process", pc' = "process",
         UNCHANGED <<temp_funcDecl, in_list, outfile>>
  PROVE  SourceInv'
<1>1. raw' = raw /\ old' = old
  BY DEF Phase1
<1>2. from1' = from1
  <2>1. outfile \in Seq(Lines2)
    BY DEF SourceInv, Text
  <2>2. ~(Len(outfile') > Len(outfile))
    BY <2>1
  <2> QED BY <2>2 DEF Phase1, From1
<1> QED BY <1>1, <1>2 DEF SourceInv

\* What the invariant says of the body that is processed or written.
LEMMA SourceFacts ==
  ASSUME IInv, SourceInv, old = <<>>, pc \in {"process", "write"}
  PROVE  /\ BodiesOK(raw) /\ Items(raw, Keep1(raw)) /\ Len(raw) \in Nat
         /\ Len(raw) \in 1..Len(raw) /\ Len(raw) - 1 \in Nat
         /\ raw[Len(raw)].decl = temp_funcDecl /\ raw[Len(raw)].items = in_list
         /\ Keep1(raw)[Len(raw)] = Kept(in_list)
         /\ outfile \in Seq(Lines2) /\ Len(outfile) \in Nat
<1>1. /\ BodiesOK(raw) /\ Len(raw) >= 1
      /\ raw[Len(raw)].decl = temp_funcDecl /\ raw[Len(raw)].items = in_list
  BY DEF SourceInv
<1>2. Len(raw) \in Nat
  BY <1>1 DEF BodiesOK
<1>3. Len(raw) \in 1..Len(raw) /\ Len(raw) - 1 \in Nat
  BY <1>1, <1>2
<1>4. outfile \in Seq(Lines2)
  BY DEF SourceInv, Text
<1>5. Len(outfile) \in Nat
  BY <1>4
<1> QED BY <1>1, <1>2, <1>3, <1>4, <1>5, KeepItems

\* A body is opened.
LEMMA SourceOpen ==
  ASSUME IInv, SourceInv, old = <<>>, Phase1, OpenBody
  PROVE  SourceInv'
<1> DEFINE m == Len(raw)
<1>1. /\ pc = "process" /\ pc' = "write" /\ i' = 1
      /\ outfile' = Append(Append(Opened(outfile), temp_funcDecl), LeftLine)
      /\ UNCHANGED <<temp_funcDecl, in_list, flags>>
  BY DEF OpenBody, Processed, readVars
<1>2. raw' = raw /\ old' = old /\ from1' = Opens(from1, <<0, 0>>, <<m, -1>>, <<m, 0>>)
  BY <1>1 DEF Phase1, From1
<1>3. /\ BodiesOK(raw) /\ Items(raw, Keep1(raw)) /\ m \in 1..Len(raw)
      /\ raw[m].decl = temp_funcDecl /\ raw[m].items = in_list /\ m >= 1
  BY <1>1, SourceFacts
<1>4. Text(raw, outfile, from1, Due(raw, Keep1(raw), m - 1))
  BY <1>1 DEF SourceInv
<1>5. Text(raw, outfile', from1', Due(raw, Keep1(raw), m - 1) \cup Begun(m, {}))
  BY <1>1, <1>2, <1>3, <1>4, OpenText
<1>6. {k \in flags' : k < i'} = {}
  <2>1. \A k \in flags : k \in 1..Len(in_list)
    BY DEF IInv, ValuesOK
  <2>2. \A k \in flags : ~(k < 1)
    BY <2>1
  <2> QED BY <1>1, <2>2
<1> QED BY <1>1, <1>2, <1>3, <1>5, <1>6 DEF SourceInv

\* A body is dropped: nothing of it was due.
LEMMA SourceDrop ==
  ASSUME IInv, SourceInv, old = <<>>, Phase1, DropBody
  PROVE  SourceInv'
<1> DEFINE m == Len(raw)
<1>1. pc = "process" /\ pc' = "main" /\ flags = {} /\ outfile' = outfile /\ Processed
  BY DEF DropBody, Processed
<1>2. /\ BodiesOK(raw) /\ m \in Nat /\ m - 1 \in Nat /\ Keep1(raw)[m] = Kept(in_list)
      /\ outfile \in Seq(Lines2)
  BY <1>1, SourceFacts
<1>3. Kept(in_list) = {}
  <2>1. i - 1 = Len(in_list)
    BY <1>1 DEF IInv, ValuesOK, PhaseInv, Processed
  <2> QED BY <1>1, <2>1 DEF IInv, LoopInv, Kept
<1>4. raw' = raw /\ old' = old /\ from1' = from1
  <2>1. ~(Len(outfile') > Len(outfile))
    BY <1>1, <1>2
  <2> QED BY <1>1, <2>1 DEF Phase1, From1
<1>5. Due(raw, Keep1(raw), m) = Due(raw, Keep1(raw), m - 1)
  <2>1. \A x \in (m - 1 + 1)..m : x = m
    BY <1>2
  <2>2. \A x \in (m - 1 + 1)..m : Keep1(raw)[x] = {}
    BY <1>2, <1>3, <2>1
  <2>3. m - 1 <= m
    BY <1>2
  <2> QED BY <1>2, <2>2, <2>3, DueSkip
<1> QED BY <1>1, <1>4, <1>5 DEF SourceInv

\* An item is written, or passed over.
LEMMA SourceWrite ==
  ASSUME IInv, SourceInv, old = <<>>, Phase1, WriteItem
  PROVE  SourceInv'
<1> DEFINE m == Len(raw)
           K == {k \in flags : k < i}
<1>1. /\ pc = "write" /\ pc' = "write" /\ i <= Len(in_list) /\ i' = i + 1
      /\ outfile' = IF i \in flags THEN Append(outfile, in_list[i]) ELSE outfile
      /\ UNCHANGED <<temp_funcDecl, in_list, flags>>
  BY DEF WriteItem, readVars
<1>2. raw' = raw /\ old' = old
  BY <1>1 DEF Phase1
<1>3. /\ BodiesOK(raw) /\ Items(raw, Keep1(raw)) /\ m \in 1..Len(raw)
      /\ raw[m].items = in_list /\ m >= 1 /\ raw[m].decl = temp_funcDecl
      /\ outfile \in Seq(Lines2) /\ Len(outfile) \in Nat
  BY <1>1, SourceFacts
<1>4. i \in Nat /\ i \in 1..Len(in_list) /\ flags \in SUBSET (1..Len(in_list)) /\ in_list \in Seq(Line)
  BY <1>1 DEF IInv, ValuesOK, PhaseInv
<1>5. Text(raw, outfile, from1, Due(raw, Keep1(raw), m - 1) \cup Begun(m, K))
  BY <1>1 DEF SourceInv
<1>6. Text(raw, outfile', from1', Due(raw, Keep1(raw), m - 1) \cup Begun(m, {k \in flags : k < i'}))
  <2>1. CASE i \in flags
    <3>1. outfile' = Append(outfile, in_list[i]) /\ Len(outfile') > Len(outfile)
      <4>1. in_list[i] \in Lines2
        BY <1>4 DEF Lines2
      <4> QED BY <1>1, <1>3, <2>1, <4>1
    <3>2. from1' = Append(from1, <<m, i>>)
      BY <1>1, <3>1 DEF Phase1, From1
    <3>3. TextAt(raw, <<m, i>>) = in_list[i]
      BY <1>3, <1>4, TextAtBody
    <3>4. i \in 1..(Len(raw[m].items) + 1) /\ \A x \in K : x < i
      BY <1>3, <1>4
    <3>5. {k \in flags : k < i'} = K \cup {i}
      <4>1. \A k \in flags : k \in Nat
        BY <1>4
      <4>2. \A k \in flags : k < i + 1 <=> k < i \/ k = i
        BY <1>4, <4>1
      <4> QED BY <1>1, <2>1, <4>2
    <3> HIDE DEF K
    <3>6. Text(raw, Append(outfile, TextAt(raw, <<m, i>>)), Append(from1, <<m, i>>),
               Due(raw, Keep1(raw), m - 1) \cup Begun(m, K \cup {i}))
      BY <1>3, <1>5, <3>4, WriteText
    <3> QED BY <3>1, <3>2, <3>3, <3>5, <3>6
  <2>2. CASE i \notin flags
    <3>1. outfile' = outfile /\ ~(Len(outfile') > Len(outfile))
      BY <1>1, <1>3, <2>2
    <3>2. from1' = from1
      BY <1>1, <3>1 DEF Phase1, From1
    <3>3. {k \in flags : k < i'} = K
      <4>1. \A k \in flags : k \in Nat /\ k # i
        BY <1>4, <2>2
      <4>2. \A k \in flags : k < i + 1 <=> k < i
        BY <1>4, <4>1
      <4> QED BY <1>1, <4>2
    <3> QED BY <1>5, <3>1, <3>2, <3>3
  <2> QED BY <2>1, <2>2
<1> QED BY <1>1, <1>2, <1>3, <1>6 DEF SourceInv

\* A body is closed.
LEMMA SourceClose ==
  ASSUME IInv, SourceInv, old = <<>>, Phase1, CloseBody
  PROVE  SourceInv'
<1> DEFINE m == Len(raw)
<1>1. pc = "write" /\ pc' = "main" /\ i > Len(in_list) /\ outfile' = Append(outfile, RightLine)
  BY DEF CloseBody
<1>2. raw' = raw /\ old' = old
  BY <1>1 DEF Phase1
<1>3. /\ BodiesOK(raw) /\ Items(raw, Keep1(raw)) /\ m \in 1..Len(raw)
      /\ raw[m].items = in_list /\ Keep1(raw)[m] = Kept(in_list)
      /\ outfile \in Seq(Lines2) /\ Len(outfile) \in Nat
  BY <1>1, SourceFacts
<1>4. /\ i = Len(in_list) + 1 /\ flags \in SUBSET (1..Len(in_list))
      /\ flags = Kept(in_list) /\ flags # {}
  BY <1>1 DEF IInv, ValuesOK, PhaseInv, FlagsInv
<1>5. {k \in flags : k < i} = Keep1(raw)[m]
  BY <1>3, <1>4
<1>6. Text(raw, outfile, from1, Due(raw, Keep1(raw), m - 1) \cup Begun(m, Keep1(raw)[m]))
  BY <1>1, <1>5 DEF SourceInv
<1>7. from1' = Append(from1, <<m, i>>)
  <2>1. RightLine \in Lines2
    BY Braces DEF Lines2
  <2>2. Len(outfile') > Len(outfile)
    BY <1>1, <1>3, <2>1
  <2> QED BY <1>1, <2>2 DEF Phase1, From1
<1>8. Text(raw, Append(outfile, RightLine), Append(from1, <<m, Len(raw[m].items) + 1>>),
           Due(raw, Keep1(raw), m))
  BY <1>3, <1>4, <1>6, CloseText
<1> QED BY <1>1, <1>2, <1>3, <1>4, <1>7, <1>8 DEF SourceInv

\* A step of phase 1.
LEMMA SourceStep ==
  ASSUME IInv, SourceInv, old = <<>>, Phase1
  PROVE  SourceInv'
<1>1. (\E line \in SourceLines : Read(line)) \/ Step
  BY DEF Phase1
<1>2. ASSUME NEW line \in SourceLines, Read(line)
      PROVE  SourceInv'
  <2>1. CASE CollectRight(line)
    BY <2>1, SourceEnd DEF CollectRight
  <2>2. CASE ~CollectRight(line)
    <3>1. /\ outfile' = outfile /\ pc \notin {"process", "write"} /\ pc' \notin {"process", "write"}
          /\ pc = "collect" => pc' = "collect"
      BY <1>2, <2>2, Zenon DEF Read, ReadDecl, ReadRight, ReadLeft, ReadFirstItem, ReadIgnored,
            CollectItem, CollectIgnored
    <3> QED BY <3>1, SourceFrame
  <2> QED BY <2>1, <2>2
<1>3. CASE ReadEof
  BY <1>3, SourceFrame DEF ReadEof
<1>4. CASE CollectEof
  BY <1>4, SourceEnd DEF CollectEof
<1>5. CASE PairTrans \/ PairCase \/ CountTrans \/ CountCase
  <2>1. pc = "process" /\ pc' = "process" /\ UNCHANGED <<temp_funcDecl, in_list, outfile>>
    BY <1>5 DEF PairTrans, PairCase, CountTrans, CountCase, Processing, readVars
  <2> QED BY <2>1, SourceLoop
<1> QED BY <1>1, <1>2, <1>3, <1>4, <1>5, SourceOpen, SourceDrop, SourceWrite, SourceClose DEF Step

-----------------------------------------------------------------------------
(***************************************************************************)
(* What phase 1 has removed does not matter to phase 2: of a body L and    *)
(* the items M it keeps of it, e[j] being the index in L of item j of M.   *)
(***************************************************************************)
\* Behind a label there is a last one.
LEMMA LastLabel ==
  ASSUME NEW L, NEW a \in Nat, NEW b \in Nat, ~NoCase(L, a, b)
  PROVE  \E c \in a..b : IsCase(L[c]) /\ NoCase(L, c + 1, b)
<1> DEFINE R == {ss \in Nat \X Nat : ss[1] < ss[2]}
           T == {n \in Nat : b - n \in a..b /\ IsCase(L[b - n])}
<1>1. IsWellFoundedOn(R, Nat)
  BY NatLessThanWellFounded DEF OpToRel
<1>2. T # {}
  <2>1. PICK k \in a..b : IsCase(L[k])
    BY DEF NoCase
  <2>2. b - k \in Nat /\ b - (b - k) = k
    BY <2>1
  <2> QED BY <2>1, <2>2
<1>3. T \subseteq Nat
  OBVIOUS
<1>4. PICK n \in T : \A y \in T : <<y, n>> \notin R
  BY <1>1, <1>2, <1>3, WFMin
<1>5. n \in Nat /\ b - n \in a..b /\ IsCase(L[b - n])
  BY <1>4
<1>6. NoCase(L, b - n + 1, b)
  <2> SUFFICES ASSUME NEW k \in (b - n + 1)..b, IsCase(L[k]) PROVE FALSE
    BY DEF NoCase
  <2>1. b - k \in Nat /\ b - (b - k) = k /\ k \in a..b /\ b - k < n
    BY <1>5
  <2>2. b - k \in T
    BY <2>1
  <2>3. <<b - k, n>> \in R
    BY <1>5, <2>1
  <2> QED BY <1>4, <2>2, <2>3
<1> QED BY <1>5, <1>6

\* The items M of L, those that Kept asks for, in order.
Selection(L, M, e) ==
  /\ Len(M) \in Nat /\ Len(L) \in Nat
  /\ \A j \in 1..Len(M) : e[j] \in Kept(L) /\ M[j] = L[e[j]]
  /\ \A x \in Kept(L) : \E j \in 1..Len(M) : e[j] = x
  /\ \A j, k \in 1..Len(M) : j < k => e[j] < e[k]

LEMMA SelectionOrder ==
  ASSUME NEW L, NEW M, NEW e, Selection(L, M, e), NEW j \in 1..Len(M), NEW k \in 1..Len(M)
  PROVE  /\ e[j] \in 1..Len(L) /\ e[j] \in Nat /\ e[k] \in Nat
         /\ j < k <=> e[j] < e[k]
         /\ j = k <=> e[j] = e[k]
<1>1. e[j] \in Kept(L) /\ e[k] \in Kept(L) /\ Len(M) \in Nat
  BY DEF Selection
<1>2. e[j] \in 1..Len(L) /\ e[k] \in 1..Len(L)
  BY <1>1 DEF Kept, KeptUpTo, PairedUpTo
<1>3. e[j] \in Nat /\ e[k] \in Nat
  BY <1>2
<1>4. j < k \/ j = k \/ k < j
  BY <1>1
<1>5. (j < k => e[j] < e[k]) /\ (k < j => e[k] < e[j])
  BY DEF Selection
<1> QED BY <1>1, <1>2, <1>3, <1>4, <1>5

\* A label before a kept transfer is kept itself.
LEMMA LabelKept ==
  ASSUME NEW L, Len(L) \in Nat, NEW t \in Kept(L), IsTrans(L[t]), NEW c \in Nat \ {0}, LabelOf(L, c, t)
  PROVE  c \in Kept(L)
<1>1. t \in PairedUpTo(L, Len(L))
  <2>1. \A j : ~LabelOf(L, t, j)
    BY TransNotCase DEF LabelOf
  <2> QED BY <2>1 DEF Kept, KeptUpTo
<1>2. t \in 1..Len(L) /\ c < t
  BY <1>1 DEF PairedUpTo, LabelOf
<1>3. c \in 1..Len(L)
  BY <1>2
<1> QED BY <1>1, <1>3 DEF Kept, KeptUpTo

\* Between two items there are labels in L if and only if there are in M.
LEMMA SelectionNoCase ==
  ASSUME NEW L, NEW M, NEW e, Selection(L, M, e), NEW b \in 1..Len(M), IsTrans(M[b]),
         NEW a \in Nat, NEW x \in Nat, a <= b, x <= e[b],
         \A j \in 1..Len(M) : a < j <=> x < e[j]
  PROVE  NoCase(M, a + 1, b) <=> NoCase(L, x + 1, e[b])
<1>0. /\ Len(M) \in Nat /\ Len(L) \in Nat /\ b \in Nat
      /\ e[b] \in Kept(L) /\ e[b] \in 1..Len(L) /\ e[b] \in Nat /\ IsTrans(L[e[b]])
  BY SelectionOrder DEF Selection
<1>1. ASSUME NoCase(L, x + 1, e[b]) PROVE NoCase(M, a + 1, b)
  <2> SUFFICES ASSUME NEW j \in (a + 1)..b PROVE ~IsCase(M[j])
    BY DEF NoCase
  <2>1. j \in 1..Len(M) /\ a < j /\ (j < b \/ j = b)
    BY <1>0
  <2>2. e[j] \in Nat /\ x < e[j] /\ (e[j] < e[b] \/ e[j] = e[b]) /\ M[j] = L[e[j]]
    BY <2>1, SelectionOrder DEF Selection
  <2>3. e[j] \in (x + 1)..e[b]
    BY <1>0, <2>2
  <2> QED BY <1>1, <2>2, <2>3 DEF NoCase
<1>2. ASSUME ~NoCase(L, x + 1, e[b]) PROVE ~NoCase(M, a + 1, b)
  <2>1. x + 1 \in Nat
    OBVIOUS
  <2>2. PICK c \in (x + 1)..e[b] : IsCase(L[c]) /\ NoCase(L, c + 1, e[b])
    BY <1>0, <1>2, <2>1, LastLabel
  <2>3. c \in Nat \ {0} /\ c # e[b] /\ c < e[b] /\ x < c
    BY <1>0, <2>2, TransNotCase
  <2>4. LabelOf(L, c, e[b])
    BY <2>2, <2>3 DEF LabelOf
  <2>5. c \in Kept(L)
    BY <1>0, <2>3, <2>4, LabelKept
  <2>6. PICK j \in 1..Len(M) : e[j] = c
    BY <2>5 DEF Selection
  <2>7. a < j /\ j < b
    BY <2>3, <2>6, SelectionOrder
  <2>8. j \in (a + 1)..b /\ IsCase(M[j])
    BY <1>0, <2>2, <2>6, <2>7 DEF Selection
  <2> QED BY <2>8 DEF NoCase
<1> QED BY <1>1, <1>2

\* What is fetched twice.
LEMMA FetchesIs ==
  ASSUME NEW L, Len(L) \in Nat, NEW x
  PROVE  x \in P2!Fetches(L) <=>
           /\ x \in 1..Len(L)
           /\ \E a, b \in 1..Len(L) :
                /\ a < b /\ P2!DoubleFetch(L, a, b)
                /\ x = a \/ x = b \/ LabelOf(L, x, a) \/ LabelOf(L, x, b)
<1>1. \A ab \in (1..Len(L)) \X (1..Len(L)) : ab[1] \in 1..Len(L) /\ ab[2] \in 1..Len(L)
  OBVIOUS
<1>2. \A ab \in (1..Len(L)) \X (1..Len(L)) :
        ab \in P2!FoundUpTo(L, Len(L), 0) <=> ab[1] < ab[2] /\ P2!DoubleFetch(L, ab[1], ab[2])
  BY <1>1 DEF P2!FoundUpTo
<1>3. P2!FoundUpTo(L, Len(L), 0) \subseteq (1..Len(L)) \X (1..Len(L))
  BY DEF P2!FoundUpTo
<1>4. ASSUME x \in P2!Fetches(L)
      PROVE  /\ x \in 1..Len(L)
             /\ \E a, b \in 1..Len(L) :
                  /\ a < b /\ P2!DoubleFetch(L, a, b)
                  /\ x = a \/ x = b \/ LabelOf(L, x, a) \/ LabelOf(L, x, b)
  <2>1. x \in 1..Len(L)
    BY <1>4 DEF P2!Fetches, P2!WithLabels
  <2>2. PICK ab \in P2!FoundUpTo(L, Len(L), 0) :
          x = ab[1] \/ x = ab[2] \/ LabelOf(L, x, ab[1]) \/ LabelOf(L, x, ab[2])
    BY <1>4, SamePaths DEF P2!Fetches, P2!WithLabels
  <2>3. ab[1] \in 1..Len(L) /\ ab[2] \in 1..Len(L) /\ ab[1] < ab[2] /\ P2!DoubleFetch(L, ab[1], ab[2])
    BY <1>1, <1>2, <1>3
  <2> QED BY <2>1, <2>2, <2>3
<1>5. ASSUME x \in 1..Len(L), NEW a \in 1..Len(L), NEW b \in 1..Len(L),
             a < b, P2!DoubleFetch(L, a, b),
             x = a \/ x = b \/ LabelOf(L, x, a) \/ LabelOf(L, x, b)
      PROVE  x \in P2!Fetches(L)
  <2>1. <<a, b>> \in (1..Len(L)) \X (1..Len(L)) /\ <<a, b>>[1] = a /\ <<a, b>>[2] = b
    OBVIOUS
  <2>2. <<a, b>> \in P2!FoundUpTo(L, Len(L), 0)
    BY <1>2, <1>5, <2>1
  <2> QED BY <1>5, <2>1, <2>2, SamePaths DEF P2!Fetches, P2!WithLabels
<1> QED BY <1>4, <1>5

\* The double fetches of the selection are those of the body.
LEMMA SelectionFetches ==
  ASSUME NEW L, NEW M, NEW e, Selection(L, M, e)
  PROVE  P2!Fetches(L) = {e[j] : j \in P2!Fetches(M)}
<1> DEFINE n == Len(M)
<1>0. n \in Nat /\ Len(L) \in Nat /\ \A j \in 1..n : M[j] = L[e[j]] /\ e[j] \in Kept(L)
  BY DEF Selection
<1>1. ASSUME NEW a \in 1..n, NEW b \in 1..n, a < b, IsTrans(M[b])
      PROVE  NoCase(M, a + 1, b) <=> NoCase(L, e[a] + 1, e[b])
  <2>1. a \in Nat /\ e[a] \in Nat /\ a <= b /\ e[a] <= e[b]
    BY <1>0, <1>1, SelectionOrder
  <2>2. \A j \in 1..n : a < j <=> e[a] < e[j]
    BY SelectionOrder
  <2> QED BY <1>1, <2>1, <2>2, SelectionNoCase
<1>2. ASSUME NEW a \in 1..n, IsTrans(M[a])
      PROVE  NoCase(M, 1, a) <=> NoCase(L, 1, e[a])
  <2>1. 0 <= a /\ 0 <= e[a] /\ 0 \in Nat /\ 0 + 1 = 1
    BY <1>0, SelectionOrder
  <2>2. \A j \in 1..n : 0 < j <=> 0 < e[j]
    BY <1>0, SelectionOrder
  <2>3. NoCase(M, 0 + 1, a) <=> NoCase(L, 0 + 1, e[a])
    BY <1>2, <2>1, <2>2, SelectionNoCase
  <2> QED BY <2>1, <2>3
<1>3. ASSUME NEW a \in 1..n, NEW b \in 1..n, a < b
      PROVE  P2!DoubleFetch(M, a, b) <=> P2!DoubleFetch(L, e[a], e[b])
  <2>1. M[a] = L[e[a]] /\ M[b] = L[e[b]]
    BY <1>0
  <2>2. CASE IsTrans(M[a]) /\ IsTrans(M[b])
    <3>1. SamePath(M, a, b) <=> SamePath(L, e[a], e[b])
      BY <1>1, <1>2, <1>3, <2>2 DEF SamePath
    <3> QED BY <2>1, <3>1, SamePaths DEF P2!DoubleFetch, Pair
  <2>3. CASE ~(IsTrans(M[a]) /\ IsTrans(M[b]))
    BY <2>1, <2>3, SamePaths DEF P2!DoubleFetch, Pair
  <2> QED BY <2>2, <2>3
<1>4. ASSUME NEW j \in 1..n, NEW b \in 1..n, IsTrans(M[b])
      PROVE  LabelOf(M, j, b) <=> LabelOf(L, e[j], e[b])
  <2>1. j < b <=> e[j] < e[b]
    BY SelectionOrder
  <2>2. CASE j < b
    BY <1>0, <1>1, <1>4, <2>1, <2>2 DEF LabelOf
  <2>3. CASE ~(j < b)
    BY <2>1, <2>3 DEF LabelOf
  <2> QED BY <2>2, <2>3
<1>5. ASSUME NEW x \in 1..Len(L), NEW y \in 1..Len(L), x < y, P2!DoubleFetch(L, x, y)
      PROVE  x \in Kept(L) /\ y \in Kept(L) /\ IsTrans(L[x]) /\ IsTrans(L[y])
  <2>1. Pair(L, x, y) /\ IsTrans(L[x]) /\ IsTrans(L[y])
    BY <1>5, SamePaths DEF P2!DoubleFetch, Pair
  <2>2. y \in (x + 1)..Len(L) /\ x \in 1..(y - 1)
    BY <1>0, <1>5
  <2> QED BY <2>1, <2>2 DEF Kept, KeptUpTo, PairedUpTo
<1>6. ASSUME NEW j \in P2!Fetches(M)
      PROVE  e[j] \in P2!Fetches(L)
  <2>1. PICK a \in 1..n, b \in 1..n :
          /\ a < b /\ P2!DoubleFetch(M, a, b)
          /\ j = a \/ j = b \/ LabelOf(M, j, a) \/ LabelOf(M, j, b)
    BY <1>0, FetchesIs
  <2>2. j \in 1..n
    BY <1>0, FetchesIs
  <2>3. /\ e[a] \in 1..Len(L) /\ e[b] \in 1..Len(L) /\ e[j] \in 1..Len(L) /\ e[a] < e[b]
    BY <2>1, <2>2, SelectionOrder
  <2>4. P2!DoubleFetch(L, e[a], e[b]) /\ IsTrans(M[a]) /\ IsTrans(M[b])
    BY <1>3, <2>1, SamePaths DEF P2!DoubleFetch, Pair
  <2>5. e[j] = e[a] \/ e[j] = e[b] \/ LabelOf(L, e[j], e[a]) \/ LabelOf(L, e[j], e[b])
    BY <1>4, <2>1, <2>2, <2>4
  <2> QED BY <1>0, <2>3, <2>4, <2>5, FetchesIs
<1>7. ASSUME NEW x \in P2!Fetches(L)
      PROVE  \E j \in P2!Fetches(M) : x = e[j]
  <2>1. PICK u \in 1..Len(L), v \in 1..Len(L) :
          /\ u < v /\ P2!DoubleFetch(L, u, v)
          /\ x = u \/ x = v \/ LabelOf(L, x, u) \/ LabelOf(L, x, v)
    BY <1>0, FetchesIs
  <2>2. x \in 1..Len(L) /\ x \in Nat \ {0}
    BY <1>0, FetchesIs
  <2>3. u \in Kept(L) /\ v \in Kept(L) /\ IsTrans(L[u]) /\ IsTrans(L[v])
    BY <1>5, <2>1
  <2>4. x \in Kept(L)
    BY <1>0, <2>1, <2>2, <2>3, LabelKept
  <2>5. PICK a \in 1..n : e[a] = u
    BY <2>3 DEF Selection
  <2>6. PICK b \in 1..n : e[b] = v
    BY <2>3 DEF Selection
  <2>7. PICK j \in 1..n : e[j] = x
    BY <2>4 DEF Selection
  <2>8. a < b /\ IsTrans(M[a]) /\ IsTrans(M[b])
    BY <1>0, <2>1, <2>3, <2>5, <2>6, SelectionOrder
  <2>9. P2!DoubleFetch(M, a, b)
    BY <1>3, <2>1, <2>5, <2>6, <2>8
  <2>10. j = a \/ j = b \/ LabelOf(M, j, a) \/ LabelOf(M, j, b)
    <3>1. (x = u => j = a) /\ (x = v => j = b)
      BY <2>5, <2>6, <2>7, SelectionOrder
    <3>2. (LabelOf(L, x, u) => LabelOf(M, j, a)) /\ (LabelOf(L, x, v) => LabelOf(M, j, b))
      BY <1>4, <2>5, <2>6, <2>7, <2>8
    <3> QED BY <2>1, <3>1, <3>2
  <2>11. j \in P2!Fetches(M)
    BY <1>0, <2>8, <2>9, <2>10, FetchesIs
  <2> QED BY <2>7, <2>11
<1> QED BY <1>6, <1>7

\* Phase 2 keeps nothing phase 1 has not kept.
LEMMA FetchesAreKept ==
  ASSUME NEW L, Len(L) \in Nat
  PROVE  P2!Fetches(L) \subseteq Kept(L)
<1> SUFFICES ASSUME NEW x \in P2!Fetches(L) PROVE x \in Kept(L)
  OBVIOUS
<1>1. PICK u \in 1..Len(L), v \in 1..Len(L) :
        /\ u < v /\ P2!DoubleFetch(L, u, v)
        /\ x = u \/ x = v \/ LabelOf(L, x, u) \/ LabelOf(L, x, v)
  BY FetchesIs
<1>2. x \in 1..Len(L) /\ x \in Nat \ {0}
  BY FetchesIs
<1>3. Pair(L, u, v) /\ IsTrans(L[u]) /\ IsTrans(L[v])
  BY <1>1, SamePaths DEF P2!DoubleFetch, Pair
<1>4. v \in (u + 1)..Len(L) /\ u \in 1..(v - 1)
  BY <1>1
<1>5. u \in Kept(L) /\ v \in Kept(L)
  BY <1>3, <1>4 DEF Kept, KeptUpTo, PairedUpTo
<1> QED BY <1>1, <1>2, <1>3, <1>5, LabelKept

-----------------------------------------------------------------------------
(***************************************************************************)
(* The file phase 1 has written, as phase 2 reads it.                      *)
(***************************************************************************)
IsSource(r, f, from) == BodiesOK(r) /\ Text(r, f, from, Due(r, Keep1(r), Len(r)))

\* The path, or the brace at the end of a body.
IsEnd(r, at) ==
  at = <<0, 0>> \/ (at[1] \in 1..Len(r) /\ at = <<at[1], Len(r[at[1]].items) + 1>>)

LEMMA SourceAt ==
  ASSUME NEW r, NEW f, NEW from, IsSource(r, f, from)
  PROVE  /\ Len(r) \in Nat /\ Len(f) \in Nat /\ Len(from) = Len(f)
         /\ \A j \in 1..Len(f) : from[j] \in Due(r, Keep1(r), Len(r)) /\ f[j] = TextAt(r, from[j])
         /\ \A q \in Due(r, Keep1(r), Len(r)) : \E j \in 1..Len(f) : from[j] = q
         /\ \A j, k \in 1..Len(f) : j < k => Before(from[j], from[k])
<1> DEFINE D == Due(r, Keep1(r), Len(r))
<1>1. BodiesOK(r) /\ Text(r, f, from, D)
  BY DEF IsSource
<1>2. Len(r) \in Nat
  BY <1>1 DEF BodiesOK
<1> HIDE DEF D
<1>3. /\ Len(f) \in Nat /\ Len(from) = Len(f)
      /\ {from[j] : j \in 1..Len(f)} = D
      /\ \A j \in 1..Len(f) : f[j] = TextAt(r, from[j])
      /\ \A j, k \in 1..Len(f) : j < k => Before(from[j], from[k])
  BY <1>1 DEF Text, IsText
<1>4. /\ \A j \in 1..Len(f) : from[j] \in D
      /\ \A q \in D : \E j \in 1..Len(f) : from[j] = q
  BY <1>3
<1> QED BY <1>2, <1>3, <1>4 DEF D

\* What a line is to the automaton of filter2.py.
IsDecl(x) == identify(x) = "funcDecl"
IsLeft(x) == identify(x) = "{"
IsRight(x) == identify(x) = "}"

LEMMA OneClass ==
  ASSUME NEW x
  PROVE  /\ IsDecl(x) => ~IsLeft(x) /\ ~IsRight(x) /\ ~IsItem(x)
         /\ IsLeft(x) => ~IsRight(x) /\ ~IsItem(x)
         /\ IsRight(x) => ~IsItem(x)
BY Zenon DEF IsDecl, IsLeft, IsRight, IsItem, IsTrans, IsCase

\* Where a line is from: <<0, 0>>, or a place of a body that has items to keep.
LEMMA LineFrom ==
  ASSUME NEW r, NEW f, NEW from, IsSource(r, f, from), NEW j \in 1..Len(f), from[j] # <<0, 0>>
  PROVE  LET m == from[j][1]  k == from[j][2]
         IN  /\ m \in 1..Len(r) /\ Keep1(r)[m] # {} /\ from[j] = <<m, k>>
             /\ Len(r[m].items) \in Nat /\ k \in -1..(Len(r[m].items) + 1)
             /\ \/ k = -1 /\ f[j] = r[m].decl /\ IsDecl(f[j])
                \/ k = 0 /\ IsLeft(f[j])
                \/ k = Len(r[m].items) + 1 /\ IsRight(f[j])
                \/ k \in Keep1(r)[m] /\ k \in 1..Len(r[m].items) /\ f[j] = r[m].items[k] /\ IsItem(f[j])
<1> DEFINE m == from[j][1]  k == from[j][2]
<1>1. BodiesOK(r) /\ Len(r) \in 0..Len(r) /\ Items(r, Keep1(r))
  BY SourceAt, KeepItems DEF IsSource
<1>2. from[j] \in Due(r, Keep1(r), Len(r)) /\ f[j] = TextAt(r, from[j])
  BY SourceAt
<1>3. /\ m \in 1..Len(r) /\ Keep1(r)[m] # {} /\ from[j] = <<m, k>>
      /\ k \in Keep1(r)[m] \cup {-1, 0, Len(r[m].items) + 1}
      /\ k \in -1..(Len(r[m].items) + 1)
  BY <1>1, <1>2, DuePositions
<1> HIDE DEF m, k
<1>4. f[j] = TextAt(r, <<m, k>>)
  BY <1>2, <1>3
<1>5. Len(r[m].items) \in Nat
  BY <1>1, <1>3, TextAtBody
<1>6. CASE k = -1
  <2>1. TextAt(r, <<m, -1>>) = r[m].decl
    BY <1>1, <1>3, TextAtBody
  <2>2. f[j] = r[m].decl /\ IsDecl(f[j])
    BY <1>1, <1>3, <1>4, <1>6, <2>1 DEF BodiesOK, IsDecl
  <2> QED BY <1>3, <1>5, <1>6, <2>2 DEF m, k
<1>7. CASE k = 0
  <2>1. TextAt(r, <<m, 0>>) = LeftLine
    BY <1>1, <1>3, TextAtBody
  <2>2. IsLeft(f[j])
    BY <1>4, <1>7, <2>1, Braces DEF IsLeft, IsRight
  <2> QED BY <1>3, <1>5, <1>7, <2>2 DEF m, k
<1>8. CASE k = Len(r[m].items) + 1
  <2>1. TextAt(r, <<m, Len(r[m].items) + 1>>) = RightLine
    BY <1>1, <1>3, TextAtBody
  <2>2. IsRight(f[j])
    BY <1>4, <1>8, <2>1, Braces DEF IsLeft, IsRight
  <2> QED BY <1>3, <1>5, <1>8, <2>2 DEF m, k
<1>9. CASE k \in Keep1(r)[m]
  <2>1. k \in 1..Len(r[m].items)
    BY <1>1, <1>3, <1>9 DEF Items
  <2>2. TextAt(r, <<m, k>>) = r[m].items[k]
    BY <1>1, <1>3, <2>1, TextAtBody
  <2>3. f[j] = r[m].items[k] /\ IsItem(f[j])
    BY <1>1, <1>3, <1>4, <2>1, <2>2 DEF BodiesOK
  <2> QED BY <1>3, <1>5, <1>9, <2>1, <2>3 DEF m, k
<1> QED BY <1>3, <1>6, <1>7, <1>8, <1>9

\* The same by the place: what line j is.
LEMMA LineKind ==
  ASSUME NEW r, NEW f, NEW from, IsSource(r, f, from), NEW j \in 1..Len(f), from[j][1] # 0
  PROVE  /\ from[j][1] \in 1..Len(r) /\ from[j][1] \in Nat /\ Len(r[from[j][1]].items) \in Nat
         /\ from[j][2] \in -1..(Len(r[from[j][1]].items) + 1) /\ Kept(r[from[j][1]].items) # {}
         /\ from[j][2] = -1 => f[j] = r[from[j][1]].decl /\ IsDecl(f[j])
         /\ from[j][2] = 0 => IsLeft(f[j])
         /\ from[j][2] = Len(r[from[j][1]].items) + 1 => IsRight(f[j])
         /\ from[j][2] \in 1..Len(r[from[j][1]].items) =>
              /\ from[j][2] \in Kept(r[from[j][1]].items)
              /\ f[j] = r[from[j][1]].items[from[j][2]] /\ IsItem(f[j])
<1> DEFINE m == from[j][1]  k == from[j][2]  n == Len(r[m].items)
<1>1. from[j] # <<0, 0>>
  <2>1. ASSUME from[j] = <<0, 0>> PROVE FALSE
    BY <2>1
  <2> QED BY <2>1
<1>2. m \in 1..Len(r) /\ Keep1(r)[m] # {} /\ n \in Nat /\ k \in -1..(n + 1)
  BY <1>1, LineFrom
<1>3. \/ k = -1 /\ f[j] = r[m].decl /\ IsDecl(f[j])
      \/ k = 0 /\ IsLeft(f[j])
      \/ k = n + 1 /\ IsRight(f[j])
      \/ k \in Keep1(r)[m] /\ k \in 1..n /\ f[j] = r[m].items[k] /\ IsItem(f[j])
  BY <1>1, LineFrom
<1>4. m \in Nat
  BY <1>2, SourceAt
<1>5. Keep1(r)[m] = Kept(r[m].items)
  BY <1>2, KeepItems
<1> DEFINE dc == IsDecl(f[j])  lf == IsLeft(f[j])  rt == IsRight(f[j])
           item == IsItem(f[j])  kept == Kept(r[m].items)  x == f[j]  d == r[m].decl  y == r[m].items[k]
<1>6. \/ k = -1 /\ x = d /\ dc
      \/ k = 0 /\ lf
      \/ k = n + 1 /\ rt
      \/ k \in kept /\ k \in 1..n /\ x = y /\ item
  BY <1>3, <1>5
<1>7. kept # {}
  BY <1>2, <1>5
<1> HIDE DEF m, k, n, dc, lf, rt, item, kept, x, d, y
<1>8. k = -1 => x = d /\ dc
  BY <1>2, <1>6
<1>9. (k = 0 => lf) /\ (k = n + 1 => rt)
  BY <1>2, <1>6
<1>10. k \in 1..n => k \in kept /\ x = y /\ item
  BY <1>2, <1>6
<1> QED BY <1>2, <1>4, <1>7, <1>8, <1>9, <1>10, Zenon DEF m, k, n, dc, lf, rt, item, kept, x, d, y

\* The path is the first line.
LEMMA PathFirst ==
  ASSUME NEW r, NEW f, NEW from, IsSource(r, f, from), NEW j \in 1..Len(f)
  PROVE  from[j] = <<0, 0>> <=> j = 1
<1>0. Len(f) \in Nat /\ 1 \in 1..Len(f) /\ Len(r) \in Nat /\ j \in Nat
  BY SourceAt
<1>1. <<0, 0>> \in Due(r, Keep1(r), Len(r))
  <2>1. from[1] \in Due(r, Keep1(r), Len(r))
    BY <1>0, SourceAt
  <2>2. PICK m \in 1..Len(r) : Keep1(r)[m] # {}
    BY <2>1, DueMember
  <2> QED BY <2>2, DueHas
<1>2. PICK x \in 1..Len(f) : from[x] = <<0, 0>>
  BY <1>1, SourceAt
<1>3. \A y \in 1..Len(f) : ~Before(from[y], <<0, 0>>)
  <2> SUFFICES ASSUME NEW y \in 1..Len(f) PROVE ~Before(from[y], <<0, 0>>)
    OBVIOUS
  <2>1. CASE from[y] = <<0, 0>>
    BY <2>1 DEF Before
  <2>2. CASE from[y] # <<0, 0>>
    <3>1. from[y][1] \in 1..Len(r)
      BY <2>2, LineFrom
    <3> QED BY <3>1 DEF Before
  <2> QED BY <2>1, <2>2
<1>4. x = 1
  <2>1. ASSUME 1 < x PROVE FALSE
    <3>1. Before(from[1], from[x])
      BY <1>0, <2>1, SourceAt
    <3>2. ~Before(from[1], <<0, 0>>)
      BY <1>0, <1>3
    <3>3. Before(from[1], <<0, 0>>)
      BY <1>2, <3>1
    <3> QED BY <3>2, <3>3
  <2>2. x \in Nat /\ x >= 1
    BY <1>0
  <2> QED BY <2>1, <2>2
<1>5. from[j] = <<0, 0>> => ~(1 < j)
  <2> SUFFICES ASSUME from[j] = <<0, 0>>, 1 < j PROVE FALSE
    OBVIOUS
  <2>1. Before(from[1], from[j])
    BY <1>0, SourceAt
  <2>2. ~Before(from[1], <<0, 0>>)
    BY <1>0, <1>3
  <2>3. Before(from[1], <<0, 0>>)
    BY <2>1
  <2> QED BY <2>2, <2>3
<1> QED BY <1>0, <1>2, <1>4, <1>5

\* The next line is the next that is due.
LEMMA NextDue ==
  ASSUME NEW r, NEW f, NEW from, IsSource(r, f, from), NEW j \in 1..Len(f),
         NEW q \in Due(r, Keep1(r), Len(r)), Before(from[j], q), ~Before(q, from[j]), q # from[j]
  PROVE  /\ j + 1 \in 1..Len(f)
         /\ q = from[j + 1] \/ Before(from[j + 1], q)
<1>1. PICK x \in 1..Len(f) : from[x] = q
  BY SourceAt
<1>2. Len(f) \in Nat /\ x # j /\ ~(x < j)
  BY <1>1, SourceAt
<1>3. j + 1 \in 1..Len(f) /\ (x = j + 1 \/ j + 1 < x)
  BY <1>2
<1> QED BY <1>1, <1>3, SourceAt

LEMMA NextAfter ==
  ASSUME NEW r, NEW f, NEW from, IsSource(r, f, from), NEW j \in 1..Len(f), j + 1 \in 1..Len(f)
  PROVE  /\ Before(from[j], from[j + 1]) /\ from[j + 1] # <<0, 0>>
<1>1. j < j + 1 /\ j + 1 # 1 /\ Len(f) \in Nat
  BY SourceAt
<1> QED BY <1>1, SourceAt, PathFirst

\* Behind the declaration of a body is its brace,
LEMMA AfterDecl ==
  ASSUME NEW r, NEW f, NEW from, IsSource(r, f, from), NEW j \in 1..Len(f),
         NEW m \in 1..Len(r), from[j] = <<m, -1>>
  PROVE  j + 1 \in 1..Len(f) /\ from[j + 1] = <<m, 0>>
<1>0. /\ Len(r) \in Nat /\ m \in Nat /\ from[j] # <<0, 0>>
      /\ from[j][1] = m /\ from[j][2] = -1
  BY SourceAt
<1>1. Keep1(r)[m] # {}
  BY <1>0, LineFrom
<1>2. <<m, 0>> \in Due(r, Keep1(r), Len(r))
  BY <1>1, DueHas
<1>3. Before(from[j], <<m, 0>>) /\ ~Before(<<m, 0>>, from[j]) /\ <<m, 0>> # from[j]
  BY <1>0 DEF Before
<1>4. j + 1 \in 1..Len(f) /\ (<<m, 0>> = from[j + 1] \/ Before(from[j + 1], <<m, 0>>))
  BY <1>2, <1>3, NextDue
<1>5. Before(from[j], from[j + 1]) /\ from[j + 1] # <<0, 0>>
  BY <1>4, NextAfter
<1>6. from[j + 1][1] \in Nat /\ from[j + 1][2] \in Int
  <2>1. from[j + 1][1] \in 1..Len(r)
    BY <1>4, <1>5, LineFrom
  <2>2. from[j + 1][2] \in -1..(Len(r[from[j + 1][1]].items) + 1)
    BY <1>4, <1>5, LineFrom
  <2> QED BY <2>1, <2>2
<1>7. ~Before(from[j + 1], <<m, 0>>)
  BY <1>0, <1>5, <1>6 DEF Before
<1> QED BY <1>4, <1>7

\* behind the brace or an item the next item that is kept, or the end,
LEMMA AfterItem ==
  ASSUME NEW r, NEW f, NEW from, IsSource(r, f, from), NEW j \in 1..Len(f),
         NEW m \in 1..Len(r), NEW k \in 0..Len(r[m].items), from[j] = <<m, k>>
  PROVE  /\ j + 1 \in 1..Len(f)
         /\ from[j + 1][1] = m /\ k < from[j + 1][2]
         /\ \A x \in Keep1(r)[m] : k < x => from[j + 1][2] <= x
<1> DEFINE n == Len(r[m].items)
<1>0. /\ Len(r) \in Nat /\ m \in Nat /\ from[j] # <<0, 0>>
      /\ from[j][1] = m /\ from[j][2] = k /\ k \in Nat /\ m >= 1
  BY SourceAt
<1>1. Keep1(r)[m] # {} /\ n \in Nat
  BY <1>0, LineFrom
<1>2. \A x \in Keep1(r)[m] \cup {-1, 0, n + 1} : <<m, x>> \in Due(r, Keep1(r), Len(r))
  BY <1>1, DueHas
<1> HIDE DEF n
<1>3. ASSUME NEW x \in Int, k < x, x \in Keep1(r)[m] \cup {-1, 0, n + 1}
      PROVE  j + 1 \in 1..Len(f) /\ (<<m, x>> = from[j + 1] \/ Before(from[j + 1], <<m, x>>))
  <2>1. Before(from[j], <<m, x>>) /\ ~Before(<<m, x>>, from[j]) /\ <<m, x>> # from[j]
    BY <1>0, <1>3 DEF Before
  <2>2. <<m, x>> \in Due(r, Keep1(r), Len(r))
    BY <1>2, <1>3
  <2> QED BY <2>1, <2>2, NextDue
<1>4. j + 1 \in 1..Len(f) /\ (<<m, n + 1>> = from[j + 1] \/ Before(from[j + 1], <<m, n + 1>>))
  <2>1. n + 1 \in Int /\ k < n + 1
    BY <1>0, <1>1 DEF n
  <2> QED BY <1>3, <2>1
<1>5. Before(from[j], from[j + 1]) /\ from[j + 1] # <<0, 0>>
  BY <1>4, NextAfter
<1>6. from[j + 1][1] \in Nat /\ from[j + 1][2] \in Int
  <2>1. from[j + 1][1] \in 1..Len(r)
    BY <1>4, <1>5, LineFrom
  <2>2. from[j + 1][2] \in -1..(Len(r[from[j + 1][1]].items) + 1)
    BY <1>4, <1>5, LineFrom
  <2> QED BY <2>1, <2>2
<1>7. from[j + 1][1] = m /\ k < from[j + 1][2]
  BY <1>0, <1>1, <1>4, <1>5, <1>6 DEF Before
<1>8. ASSUME NEW x \in Keep1(r)[m], k < x PROVE from[j + 1][2] <= x
  <2>1. x \in Int
    BY KeepItems DEF Items
  <2>2. <<m, x>> = from[j + 1] \/ Before(from[j + 1], <<m, x>>)
    BY <1>3, <1>8, <2>1
  <2> QED BY <1>6, <1>7, <2>1, <2>2 DEF Before
<1> QED BY <1>4, <1>7, <1>8

\* and behind the end the declaration of the next body of which anything is kept.
LEMMA AfterEnd ==
  ASSUME NEW r, NEW f, NEW from, IsSource(r, f, from), NEW j \in 1..Len(f), IsEnd(r, from[j]),
         NEW b \in 1..Len(r), from[j][1] < b, Keep1(r)[b] # {}
  PROVE  /\ j + 1 \in 1..Len(f) /\ from[j + 1][1] \in 1..Len(r)
         /\ from[j + 1] = <<from[j + 1][1], -1>>
         /\ from[j][1] < from[j + 1][1] /\ from[j + 1][1] <= b
<1>0. Len(r) \in Nat /\ b \in Nat /\ from[j][1] \in Nat /\ from[j][2] \in Int
  <2>1. Len(r) \in Nat /\ b \in Nat
    BY SourceAt
  <2>2. CASE from[j] = <<0, 0>>
    BY <2>1, <2>2
  <2>3. CASE from[j] # <<0, 0>>
    <3>1. from[j][1] \in 1..Len(r)
      BY <2>3, LineFrom
    <3>2. from[j][2] \in -1..(Len(r[from[j][1]].items) + 1)
      BY <2>3, LineFrom
    <3> QED BY <2>1, <3>1, <3>2
  <2> QED BY <2>2, <2>3
<1>1. ASSUME NEW x \in 1..Len(r), from[j][1] < x, Keep1(r)[x] # {}
      PROVE  j + 1 \in 1..Len(f) /\ (<<x, -1>> = from[j + 1] \/ Before(from[j + 1], <<x, -1>>))
  <2>1. <<x, -1>> \in Due(r, Keep1(r), Len(r))
    BY <1>1, DueHas
  <2>2. Before(from[j], <<x, -1>>) /\ ~Before(<<x, -1>>, from[j]) /\ <<x, -1>> # from[j]
    BY <1>0, <1>1 DEF Before
  <2> QED BY <2>1, <2>2, NextDue
<1>2. j + 1 \in 1..Len(f) /\ (<<b, -1>> = from[j + 1] \/ Before(from[j + 1], <<b, -1>>))
  BY <1>1
<1> DEFINE m == from[j + 1][1]  k == from[j + 1][2]
<1>3. Before(from[j], from[j + 1]) /\ from[j + 1] # <<0, 0>>
  BY <1>2, NextAfter
<1>4. /\ m \in 1..Len(r) /\ Keep1(r)[m] # {} /\ from[j + 1] = <<m, k>>
      /\ Len(r[m].items) \in Nat /\ k \in -1..(Len(r[m].items) + 1)
  <2>1. m \in 1..Len(r) /\ Keep1(r)[m] # {}
    BY <1>2, <1>3, LineFrom
  <2>2. from[j + 1] = <<m, k>>
    <3>1. from \in Seq(Positions) /\ j + 1 \in 1..Len(from)
      BY <1>2, SourceAt DEF IsSource, Text
    <3>2. from[j + 1] \in Int \X Int
      BY <3>1 DEF Positions
    <3> QED BY <3>2
  <2>3. Len(r[m].items) \in Nat
    BY <1>2, <1>3, LineFrom
  <2>4. k \in -1..(Len(r[m].items) + 1)
    BY <1>2, <1>3, LineFrom
  <2> QED BY <2>1, <2>2, <2>3, <2>4
<1>5. from[j][1] < m
  <2>1. CASE from[j] = <<0, 0>>
    BY <1>0, <1>4, <2>1
  <2>2. CASE from[j] # <<0, 0>>
    <3>1. from[j][2] = Len(r[from[j][1]].items) + 1
      BY <2>2 DEF IsEnd
    <3>2. from[j][1] = m => ~(from[j][2] < k)
      BY <1>4, <3>1
    <3> QED BY <1>0, <1>3, <1>4, <3>2 DEF Before
  <2> QED BY <2>1, <2>2
<1>6. <<m, -1>> = from[j + 1] \/ Before(from[j + 1], <<m, -1>>)
  BY <1>1, <1>4, <1>5
<1>7. k = -1
  <2>1. CASE <<m, -1>> = from[j + 1]
    BY <2>1
  <2>2. CASE Before(from[j + 1], <<m, -1>>)
    BY <1>4, <2>2 DEF Before
  <2> QED BY <1>6, <2>1, <2>2
<1>8. m <= b
  <2>1. CASE <<b, -1>> = from[j + 1]
    BY <1>0, <2>1
  <2>2. CASE Before(from[j + 1], <<b, -1>>)
    BY <1>0, <1>4, <2>2 DEF Before
  <2> QED BY <1>2, <2>1, <2>2
<1>9. from[j + 1] = <<m, -1>>
  BY <1>4, <1>7
<1> QED BY <1>2, <1>4, <1>5, <1>8, <1>9

\* The same, of the line behind an end.
LEMMA LineAfterEnd ==
  ASSUME NEW r, NEW f, NEW from, IsSource(r, f, from), NEW j \in 1..Len(f), IsEnd(r, from[j]),
         j + 1 \in 1..Len(f)
  PROVE  LET m == from[j + 1][1]
         IN  /\ m \in 1..Len(r) /\ from[j + 1] = <<m, -1>> /\ from[j][1] < m /\ from[j][1] \in Nat
             /\ \A b \in (from[j][1] + 1)..(m - 1) : Keep1(r)[b] = {}
<1> DEFINE m == from[j + 1][1]  k == from[j + 1][2]
<1>1. Before(from[j], from[j + 1]) /\ from[j + 1] # <<0, 0>>
  BY NextAfter
<1>2. m \in 1..Len(r) /\ Keep1(r)[m] # {}
  BY <1>1, LineFrom
<1>3. Len(r[m].items) \in Nat
  BY <1>1, LineFrom
<1>4. k \in -1..(Len(r[m].items) + 1)
  BY <1>1, LineFrom
<1>5. from[j][1] < m /\ from[j][1] \in Nat
  <2>0. m \in Nat /\ m >= 1
    BY <1>2, SourceAt
  <2>1. CASE from[j] = <<0, 0>>
    BY <2>0, <2>1
  <2>2. CASE from[j] # <<0, 0>>
    <3>1. from[j][2] = Len(r[from[j][1]].items) + 1
      BY <2>2 DEF IsEnd
    <3>2. from[j][1] \in 1..Len(r)
      BY <2>2 DEF IsEnd
    <3>3. from[j][1] = m => ~(from[j][2] < k)
      BY <1>3, <1>4, <3>1
    <3> QED BY <1>1, <2>0, <3>2, <3>3 DEF Before
  <2> QED BY <2>1, <2>2
<1>6. from[j + 1] = <<m, -1>>
  BY <1>2, <1>5, AfterEnd
<1>7. ASSUME NEW b \in (from[j][1] + 1)..(m - 1), Keep1(r)[b] # {} PROVE FALSE
  <2>1. b \in 1..Len(r) /\ from[j][1] < b /\ ~(m <= b)
    <3>1. Len(r) \in Nat
      BY SourceAt
    <3> QED BY <1>2, <1>5, <3>1
  <2> QED BY <1>7, <2>1, AfterEnd
<1> QED BY <1>2, <1>5, <1>6, <1>7

\* The file ends with a body, the last of which anything is kept.
LEMMA LastIsEnd ==
  ASSUME NEW r, NEW f, NEW from, IsSource(r, f, from), Len(f) >= 1, IsEnd(r, from[Len(f)])
  PROVE  /\ from[Len(f)][1] \in Nat /\ from[Len(f)][1] <= Len(r)
         /\ \A b \in (from[Len(f)][1] + 1)..Len(r) : Keep1(r)[b] = {}
<1>0. Len(f) \in Nat /\ Len(r) \in Nat /\ Len(f) \in 1..Len(f) /\ Len(f) + 1 \notin 1..Len(f)
  BY SourceAt
<1> DEFINE n == Len(f)
<1> HIDE DEF n
<1>1. n \in 1..Len(f) /\ n + 1 \notin 1..Len(f) /\ IsEnd(r, from[n])
  BY <1>0 DEF n
<1>2. from[n][1] \in Nat /\ from[n][1] <= Len(r)
  BY <1>0, <1>1 DEF IsEnd
<1>3. ASSUME NEW b \in (from[n][1] + 1)..Len(r), Keep1(r)[b] # {} PROVE FALSE
  <2>1. b \in 1..Len(r) /\ from[n][1] < b
    BY <1>0, <1>2
  <2> QED BY <1>1, <1>3, <2>1, AfterEnd
<1> QED BY <1>2, <1>3 DEF n

-----------------------------------------------------------------------------
(***************************************************************************)
(* Where phase 2 is in the file.                                           *)
(***************************************************************************)
\* Line n is the brace of a body, with the declaration d before it.
AtBody(r, f, from, d, n) ==
  /\ n \in 2..Len(f) /\ from[n][1] \in 1..Len(r)
  /\ from[n] = <<from[n][1], 0>> /\ from[n - 1] = <<from[n][1], -1>>
  /\ d = r[from[n][1]].decl

\* The items M are the lines behind it.
AtItems(r, f, from, M, n) ==
  /\ Len(M) \in Nat /\ n + Len(M) \in 1..Len(f)
  /\ \A j \in 1..Len(M) : /\ from[n + j] = <<from[n][1], from[n + j][2]>>
                          /\ from[n + j][2] \in Kept(r[from[n][1]].items)
                          /\ M[j] = f[n + j]

\* Line n is the brace at the end of body m.
AtEnd(r, f, from, m, n) == n \in 1..Len(f) /\ from[n] = <<m, Len(r[m].items) + 1>>

Index(from, M, n) == [j \in 1..Len(M) |-> from[n + j][2]]

\* When the end is reached the items are all that is kept.
LEMMA AtEndSelection ==
  ASSUME NEW r, NEW f, NEW from, IsSource(r, f, from), NEW d, NEW M, NEW n,
         AtBody(r, f, from, d, n), AtItems(r, f, from, M, n),
         AtEnd(r, f, from, from[n][1], n + Len(M) + 1)
  PROVE  Selection(r[from[n][1]].items, M, Index(from, M, n))
<1> DEFINE m == from[n][1]  L == r[m].items  e == Index(from, M, n)  p == n + Len(M) + 1
<1>0. /\ Len(f) \in Nat /\ Len(r) \in Nat /\ m \in 1..Len(r) /\ m \in Nat /\ m # 0
      /\ n \in 1..Len(f) /\ n \in Nat /\ from[n][2] = 0
      /\ Len(M) \in Nat /\ p \in 1..Len(f) /\ p \in Nat
      /\ from[p][1] = m /\ from[p][2] = Len(L) + 1
  <2>1. Len(f) \in Nat /\ Len(r) \in Nat
    BY SourceAt
  <2>2. m \in 1..Len(r) /\ n \in 2..Len(f) /\ from[n] = <<m, 0>>
    BY DEF AtBody
  <2>3. Len(M) \in Nat /\ p \in 1..Len(f) /\ from[p] = <<m, Len(L) + 1>>
    BY DEF AtItems, AtEnd
  <2>4. from[n][2] = 0
    BY <2>2
  <2>5. from[p][1] = m /\ from[p][2] = Len(L) + 1
    BY <2>3
  <2> HIDE DEF m, L, p
  <2> QED BY <2>1, <2>2, <2>3, <2>4, <2>5
<1>1. Len(L) \in Nat /\ BodiesOK(r) /\ L \in Seq(Line)
  BY <1>0, TextAtBody DEF IsSource
<1>10. \A k \in 1..Len(L) : TextAt(r, <<m, k>>) = L[k]
  <2>1. BodiesOK(r) /\ m \in 1..Len(r)
    BY <1>0, <1>1
  <2> HIDE DEF m
  <2>2. \A k \in 1..Len(r[m].items) : TextAt(r, <<m, k>>) = r[m].items[k]
    BY <2>1, TextAtBody
  <2> QED BY <2>2
<1>2. ASSUME NEW j \in 1..Len(M)
      PROVE  /\ n + j \in 1..Len(f) /\ e[j] = from[n + j][2] /\ e[j] \in Kept(L) /\ e[j] \in 1..Len(L)
             /\ from[n + j][1] = m /\ M[j] = L[e[j]]
  <2>1. n + j \in 1..Len(f) /\ e[j] = from[n + j][2]
    BY <1>0 DEF Index
  <2>2. from[n + j] = <<m, e[j]>> /\ e[j] \in Kept(L) /\ M[j] = f[n + j]
    BY <2>1 DEF AtItems
  <2>3. e[j] \in 1..Len(L)
    BY <2>2 DEF Kept, KeptUpTo, PairedUpTo
  <2>4. f[n + j] = TextAt(r, <<m, e[j]>>)
    <3>1. f[n + j] = TextAt(r, from[n + j])
      BY <2>1, SourceAt
    <3> QED BY <2>2, <3>1
  <2>5. TextAt(r, <<m, e[j]>>) = L[e[j]]
    <3> HIDE DEF m, L, e
    <3> QED BY <1>10, <2>3
  <2>6. from[n + j][1] = m
    BY <2>2
  <2> QED BY <2>1, <2>2, <2>3, <2>4, <2>5, <2>6
<1> HIDE DEF m, L, e, p
<1>3. ASSUME NEW j \in 1..Len(M), NEW k \in 1..Len(M), j < k
      PROVE  e[j] < e[k]
  <2>1. Before(from[n + j], from[n + k])
    <3>1. n + j < n + k
      BY <1>0, <1>3
    <3>2. n + j \in 1..Len(f) /\ n + k \in 1..Len(f)
      BY <1>2
    <3> QED BY <3>1, <3>2, SourceAt
  <2> QED BY <1>0, <1>2, <2>1 DEF Before
<1>4. ASSUME NEW x \in Kept(L)
      PROVE  \E j \in 1..Len(M) : e[j] = x
  <2>1. x \in 1..Len(L)
    BY DEF Kept, KeptUpTo, PairedUpTo
  <2>2. <<m, x>> \in Due(r, Keep1(r), Len(r))
    <3>1. Keep1(r)[m] = Kept(L)
      BY <1>0, KeepItems DEF m, L
    <3>2. x \in Keep1(r)[m] /\ Keep1(r)[m] # {}
      BY <3>1
    <3> QED BY <1>0, <3>2, DueHas
  <2> DEFINE q == <<m, x>>
  <2>q. q[1] = m /\ q[2] = x
    OBVIOUS
  <2> HIDE DEF q
  <2>3. PICK y \in 1..Len(f) : from[y] = q
    <3>1. q \in Due(r, Keep1(r), Len(r))
      BY <2>2 DEF q
    <3> QED BY <3>1, SourceAt
  <2>4. from[y][1] = m /\ from[y][2] = x
    BY <2>3, <2>q
  <2>5. ~(y < n) /\ y # n /\ ~(p < y) /\ y # p
    <3>1. ~Before(from[y], from[n]) /\ from[y][2] # from[n][2]
      BY <1>0, <2>1, <2>4 DEF Before, m
    <3>2. ~Before(from[p], from[y]) /\ from[y][2] # from[p][2]
      BY <1>0, <1>1, <2>1, <2>4 DEF Before
    <3> QED BY <1>0, <3>1, <3>2, SourceAt
  <2>6. y - n \in 1..Len(M) /\ n + (y - n) = y
    BY <1>0, <2>5 DEF p
  <2>7. e[y - n] = x
    BY <1>2, <2>4, <2>6
  <2> QED BY <2>6, <2>7
<1> QED BY <1>0, <1>1, <1>2, <1>3, <1>4 DEF Selection, m, L, e

-----------------------------------------------------------------------------
(***************************************************************************)
(* Phase 2 on the file of phase 1.                                         *)
(***************************************************************************)
\* Of the bodies up to n everything has been written.
TextUpTo(r, f, from, n) == Text(r, f, from, Due(r, Keep2(r), n))
Text2(n) == TextUpTo(raw, out2, from2, n)

\* The line before the items when the end of their body has been read.
brace == pos - Len(list2) - 1

Collected(n) == AtBody(raw, outfile, from1, decl2, n) /\ AtItems(raw, outfile, from1, list2, n)

\* The flagged items before i2.
Written(n) == {from1[n + j][2] : j \in {x \in flags2 : x < i2}}

ParseInv ==
  old = <<>> =>
    /\ pc2 = "start" => curState2 = 0 /\ out2 = <<>> /\ from2 = <<>>
    /\ pc2 = "main" =>
         /\ curState2 \in {0, 1, 2} /\ pos \in 1..Len(outfile)
         /\ curState2 = 0 => IsEnd(raw, from1[pos]) /\ Text2(from1[pos][1])
         /\ curState2 = 1 =>
              /\ from1[pos][1] \in 1..Len(raw) /\ from1[pos] = <<from1[pos][1], -1>>
              /\ decl2 = raw[from1[pos][1]].decl /\ Text2(from1[pos][1] - 1)
         /\ curState2 = 2 =>
              AtBody(raw, outfile, from1, decl2, pos) /\ Text2(from1[pos][1] - 1)
    /\ pc2 = "collect" =>
         /\ curState2 = 3 /\ Collected(pos - Len(list2))
         /\ Text2(from1[pos - Len(list2)][1] - 1)
    /\ pc2 \in {"outer", "inner", "write"} =>
         /\ curState2 = 0 /\ Collected(brace)
         /\ AtEnd(raw, outfile, from1, from1[brace][1], pos)
    /\ pc2 \in {"outer", "inner"} => Text2(from1[brace][1] - 1)
    /\ pc2 = "write" =>
         Text(raw, out2, from2,
              Due(raw, Keep2(raw), from1[brace][1] - 1) \cup Begun(from1[brace][1], Written(brace)))
    /\ pc2 = "done" => Text2(Len(raw))

\* What a step of phase 2 finds and leaves alone.
Reads ==
  /\ old = <<>> /\ IsSource(raw, outfile, from1) /\ infile2 = outfile /\ WellFormed(outfile)
  /\ UNCHANGED <<old, raw, outfile, from1>> /\ from2' = From2 /\ Core2

LEMMA ReadsThat ==
  ASSUME IInv, IInv2, SourceInv, old = <<>>, Phase2
  PROVE  Reads /\ P2!Next /\ outfile # <<>>
<1>1. UNCHANGED <<old, raw, outfile, from1>> /\ P2!Next /\ from2' = From2 /\ infile2 # <<>> /\ pc = "done"
  BY DEF Phase2, vars
<1>2. infile2 = outfile
  BY DEF infile2
<1>3. IsSource(raw, outfile, from1)
  BY <1>1 DEF SourceInv, IsSource
<1>4. WellFormed(outfile) /\ Core2
  BY DEF IInv, OutInv, IInv2
<1> QED BY <1>1, <1>2, <1>3, <1>4 DEF Reads

\* Without writing, nothing is added.
LEMMA NothingAdded ==
  ASSUME Reads, out2' = out2, pc2' # "write"
  PROVE  from2' = from2
<1>1. out2 \in Seq(Lines2)
  BY DEF Reads, Core2, TypeInv2
<1>2. ~(Len(out2') > Len(out2))
  BY <1>1
<1> QED BY <1>2 DEF Reads, From2

\* The line that is read.
LEMMA ReadsLine ==
  ASSUME Reads, P2!ReadLine
  PROVE  pos' = pos + 1 /\ pos' \in 1..Len(outfile) /\ P2!line = outfile[pos'] /\ pos \in Nat
<1>1. TypeInv2 /\ infile2 = outfile
  BY DEF Reads, Core2
<1>2. pos \in Nat
  BY <1>1 DEF TypeInv2
<1> QED BY <1>1, <1>2, LineRead

LEMMA ParseOrigin ==
  ASSUME Reads, ParseInv, P2!ReadOrigin
  PROVE  ParseInv'
<1>1. /\ pc2 = "start" /\ pc2' = "main" /\ out2' = out2 /\ curState2' = curState2 /\ P2!ReadLine
  BY DEF P2!ReadOrigin
<1>2. pos = 0 /\ curState2 = 0 /\ out2 = <<>> /\ from2 = <<>> /\ old = <<>>
  BY <1>1 DEF Reads, Core2, ShapeInv2, ParseInv
<1>3. pos' = 1 /\ pos' \in 1..Len(outfile)
  BY <1>1, <1>2, ReadsLine
<1>4. from1[1] = <<0, 0>>
  BY <1>3, PathFirst DEF Reads
<1>5. from2' = from2
  BY <1>1, NothingAdded
<1>6. TextUpTo(raw, <<>>, <<>>, 0)
  BY EmptyText, DueNone DEF TextUpTo
<1>7. IsEnd(raw, from1[1]) /\ from1[1][1] = 0
  BY <1>4 DEF IsEnd
<1>8. UNCHANGED <<old, raw, outfile, from1>>
  BY DEF Reads
<1> QED BY <1>1, <1>2, <1>3, <1>5, <1>6, <1>7, <1>8 DEF ParseInv, Text2

\* Of the bodies phase 1 has left out nothing is due.
LEMMA TextSkip ==
  ASSUME NEW r, BodiesOK(r), NEW f, NEW from, NEW a \in Nat, NEW b \in Nat, a <= b, b <= Len(r),
         \A m \in (a + 1)..b : Keep1(r)[m] = {}, TextUpTo(r, f, from, a)
  PROVE  TextUpTo(r, f, from, b)
<1>1. \A m \in (a + 1)..b : Keep2(r)[m] = {}
  <2> SUFFICES ASSUME NEW m \in (a + 1)..b PROVE Keep2(r)[m] = {}
    OBVIOUS
  <2>1. m \in 1..Len(r)
    <3>1. Len(r) \in Nat
      BY DEF BodiesOK
    <3> QED BY <3>1
  <2>2. Len(r[m].items) \in Nat /\ Keep1(r)[m] = {}
    BY <2>1, TextAtBody
  <2>3. P2!Fetches(r[m].items) \subseteq Kept(r[m].items)
    BY <2>2, FetchesAreKept
  <2> QED BY <2>1, <2>2, <2>3, KeepItems
<1>2. Due(r, Keep2(r), b) = Due(r, Keep2(r), a)
  BY <1>1, DueSkip
<1> QED BY <1>2 DEF TextUpTo

\* Which lines the automaton has a transition for.
Line2 == outfile[pos + 1]
MainRead == P2!ReadDecl \/ P2!ReadLeft \/ P2!ReadRight \/ P2!ReadIgnored \/ P2!ReadFirstItem

LEMMA MainCases ==
  ASSUME infile2 = outfile, MainRead
  PROVE  /\ pc2 = "main" /\ P2!ReadLine /\ out2' = out2 /\ pc2' # "write" /\ P2!line = Line2
         /\ curState2 = 0 /\ IsDecl(Line2) => P2!ReadDecl
         /\ curState2 = 1 /\ IsLeft(Line2) => P2!ReadLeft
         /\ curState2 = 2 /\ IsItem(Line2) => P2!ReadFirstItem
<1> DEFINE x == P2!line
<1>1. x = outfile[pos + 1]
  BY DEF P2!line
<1>2. P2!identify(x) = identify(x) /\ (P2!IsItem(x) <=> IsItem(x))
  BY SameClasses
<1> DEFINE dc == IsDecl(x)  lf == IsLeft(x)  rt == IsRight(x)  it == IsItem(x)
<1>3. /\ P2!ReadDecl => curState2 \in {0, 1} /\ dc
      /\ P2!ReadLeft => curState2 = 1 /\ lf
      /\ P2!ReadRight => curState2 = 2 /\ rt
      /\ P2!ReadFirstItem => curState2 = 2 /\ it
      /\ P2!ReadIgnored => /\ ~(curState2 \in {0, 1} /\ dc) /\ ~(curState2 = 1 /\ lf)
                          /\ ~(curState2 = 2 /\ it)
  BY <1>2, Zenon DEF P2!ReadDecl, P2!ReadLeft, P2!ReadRight, P2!ReadIgnored, P2!ReadFirstItem,
                     IsDecl, IsLeft, IsRight
<1>4. /\ pc2 = "main" /\ P2!ReadLine /\ out2' = out2 /\ (pc2' = pc2 \/ pc2' = "collect")
  BY Zenon DEF MainRead, P2!ReadDecl, P2!ReadLeft, P2!ReadRight, P2!ReadIgnored, P2!ReadFirstItem
<1>5. /\ dc => ~lf /\ ~rt /\ ~it
      /\ lf => ~rt /\ ~it
      /\ rt => ~it
  BY OneClass
<1> DEFINE D == P2!ReadDecl  L == P2!ReadLeft  R == P2!ReadRight  G == P2!ReadIgnored
           F == P2!ReadFirstItem
<1>6. D \/ L \/ R \/ G \/ F
  BY DEF MainRead
<1>7. pc2' # "write"
  BY <1>4
<1> HIDE DEF D, L, R, G, F, dc, lf, rt, it
<1>8. /\ curState2 = 0 /\ dc => D
      /\ curState2 = 1 /\ lf => L
      /\ curState2 = 2 /\ it => F
  <2>1. /\ D => curState2 \in {0, 1} /\ dc
        /\ L => curState2 = 1 /\ lf
        /\ R => curState2 = 2 /\ rt
        /\ F => curState2 = 2 /\ it
        /\ G => /\ ~(curState2 \in {0, 1} /\ dc) /\ ~(curState2 = 1 /\ lf)
                /\ ~(curState2 = 2 /\ it)
    BY <1>3 DEF D, L, R, G, F, dc, lf, rt, it
  <2> QED BY <1>5, <1>6, <2>1
<1>9. x = Line2
  BY <1>1 DEF Line2
<1> HIDE DEF x
<1> QED BY <1>4, <1>7, <1>8, <1>9 DEF D, L, F, dc, lf, it, x

\* What reading a line in main does besides.
LEMMA MainReads ==
  ASSUME Reads, ParseInv, MainRead
  PROVE  /\ pc2 = "main" /\ out2' = out2 /\ from2' = from2
         /\ UNCHANGED <<old, raw, outfile, from1>> /\ old = <<>>
         /\ IsSource(raw, outfile, from1) /\ BodiesOK(raw) /\ Len(raw) \in Nat
         /\ pos \in 1..Len(outfile) /\ pos \in Nat /\ pos' = pos + 1 /\ pos' \in 1..Len(outfile)
         /\ curState2 \in {0, 1, 2}
         /\ P2!line = outfile[pos'] /\ Line2 = outfile[pos']
<1>1. /\ pc2 = "main" /\ P2!ReadLine /\ out2' = out2 /\ pc2' # "write" /\ P2!line = Line2
  BY MainCases DEF Reads
<1>2. /\ pos' = pos + 1 /\ pos' \in 1..Len(outfile) /\ P2!line = outfile[pos'] /\ pos \in Nat
  BY <1>1, ReadsLine
<1>3. from2' = from2
  BY <1>1, NothingAdded
<1>4. UNCHANGED <<old, raw, outfile, from1>> /\ old = <<>> /\ IsSource(raw, outfile, from1)
  BY DEF Reads
<1>5. pos \in 1..Len(outfile) /\ curState2 \in {0, 1, 2}
  BY <1>1, <1>4 DEF ParseInv
<1>6. BodiesOK(raw) /\ Len(raw) \in Nat
  BY <1>4, SourceAt DEF IsSource
<1> QED BY <1>1, <1>2, <1>3, <1>4, <1>5, <1>6

\* Behind the end of a body comes the declaration of the next.
LEMMA ParseDecl ==
  ASSUME Reads, ParseInv, curState2 = 0, MainRead
  PROVE  ParseInv'
<1> DEFINE p == pos'  m == from1[p][1]
<1>1. /\ pc2 = "main" /\ out2' = out2 /\ from2' = from2 /\ UNCHANGED <<old, raw, outfile, from1>>
      /\ old = <<>> /\ IsSource(raw, outfile, from1) /\ BodiesOK(raw) /\ Len(raw) \in Nat
      /\ pos \in 1..Len(outfile) /\ p = pos + 1 /\ p \in 1..Len(outfile)
      /\ P2!line = outfile[p] /\ Line2 = outfile[p]
  BY MainReads
<1>2. IsEnd(raw, from1[pos]) /\ TextUpTo(raw, out2, from2, from1[pos][1])
  BY <1>1 DEF ParseInv, Text2
<1>3. /\ m \in 1..Len(raw) /\ from1[p] = <<m, -1>> /\ from1[pos][1] < m /\ from1[pos][1] \in Nat
      /\ \A b \in (from1[pos][1] + 1)..(m - 1) : Keep1(raw)[b] = {}
  <2>1. pos + 1 \in 1..Len(outfile)
    BY <1>1
  <2> QED BY <1>1, <1>2, <2>1, LineAfterEnd
<1> HIDE DEF p, m
<1>4. m # 0 /\ m \in Nat /\ m >= 1 /\ from1[p][1] = m /\ from1[p][2] = -1
  BY <1>1, <1>3
<1>5. outfile[p] = raw[m].decl /\ IsDecl(outfile[p])
  BY <1>1, <1>4, LineKind
<1>6. P2!ReadDecl
  BY <1>1, <1>5, MainCases DEF Reads
<1>7. decl2' = raw[m].decl /\ curState2' = 1 /\ pc2' = "main"
  BY <1>1, <1>5, <1>6 DEF P2!ReadDecl
<1>8. TextUpTo(raw, out2, from2, m - 1)
  <2>1. m - 1 \in Nat /\ from1[pos][1] <= m - 1 /\ m - 1 <= Len(raw)
    BY <1>1, <1>3, <1>4
  <2> QED BY <1>1, <1>2, <1>3, <2>1, TextSkip
<1>9. from1'[pos'] = <<m, -1>> /\ from1'[pos'][1] = m
  BY <1>1, <1>3 DEF p
<1>10. TextUpTo(raw', out2', from2', m - 1) /\ pos' \in 1..Len(outfile') /\ m \in 1..Len(raw')
       /\ decl2' = raw'[m].decl
  BY <1>1, <1>3, <1>7, <1>8 DEF p
<1> QED BY <1>7, <1>9, <1>10 DEF ParseInv, Text2

\* Behind the declaration comes the brace.
LEMMA ParseLeft ==
  ASSUME Reads, ParseInv, curState2 = 1, MainRead
  PROVE  ParseInv'
<1> DEFINE p == pos'  m == from1[pos][1]
<1>1. /\ pc2 = "main" /\ out2' = out2 /\ from2' = from2 /\ UNCHANGED <<old, raw, outfile, from1>>
      /\ old = <<>> /\ IsSource(raw, outfile, from1) /\ BodiesOK(raw) /\ Len(raw) \in Nat
      /\ pos \in 1..Len(outfile) /\ pos \in Nat /\ p = pos + 1 /\ p \in 1..Len(outfile)
      /\ P2!line = outfile[p] /\ Line2 = outfile[p]
  BY MainReads
<1>2. /\ m \in 1..Len(raw) /\ from1[pos] = <<m, -1>> /\ decl2 = raw[m].decl
      /\ TextUpTo(raw, out2, from2, m - 1)
  BY <1>1 DEF ParseInv, Text2
<1> HIDE DEF m
<1>3. from1[p] = <<m, 0>>
  <2>1. from1[pos + 1] = <<m, 0>>
    BY <1>1, <1>2, AfterDecl
  <2> QED BY <1>1, <2>1
<1> HIDE DEF p
<1>4. m # 0 /\ from1[p][1] = m /\ from1[p][2] = 0
  BY <1>1, <1>2, <1>3
<1>5. IsLeft(outfile[p])
  BY <1>1, <1>4, LineKind
<1>6. P2!ReadLeft
  BY <1>1, <1>5, MainCases DEF Reads
<1>7. decl2' = decl2 /\ curState2' = 2 /\ pc2' = "main"
  BY <1>1, <1>6 DEF P2!ReadLeft
<1>8. AtBody(raw, outfile, from1, decl2, p)
  <2>1. p \in 2..Len(outfile) /\ p - 1 = pos
    BY <1>1
  <2>2. from1[p] = <<from1[p][1], 0>> /\ from1[p - 1] = <<from1[p][1], -1>>
    BY <1>2, <1>3, <1>4, <2>1
  <2> QED BY <1>2, <1>4, <2>1, <2>2 DEF AtBody
<1>9. /\ AtBody(raw', outfile', from1', decl2', pos') /\ pos' \in 1..Len(outfile')
      /\ from1'[pos'][1] = m /\ TextUpTo(raw', out2', from2', m - 1)
  BY <1>1, <1>2, <1>4, <1>7, <1>8 DEF p
<1> QED BY <1>7, <1>9 DEF ParseInv, Text2

\* Behind the brace comes an item: nothing is written of a body without one.
LEMMA ParseFirst ==
  ASSUME Reads, ParseInv, curState2 = 2, MainRead
  PROVE  ParseInv'
<1> DEFINE p == pos'  m == from1[pos][1]  k == from1[p][2]  n == Len(raw[m].items)
<1>1. /\ pc2 = "main" /\ out2' = out2 /\ from2' = from2 /\ UNCHANGED <<old, raw, outfile, from1>>
      /\ old = <<>> /\ IsSource(raw, outfile, from1) /\ BodiesOK(raw) /\ Len(raw) \in Nat
      /\ pos \in 1..Len(outfile) /\ pos \in Nat /\ p = pos + 1 /\ p \in 1..Len(outfile)
      /\ P2!line = outfile[p] /\ Line2 = outfile[p]
  BY MainReads
<1>2. AtBody(raw, outfile, from1, decl2, pos) /\ TextUpTo(raw, out2, from2, m - 1)
  BY <1>1 DEF ParseInv, Text2
<1>3. m \in 1..Len(raw) /\ from1[pos] = <<m, 0>>
  BY <1>2 DEF AtBody
<1>4. n \in Nat /\ 0 \in 0..n /\ m # 0 /\ Kept(raw[m].items) # {}
  <2>1. m # 0
    BY <1>1, <1>3
  <2>2. n \in Nat /\ Kept(raw[m].items) # {}
    BY <1>1, <2>1, LineKind
  <2> QED BY <2>1, <2>2
<1>5. from1[p][1] = m /\ 0 < k /\ \A x \in Kept(raw[m].items) : 0 < x => k <= x
  <2>1. Keep1(raw)[m] = Kept(raw[m].items)
    BY <1>3, KeepItems
  <2>2. /\ from1[pos + 1][1] = m /\ 0 < from1[pos + 1][2]
        /\ \A x \in Keep1(raw)[m] : 0 < x => from1[pos + 1][2] <= x
    BY <1>1, <1>3, <1>4, AfterItem
  <2> QED BY <1>1, <2>1, <2>2
<1>6. from1[p] = <<m, k>>
  <2>1. from1 \in Seq(Positions) /\ p \in 1..Len(from1)
    BY <1>1, SourceAt DEF IsSource, Text
  <2>2. from1[p] \in Int \X Int
    BY <2>1 DEF Positions
  <2> QED BY <1>5, <2>2
<1>7. PICK x \in Kept(raw[m].items) : x \in 1..n
  BY <1>4 DEF Kept, KeptUpTo, PairedUpTo
<1> HIDE DEF p, m, k, n
<1>8. k \in Kept(raw[m].items) /\ IsItem(outfile[p])
  <2>1. from1[p][1] = m /\ from1[p][2] = k
    BY <1>5 DEF k
  <2>2. k \in -1..(n + 1)
    BY <1>1, <1>4, <2>1, LineKind DEF n
  <2>3. k \in 1..n
    BY <1>4, <1>5, <1>7, <2>2
  <2> QED BY <1>1, <1>4, <2>1, <2>3, LineKind DEF n
<1>9. P2!ReadFirstItem
  BY <1>1, <1>8, MainCases DEF Reads
<1>10. decl2' = decl2 /\ curState2' = 3 /\ pc2' = "collect" /\ list2' = <<outfile[p]>>
  BY <1>1, <1>9 DEF P2!ReadFirstItem
<1>11. p - Len(list2') = pos /\ Len(list2') = 1 /\ list2'[1] = outfile[p]
  BY <1>1, <1>10
<1>12. AtItems(raw, outfile, from1, list2', pos)
  <2>1. \A j \in 1..Len(list2') : j = 1
    BY <1>11
  <2>2. pos + 1 = p /\ from1[pos][1] = m
    BY <1>1 DEF m
  <2>3. from1[p] = <<from1[pos][1], from1[p][2]>> /\ from1[p][2] \in Kept(raw[from1[pos][1]].items)
    BY <1>6, <1>8, <2>2 DEF k
  <2> QED BY <1>1, <1>11, <2>1, <2>2, <2>3 DEF AtItems
<1>13. /\ pos' - Len(list2') = pos /\ from1'[pos][1] = m
       /\ AtBody(raw', outfile', from1', decl2', pos) /\ AtItems(raw', outfile', from1', list2', pos)
       /\ TextUpTo(raw', out2', from2', m - 1)
  BY <1>1, <1>2, <1>10, <1>11, <1>12 DEF p, m
<1> QED BY <1>10, <1>13 DEF ParseInv, Text2, Collected

LEMMA SourcePair ==
  ASSUME NEW r, NEW f, NEW from, IsSource(r, f, from), NEW j \in 1..Len(f)
  PROVE  from[j] = <<from[j][1], from[j][2]>>
<1>1. from \in Seq(Positions) /\ j \in 1..Len(from)
  BY SourceAt DEF IsSource, Text
<1>2. from[j] \in Int \X Int
  BY <1>1 DEF Positions
<1> QED BY <1>2

\* The same for a line that is known to be somewhere.
LEMMA AfterDeclAt ==
  ASSUME NEW r, NEW f, NEW from, IsSource(r, f, from), NEW j \in 1..Len(f),
         from[j][1] \in 1..Len(r), from[j][2] = -1
  PROVE  j + 1 \in 1..Len(f)
<1> DEFINE m == from[j][1]
<1>1. m \in 1..Len(r) /\ from[j] = <<m, -1>>
  BY SourcePair
<1> HIDE DEF m
<1> QED BY <1>1, AfterDecl

LEMMA AfterItemAt ==
  ASSUME NEW r, NEW f, NEW from, IsSource(r, f, from), NEW j \in 1..Len(f),
         from[j][1] \in 1..Len(r), from[j][2] \in 0..Len(r[from[j][1]].items)
  PROVE  j + 1 \in 1..Len(f) /\ from[j + 1][1] = from[j][1] /\ from[j][2] < from[j + 1][2]
<1> DEFINE m == from[j][1]  k == from[j][2]
<1>1. m \in 1..Len(r) /\ k \in 0..Len(r[m].items) /\ from[j] = <<m, k>>
  BY SourcePair
<1> HIDE DEF m, k
<1>2. j + 1 \in 1..Len(f) /\ from[j + 1][1] = m /\ k < from[j + 1][2]
  BY <1>1, AfterItem
<1> QED BY <1>2 DEF m, k

\* Nothing of a body is left open at the end of the file.
LEMMA ParseEof ==
  ASSUME Reads, ParseInv, P2!ReadEof
  PROVE  ParseInv'
<1>1. /\ pc2 = "main" /\ pos = Len(infile2) /\ pc2' = "done"
      /\ UNCHANGED <<pos, curState2, decl2, list2, flags2, i2, out2>>
  BY DEF P2!ReadEof, P2!readVars
<1>2. from2' = from2
  BY <1>1, NothingAdded
<1>3. UNCHANGED <<old, raw, outfile, from1>> /\ old = <<>> /\ IsSource(raw, outfile, from1)
      /\ infile2 = outfile
  BY DEF Reads
<1>4. BodiesOK(raw) /\ Len(raw) \in Nat /\ Len(outfile) \in Nat
  BY <1>3, SourceAt DEF IsSource
<1>5. pos = Len(outfile) /\ pos \in 1..Len(outfile) /\ pos + 1 \notin 1..Len(outfile)
  BY <1>1, <1>3, <1>4 DEF ParseInv
<1>6. curState2 # 1
  <2> SUFFICES ASSUME curState2 = 1 PROVE FALSE
    OBVIOUS
  <2>1. from1[pos][1] \in 1..Len(raw) /\ from1[pos] = <<from1[pos][1], -1>>
    BY <1>1, <1>3 DEF ParseInv
  <2>2. from1[pos][2] = -1
    BY <2>1
  <2> QED BY <1>3, <1>5, <2>1, <2>2, AfterDeclAt
<1>7. curState2 # 2
  <2> SUFFICES ASSUME curState2 = 2 PROVE FALSE
    OBVIOUS
  <2> DEFINE m == from1[pos][1]
  <2>1. m \in 1..Len(raw) /\ from1[pos] = <<m, 0>>
    BY <1>1, <1>3 DEF ParseInv, AtBody
  <2>2. from1[pos][2] \in 0..Len(raw[m].items)
    <3>1. from1[pos][2] = 0
      BY <2>1
    <3> QED BY <1>4, <2>1, <3>1, TextAtBody
  <2> QED BY <1>3, <1>5, <2>1, <2>2, AfterItemAt
<1>8. IsEnd(raw, from1[pos]) /\ TextUpTo(raw, out2, from2, from1[pos][1])
  BY <1>1, <1>3, <1>6, <1>7 DEF ParseInv, Text2
<1>9. TextUpTo(raw, out2, from2, Len(raw))
  <2>1. /\ from1[pos][1] \in Nat /\ from1[pos][1] <= Len(raw)
        /\ \A b \in (from1[pos][1] + 1)..Len(raw) : Keep1(raw)[b] = {}
    BY <1>3, <1>4, <1>5, <1>8, LastIsEnd
  <2> QED BY <1>4, <1>8, <2>1, TextSkip
<1>10. TextUpTo(raw', out2', from2', Len(raw'))
  BY <1>1, <1>2, <1>3, <1>9
<1> QED BY <1>1, <1>10 DEF ParseInv, Text2

-----------------------------------------------------------------------------
(***************************************************************************)
(* Phase 2: collecting the items.                                          *)
(***************************************************************************)
\* Before the body is closed its next line is an item or the brace.
LEMMA CollectFacts ==
  ASSUME Reads, ParseInv, pc2 = "collect", NEW n, n = pos - Len(list2), NEW m, m = from1[n][1]
  PROVE  /\ Collected(n) /\ TextUpTo(raw, out2, from2, m - 1)
         /\ m \in 1..Len(raw) /\ m # 0 /\ n \in 2..Len(outfile) /\ Len(list2) \in Nat /\ Len(list2) >= 1
         /\ pos = n + Len(list2) /\ pos + 1 \in 1..Len(outfile) /\ from1[pos + 1][1] = m
         /\ \/ IsItem(Line2) /\ from1[pos + 1][2] \in Kept(raw[m].items)
            \/ IsRight(Line2) /\ from1[pos + 1][2] = Len(raw[m].items) + 1
<1>1. /\ old = <<>> /\ IsSource(raw, outfile, from1)
  BY DEF Reads
<1>2. Collected(n) /\ TextUpTo(raw, out2, from2, m - 1)
  BY <1>1 DEF ParseInv, Text2
<1>3. AtBody(raw, outfile, from1, decl2, n) /\ AtItems(raw, outfile, from1, list2, n)
  BY <1>2 DEF Collected
<1>4. m \in 1..Len(raw) /\ n \in 2..Len(outfile) /\ Len(list2) \in Nat /\ Len(raw) \in Nat /\ Len(outfile) \in Nat
  BY <1>1, <1>3, SourceAt DEF AtBody, AtItems
<1>5. list2 \in Seq(Line) /\ Len(list2) >= 1 /\ pos \in Nat
  BY DEF Reads, Core2, TypeInv2, ShapeInv2, InBody2
<1>6. pos = n + Len(list2) /\ pos \in 1..Len(outfile) /\ Len(list2) \in 1..Len(list2) /\ m # 0
  BY <1>3, <1>4, <1>5 DEF AtItems
<1> DEFINE L == raw[m].items  k == from1[pos][2]  q == from1[pos + 1][2]
<1>7. Len(L) \in Nat
  BY <1>1, <1>4, TextAtBody DEF IsSource
<1>8. from1[pos] = <<m, k>> /\ k \in Kept(L)
  BY <1>3, <1>6 DEF AtItems
<1>9. k \in 0..Len(L) /\ k \in Nat
  BY <1>7, <1>8 DEF Kept, KeptUpTo, PairedUpTo
<1> HIDE DEF k
<1>10. pos + 1 \in 1..Len(outfile) /\ from1[pos + 1][1] = m /\ k < q
  <2>1. from1[pos][1] = m /\ from1[pos][2] = k
    BY <1>8 DEF k
  <2>2. from1[pos][1] \in 1..Len(raw) /\ from1[pos][2] \in 0..Len(raw[from1[pos][1]].items)
    BY <1>4, <1>9, <2>1
  <2>3. pos + 1 \in 1..Len(outfile) /\ from1[pos + 1][1] = from1[pos][1] /\ from1[pos][2] < from1[pos + 1][2]
    BY <1>1, <1>6, <2>2, AfterItemAt
  <2> QED BY <2>1, <2>3
<1> HIDE DEF q
<1>11. /\ q \in -1..(Len(L) + 1)
       /\ q = Len(L) + 1 => IsRight(Line2)
       /\ q \in 1..Len(L) => q \in Kept(L) /\ IsItem(Line2)
  <2> DEFINE p == pos + 1
  <2> HIDE DEF p
  <2>0. p \in 1..Len(outfile) /\ from1[p][1] = m
    BY <1>10, Zenon DEF p
  <2>1. p \in 1..Len(outfile) /\ from1[p][1] = m /\ from1[p][1] # 0
    <3>1. m # 0
      BY <1>4
    <3> QED BY <2>0, <3>1
  <2>2. IsSource(raw, outfile, from1) /\ p \in 1..Len(outfile) /\ from1[p][1] # 0
    BY <1>1, <2>1
  <2>3. from1[p][2] \in -1..(Len(raw[from1[p][1]].items) + 1)
    BY <2>2, LineKind
  <2>4. from1[p][2] = Len(raw[from1[p][1]].items) + 1 => IsRight(outfile[p])
    BY <2>2, LineKind
  <2>5. from1[p][2] \in 1..Len(raw[from1[p][1]].items) => from1[p][2] \in Kept(raw[from1[p][1]].items)
    BY <2>2, LineKind
  <2>6. from1[p][2] \in 1..Len(raw[from1[p][1]].items) => IsItem(outfile[p])
    BY <2>2, LineKind
  <2>7. raw[from1[p][1]].items = L
    BY <2>1
  <2>8. /\ from1[p][2] \in -1..(Len(L) + 1)
        /\ from1[p][2] = Len(L) + 1 => IsRight(outfile[p])
        /\ from1[p][2] \in 1..Len(L) => from1[p][2] \in Kept(L) /\ IsItem(outfile[p])
    BY <2>3, <2>4, <2>5, <2>6, <2>7
  <2> QED BY <2>8, Zenon DEF Line2, q, p
<1>12. \/ IsItem(Line2) /\ q \in Kept(L)
       \/ IsRight(Line2) /\ q = Len(L) + 1
  BY <1>7, <1>9, <1>10, <1>11
<1> QED BY <1>2, <1>4, <1>5, <1>6, <1>10, <1>12 DEF q

\* Which line a step of this loop reads.
LEMMA CollectCases ==
  ASSUME infile2 = outfile
  PROVE  /\ P2!CollectItem => IsItem(Line2) /\ P2!line = Line2
         /\ P2!CollectRight => IsRight(Line2)
         /\ P2!CollectIgnored => ~IsItem(Line2) /\ ~IsRight(Line2)
<1>1. P2!line = Line2
  BY DEF P2!line, Line2
<1>2. P2!identify(P2!line) = identify(P2!line) /\ (P2!IsItem(P2!line) <=> IsItem(P2!line))
  BY SameClasses
<1>3. /\ P2!CollectItem => IsItem(P2!line)
      /\ P2!CollectRight => IsRight(P2!line)
      /\ P2!CollectIgnored => ~IsItem(P2!line) /\ ~IsRight(P2!line)
  BY <1>2, Zenon DEF P2!CollectItem, P2!CollectRight, P2!CollectIgnored, IsRight
<1> QED BY <1>1, <1>3

LEMMA ParseItem ==
  ASSUME Reads, ParseInv, P2!CollectItem
  PROVE  ParseInv'
<1> DEFINE n == pos - Len(list2)  m == from1[n][1]  p == pos'
<1>1. /\ pc2 = "collect" /\ pc2' = "collect" /\ P2!ReadLine /\ list2' = Append(list2, P2!line)
      /\ UNCHANGED <<curState2, decl2, out2>>
  BY DEF P2!CollectItem
<1>2. /\ IsItem(Line2) /\ P2!line = Line2
  BY CollectCases DEF Reads
<1>3. pos' = pos + 1 /\ pos \in Nat
  BY <1>1, ReadsLine
<1>4. from2' = from2
  BY <1>1, NothingAdded
<1>5. UNCHANGED <<old, raw, outfile, from1>> /\ old = <<>> /\ IsSource(raw, outfile, from1)
  BY DEF Reads
<1>6. /\ Collected(n) /\ TextUpTo(raw, out2, from2, m - 1)
      /\ m \in 1..Len(raw) /\ m # 0 /\ n \in 2..Len(outfile) /\ Len(list2) \in Nat /\ Len(list2) >= 1
      /\ pos = n + Len(list2) /\ pos + 1 \in 1..Len(outfile) /\ from1[pos + 1][1] = m
      /\ \/ IsItem(Line2) /\ from1[pos + 1][2] \in Kept(raw[m].items)
         \/ IsRight(Line2) /\ from1[pos + 1][2] = Len(raw[m].items) + 1
  BY <1>1, CollectFacts
<1>7. from1[pos + 1][2] \in Kept(raw[m].items) /\ from1[pos + 1] = <<m, from1[pos + 1][2]>>
  <2>1. ~IsRight(Line2)
    BY <1>2, OneClass
  <2>2. from1[pos + 1] = <<from1[pos + 1][1], from1[pos + 1][2]>>
    BY <1>5, <1>6, SourcePair
  <2> QED BY <1>6, <2>1, <2>2
<1>8. list2 \in Seq(Line)
  BY DEF Reads, Core2, TypeInv2
<1>9. Len(list2') = Len(list2) + 1 /\ pos' - Len(list2') = n
      /\ list2'[Len(list2) + 1] = outfile[pos + 1]
      /\ \A j \in 1..Len(list2) : list2'[j] = list2[j]
  BY <1>1, <1>2, <1>3, <1>6, <1>8 DEF Line2
<1>10. AtBody(raw, outfile, from1, decl2, n) /\ AtItems(raw, outfile, from1, list2, n)
  BY <1>6 DEF Collected
<1>11. curState2 = 3
  BY <1>1, <1>5 DEF ParseInv
<1> HIDE DEF n
<1>12. AtItems(raw, outfile, from1, list2', n)
  <2>1. Len(list2') \in Nat /\ n + Len(list2') \in 1..Len(outfile)
    BY <1>6, <1>9
  <2>2. ASSUME NEW j \in 1..Len(list2')
        PROVE  /\ from1[n + j] = <<m, from1[n + j][2]>>
               /\ from1[n + j][2] \in Kept(raw[m].items)
               /\ list2'[j] = outfile[n + j]
    <3>1. CASE j \in 1..Len(list2)
      BY <1>9, <1>10, <3>1 DEF AtItems
    <3>2. CASE j = Len(list2) + 1
      <4>1. n + j = pos + 1
        BY <1>6, <3>2
      <4>2. list2'[j] = outfile[pos + 1]
        BY <1>9, <3>2
      <4>3. from1[n + j][2] \in Kept(raw[m].items)
        BY <1>7, <4>1
      <4>4. from1[n + j] = <<m, from1[n + j][2]>>
        BY <1>7, <4>1
      <4> QED BY <4>1, <4>2, <4>3, <4>4
    <3> QED BY <1>6, <1>9, <3>1, <3>2
  <2> QED BY <2>1, <2>2 DEF AtItems
<1>13. /\ AtBody(raw', outfile', from1', decl2', n) /\ AtItems(raw', outfile', from1', list2', n)
       /\ TextUpTo(raw', out2', from2', from1'[n][1] - 1)
  BY <1>1, <1>4, <1>5, <1>6, <1>10, <1>12
<1>14. pos' - Len(list2') = n
  BY <1>9
<1> QED BY <1>1, <1>11, <1>13, <1>14 DEF ParseInv, Text2, Collected

LEMMA ParseIgnored ==
  ASSUME Reads, ParseInv, P2!CollectIgnored \/ P2!CollectEof
  PROVE  FALSE
<1>1. pc2 = "collect"
  BY DEF P2!CollectIgnored, P2!CollectEof
<1>2. pos + 1 \in 1..Len(outfile) /\ (IsItem(Line2) \/ IsRight(Line2))
  BY <1>1, CollectFacts
<1>3. ~P2!CollectIgnored
  BY <1>2, CollectCases DEF Reads
<1>4. ~P2!CollectEof
  BY <1>2 DEF P2!CollectEof, Reads
<1> QED BY <1>3, <1>4

LEMMA ParseRight ==
  ASSUME Reads, ParseInv, P2!CollectRight
  PROVE  ParseInv'
<1> DEFINE n == pos - Len(list2)  m == from1[n][1]
<1>1. /\ pc2 = "collect" /\ pc2' = "outer" /\ P2!ReadLine /\ curState2' = 0
      /\ UNCHANGED <<decl2, list2, flags2, i2, out2>>
  BY DEF P2!CollectRight, P2!StartProcess
<1>2. IsRight(Line2)
  BY CollectCases DEF Reads
<1>3. pos' = pos + 1 /\ pos \in Nat
  BY <1>1, ReadsLine
<1>4. from2' = from2
  BY <1>1, NothingAdded
<1>5. UNCHANGED <<old, raw, outfile, from1>> /\ old = <<>> /\ IsSource(raw, outfile, from1)
  BY DEF Reads
<1>6. /\ Collected(n) /\ TextUpTo(raw, out2, from2, m - 1)
      /\ m \in 1..Len(raw) /\ m # 0 /\ n \in 2..Len(outfile) /\ Len(list2) \in Nat /\ Len(list2) >= 1
      /\ pos = n + Len(list2) /\ pos + 1 \in 1..Len(outfile) /\ from1[pos + 1][1] = m
      /\ \/ IsItem(Line2) /\ from1[pos + 1][2] \in Kept(raw[m].items)
         \/ IsRight(Line2) /\ from1[pos + 1][2] = Len(raw[m].items) + 1
  BY <1>1, CollectFacts
<1>7. from1[pos + 1] = <<m, Len(raw[m].items) + 1>>
  <2>1. ~IsItem(Line2)
    BY <1>2, OneClass
  <2>2. from1[pos + 1] = <<from1[pos + 1][1], from1[pos + 1][2]>>
    BY <1>5, <1>6, SourcePair
  <2> QED BY <1>6, <2>1, <2>2
<1>8. AtBody(raw, outfile, from1, decl2, n) /\ AtItems(raw, outfile, from1, list2, n)
  BY <1>6 DEF Collected
<1>9. AtEnd(raw, outfile, from1, m, pos + 1)
  BY <1>6, <1>7 DEF AtEnd
<1>10. brace' = n
  BY <1>1, <1>3, <1>6 DEF brace
<1> HIDE DEF n
<1>11. /\ AtBody(raw', outfile', from1', decl2', n) /\ AtItems(raw', outfile', from1', list2', n)
       /\ AtEnd(raw', outfile', from1', from1'[n][1], pos')
       /\ TextUpTo(raw', out2', from2', from1'[n][1] - 1)
  BY <1>1, <1>3, <1>4, <1>5, <1>6, <1>8, <1>9
<1> QED BY <1>1, <1>10, <1>11 DEF ParseInv, Text2, Collected

-----------------------------------------------------------------------------
(***************************************************************************)
(* Phase 2: the double loop, and writing the body.                         *)
(***************************************************************************)
LEMMA BodyFacts ==
  ASSUME Reads, ParseInv, pc2 \in {"outer", "inner", "write"}
  PROVE  /\ old = <<>> /\ IsSource(raw, outfile, from1) /\ BodiesOK(raw) /\ Items(raw, Keep2(raw))
         /\ curState2 = 0 /\ Collected(brace)
         /\ AtBody(raw, outfile, from1, decl2, brace) /\ AtItems(raw, outfile, from1, list2, brace)
         /\ AtEnd(raw, outfile, from1, from1[brace][1], pos)
         /\ list2 \in Seq(Line) /\ Len(list2) \in Nat /\ flags2 \in SUBSET (1..Len(list2))
         /\ out2 \in Seq(Lines2)
         /\ pos \in 1..Len(outfile) /\ pos \in Nat /\ brace + Len(list2) + 1 = pos
         /\ brace \in 2..Len(outfile) /\ brace \in Nat
         /\ from1[brace][1] \in 1..Len(raw) /\ from1[brace][1] \in Nat /\ Len(raw) \in Nat
<1>1. old = <<>> /\ IsSource(raw, outfile, from1)
  BY DEF Reads
<1>2. BodiesOK(raw) /\ Items(raw, Keep2(raw)) /\ Len(raw) \in Nat /\ Len(outfile) \in Nat
  BY <1>1, SourceAt, KeepItems DEF IsSource
<1>3. curState2 = 0 /\ Collected(brace) /\ AtEnd(raw, outfile, from1, from1[brace][1], pos)
  BY <1>1 DEF ParseInv
<1>4. AtBody(raw, outfile, from1, decl2, brace) /\ AtItems(raw, outfile, from1, list2, brace)
  BY <1>3 DEF Collected
<1>5. list2 \in Seq(Line) /\ flags2 \in SUBSET (1..Len(list2)) /\ out2 \in Seq(Lines2) /\ pos \in Nat
  BY DEF Reads, Core2, TypeInv2
<1>6. Len(list2) \in Nat
  BY <1>5
<1>7. brace + Len(list2) + 1 = pos
  BY <1>5, <1>6 DEF brace
<1>8. brace \in 2..Len(outfile) /\ from1[brace][1] \in 1..Len(raw)
  BY <1>4 DEF AtBody
<1>9. pos \in 1..Len(outfile)
  BY <1>3 DEF AtEnd
<1>10. brace \in Nat /\ from1[brace][1] \in Nat
  BY <1>2, <1>8
<1> QED BY <1>1, <1>2, <1>3, <1>4, <1>5, <1>6, <1>7, <1>8, <1>9, <1>10

\* The double fetches among the items are those of the body.
LEMMA BodyFetches ==
  ASSUME Reads, ParseInv, pc2 \in {"outer", "inner", "write"}, flags2 = P2!Fetches(list2)
  PROVE  Keep2(raw)[from1[brace][1]] = {from1[brace + j][2] : j \in flags2}
<1> DEFINE m == from1[brace][1]  e == Index(from1, list2, brace)
<1>1. /\ IsSource(raw, outfile, from1) /\ m \in 1..Len(raw)
      /\ AtBody(raw, outfile, from1, decl2, brace) /\ AtItems(raw, outfile, from1, list2, brace)
      /\ AtEnd(raw, outfile, from1, m, brace + Len(list2) + 1)
      /\ flags2 \in SUBSET (1..Len(list2))
  BY BodyFacts
<1>2. Selection(raw[m].items, list2, e)
  BY <1>1, AtEndSelection
<1>3. P2!Fetches(raw[m].items) = {e[j] : j \in flags2}
  <2> HIDE DEF e
  <2> QED BY <1>2, SelectionFetches
<1>4. Keep2(raw)[m] = P2!Fetches(raw[m].items)
  BY <1>1, KeepItems
<1>5. \A j \in flags2 : e[j] = from1[brace + j][2]
  BY <1>1 DEF Index
<1> HIDE DEF e
<1>6. {e[j] : j \in flags2} = {from1[brace + j][2] : j \in flags2}
  BY <1>5
<1> QED BY <1>3, <1>4, <1>6

LEMMA ParseLoop ==
  ASSUME Reads, ParseInv,
         \/ P2!OuterTrans \/ P2!OuterCase
         \/ P2!InnerTrans \/ P2!InnerCase \/ P2!InnerLastCase \/ P2!InnerExit
  PROVE  ParseInv'
<1>1. /\ pc2 \in {"outer", "inner"} /\ pc2' \in {"outer", "inner", "crashed"}
      /\ UNCHANGED <<pos, curState2, decl2, list2, out2>>
  BY DEF P2!OuterTrans, P2!OuterCase, P2!InnerTrans, P2!InnerCase, P2!InnerLastCase, P2!InnerExit,
         P2!EnterInner, P2!readVars
<1>2. from2' = from2
  <2>1. pc2' # "write"
    BY <1>1
  <2> QED BY <1>1, <2>1, NothingAdded
<1>3. UNCHANGED <<old, raw, outfile, from1>> /\ old = <<>>
  BY DEF Reads
<1>4. brace' = brace
  BY <1>1 DEF brace
<1>5. /\ curState2 = 0 /\ Collected(brace) /\ AtEnd(raw, outfile, from1, from1[brace][1], pos)
      /\ Text2(from1[brace][1] - 1)
  BY <1>1, <1>3 DEF ParseInv
<1>6. Collected(brace)' /\ AtEnd(raw, outfile, from1, from1[brace][1], pos)'
  BY <1>1, <1>3, <1>4, <1>5 DEF Collected
<1>7. Text2(from1[brace][1] - 1)'
  BY <1>1, <1>2, <1>3, <1>4, <1>5 DEF Text2
<1>8. curState2' = 0
  BY <1>1, <1>5
<1> QED BY <1>1, <1>6, <1>7, <1>8 DEF ParseInv

LEMMA ParseOpen ==
  ASSUME Reads, ParseInv, P2!OpenBody
  PROVE  ParseInv'
<1> DEFINE m == from1[brace][1]
<1>1. /\ pc2 = "outer" /\ pc2' = "write" /\ i2' = 1
      /\ out2' = Append(Append(P2!Opened(out2), decl2), P2!LeftLine)
      /\ UNCHANGED <<pos, curState2, decl2, list2, flags2>>
  BY DEF P2!OpenBody, P2!Processed, P2!readVars
<1>2. /\ old = <<>> /\ IsSource(raw, outfile, from1) /\ BodiesOK(raw) /\ Items(raw, Keep2(raw))
      /\ curState2 = 0 /\ Collected(brace)
      /\ AtBody(raw, outfile, from1, decl2, brace)
      /\ AtEnd(raw, outfile, from1, m, pos)
      /\ flags2 \in SUBSET (1..Len(list2)) /\ Len(list2) \in Nat
      /\ pos \in 1..Len(outfile) /\ m \in 1..Len(raw) /\ m \in Nat
  BY <1>1, BodyFacts
<1>3. UNCHANGED <<old, raw, outfile, from1>> /\ from2' = From2 /\ infile2 = outfile
  BY DEF Reads
<1>4. Text(raw, out2, from2, Due(raw, Keep2(raw), m - 1))
  BY <1>1, <1>2 DEF ParseInv, Text2, TextUpTo
<1>5. from1[1] = <<0, 0>> /\ 1 \in 1..Len(outfile) /\ outfile[1] = OriginLine
  <2>1. Len(outfile) \in Nat /\ 1 \in 1..Len(outfile)
    BY <1>2, SourceAt
  <2>2. from1[1] = <<0, 0>>
    BY <1>2, <2>1, PathFirst
  <2>3. outfile[1] = TextAt(raw, from1[1])
    BY <1>2, <2>1, SourceAt
  <2>4. TextAt(raw, <<0, 0>>) = OriginLine
    BY <1>2, TextAtBody
  <2> QED BY <2>1, <2>2, <2>3, <2>4
<1>6. P2!Opened(out2) = Opened(out2) /\ P2!LeftLine = LeftLine
  BY <1>3, <1>5, SameLines DEF P2!Opened, Opened
<1>7. decl2 = raw[m].decl /\ from1[brace] = <<m, 0>> /\ from1[brace - 1] = <<m, -1>>
  BY <1>2 DEF AtBody
<1>8. from2' = Opens(from2, from1[1], from1[brace - 1], from1[brace])
  BY <1>1, <1>3 DEF From2, brace
<1> HIDE DEF m
<1>9. out2' = Append(Append(Opened(out2), raw[m].decl), LeftLine)
  BY <1>1, <1>6, <1>7
<1>10. from2' = Opens(from2, <<0, 0>>, <<m, -1>>, <<m, 0>>)
  BY <1>5, <1>7, <1>8
<1>11. Text(raw, out2', from2', Due(raw, Keep2(raw), m - 1) \cup Begun(m, {}))
  BY <1>2, <1>4, <1>9, <1>10, OpenText
<1>12. brace' = brace
  BY <1>1 DEF brace
<1>13. Written(brace)' = {}
  <2>1. ~\E x \in flags2' : x < i2'
    BY <1>1, <1>2
  <2> QED BY <2>1 DEF Written
<1>14. from1[brace][1]' = m
  BY <1>3, <1>12 DEF m
<1>15. Text(raw', out2', from2', Due(raw', Keep2(raw'), m - 1) \cup Begun(m, Written(brace)'))
  BY <1>3, <1>11, <1>13
<1>16. Collected(brace)' /\ AtEnd(raw', outfile', from1', m, pos')
  BY <1>1, <1>2, <1>3, <1>12 DEF Collected
<1>17. curState2' = 0
  BY <1>1, <1>2
<1> QED BY <1>1, <1>14, <1>15, <1>16, <1>17 DEF ParseInv

\* Behind the end of a body everything of the bodies up to it has been written.
LEMMA BodyDone ==
  ASSUME Reads, ParseInv, pc2 \in {"outer", "write"}, pc2' = "main",
         UNCHANGED <<pos, curState2>>,
         Text(raw, out2', from2', Due(raw, Keep2(raw), from1[brace][1]))
  PROVE  ParseInv'
<1> DEFINE m == from1[brace][1]
<1>1. /\ curState2 = 0 /\ m \in 1..Len(raw) /\ pos \in 1..Len(outfile)
      /\ from1[pos] = <<m, Len(raw[m].items) + 1>>
  BY BodyFacts DEF AtEnd
<1>2. UNCHANGED <<old, raw, outfile, from1>>
  BY DEF Reads
<1> HIDE DEF m
<1>3. from1[pos][1] = m
  BY <1>1
<1>4. IsEnd(raw, from1[pos])
  BY <1>1, <1>3 DEF IsEnd
<1>5. TextUpTo(raw, out2', from2', from1[pos][1])
  BY <1>3 DEF TextUpTo, m
<1>6. /\ curState2' = 0 /\ pos' \in 1..Len(outfile') /\ IsEnd(raw', from1'[pos'])
      /\ TextUpTo(raw', out2', from2', from1'[pos'][1])
  BY <1>1, <1>2, <1>4, <1>5
<1> QED BY <1>6 DEF ParseInv, Text2

LEMMA ParseDrop ==
  ASSUME Reads, ParseInv, P2!DropBody
  PROVE  ParseInv'
<1> DEFINE m == from1[brace][1]
<1>1. /\ pc2 = "outer" /\ pc2' = "main" /\ flags2 = {} /\ P2!Processed /\ out2' = out2
      /\ UNCHANGED <<pos, curState2>>
  BY DEF P2!DropBody, P2!Processed, P2!readVars
<1>2. /\ old = <<>> /\ m \in 1..Len(raw) /\ m \in Nat
  BY <1>1, BodyFacts
<1>3. flags2 = P2!Fetches(list2)
  BY ProcessedFlags, <1>1 DEF Reads
<1>4. Keep2(raw)[m] = {}
  BY <1>1, <1>3, BodyFetches
<1>5. from2' = from2
  <2>1. pc2' # "write"
    BY <1>1
  <2> QED BY <1>1, <2>1, NothingAdded
<1>6. Text(raw, out2, from2, Due(raw, Keep2(raw), m - 1))
  BY <1>1, <1>2 DEF ParseInv, Text2, TextUpTo
<1> HIDE DEF m
<1>7. Due(raw, Keep2(raw), m) = Due(raw, Keep2(raw), m - 1)
  <2>1. m - 1 \in Nat /\ m - 1 <= m /\ \A b \in (m - 1 + 1)..m : b = m
    BY <1>2
  <2>2. \A b \in (m - 1 + 1)..m : Keep2(raw)[b] = {}
    BY <1>4, <2>1
  <2> QED BY <1>2, <2>1, <2>2, DueSkip
<1>8. Text(raw, out2', from2', Due(raw, Keep2(raw), m))
  BY <1>1, <1>5, <1>6, <1>7
<1> QED BY <1>1, <1>8, BodyDone DEF m

\* The items already written are before the one the loop is at.
LEMMA WrittenBefore ==
  ASSUME Reads, ParseInv, pc2 = "write", i2 \in 1..Len(list2)
  PROVE  /\ brace + i2 \in 1..Len(outfile)
         /\ from1[brace + i2] = <<from1[brace][1], from1[brace + i2][2]>>
         /\ from1[brace + i2][2] \in 1..(Len(raw[from1[brace][1]].items) + 1)
         /\ list2[i2] = TextAt(raw, from1[brace + i2])
         /\ \A x \in Written(brace) : x < from1[brace + i2][2]
<1> DEFINE m == from1[brace][1]  p == brace + i2
<1>1. /\ IsSource(raw, outfile, from1) /\ BodiesOK(raw)
      /\ AtItems(raw, outfile, from1, list2, brace)
      /\ Len(list2) \in Nat /\ flags2 \in SUBSET (1..Len(list2))
      /\ pos \in 1..Len(outfile) /\ brace + Len(list2) + 1 = pos
      /\ brace \in 2..Len(outfile) /\ brace \in Nat /\ m \in 1..Len(raw) /\ m \in Nat
  BY BodyFacts
<1>2. Len(outfile) \in Nat /\ i2 \in Nat /\ i2 >= 1 /\ i2 <= Len(list2)
  BY <1>1, SourceAt
<1>3. p \in 1..Len(outfile)
  BY <1>1, <1>2
<1>4. from1[p] = <<m, from1[p][2]>> /\ from1[p][2] \in Kept(raw[m].items) /\ list2[i2] = outfile[p]
  BY <1>1 DEF AtItems
<1>5. from1[p][2] \in 1..(Len(raw[m].items) + 1)
  <2>1. Len(raw[m].items) \in Nat
    BY <1>1, TextAtBody
  <2>2. from1[p][2] \in 1..Len(raw[m].items)
    BY <1>4, <2>1 DEF Kept, KeptUpTo, PairedUpTo
  <2> QED BY <2>1, <2>2
<1>6. list2[i2] = TextAt(raw, from1[p])
  BY <1>1, <1>3, <1>4, SourceAt
<1>7. ASSUME NEW j \in flags2, j < i2 PROVE from1[brace + j][2] < from1[p][2]
  <2>1. j \in 1..Len(list2) /\ j \in Nat
    BY <1>1
  <2>2. brace + j \in 1..Len(outfile) /\ brace + j < p
    BY <1>1, <1>2, <1>7, <2>1
  <2>3. Before(from1[brace + j], from1[p])
    BY <1>1, <1>3, <2>2, SourceAt
  <2>4. from1[brace + j] = <<m, from1[brace + j][2]>>
    BY <1>1, <2>1 DEF AtItems
  <2> DEFINE a == from1[brace + j]  b == from1[p]
  <2> HIDE DEF a, b, m
  <2>5. a[1] = m
    BY <2>4 DEF a
  <2>6. b[1] = m
    BY <1>4 DEF b
  <2>7. a[2] < b[2]
    BY <1>1, <2>3, <2>5, <2>6 DEF Before, a, b
  <2> QED BY <2>7 DEF a, b
<1>8. \A x \in Written(brace) : x < from1[p][2]
  BY <1>7 DEF Written
<1> QED BY <1>3, <1>4, <1>5, <1>6, <1>8

LEMMA ParseWrite ==
  ASSUME Reads, ParseInv, P2!WriteItem
  PROVE  ParseInv'
<1> DEFINE m == from1[brace][1]  k == from1[brace + i2][2]
<1>1. /\ pc2 = "write" /\ pc2' = "write" /\ i2 <= Len(list2) /\ i2' = i2 + 1
      /\ out2' = (IF i2 \in flags2 THEN Append(out2, list2[i2]) ELSE out2)
      /\ UNCHANGED <<pos, curState2, decl2, list2, flags2>>
  BY DEF P2!WriteItem, P2!readVars
<1>2. /\ old = <<>> /\ IsSource(raw, outfile, from1) /\ BodiesOK(raw) /\ Items(raw, Keep2(raw))
      /\ curState2 = 0 /\ Collected(brace) /\ AtEnd(raw, outfile, from1, m, pos)
      /\ flags2 \in SUBSET (1..Len(list2)) /\ Len(list2) \in Nat /\ out2 \in Seq(Lines2)
      /\ m \in 1..Len(raw)
  BY <1>1, BodyFacts
<1>3. UNCHANGED <<old, raw, outfile, from1>> /\ from2' = From2
  BY DEF Reads
<1>4. Text(raw, out2, from2, Due(raw, Keep2(raw), m - 1) \cup Begun(m, Written(brace)))
  BY <1>1, <1>2 DEF ParseInv
<1>5. i2 \in 1..Len(list2) /\ i2 \in Nat
  BY <1>1, WriteFacts DEF Reads
<1>6. /\ from1[brace + i2] = <<m, k>> /\ k \in 1..(Len(raw[m].items) + 1)
      /\ list2[i2] = TextAt(raw, from1[brace + i2])
      /\ \A x \in Written(brace) : x < k
  BY <1>1, <1>5, WrittenBefore
<1>7. brace' = brace
  BY <1>1 DEF brace
<1> DEFINE W == Written(brace)  W1 == Written(brace)'  b == brace
<1>8. W1 = {from1[b + j][2] : j \in {x \in flags2 : x < i2 + 1}}
  BY <1>1, <1>3, <1>7 DEF Written
<1>9. W = {from1[b + j][2] : j \in {x \in flags2 : x < i2}}
  BY DEF Written
<1>10. \A x \in flags2 : x < i2 + 1 <=> (x < i2 \/ x = i2)
  BY <1>2, <1>5
<1>11. IF i2 \in flags2 THEN W1 = W \cup {k} ELSE W1 = W
  <2> HIDE DEF W, W1, b
  <2>1. CASE i2 \in flags2
    <3>1. {x \in flags2 : x < i2 + 1} = {x \in flags2 : x < i2} \cup {i2}
      BY <1>10, <2>1
    <3>2. W1 = W \cup {from1[b + i2][2]}
      BY <1>8, <1>9, <3>1
    <3> QED BY <2>1, <3>2 DEF b
  <2>2. CASE i2 \notin flags2
    <3>1. {x \in flags2 : x < i2 + 1} = {x \in flags2 : x < i2}
      BY <1>10, <2>2
    <3> QED BY <1>8, <1>9, <2>2, <3>1
  <2> QED BY <2>1, <2>2
<1>12. from2' = IF i2 \in flags2 THEN Append(from2, from1[brace + i2]) ELSE from2
  <2>1. from2' = IF Len(out2') > Len(out2) THEN Append(from2, from1[brace + i2]) ELSE from2
    BY <1>1, <1>3 DEF From2, brace
  <2>2. Len(out2) \in Nat /\ Len(Append(out2, list2[i2])) = Len(out2) + 1
    BY <1>2
  <2>3. Len(out2') > Len(out2) <=> i2 \in flags2
    BY <1>1, <2>2
  <2> QED BY <2>1, <2>3
<1> HIDE DEF m, k, W, W1, b
<1>13. Text(raw, out2', from2', Due(raw, Keep2(raw), m - 1) \cup Begun(m, W1))
  <2>1. CASE i2 \in flags2
    <3>1. out2' = Append(out2, TextAt(raw, <<m, k>>))
      <4>1. TextAt(raw, from1[brace + i2]) = TextAt(raw, <<m, k>>)
        BY <1>6
      <4>2. out2' = Append(out2, list2[i2])
        BY <1>1, <2>1
      <4> QED BY <1>6, <4>1, <4>2
    <3>2. from2' = Append(from2, <<m, k>>)
      BY <1>6, <1>12, <2>1
    <3>3. Text(raw, out2, from2, Due(raw, Keep2(raw), m - 1) \cup Begun(m, W)) /\ \A x \in W : x < k
      BY <1>4, <1>6 DEF W
    <3>4. Text(raw, out2', from2', Due(raw, Keep2(raw), m - 1) \cup Begun(m, W \cup {k}))
      BY <1>2, <1>6, <3>1, <3>2, <3>3, WriteText
    <3> QED BY <1>11, <2>1, <3>4
  <2>2. CASE i2 \notin flags2
    <3>1. out2' = out2 /\ from2' = from2 /\ W1 = W
      BY <1>1, <1>11, <1>12, <2>2
    <3> QED BY <1>4, <3>1 DEF W
  <2> QED BY <2>1, <2>2
<1>14. from1[brace][1]' = m
  BY <1>3, <1>7 DEF m
<1>15. Text(raw', out2', from2', Due(raw', Keep2(raw'), m - 1) \cup Begun(m, Written(brace)'))
  BY <1>3, <1>13 DEF W1
<1>16. Collected(brace)' /\ AtEnd(raw', outfile', from1', m, pos')
  BY <1>1, <1>2, <1>3, <1>7 DEF Collected
<1>17. curState2' = 0
  BY <1>1, <1>2
<1> QED BY <1>1, <1>14, <1>15, <1>16, <1>17 DEF ParseInv

LEMMA ParseClose ==
  ASSUME Reads, ParseInv, P2!CloseBody
  PROVE  ParseInv'
<1> DEFINE m == from1[brace][1]
<1>1. /\ pc2 = "write" /\ pc2' = "main" /\ i2 > Len(list2) /\ out2' = Append(out2, P2!RightLine)
      /\ UNCHANGED <<pos, curState2>>
  BY DEF P2!CloseBody, P2!ResetBuffers, P2!readVars
<1>2. /\ old = <<>> /\ BodiesOK(raw) /\ Items(raw, Keep2(raw))
      /\ AtEnd(raw, outfile, from1, m, pos)
      /\ flags2 \in SUBSET (1..Len(list2)) /\ Len(list2) \in Nat /\ out2 \in Seq(Lines2)
      /\ brace + Len(list2) + 1 = pos /\ brace \in Nat /\ m \in 1..Len(raw)
  BY <1>1, BodyFacts
<1>3. from2' = From2 /\ WellFormed(infile2)
  BY DEF Reads
<1>4. /\ i2 = Len(list2) + 1 /\ flags2 # {} /\ flags2 = P2!Fetches(list2)
  BY <1>1, <1>2, <1>3, WriteFacts DEF Reads
<1>5. Text(raw, out2, from2, Due(raw, Keep2(raw), m - 1) \cup Begun(m, Written(brace)))
  BY <1>1, <1>2 DEF ParseInv
<1>6. Keep2(raw)[m] = {from1[brace + j][2] : j \in flags2}
  BY <1>1, <1>4, BodyFetches
<1>7. Written(brace) = Keep2(raw)[m]
  <2>1. {x \in flags2 : x < i2} = flags2
    BY <1>2, <1>4
  <2> QED BY <1>6, <2>1 DEF Written
<1>8. Keep2(raw)[m] # {}
  BY <1>4, <1>6
<1>9. from1[brace + i2] = <<m, Len(raw[m].items) + 1>>
  <2>1. brace + i2 = pos
    BY <1>2, <1>4
  <2> QED BY <1>2, <2>1 DEF AtEnd
<1>10. from2' = Append(from2, from1[brace + i2])
  <2>1. Len(out2') > Len(out2)
    BY <1>1, <1>2
  <2> QED BY <1>1, <1>3, <2>1 DEF From2, brace
<1> HIDE DEF m
<1>11. out2' = Append(out2, RightLine) /\ from2' = Append(from2, <<m, Len(raw[m].items) + 1>>)
  BY <1>1, <1>9, <1>10, SameLines
<1>12. Text(raw, out2, from2, Due(raw, Keep2(raw), m - 1) \cup Begun(m, Keep2(raw)[m]))
  BY <1>5, <1>7
<1>13. Text(raw, out2', from2', Due(raw, Keep2(raw), m))
  BY <1>2, <1>8, <1>11, <1>12, CloseText
<1> QED BY <1>1, <1>13, BodyDone DEF m

-----------------------------------------------------------------------------
(***************************************************************************)
(* Both phases together.                                                   *)
(***************************************************************************)
LEMMA ParseStep ==
  ASSUME Reads, ParseInv, P2!Next
  PROVE  ParseInv'
<1>1. CASE P2!ReadOrigin
  BY <1>1, ParseOrigin
<1>2. CASE MainRead
  <2>1. curState2 \in {0, 1, 2}
    BY <1>2, MainReads
  <2> QED BY <1>2, <2>1, ParseDecl, ParseLeft, ParseFirst
<1>3. CASE P2!ReadEof
  BY <1>3, ParseEof
<1>4. CASE P2!CollectItem
  BY <1>4, ParseItem
<1>5. CASE P2!CollectRight
  BY <1>5, ParseRight
<1>6. CASE P2!CollectIgnored \/ P2!CollectEof
  BY <1>6, ParseIgnored
<1>7. CASE \/ P2!OuterTrans \/ P2!OuterCase
           \/ P2!InnerTrans \/ P2!InnerCase \/ P2!InnerLastCase \/ P2!InnerExit
  BY <1>7, ParseLoop
<1>8. CASE P2!OpenBody
  BY <1>8, ParseOpen
<1>9. CASE P2!DropBody
  BY <1>9, ParseDrop
<1>10. CASE P2!WriteItem
  BY <1>10, ParseWrite
<1>11. CASE P2!CloseBody
  BY <1>11, ParseClose
<1> QED BY <1>1, <1>2, <1>3, <1>4, <1>5, <1>6, <1>7, <1>8, <1>9, <1>10, <1>11 DEF P2!Next, MainRead

\* Phase 1 leaves phase 2 where it starts.
LEMMA ParseWaits ==
  ASSUME IInv2, ParseInv, Phase1
  PROVE  ParseInv'
<1>1. Next /\ old = <<>> /\ old' = old /\ UNCHANGED vars2 /\ from2' = from2
  BY SourceLinesAssumption DEF Phase1, Next
<1>2. pc2 = "start" /\ pc2' = "start"
  BY <1>1, StepNotDone DEF IInv2, InputInv, vars2
<1>3. curState2' = 0 /\ out2' = <<>> /\ from2' = <<>>
  BY <1>1, <1>2 DEF ParseInv, vars2
<1> QED BY <1>2, <1>3 DEF ParseInv

TextInv == SourceInv /\ ParseInv

LEMMA TextStep ==
  ASSUME IInv, IInv2, TextInv, [Phase1 \/ Phase2]_pipelineVars
  PROVE  TextInv'
<1>1. CASE Phase1
  <2>1. old = <<>>
    BY <1>1 DEF Phase1
  <2>2. SourceInv'
    BY <1>1, <2>1, SourceStep DEF TextInv
  <2>3. ParseInv'
    BY <1>1, ParseWaits DEF TextInv
  <2> QED BY <2>2, <2>3 DEF TextInv
<1>2. CASE Phase2 /\ old = <<>>
  <2>1. Reads /\ P2!Next
    BY <1>2, ReadsThat DEF TextInv
  <2>2. ParseInv'
    BY <2>1, ParseStep DEF TextInv
  <2>3. UNCHANGED <<pc, temp_funcDecl, in_list, flags, i, outfile, old, raw, from1>>
    BY <1>2 DEF Phase2, vars, readVars, loopVars
  <2>4. SourceInv'
    BY <2>3 DEF TextInv, SourceInv
  <2> QED BY <2>2, <2>4 DEF TextInv
<1>3. CASE Phase2 /\ old # <<>>
  <2>1. old' # <<>>
    BY <1>3 DEF Phase2
  <2> QED BY <2>1 DEF TextInv, SourceInv, ParseInv
<1>4. CASE UNCHANGED pipelineVars
  <2>1. /\ UNCHANGED <<pc, temp_funcDecl, in_list, flags, i, outfile, old, raw, from1>>
        /\ UNCHANGED <<from2, pc2, curState2, pos, decl2, list2, flags2, i2, out2>>
    BY <1>4 DEF pipelineVars, vars, vars2, history, readVars, loopVars
  <2>2. SourceInv'
    BY <2>1 DEF TextInv, SourceInv
  <2>3. brace' = brace /\ (\A n : Written(n)' = Written(n)) /\ (\A n : Collected(n)' <=> Collected(n))
        /\ \A n : Text2(n)' <=> Text2(n)
    BY <2>1 DEF brace, Written, Collected, Text2
  <2>4. ParseInv'
    BY <2>1, <2>3 DEF TextInv, ParseInv, Written, brace, Collected, Text2
  <2> QED BY <2>2, <2>4 DEF TextInv
<1> QED BY <1>1, <1>2, <1>3, <1>4

LEMMA TextInit == PipelineInit => TextInv
<1> SUFFICES ASSUME PipelineInit PROVE TextInv
  OBVIOUS
<1>1. pc = "main" /\ outfile = <<>> /\ raw = <<>> /\ from1 = <<>> /\ from2 = <<>>
  BY DEF PipelineInit, Init
<1>2. pc2 = "start" /\ curState2 = 0 /\ out2 = <<>>
  BY DEF PipelineInit, P2!Start
<1>3. BodiesOK(<<>>)
  BY DEF BodiesOK
<1>4. Text(<<>>, <<>>, <<>>, Due(<<>>, Keep1(<<>>), Len(<<>>)))
  <2>1. Due(<<>>, Keep1(<<>>), 0) = {}
    BY DueNone
  <2>2. Len(<<>>) = 0
    OBVIOUS
  <2> HIDE DEF Keep1
  <2>3. Text(<<>>, <<>>, <<>>, {})
    BY EmptyText
  <2> QED BY <2>1, <2>2, <2>3
<1>5. SourceInv
  BY <1>1, <1>3, <1>4 DEF SourceInv
<1>6. ParseInv
  BY <1>2, <1>1 DEF ParseInv
<1> QED BY <1>5, <1>6 DEF TextInv

\* Where phase 1 wrote nothing, nothing is a double fetch.
LEMMA NothingWritten ==
  ASSUME IInv2, TextInv, old = <<>>, pc = "done", outfile = <<>>
  PROVE  Text2(Len(raw))
<1>1. BodiesOK(raw) /\ Text(raw, outfile, from1, Due(raw, Keep1(raw), Len(raw)))
  BY DEF TextInv, SourceInv
<1>2. Due(raw, Keep1(raw), Len(raw)) = {}
  BY <1>1, NoText1
<1>3. Len(raw) \in Nat
  BY <1>1 DEF BodiesOK
<1>4. \A m \in (0 + 1)..Len(raw) : Keep1(raw)[m] = {}
  <2> SUFFICES ASSUME NEW m \in 1..Len(raw), Keep1(raw)[m] # {} PROVE FALSE
    BY <1>3
  <2> QED BY <1>2, DueHas
<1>5. pc2 = "start"
  <2>1. pos = 0
    BY <1>3 DEF IInv2, Core2, TypeInv2, infile2
  <2> QED BY <2>1 DEF IInv2, Core2, ShapeInv2
<1>6. out2 = <<>> /\ from2 = <<>>
  BY <1>5 DEF TextInv, ParseInv
<1>7. TextUpTo(raw, out2, from2, 0)
  BY <1>6, EmptyText, DueNone DEF TextUpTo
<1>8. 0 \in Nat /\ 0 <= Len(raw)
  BY <1>3
<1> QED BY <1>1, <1>3, <1>4, <1>7, <1>8, TextSkip DEF Text2

(***************************************************************************)
(* For sources of any length: what filter2.py has written when it is done  *)
(* is, line by line and in order, the double fetches of the bodies         *)
(* filter.py has read and their labels, with the path and the lines around *)
(* the bodies, although it sees only what filter.py has left of them.      *)
(***************************************************************************)
THEOREM NothingLostOnTheWay == PipelineSpec => []EndToEnd
<1>1. PipelineInit => IInv /\ IInv2 /\ TextInv
  BY PipelineInitInv, TextInit
<1>2. (IInv /\ IInv2 /\ TextInv) /\ [Phase1 \/ Phase2]_pipelineVars => (IInv /\ IInv2 /\ TextInv)'
  BY PipelineStep, TextStep
<1>3. IInv /\ IInv2 /\ TextInv => EndToEnd
  <2> SUFFICES ASSUME IInv, IInv2, TextInv, Ended, old = <<>> PROVE IsText(raw, out2, from2, Expected)
    BY DEF EndToEnd
  <2>1. pc2 # "crashed"
    BY DEF IInv2, Core2, CrashInv, InputInv, IInv, OutInv, infile2
  <2>2. CASE pc2 = "done"
    BY <2>2 DEF TextInv, ParseInv, Text2, TextUpTo, Text, Keep2, Expected
  <2>3. CASE pc = "done" /\ outfile = <<>>
    BY <2>3, NothingWritten DEF Text2, TextUpTo, Text, Keep2, Expected
  <2> QED BY <2>1, <2>2, <2>3 DEF Ended
<1> QED
  BY <1>1, <1>2, <1>3, PTL DEF PipelineSpec

=============================================================================
