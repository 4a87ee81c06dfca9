---------------------------- MODULE ScriptsProofs ---------------------------
(***************************************************************************)
(* Proofs about the two driver scripts, for any files, any names, any      *)
(* number of reports and of runs, interrupted or not.                      *)
(***************************************************************************)
EXTENDS Scripts, SequenceTheorems, FiniteSetTheorems, TLAPS

(***************************************************************************)
(* startcocci_linux.sh and copy_files.py: CocciRun.                        *)
(***************************************************************************)
Lines == Files \cup {"No.", "--"}

TypeInv ==
  /\ pc \in {"idle", "clean", "log", "spatch", "copy", "finished"}
  /\ found \in [Files -> Nat] /\ left \in [Files -> Nat]
  /\ result \in Seq(Lines)
  /\ counter \in Nat

\* The files among the first n lines of r.
Seen(r, n) == {f \in Files : \E i \in 1 .. n : r[i] = f}

\* Between them spatch has begun with a file and not finished it.
Underway(l, n) == 0 < l /\ l < n

\* What spatch has logged: a file is there if it was reported, its reports are
\* together, and the file spatch is at is the last.
LogInv ==
  pc \in {"spatch", "copy", "finished"} =>
    /\ \A f \in Files : left[f] <= found[f]
    /\ Seen(result, Len(result)) = Reported
    /\ \A i, j, k \in 1 .. Len(result) :
         i < j /\ j < k /\ result[i] \in Files /\ result[j] \in Files /\ result[k] = result[i]
           => result[j] = result[i]
    /\ \A i, j \in 1 .. Len(result) :
         i < j /\ result[i] \in Files /\ result[j] \in Files /\ Underway(left[result[i]], found[result[i]])
           => result[j] = result[i]

CleanInv ==
  /\ pc \in {"log", "spatch"} => outcome = {}
  /\ pc \in {"clean", "log"} => left = found

\* buffer is the last file read.
BufferInv ==
  IF Seen(result, pos) = {} THEN buffer = NoFile
  ELSE \E i \in 1 .. pos : /\ result[i] = buffer /\ buffer \in Files
                           /\ \A j \in i + 1 .. pos : result[j] \notin Files

\* What copy_files.py has copied: each file it has read, once, in its own place.
CopyInv ==
  pc \in {"copy", "finished"} =>
    /\ pos \in 0 .. Len(result)
    /\ pc = "finished" => pos = Len(result)
    /\ BufferInv
    /\ IsFiniteSet(Seen(result, pos)) /\ counter = Cardinality(Seen(result, pos))
    /\ IsFiniteSet(outcome) /\ Cardinality(outcome) = counter
    /\ {d.file : d \in outcome} = Seen(result, pos)
    /\ \A d \in outcome : d.number \in 1 .. counter

IInv == TypeInv /\ LogInv /\ CleanInv /\ CopyInv

-----------------------------------------------------------------------------
\* The lines of a record that print_and_log appends.
LEMMA RecordLines ==
  ASSUME TypeInv, NEW f \in Files,
         result' = result \o <<"No.", f, "--", "--", "--">>
  PROVE  /\ result' \in Seq(Lines)
         /\ Len(result') = Len(result) + 5 /\ Len(result) \in Nat
         /\ \A i \in 1 .. Len(result) : result'[i] = result[i]
         /\ result'[Len(result) + 2] = f
         /\ \A i \in Len(result) + 1 .. Len(result') :
              i # Len(result) + 2 => result'[i] \in {"No.", "--"}
<1> DEFINE r == <<"No.", f, "--", "--", "--">>
<1>1. r \in Seq(Lines) /\ Len(r) = 5
  <2>1. f \in Lines /\ "No." \in Lines /\ "--" \in Lines
    BY DEF Lines
  <2> QED
    BY <2>1
<1>2. result \in Seq(Lines) /\ Len(result) \in Nat
  BY DEF TypeInv
<1>3. r[1] = "No." /\ r[2] = f /\ r[3] = "--" /\ r[4] = "--" /\ r[5] = "--"
  OBVIOUS
<1> HIDE DEF r
<1>4. /\ result \o r \in Seq(Lines)
      /\ Len(result \o r) = Len(result) + 5
      /\ \A i \in 1 .. Len(result) + 5 :
           (result \o r)[i] = IF i <= Len(result) THEN result[i] ELSE r[i - Len(result)]
  <2>1. /\ result \o r \in Seq(Lines)
        /\ Len(result \o r) = Len(result) + Len(r)
        /\ \A i \in 1 .. Len(result) + Len(r) :
             (result \o r)[i] = IF i <= Len(result) THEN result[i] ELSE r[i - Len(result)]
    BY <1>1, <1>2, ConcatProperties, Zenon
  <2> QED
    BY <1>1, <2>1
<1>5. result' = result \o r
  BY DEF r
<1>6. \A i \in 1 .. Len(result) : result'[i] = result[i]
  BY <1>2, <1>4, <1>5
<1>7. result'[Len(result) + 2] = f
  BY <1>2, <1>3, <1>4, <1>5
<1>8. ASSUME NEW i \in Len(result) + 1 .. Len(result'), i # Len(result) + 2
      PROVE  result'[i] \in {"No.", "--"}
  <2>1. i \in 1 .. Len(result) + 5 /\ i > Len(result)
    BY <1>2, <1>4, <1>5
  <2>2. result'[i] = r[i - Len(result)]
    BY <1>2, <1>4, <1>5, <2>1
  <2>3. i - Len(result) \in {1, 3, 4, 5}
    BY <1>2, <1>8, <2>1
  <2> QED
    BY <1>3, <2>2, <2>3
<1> QED
  BY <1>2, <1>4, <1>5, <1>6, <1>7, <1>8

\* print_and_log keeps what is known of the log.
LEMMA LogStep ==
  ASSUME TypeInv, LogInv, NEW f \in Files, print_and_log(f)
  PROVE  TypeInv' /\ LogInv'
<1> DEFINE n == Len(result)
<1>1. pc = "spatch" /\ pc' = pc /\ found' = found /\ counter' = counter
  BY DEF print_and_log
<1>2. /\ found \in [Files -> Nat] /\ left \in [Files -> Nat] /\ left' \in [Files -> Nat]
      /\ left'[f] = left[f] - 1 /\ left[f] > 0
      /\ \A g \in Files \ {f} : left'[g] = left[g] /\ left[g] \in {0, found[g]}
  BY DEF TypeInv, print_and_log
<1>3. /\ result' \in Seq(Lines) /\ Len(result') = n + 5 /\ n \in Nat
      /\ \A i \in 1 .. n : result'[i] = result[i]
      /\ result'[n + 2] = f
      /\ \A i \in n + 1 .. n + 5 : i # n + 2 => result'[i] \notin Files
  BY RecordLines, CocciRunAssumption DEF print_and_log
<1> HIDE DEF n
<1>4. TypeInv'
  BY <1>1, <1>2, <1>3 DEF TypeInv
<1>5. /\ \A g \in Files : left[g] <= found[g]
      /\ Seen(result, n) = Reported
      /\ \A i, j, k \in 1 .. n :
           i < j /\ j < k /\ result[i] \in Files /\ result[j] \in Files /\ result[k] = result[i]
             => result[j] = result[i]
      /\ \A i, j \in 1 .. n :
           i < j /\ result[i] \in Files /\ result[j] \in Files /\ Underway(left[result[i]], found[result[i]])
             => result[j] = result[i]
  BY <1>1 DEF LogInv, n
<1>6. \A g \in Files : left'[g] <= found'[g]
  BY <1>1, <1>2, <1>5
\* Behind a line that names f there are only lines that name f.
<1>7. ASSUME NEW i \in 1 .. n, result[i] = f, NEW j \in 1 .. n, i < j, result[j] \in Files
      PROVE  result[j] = f
  <2>1. f \in Seen(result, n)
    BY <1>7 DEF Seen
  <2>2. Underway(left[f], found[f])
    BY <1>2, <1>5, <2>1 DEF Underway, Reported
  <2> QED
    BY <1>5, <1>7, <2>2
<1>8. \A i \in 1 .. n + 5 : result'[i] \in Files => (i \in 1 .. n \/ i = n + 2)
  BY <1>3
<1>9. Seen(result', Len(result')) = Reported'
  <2>1. Seen(result', Len(result')) = {g \in Files : \E i \in 1 .. n + 5 : result'[i] = g}
    BY <1>3 DEF Seen
  <2>2. Seen(result', Len(result')) = Seen(result, n) \cup {f}
    BY <1>3, <1>8, <2>1 DEF Seen
  <2>3. Reported' = Reported \cup {f}
    BY <1>1, <1>2, <1>5 DEF Reported
  <2> QED
    BY <1>5, <2>2, <2>3
<1>10. ASSUME NEW i \in 1 .. n + 5, NEW j \in 1 .. n + 5, NEW k \in 1 .. n + 5, i < j, j < k,
              result'[i] \in Files, result'[j] \in Files, result'[k] = result'[i]
       PROVE  result'[j] = result'[i]
  <2>1. i \in 1 .. n /\ j \in 1 .. n
    BY <1>3, <1>8, <1>10
  <2>2. CASE k \in 1 .. n
    BY <1>3, <1>5, <1>10, <2>1, <2>2
  <2>3. CASE k = n + 2
    BY <1>3, <1>7, <1>10, <2>1, <2>3
  <2> QED
    BY <1>8, <1>10, <2>2, <2>3
<1>11. ASSUME NEW i \in 1 .. n + 5, NEW j \in 1 .. n + 5, i < j,
              result'[i] \in Files, result'[j] \in Files, Underway(left'[result'[i]], found'[result'[i]])
       PROVE  result'[j] = result'[i]
  <2>1. i \in 1 .. n
    BY <1>3, <1>8, <1>10, <1>11
  <2>2. result'[i] = f
    BY <1>1, <1>2, <1>11 DEF Underway
  <2> QED
    BY <1>3, <1>7, <1>8, <1>11, <2>1, <2>2
<1> QED
  BY <1>3, <1>4, <1>6, <1>9, <1>10, <1>11, Zenon DEF LogInv

\* CopyFile copies a file that is not in outcome/ yet, to a place of its own.
LEMMA CopyStep ==
  ASSUME TypeInv, LogInv, CopyInv, CopyFile
  PROVE  CopyInv'
<1> DEFINE f == result[pos + 1]
           d == get_dst(counter + 1, f)
<1>1. /\ pc = "copy" /\ pc' = pc /\ result' = result /\ pos' = pos + 1
      /\ counter' = counter + 1 /\ buffer' = f /\ f \notin {"No.", "--"} /\ f # buffer
      /\ outcome' = Put(d) /\ pos < Len(result)
  BY DEF CopyFile, ReadLine, src
<1>2. /\ pos \in 0 .. Len(result) /\ BufferInv
      /\ IsFiniteSet(Seen(result, pos)) /\ counter = Cardinality(Seen(result, pos))
      /\ IsFiniteSet(outcome) /\ Cardinality(outcome) = counter
      /\ {x.file : x \in outcome} = Seen(result, pos)
      /\ \A x \in outcome : x.number \in 1 .. counter
  BY <1>1 DEF CopyInv
<1>3. Len(result) \in Nat /\ pos + 1 \in 1 .. Len(result) /\ counter \in Nat
  BY <1>1, <1>2 DEF TypeInv
<1>4. f \in Files
  <2>1. f \in Lines
    BY <1>3, ElementOfSeq DEF TypeInv
  <2> QED
    BY <1>1, <2>1 DEF Lines
<1>5. f \notin Seen(result, pos)
  <2> SUFFICES ASSUME NEW i \in 1 .. pos, result[i] = f
               PROVE  FALSE
    BY DEF Seen
  <2>1. Seen(result, pos) # {}
    BY <1>4 DEF Seen
  <2>2. PICK k \in 1 .. pos : /\ result[k] = buffer /\ buffer \in Files
                              /\ \A j \in k + 1 .. pos : result[j] \notin Files
    BY <1>2, <2>1 DEF BufferInv
  <2>3. i < k
    BY <1>1, <1>2, <1>3, <1>4, <2>2
  <2>4. i \in 1 .. Len(result) /\ k \in 1 .. Len(result) /\ k < pos + 1
    BY <1>2, <1>3
  <2>5. result[k] = result[i]
    BY <1>1, <1>3, <1>4, <2>2, <2>3, <2>4 DEF LogInv
  <2> QED
    BY <1>1, <2>2, <2>5
<1> HIDE DEF f
<1>6. Seen(result', pos') = Seen(result, pos) \cup {f}
  BY <1>1, <1>2, <1>3, <1>4 DEF Seen, f
<1>7. IsFiniteSet(Seen(result', pos')) /\ Cardinality(Seen(result', pos')) = counter + 1
  BY <1>2, <1>5, <1>6, FS_AddElement
<1>8. d.number = counter + 1 /\ d.file = f
  BY DEF get_dst
<1> HIDE DEF d
<1>9. outcome' = outcome \cup {d} /\ d \notin outcome
  BY <1>1, <1>2, <1>3, <1>8 DEF Put
<1>10. IsFiniteSet(outcome') /\ Cardinality(outcome') = counter + 1
  BY <1>2, <1>9, FS_AddElement
<1>11. {x.file : x \in outcome'} = Seen(result', pos')
  BY <1>2, <1>6, <1>8, <1>9
<1>12. \A x \in outcome' : x.number \in 1 .. counter + 1
  BY <1>2, <1>3, <1>8, <1>9
<1>13. BufferInv'
  BY <1>1, <1>3, <1>4, <1>6 DEF BufferInv, f
<1> QED
  BY <1>1, <1>3, <1>7, <1>10, <1>11, <1>12, <1>13 DEF CopyInv

\* A line that is no new file leaves the rest as it is.
LEMMA SkipStep ==
  ASSUME TypeInv, LogInv, CopyInv, SkipLine
  PROVE  CopyInv'
<1>1. /\ pc = "copy" /\ pc' = pc /\ result' = result /\ pos' = pos + 1 /\ counter' = counter
      /\ buffer' = buffer /\ outcome' = outcome /\ pos < Len(result)
      /\ result[pos + 1] \in {"No.", "--"} \/ result[pos + 1] = buffer
  BY DEF SkipLine, ReadLine, src
<1>2. pos \in 0 .. Len(result) /\ BufferInv /\ Len(result) \in Nat
  BY <1>1 DEF CopyInv, TypeInv
<1>3. Seen(result', pos') = Seen(result, pos) /\ BufferInv'
  <2>1. CASE result[pos + 1] \notin Files
    <3>1. Seen(result', pos') = Seen(result, pos)
      BY <1>1, <1>2, <2>1 DEF Seen
    <3> QED
      BY <1>1, <1>2, <2>1, <3>1 DEF BufferInv
  <2>2. CASE result[pos + 1] \in Files
    <3>1. result[pos + 1] = buffer /\ buffer # NoFile /\ buffer \in Files
      BY <1>1, <2>2, CocciRunAssumption
    <3>2. PICK k \in 1 .. pos : result[k] = buffer
      BY <1>2, <3>1 DEF BufferInv
    <3>3. Seen(result', pos') = Seen(result, pos) /\ buffer \in Seen(result, pos)
      BY <1>1, <1>2, <3>1, <3>2 DEF Seen
    <3> QED
      BY <1>1, <1>2, <3>1, <3>3 DEF BufferInv
  <2> QED
    BY <2>1, <2>2
<1> QED
  BY <1>1, <1>2, <1>3 DEF CopyInv

\* The invariant holds initially and every step keeps it.
THEOREM Invariance == Spec => []IInv
<1>1. Init => IInv
  BY CocciRunAssumption DEF Init, IInv, TypeInv, LogInv, CleanInv, CopyInv
<1>2. IInv /\ [Next]_vars => IInv'
  <2> SUFFICES ASSUME IInv, [Next]_vars
               PROVE  IInv'
    OBVIOUS
  <2> USE CocciRunAssumption DEF IInv
  <2>1. CASE Start
    <3>1. TypeInv'
      BY <2>1 DEF Start, TypeInv
    <3> QED
      BY <2>1, <3>1 DEF Start, LogInv, CleanInv, CopyInv
  <2>2. CASE RemoveOutcome
    BY <2>2 DEF RemoveOutcome, TypeInv, LogInv, CleanInv, CopyInv
  <2>3. CASE RemoveResult
    <3>1. TypeInv' /\ CleanInv' /\ CopyInv'
      BY <2>3 DEF RemoveResult, TypeInv, CleanInv, CopyInv
    <3>2. left' = found' /\ Len(result') = 0 /\ left' \in [Files -> Nat]
      BY <2>3 DEF RemoveResult, CleanInv, TypeInv
    <3>3. Seen(result', Len(result')) = {} /\ Reported' = {} /\ \A g \in Files : left'[g] <= found'[g]
      BY <3>2 DEF Seen, Reported
    <3> QED
      BY <3>1, <3>2, <3>3 DEF LogInv
  <2>4. CASE \E f \in Files : print_and_log(f)
    <3>1. TypeInv' /\ LogInv'
      BY <2>4, LogStep
    <3> QED
      BY <2>4, <3>1 DEF print_and_log, CleanInv, CopyInv
  <2>5. CASE StartCopy
    <3>1. TypeInv' /\ LogInv' /\ CleanInv'
      BY <2>5 DEF StartCopy, TypeInv, LogInv, CleanInv, Reported, Seen, Underway
    <3>2. pos' = 0 /\ outcome' = {} /\ counter' = 0 /\ buffer' = NoFile /\ Len(result') \in Nat
      BY <2>5 DEF StartCopy, CleanInv, TypeInv
    <3>3. Seen(result', pos') = {}
      BY <3>2 DEF Seen
    <3>4. pc' = "copy"
      BY <2>5 DEF StartCopy
    <3> QED
      BY <3>1, <3>2, <3>3, <3>4, FS_EmptySet DEF CopyInv, BufferInv
  <2>6. CASE SkipLine
    <3>1. CopyInv'
      BY <2>6, SkipStep
    <3> QED
      BY <2>6, <3>1
      DEF SkipLine, ReadLine, TypeInv, LogInv, CleanInv, Reported, Seen, Underway
  <2>7. CASE CopyFile
    <3>1. CopyInv'
      BY <2>7, CopyStep
    <3> QED
      BY <2>7, <3>1
      DEF CopyFile, ReadLine, TypeInv, LogInv, CleanInv, Reported, Seen, Underway
  <2>8. CASE Finish
    <3>1. TypeInv' /\ CleanInv'
      BY <2>8 DEF Finish, TypeInv, CleanInv
    <3>2. LogInv'
      BY <2>8 DEF Finish, LogInv, Reported
    <3>3. CopyInv'
      BY <2>8 DEF Finish, CopyInv, BufferInv
    <3> QED
      BY <3>1, <3>2, <3>3
  <2>9. CASE Interrupt
    BY <2>9 DEF Interrupt, TypeInv, LogInv, CleanInv, CopyInv
  <2>10. CASE UNCHANGED vars
    <3>1. TypeInv' /\ CleanInv'
      BY <2>10 DEF vars, TypeInv, CleanInv
    <3>2. LogInv'
      BY <2>10 DEF vars, LogInv, Reported
    <3>3. CopyInv'
      BY <2>10 DEF vars, CopyInv, BufferInv
    <3> QED
      BY <3>1, <3>2, <3>3
  <2> QED
    BY <2>1, <2>2, <2>3, <2>4, <2>5, <2>6, <2>7, <2>8, <2>9, <2>10 DEF Next
<1> QED
  BY <1>1, <1>2, PTL DEF Spec

(***************************************************************************)
(* A run of startcocci_linux.sh that finishes leaves one copy of each file *)
(* reported in it in outcome/ and nothing else, for any number of files,   *)
(* reports and interrupted runs before it.                                 *)
(***************************************************************************)
THEOREM OutcomeCorrect == Spec => []OutcomeIsExact
<1>1. IInv => OutcomeIsExact
  BY DEF IInv, TypeInv, LogInv, CopyInv, OutcomeIsExact
<1> QED
  BY <1>1, Invariance, PTL

-----------------------------------------------------------------------------
(***************************************************************************)
(* start.sh: FilterScript.                                                 *)
(***************************************************************************)
FTypeInv ==
  /\ fpc \in {"idle", "walk", "sed", "filter", "copy", "rm", "check", "finished"}
  /\ present \in Seq(Files) /\ num \in 0 .. Len(present)
  /\ kind \in [FS!Range(present) \cap Sources -> FS!Kinds]
  /\ fruns \in Nat /\ dirty \in BOOLEAN
  /\ \A x \in output : x.run \in Nat /\ x.run <= fruns
  /\ fpc \in {"sed", "filter", "copy", "rm"} => num \in FS!SourcesAt
  /\ fpc \in {"check", "finished"} => num = Len(present)

\* The tree's first source file has been given to sed.
PastFirst == \E n \in FS!SourcesAt : n < num \/ (n = num /\ fpc = "walk")

Piece == [file |-> present[num], kind |-> kind[present[num]], cut |-> FALSE]

\* What an earlier run has left in temp2 is there for the first file only.
TempInv ==
  /\ (fpc \in {"walk", "sed"} /\ (~dirty \/ PastFirst)) => temp2 = <<>>
  /\ (fpc \in {"filter", "copy", "rm"} /\ ~(dirty /\ FS!First(num))) => temp2 = <<Piece>>

\* The script is done with phase 1, or with copying, for file n.
Filtered(n) == n < num \/ (n = num /\ fpc \notin {"sed", "filter"})
Copied(n) == n < num \/ (n = num /\ fpc \notin {"sed", "filter", "copy"})

Candidate(n) == FS!Found(n, {"candidate", "double"})
Spoiled(n) == dirty /\ FS!First(n)

Own(x, n) == /\ x.key = FS!Key(n) /\ x.origin = present[n] /\ x.from = {present[n]}
             /\ x.kind = kind[present[n]] /\ x.whole /\ x.run = fruns
OwnCopy(x, n) == x.key = FS!Key(n) /\ x.file = present[n] /\ x.run = fruns

\* What a run has found so far is where it belongs.
PhaseOneInv ==
  fpc # "idle" => \A n \in DOMAIN present : Candidate(n) /\ ~Spoiled(n) =>
    /\ Filtered(n) => \E x \in output : Own(x, n)
    /\ Copied(n) => \E x \in source : OwnCopy(x, n)

\* Phase 2 goes through output/, where no two files have a name in common.
PhaseTwoInv ==
  /\ \A x, y \in output : x.key = y.key => x = y
  /\ todo \subseteq output
  /\ fpc # "check" => todo = {}
  /\ fpc \in {"check", "finished"} =>
       \A e \in output \ todo : e.whole /\ e.kind = "double" =>
         \E y \in output2 : y.key = e.key /\ y.from = e.from /\ y.whole /\ y.run = fruns

\* In a first run there is nothing else.
FreshOutput == \A x \in output : \E n \in DOMAIN present : Candidate(n) /\ Filtered(n) /\ Own(x, n)
FreshSource == \A x \in source : \E n \in DOMAIN present : Candidate(n) /\ Copied(n) /\ OwnCopy(x, n)
FreshOutput2 == \A y \in output2 : \E n \in DOMAIN present : FS!Found(n, {"double"}) /\ y.key = FS!Key(n)

FreshInv ==
  /\ fruns = 0 => fpc = "idle" /\ temp2 = <<>> /\ output = {} /\ source = {} /\ output2 = {}
  /\ fruns = 1 => ~dirty
  /\ fruns = 1 /\ fpc # "idle" =>
       /\ FreshOutput /\ FreshSource /\ FreshOutput2
       /\ output2 # {} => fpc \in {"check", "finished"}

FInv == FTypeInv /\ TempInv /\ PhaseOneInv /\ PhaseTwoInv /\ FreshInv /\ FS!OnlyFirstSpoiled

-----------------------------------------------------------------------------
\* Put replaces a file of the same name and leaves the others.
LEMMA PutIn ==
  ASSUME NEW dir, NEW d
  PROVE  /\ d \in FS!Put(dir, d)
         /\ \A x \in dir : x.key # d.key => x \in FS!Put(dir, d)
         /\ \A x \in FS!Put(dir, d) : x = d \/ (x \in dir /\ x.key # d.key)
BY DEF FS!Put, FS!At

LEMMA EntryFields ==
  ASSUME NEW k, NEW w
  PROVE  /\ FS!Entry(k, w).key = <<num, Name[present[num]]>> /\ FS!Entry(k, w).origin = present[num]
         /\ FS!Entry(k, w).from = {p.file : p \in FS!Range(temp2)} /\ FS!Entry(k, w).kind = k
         /\ FS!Entry(k, w).whole = w /\ FS!Entry(k, w).run = fruns
BY DEF FS!Entry, FS!key, FS!file

LEMMA ResultFields ==
  ASSUME NEW e, NEW w
  PROVE  /\ FS!Result(e, w).key = e.key /\ FS!Result(e, w).from = e.from
         /\ FS!Result(e, w).whole = w /\ FS!Result(e, w).run = fruns
BY DEF FS!Result

\* A file that is put into output/ is of this run.
LEMMA RunsStay ==
  ASSUME FTypeInv, NEW k, NEW w, output' = FS!Put(output, FS!Entry(k, w))
  PROVE  \A x \in output' : x.run \in Nat /\ x.run <= fruns
<1> DEFINE d == FS!Entry(k, w)
<1>1. d.run = fruns /\ output' = FS!Put(output, d)
  BY EntryFields
<1> HIDE DEF d
<1>2. \A x \in output' : x = d \/ x \in output
  BY <1>1, PutIn, Zenon
<1> QED
  BY <1>1, <1>2 DEF FTypeInv

LEMMA FTypeStart == ASSUME FTypeInv, FS!Start PROVE FTypeInv'
<1>1. present' \in Seq(Files)
  BY TreesAssumption DEF FS!Start
<1>2. /\ num' = 0 /\ fpc' = "walk" /\ fruns' = fruns + 1 /\ output' = output
      /\ dirty' = (temp2 # <<>>)
      /\ kind' \in [FS!Range(present)' \cap Sources -> FS!Kinds]
  BY DEF FS!Start, FS!files
<1>3. dirty' \in BOOLEAN
  BY <1>2
<1>4. FS!Kinds' = FS!Kinds
  BY DEF FS!Kinds
<1> QED
  BY <1>1, <1>2, <1>3, <1>4 DEF FTypeInv

LEMMA FTypeStep == ASSUME FTypeInv, FS!Next PROVE FTypeInv'
<1>1. CASE FS!Start
  BY <1>1, FTypeStart
<1>2. CASE FS!NextFile
  BY <1>2 DEF FTypeInv, FS!NextFile, FS!files, FS!Range, FS!SourcesAt, FS!Kinds
<1>3. CASE FS!Sed
  BY <1>3 DEF FTypeInv, FS!Sed, FS!Range, FS!SourcesAt, FS!Kinds
<1>4. CASE FS!Filter
  <2>1. \A x \in output' : x.run \in Nat /\ x.run <= fruns
    BY <1>4, RunsStay DEF FS!Filter, FTypeInv
  <2> QED
    BY <1>4, <2>1 DEF FTypeInv, FS!Filter, FS!Range, FS!SourcesAt, FS!Kinds
<1>5. CASE FS!Copy
  BY <1>5 DEF FTypeInv, FS!Copy, FS!Range, FS!SourcesAt, FS!Kinds
<1>6. CASE FS!Remove
  BY <1>6 DEF FTypeInv, FS!Remove, FS!Range, FS!SourcesAt, FS!Kinds
<1>7. CASE FS!StartCheck
  BY <1>7 DEF FTypeInv, FS!StartCheck, FS!files, FS!Range, FS!SourcesAt, FS!Kinds
<1>8. CASE \E e \in todo : FS!Check(e)
  BY <1>8 DEF FTypeInv, FS!Check, FS!Range, FS!SourcesAt, FS!Kinds
<1>9. CASE FS!Finish
  BY <1>9 DEF FTypeInv, FS!Finish, FS!files, FS!Range, FS!SourcesAt, FS!Kinds
<1>10. CASE FS!Interrupt
  <2>1. \A x \in output' : x.run \in Nat /\ x.run <= fruns
    <3>1. output' = output \/ output' = FS!Put(output, FS!Entry("candidate", FALSE))
      BY <1>10 DEF FS!Interrupt, FS!files
    <3> QED
      BY <3>1, RunsStay DEF FTypeInv
  <2> QED
    BY <1>10, <2>1 DEF FTypeInv, FS!Interrupt, FS!Range, FS!SourcesAt, FS!Kinds
<1> QED
  BY <1>1, <1>2, <1>3, <1>4, <1>5, <1>6, <1>7, <1>8, <1>9, <1>10 DEF FS!Next

\* What a step that is within one run leaves as it is.
LEMMA SameRun ==
  ASSUME UNCHANGED <<present, kind, fruns, dirty>>
  PROVE  /\ FS!SourcesAt' = FS!SourcesAt
         /\ \A n : /\ FS!Key(n)' = FS!Key(n)
                   /\ FS!First(n)' <=> FS!First(n)
                   /\ Candidate(n)' <=> Candidate(n)
                   /\ Spoiled(n)' <=> Spoiled(n)
                   /\ FS!Found(n, {"double"})' <=> FS!Found(n, {"double"})
         /\ \A x, n : (Own(x, n)' <=> Own(x, n)) /\ (OwnCopy(x, n)' <=> OwnCopy(x, n))
BY DEF FS!SourcesAt, FS!Key, FS!First, FS!Found, Candidate, Spoiled, Own, OwnCopy

\* What sed has written is what there is of the file, unless something was left.
LEMMA TempStep == ASSUME FTypeInv, TempInv, FS!Next PROVE TempInv'
<1> USE DEF TempInv
<1>1. CASE FS!Start
  <2>1. fpc' = "walk" /\ num' = 0 /\ temp2' = temp2 /\ dirty' = (temp2 # <<>>)
    BY <1>1 DEF FS!Start, FS!files
  <2>2. ~PastFirst'
    <3>1. FS!SourcesAt' \subseteq Nat \ {0}
      BY <1>1, TreesAssumption DEF FS!SourcesAt, FS!Start
    <3> QED
      BY <2>1, <3>1 DEF PastFirst
  <2> QED
    BY <2>1, <2>2
<1>2. CASE FS!NextFile
  <2>1. /\ fpc = "walk" /\ fpc' \in {"walk", "sed"} /\ num' = num + 1 /\ temp2' = temp2
        /\ fpc' = "walk" => present[num + 1] \notin Sources
        /\ UNCHANGED <<present, kind, fruns, dirty>>
    BY <1>2 DEF FS!NextFile, FS!files
  <2>2. num \in Nat /\ FS!SourcesAt \subseteq Nat /\ FS!SourcesAt' = FS!SourcesAt
    BY <2>1 DEF FTypeInv, FS!SourcesAt
  <2>3. PastFirst' => PastFirst
    <3> SUFFICES ASSUME NEW n \in FS!SourcesAt, n < num + 1 \/ (n = num + 1 /\ fpc' = "walk")
                 PROVE  PastFirst
      BY <2>1, <2>2 DEF PastFirst
    <3>1. n # num + 1 \/ fpc' # "walk"
      BY <2>1 DEF FS!SourcesAt
    <3> QED
      BY <2>1, <2>2, <3>1 DEF PastFirst
  <2> QED
    BY <2>1, <2>3
<1>3. CASE FS!Sed
  <2>1. /\ fpc = "sed" /\ fpc' = "filter" /\ num' = num
        /\ temp2' = Append(temp2, Piece)
        /\ UNCHANGED <<present, kind, fruns, dirty>>
    BY <1>3 DEF FS!Sed, FS!file, Piece
  <2>2. Piece' = Piece /\ (FS!First(num)' <=> FS!First(num))
    BY <2>1 DEF Piece, FS!First, FS!SourcesAt
  <2>3. num \in FS!SourcesAt /\ FS!SourcesAt \subseteq Nat
    BY <2>1 DEF FTypeInv, FS!SourcesAt
  <2>4. ~FS!First(num) => PastFirst
    BY <2>3 DEF FS!First, PastFirst
  <2>5. Append(<<>>, Piece) = <<Piece>>
    OBVIOUS
  <2>6. ~(dirty /\ FS!First(num)) => temp2' = <<Piece>>
    BY <2>1, <2>4, <2>5
  <2> QED
    BY <2>1, <2>2, <2>6
<1>4. CASE FS!Filter \/ FS!Copy
  <2>1. /\ fpc \in {"filter", "copy"} /\ fpc' \in {"copy", "rm"} /\ num' = num /\ temp2' = temp2
        /\ UNCHANGED <<present, kind, fruns, dirty>>
    BY <1>4 DEF FS!Filter, FS!Copy
  <2>2. Piece' = Piece /\ (FS!First(num)' <=> FS!First(num))
    BY <2>1 DEF Piece, FS!First, FS!SourcesAt
  <2> QED
    BY <2>1, <2>2
<1>5. CASE FS!Remove
  BY <1>5 DEF FS!Remove
<1>6. CASE FS!StartCheck \/ (\E e \in todo : FS!Check(e)) \/ FS!Finish
  BY <1>6 DEF FS!StartCheck, FS!Check, FS!Finish
<1>7. CASE FS!Interrupt
  BY <1>7 DEF FS!Interrupt
<1> QED
  BY <1>1, <1>2, <1>3, <1>4, <1>5, <1>6, <1>7 DEF FS!Next

\* Behind a clean temp2 phase 1 finds what is in the file, and nothing of another.
LEMMA FindsOwn ==
  ASSUME FTypeInv, TempInv, fpc = "filter", ~Spoiled(num)
  PROVE  /\ num \in FS!SourcesAt
         /\ FS!FoundIn(temp2) = {kind[present[num]]}
         /\ kind[present[num]] \in FS!Kinds
         /\ Own(FS!Entry(kind[present[num]], TRUE), num)
<1>1. num \in FS!SourcesAt /\ temp2 = <<Piece>>
  BY DEF FTypeInv, TempInv, Spoiled
<1>2. kind[present[num]] \in FS!Kinds
  BY <1>1 DEF FTypeInv, FS!SourcesAt, FS!Range
<1>3. /\ {p.file : p \in FS!Range(temp2)} = {present[num]}
      /\ {temp2[k].kind : k \in DOMAIN temp2} = {kind[present[num]]}
      /\ \A k \in DOMAIN temp2 : ~temp2[k].cut
  <2>1. Piece.file = present[num] /\ Piece.kind = kind[present[num]] /\ Piece.cut = FALSE
    BY DEF Piece
  <2>2. DOMAIN temp2 = {1} /\ temp2[1] = Piece
    BY <1>1
  <2> HIDE DEF Piece
  <2>3. FS!Range(temp2) = {Piece}
    BY <2>2 DEF FS!Range
  <2> QED
    BY <2>1, <2>2, <2>3
<1>4. FS!FoundIn(temp2) = {kind[present[num]]}
  BY <1>2, <1>3 DEF FS!FoundIn, FS!Kinds
<1>5. Own(FS!Entry(kind[present[num]], TRUE), num)
  <2> DEFINE d == FS!Entry(kind[present[num]], TRUE)
  <2>1. /\ d.key = FS!Key(num) /\ d.origin = present[num] /\ d.kind = kind[present[num]]
        /\ d.from = {p.file : p \in FS!Range(temp2)} /\ d.whole /\ d.run = fruns
    BY DEF FS!Entry, FS!key, FS!file, FS!Key
  <2> HIDE DEF d
  <2>2. Own(d, num)
    BY <1>3, <2>1 DEF Own
  <2> QED
    BY <2>2 DEF d
<1> QED
  BY <1>1, <1>2, <1>4, <1>5

-----------------------------------------------------------------------------
LEMMA FilesAreNumbered == ASSUME FTypeInv PROVE DOMAIN present \subseteq Nat \ {0} /\ num \in Nat
BY DEF FTypeInv

\* Steps that leave output/ and source/ alone.
LEMMA PhaseOneStays ==
  ASSUME PhaseOneInv, fpc # "idle", UNCHANGED <<present, kind, fruns, dirty, output, source>>,
         \A n \in DOMAIN present :
           Candidate(n) => (Filtered(n)' => Filtered(n)) /\ (Copied(n)' => Copied(n))
  PROVE  PhaseOneInv'
<1>1. ASSUME NEW n \in DOMAIN present, Candidate(n)', ~Spoiled(n)'
      PROVE  /\ Filtered(n)' => \E x \in output : Own(x, n)
             /\ Copied(n)' => \E x \in source : OwnCopy(x, n)
  BY <1>1, SameRun DEF PhaseOneInv
<1> QED
  BY <1>1, SameRun DEF PhaseOneInv

LEMMA PhaseOneFilter ==
  ASSUME FTypeInv, TempInv, PhaseOneInv, FS!Filter
  PROVE  PhaseOneInv'
<1>1. PICK k \in FS!FoundIn(temp2) :
        output' = IF k = "none" THEN output ELSE FS!Put(output, FS!Entry(k, TRUE))
  BY DEF FS!Filter
<1>2. /\ fpc = "filter" /\ fpc' = "copy" /\ num' = num /\ source' = source
      /\ UNCHANGED <<present, kind, fruns, dirty>>
  BY DEF FS!Filter
<1> DEFINE d == FS!Entry(k, TRUE)
<1>3. d.key = FS!Key(num)
  BY DEF FS!Entry, FS!key, FS!file, FS!Key
<1>4. output' = (IF k = "none" THEN output ELSE FS!Put(output, d))
  BY <1>1
<1>5. ~Spoiled(num) => k = kind[present[num]] /\ Own(d, num)
  BY <1>1, <1>2, FindsOwn
<1> HIDE DEF d
<1>6. ASSUME NEW n \in DOMAIN present, Candidate(n), ~Spoiled(n), Filtered(n)'
      PROVE  \E x \in output' : Own(x, n)
  <2>1. CASE n < num
    <3>1. PICK x \in output : Own(x, n)
      BY <1>2, <1>6, <2>1 DEF PhaseOneInv, Filtered
    <3>2. x.key # d.key
      BY <1>3, <2>1, <3>1, FilesAreNumbered DEF Own, FS!Key
    <3>3. x \in FS!Put(output, d)
      BY <3>2, PutIn
    <3> QED
      BY <1>4, <3>1, <3>3
  <2>2. CASE n = num
    <3>1. k # "none" /\ Own(d, n)
      BY <1>5, <1>6, <2>2 DEF Candidate, FS!Found
    <3> QED
      BY <1>4, <3>1, PutIn
  <2> QED
    BY <1>2, <1>6, <2>1, <2>2 DEF Filtered
<1>7. ASSUME NEW n \in DOMAIN present, Candidate(n), ~Spoiled(n), Copied(n)'
      PROVE  \E x \in source' : OwnCopy(x, n)
  <2>1. Copied(n)
    BY <1>2, <1>7 DEF Copied
  <2> QED
    BY <1>2, <1>7, <2>1 DEF PhaseOneInv
<1> QED
  BY <1>2, <1>6, <1>7, SameRun DEF PhaseOneInv

LEMMA PhaseOneCopy ==
  ASSUME FTypeInv, PhaseOneInv, FS!Copy
  PROVE  PhaseOneInv'
<1> DEFINE d == [key |-> FS!key, file |-> FS!file, run |-> fruns]
<1>1. /\ fpc = "copy" /\ fpc' = "rm" /\ num' = num /\ output' = output
      /\ UNCHANGED <<present, kind, fruns, dirty>>
      /\ source' = IF FS!At(output, FS!key) = {} THEN source ELSE FS!Put(source, d)
  BY DEF FS!Copy
<1>2. FS!key = FS!Key(num) /\ d.key = FS!Key(num) /\ OwnCopy(d, num)
  BY DEF FS!key, FS!file, FS!Key, OwnCopy
<1> HIDE DEF d
<1>3. ASSUME NEW n \in DOMAIN present, Candidate(n), ~Spoiled(n), Filtered(n)'
      PROVE  \E x \in output' : Own(x, n)
  <2>1. Filtered(n)
    BY <1>1, <1>3 DEF Filtered
  <2> QED
    BY <1>1, <1>3, <2>1 DEF PhaseOneInv
<1>4. ASSUME NEW n \in DOMAIN present, Candidate(n), ~Spoiled(n), Copied(n)'
      PROVE  \E x \in source' : OwnCopy(x, n)
  <2>1. CASE n < num
    <3>1. PICK x \in source : OwnCopy(x, n)
      BY <1>1, <1>4, <2>1 DEF PhaseOneInv, Copied
    <3>2. x.key # d.key
      BY <1>2, <2>1, <3>1, FilesAreNumbered DEF OwnCopy, FS!Key
    <3>3. x \in FS!Put(source, d)
      BY <3>2, PutIn
    <3> QED
      BY <1>1, <3>1, <3>3
  <2>2. CASE n = num
    <3>1. PICK x \in output : Own(x, n)
      BY <1>1, <1>4, <2>2 DEF PhaseOneInv, Filtered
    <3>2. FS!At(output, FS!key) # {}
      BY <1>2, <2>2, <3>1 DEF Own, FS!At
    <3> QED
      BY <1>1, <1>2, <2>2, <3>2, PutIn
  <2> QED
    BY <1>1, <1>4, <2>1, <2>2 DEF Copied
<1> QED
  BY <1>1, <1>3, <1>4, SameRun DEF PhaseOneInv

LEMMA PhaseOneStep ==
  ASSUME FTypeInv, TempInv, PhaseOneInv, FS!Next
  PROVE  PhaseOneInv'
<1>1. CASE FS!Start
  <2>1. num' = 0 /\ DOMAIN present' \subseteq Nat \ {0}
    BY <1>1, TreesAssumption DEF FS!Start
  <2> QED
    BY <2>1 DEF PhaseOneInv, Filtered, Copied
<1>2. CASE FS!NextFile
  <2>1. /\ fpc = "walk" /\ fpc' \in {"walk", "sed"} /\ num' = num + 1
        /\ fpc' = "walk" => present[num + 1] \notin Sources
        /\ UNCHANGED <<present, kind, fruns, dirty, output, source>>
    BY <1>2 DEF FS!NextFile, FS!files
  <2>2. ASSUME NEW n \in DOMAIN present, Candidate(n)
        PROVE  (Filtered(n)' => Filtered(n)) /\ (Copied(n)' => Copied(n))
    <3>1. n # num + 1 \/ fpc' = "sed"
      BY <2>1, <2>2 DEF Candidate, FS!Found, FS!SourcesAt
    <3> QED
      BY <2>1, <2>2, <3>1, FilesAreNumbered DEF Filtered, Copied
  <2> QED
    BY <2>1, <2>2, PhaseOneStays
<1>3. CASE FS!Sed
  BY <1>3, PhaseOneStays DEF FS!Sed, Filtered, Copied
<1>4. CASE FS!Filter
  BY <1>4, PhaseOneFilter
<1>5. CASE FS!Copy
  BY <1>5, PhaseOneCopy
<1>6. CASE FS!Remove
  BY <1>6, PhaseOneStays DEF FS!Remove, Filtered, Copied
<1>7. CASE FS!StartCheck
  BY <1>7, PhaseOneStays DEF FS!StartCheck, FS!files, Filtered, Copied
<1>8. CASE \E e \in todo : FS!Check(e)
  BY <1>8, PhaseOneStays DEF FS!Check, Filtered, Copied
<1>9. CASE FS!Finish
  BY <1>9, PhaseOneStays DEF FS!Finish, FS!files, Filtered, Copied
<1>10. CASE FS!Interrupt
  BY <1>10 DEF FS!Interrupt, PhaseOneInv
<1> QED
  BY <1>1, <1>2, <1>3, <1>4, <1>5, <1>6, <1>7, <1>8, <1>9, <1>10 DEF FS!Next

-----------------------------------------------------------------------------
Distinct(dir) == \A x, y \in dir : x.key = y.key => x = y

LEMMA PutDistinct == ASSUME NEW dir, NEW d, Distinct(dir) PROVE Distinct(FS!Put(dir, d))
<1>1. \A x \in FS!Put(dir, d) : x = d \/ (x \in dir /\ x.key # d.key)
  BY PutIn
<1> QED
  BY <1>1 DEF Distinct

\* Phase 2 writes one file, under the name it has in output/, and leaves the others.
LEMMA PhaseTwoCheck ==
  ASSUME PhaseTwoInv, NEW e \in todo, FS!Check(e)
  PROVE  PhaseTwoInv'
<1> DEFINE d == FS!Result(e, TRUE)
<1>1. /\ fpc = "check" /\ fpc' = fpc /\ todo' = todo \ {e} /\ output' = output /\ fruns' = fruns
      /\ \E k \in FS!Kept(e) : output2' = IF k THEN FS!Put(output2, d) ELSE output2
  BY DEF FS!Check
<1>2. d.key = e.key /\ d.from = e.from /\ d.whole /\ d.run = fruns
  BY DEF FS!Result
<1> HIDE DEF d
<1>3. ASSUME NEW x \in output \ todo', x.whole, x.kind = "double"
      PROVE  \E y \in output2' : y.key = x.key /\ y.from = x.from /\ y.whole /\ y.run = fruns
  <2>1. CASE x = e
    <3>1. FS!Kept(e) = {TRUE}
      BY <1>3, <2>1 DEF FS!Kept
    <3>2. output2' = FS!Put(output2, d)
      BY <1>1, <3>1
    <3> QED
      BY <1>2, <2>1, <3>2, PutIn
  <2>2. CASE x # e
    <3>1. PICK y \in output2 : y.key = x.key /\ y.from = x.from /\ y.whole /\ y.run = fruns
      BY <1>1, <1>3, <2>2 DEF PhaseTwoInv
    <3>2. y.key # d.key
      BY <1>2, <1>3, <2>2, <3>1 DEF PhaseTwoInv
    <3>3. y \in FS!Put(output2, d)
      BY <3>2, PutIn
    <3> QED
      BY <1>1, <3>1, <3>3
  <2> QED
    BY <2>1, <2>2
<1> QED
  BY <1>1, <1>3 DEF PhaseTwoInv

LEMMA PhaseTwoStep == ASSUME PhaseTwoInv, FS!Next PROVE PhaseTwoInv'
<1>1. CASE FS!Start \/ FS!NextFile \/ FS!Sed \/ FS!Copy \/ FS!Remove
  BY <1>1 DEF PhaseTwoInv, FS!Start, FS!NextFile, FS!Sed, FS!Copy, FS!Remove, FS!files
<1>2. CASE FS!Filter
  <2>1. PICK k \in FS!FoundIn(temp2) :
          output' = IF k = "none" THEN output ELSE FS!Put(output, FS!Entry(k, TRUE))
    BY <1>2 DEF FS!Filter
  <2>2. Distinct(output')
    BY <2>1, PutDistinct DEF PhaseTwoInv, Distinct
  <2> QED
    BY <1>2, <2>2 DEF PhaseTwoInv, FS!Filter, Distinct
<1>3. CASE FS!StartCheck
  BY <1>3 DEF PhaseTwoInv, FS!StartCheck, FS!files
<1>4. CASE \E e \in todo : FS!Check(e)
  BY <1>4, PhaseTwoCheck
<1>5. CASE FS!Finish
  BY <1>5 DEF PhaseTwoInv, FS!Finish, FS!files
<1>6. CASE FS!Interrupt
  <2>1. output' = output \/ output' = FS!Put(output, FS!Entry("candidate", FALSE))
    BY <1>6 DEF FS!Interrupt, FS!files
  <2>2. Distinct(output')
    BY <2>1, PutDistinct DEF PhaseTwoInv, Distinct
  <2> QED
    BY <1>6, <2>2 DEF PhaseTwoInv, FS!Interrupt, Distinct
<1> QED
  BY <1>1, <1>2, <1>3, <1>4, <1>5, <1>6 DEF FS!Next

-----------------------------------------------------------------------------
\* What is in the directories stays accounted for while the walk goes on.
LEMMA FreshStays ==
  ASSUME UNCHANGED <<present, kind, fruns, dirty>>,
         \A n \in DOMAIN present : (Filtered(n) => Filtered(n)') /\ (Copied(n) => Copied(n)')
  PROVE  /\ FreshOutput /\ output' = output => FreshOutput'
         /\ FreshSource /\ source' = source => FreshSource'
         /\ FreshOutput2 /\ output2' = output2 => FreshOutput2'
BY SameRun DEF FreshOutput, FreshSource, FreshOutput2

LEMMA FreshFilter ==
  ASSUME FTypeInv, TempInv, ~dirty, FreshOutput, FS!Filter
  PROVE  FreshOutput'
<1>1. PICK k \in FS!FoundIn(temp2) :
        output' = IF k = "none" THEN output ELSE FS!Put(output, FS!Entry(k, TRUE))
  BY DEF FS!Filter
<1>2. /\ fpc = "filter" /\ fpc' = "copy" /\ num' = num
      /\ UNCHANGED <<present, kind, fruns, dirty>>
  BY DEF FS!Filter
<1> DEFINE d == FS!Entry(k, TRUE)
<1>3. num \in FS!SourcesAt /\ k = kind[present[num]] /\ k \in FS!Kinds /\ Own(d, num)
  BY <1>1, <1>2, FindsOwn DEF Spoiled
<1>4. output' = IF k = "none" THEN output ELSE FS!Put(output, d)
  BY <1>1
<1> HIDE DEF d
<1>5. ASSUME NEW x \in output'
      PROVE  \E n \in DOMAIN present : Candidate(n) /\ Filtered(n)' /\ Own(x, n)
  <2>1. CASE x \in output
    BY <1>2, <2>1 DEF FreshOutput, Filtered
  <2>2. CASE x \notin output
    <3>1. x = d /\ k # "none"
      BY <1>4, <1>5, <2>2, PutIn
    <3>2. Candidate(num) /\ num \in DOMAIN present
      BY <1>3, <3>1 DEF Candidate, FS!Found, FS!Kinds, FS!SourcesAt
    <3> QED
      BY <1>2, <1>3, <3>1, <3>2 DEF Filtered
  <2> QED
    BY <2>1, <2>2
<1> QED
  BY <1>2, <1>5, SameRun DEF FreshOutput

LEMMA FreshCopy ==
  ASSUME FreshOutput, FreshSource, FS!Copy
  PROVE  FreshSource'
<1> DEFINE d == [key |-> FS!key, file |-> FS!file, run |-> fruns]
<1>1. /\ fpc = "copy" /\ fpc' = "rm" /\ num' = num
      /\ UNCHANGED <<present, kind, fruns, dirty>>
      /\ source' = IF FS!At(output, FS!key) = {} THEN source ELSE FS!Put(source, d)
  BY DEF FS!Copy
<1>2. FS!key = FS!Key(num) /\ OwnCopy(d, num)
  BY DEF FS!key, FS!file, FS!Key, OwnCopy
<1> HIDE DEF d
<1>3. ASSUME NEW x \in source'
      PROVE  \E n \in DOMAIN present : Candidate(n) /\ Copied(n)' /\ OwnCopy(x, n)
  <2>1. CASE x \in source
    BY <1>1, <2>1 DEF FreshSource, Copied
  <2>2. CASE x \notin source
    <3>1. x = d /\ FS!At(output, FS!key) # {}
      BY <1>1, <1>3, <2>2, PutIn
    <3>2. PICK o \in output : o.key = FS!Key(num)
      BY <1>2, <3>1 DEF FS!At
    <3>3. PICK n \in DOMAIN present : Candidate(n) /\ Own(o, n)
      BY <3>2 DEF FreshOutput
    <3>4. n = num
      BY <3>2, <3>3 DEF Own, FS!Key
    <3> QED
      BY <1>1, <1>2, <3>1, <3>3, <3>4 DEF Copied
  <2> QED
    BY <2>1, <2>2
<1> QED
  BY <1>1, <1>3, SameRun DEF FreshSource

\* What phase 2 keeps of such files are the double fetches among them.
LEMMA FreshCheck ==
  ASSUME FreshOutput, FreshOutput2, todo \subseteq output, NEW e \in todo, FS!Check(e)
  PROVE  FreshOutput2'
<1> DEFINE d == FS!Result(e, TRUE)
<1>1. /\ UNCHANGED <<present, kind, fruns, dirty>>
      /\ \E k \in FS!Kept(e) : output2' = IF k THEN FS!Put(output2, d) ELSE output2
  BY DEF FS!Check
<1>2. d.key = e.key
  BY DEF FS!Result
<1> HIDE DEF d
<1>3. PICK n \in DOMAIN present : Candidate(n) /\ Own(e, n)
  BY DEF FreshOutput
<1>4. FS!Kept(e) = {e.kind = "double"}
  BY <1>3 DEF FS!Kept, Own
<1>5. ASSUME NEW y \in output2'
      PROVE  \E m \in DOMAIN present : FS!Found(m, {"double"}) /\ y.key = FS!Key(m)
  <2>1. CASE y \in output2
    BY <2>1 DEF FreshOutput2
  <2>2. CASE y \notin output2
    <3>1. y = d /\ e.kind = "double"
      <4>1. PICK k \in FS!Kept(e) : output2' = IF k THEN FS!Put(output2, d) ELSE output2
        BY <1>1
      <4>2. k /\ output2' = FS!Put(output2, d)
        BY <1>5, <2>2, <4>1
      <4>3. e.kind = "double"
        BY <1>4, <4>1, <4>2
      <4> QED
        BY <1>5, <2>2, <4>2, <4>3, PutIn
    <3>2. FS!Found(n, {"double"})
      BY <1>3, <3>1 DEF Candidate, FS!Found, Own
    <3> QED
      BY <1>2, <1>3, <3>1, <3>2 DEF Own
  <2> QED
    BY <2>1, <2>2
<1> QED
  BY <1>1, <1>5, SameRun DEF FreshOutput2

LEMMA FreshStep ==
  ASSUME FTypeInv, TempInv, PhaseTwoInv, FreshInv, FS!Next
  PROVE  FreshInv'
<1>1. CASE FS!Start
  <2>1. /\ fruns' = fruns + 1 /\ fruns \in Nat /\ dirty' = (temp2 # <<>>)
        /\ output' = output /\ source' = source /\ output2' = output2
    BY <1>1 DEF FS!Start, FS!files, FTypeInv
  <2>2. fruns' # 0 /\ (fruns' = 1 => fruns = 0)
    BY <2>1
  <2>3. CASE fruns' = 1
    <3>1. temp2 = <<>> /\ output = {} /\ source = {} /\ output2 = {}
      BY <2>2, <2>3 DEF FreshInv
    <3>2. FreshOutput' /\ FreshSource' /\ FreshOutput2'
      BY <2>1, <3>1 DEF FreshOutput, FreshSource, FreshOutput2
    <3> QED
      BY <2>1, <2>2, <3>1, <3>2 DEF FreshInv
  <2> QED
    BY <2>2, <2>3 DEF FreshInv
<1>2. ASSUME ~FS!Start
      PROVE  FreshInv'
  <2>1. UNCHANGED <<present, kind, fruns, dirty>> /\ (fpc # "idle")
    BY <1>2 DEF FS!Next, FS!NextFile, FS!Sed, FS!Filter, FS!Copy, FS!Remove, FS!StartCheck,
                FS!Check, FS!Finish, FS!Interrupt
  <2>2. fruns # 0
    BY <2>1 DEF FreshInv
  <2> SUFFICES ASSUME fruns = 1, fpc' # "idle"
               PROVE  /\ FreshOutput' /\ FreshSource' /\ FreshOutput2'
                      /\ output2' # {} => fpc' \in {"check", "finished"}
    BY <2>1, <2>2 DEF FreshInv
  <2>3. /\ ~dirty /\ FreshOutput /\ FreshSource /\ FreshOutput2
        /\ output2 # {} => fpc \in {"check", "finished"}
    BY <2>1 DEF FreshInv
  <2>4. ~FS!Interrupt
    BY DEF FS!Interrupt
  <2>5. \A n \in DOMAIN present : (Filtered(n) => Filtered(n)') /\ (Copied(n) => Copied(n)')
    <3>1. CASE FS!NextFile
      <4>1. fpc = "walk" /\ num' = num + 1
        BY <3>1 DEF FS!NextFile
      <4>2. DOMAIN present \subseteq Nat \ {0} /\ num \in Nat
        BY FilesAreNumbered
      <4> QED
        BY <4>1, <4>2 DEF Filtered, Copied
    <3>2. CASE ~FS!NextFile
      <4>1. /\ num' = num
            /\ fpc' \in {"sed", "filter"} => fpc \in {"sed", "filter"}
            /\ fpc' \in {"sed", "filter", "copy"} => fpc \in {"sed", "filter", "copy"}
        BY <1>2, <2>4, <3>2
        DEF FS!Next, FS!Sed, FS!Filter, FS!Copy, FS!Remove, FS!StartCheck, FS!Check, FS!Finish
      <4> QED
        BY <4>1 DEF Filtered, Copied
    <3> QED
      BY <3>1, <3>2
  <2>6. FreshOutput'
    <3>1. CASE FS!Filter
      BY <2>3, <3>1, FreshFilter
    <3>2. CASE ~FS!Filter
      <4>1. output' = output
        BY <1>2, <2>4, <3>2 DEF FS!Next, FS!NextFile, FS!Sed, FS!Copy, FS!Remove, FS!StartCheck,
                                FS!Check, FS!Finish, FS!files
      <4> QED
        BY <2>1, <2>3, <2>5, <4>1, FreshStays
    <3> QED
      BY <3>1, <3>2
  <2>7. FreshSource'
    <3>1. CASE FS!Copy
      BY <2>3, <3>1, FreshCopy
    <3>2. CASE ~FS!Copy
      <4>1. source' = source
        BY <1>2, <2>4, <3>2 DEF FS!Next, FS!NextFile, FS!Sed, FS!Filter, FS!Remove, FS!StartCheck,
                                FS!Check, FS!Finish, FS!files
      <4> QED
        BY <2>1, <2>3, <2>5, <4>1, FreshStays
    <3> QED
      BY <3>1, <3>2
  <2>8. FreshOutput2' /\ (output2' # {} => fpc' \in {"check", "finished"})
    <3>1. CASE \E e \in todo : FS!Check(e)
      <4>1. FreshOutput2'
        BY <2>3, <3>1, FreshCheck DEF PhaseTwoInv
      <4> QED
        BY <3>1, <4>1 DEF FS!Check
    <3>2. CASE ~(\E e \in todo : FS!Check(e))
      <4>1. /\ output2' = output2
            /\ fpc \in {"check", "finished"} => fpc' \in {"check", "finished"}
        BY <1>2, <2>4, <3>2 DEF FS!Next, FS!NextFile, FS!Sed, FS!Filter, FS!Copy, FS!Remove,
                                FS!StartCheck, FS!Finish, FS!files
      <4> QED
        BY <2>1, <2>3, <2>5, <4>1, FreshStays
    <3> QED
      BY <3>1, <3>2
  <2> QED
    BY <2>6, <2>7, <2>8
<1> QED
  BY <1>1, <1>2

\* What phase 1 writes is of the file it is at, or the file is the first.
LEMMA SpoiledStep ==
  ASSUME FTypeInv, TempInv, FS!OnlyFirstSpoiled, FS!Next
  PROVE  FS!OnlyFirstSpoiled'
<1>1. CASE FS!Start
  <2>1. output' = output /\ fruns' = fruns + 1
    BY <1>1 DEF FS!Start, FS!files
  <2>2. \A x \in output : x.run # fruns + 1
    BY DEF FTypeInv
  <2> QED
    BY <2>1, <2>2 DEF FS!OnlyFirstSpoiled
<1>2. ASSUME UNCHANGED <<present, kind, fruns, dirty>>, output' = output
      PROVE  FS!OnlyFirstSpoiled'
  BY <1>2, SameRun DEF FS!OnlyFirstSpoiled
<1>3. ASSUME NEW k, NEW w, UNCHANGED <<present, kind, fruns, dirty>>, fpc = "filter",
             output' = FS!Put(output, FS!Entry(k, w))
      PROVE  FS!OnlyFirstSpoiled'
  <2> DEFINE d == FS!Entry(k, w)
  <2>1. /\ d.key = FS!Key(num) /\ d.origin = present[num]
        /\ d.from = {p.file : p \in FS!Range(temp2)}
    BY DEF FS!Entry, FS!key, FS!file, FS!Key
  <2>2. output' = FS!Put(output, d)
    BY <1>3
  <2> HIDE DEF d
  <2>3. num \in FS!SourcesAt /\ (~Spoiled(num) => temp2 = <<Piece>>)
    BY <1>3 DEF FTypeInv, TempInv, Spoiled
  <2>4. ~Spoiled(num) => d.from = {d.origin}
    <3> SUFFICES ASSUME temp2 = <<Piece>>
                 PROVE  d.from = {d.origin}
      BY <2>3
    <3>1. FS!Range(temp2) = {Piece}
      BY DEF FS!Range
    <3>2. Piece.file = present[num]
      BY DEF Piece
    <3> QED
      BY <2>1, <3>1, <3>2
  <2>5. ASSUME NEW x \in output', x.from # {x.origin}, x.run = fruns
        PROVE  dirty /\ \E n \in FS!SourcesAt : FS!First(n) /\ x.key = FS!Key(n)
    <3>1. CASE x \in output
      BY <2>5, <3>1 DEF FS!OnlyFirstSpoiled
    <3>2. CASE x \notin output
      <4>1. x = d
        BY <2>2, <2>5, <3>2, PutIn
      <4> QED
        BY <2>1, <2>3, <2>4, <2>5, <4>1 DEF Spoiled
    <3> QED
      BY <3>1, <3>2
  <2> QED
    BY <1>3, <2>5, SameRun DEF FS!OnlyFirstSpoiled
<1>4. CASE FS!Filter
  <2>1. PICK k \in FS!FoundIn(temp2) :
          output' = IF k = "none" THEN output ELSE FS!Put(output, FS!Entry(k, TRUE))
    BY <1>4 DEF FS!Filter
  <2> QED
    BY <1>2, <1>3, <1>4, <2>1 DEF FS!Filter
<1>5. CASE FS!Interrupt
  <2>1. \/ output' = output
        \/ fpc = "filter" /\ output' = FS!Put(output, FS!Entry("candidate", FALSE))
    BY <1>5 DEF FS!Interrupt, FS!files
  <2> QED
    BY <1>2, <1>3, <1>5, <2>1 DEF FS!Interrupt
<1> QED
  BY <1>1, <1>2, <1>4, <1>5 DEF FS!Next, FS!NextFile, FS!Sed, FS!Copy, FS!Remove, FS!StartCheck,
                                FS!Check, FS!Finish, FS!files

-----------------------------------------------------------------------------
LEMMA FInit == FS!Init => FInv
<1> SUFFICES ASSUME FS!Init
             PROVE  FInv
  OBVIOUS
<1> USE DEF FS!Init
<1>1. FTypeInv
  <2>1. present \in Seq(Files) /\ Len(present) = 0 /\ FS!Range(present) = {}
    BY DEF FS!Range
  <2>2. kind \in [FS!Range(present) \cap Sources -> FS!Kinds]
    BY <2>1
  <2>3. num = 0 /\ fruns = 0
    OBVIOUS
  <2>4. dirty \in BOOLEAN
    BY Zenon
  <2>5. \A x \in output : x.run \in Nat /\ x.run <= fruns
    OBVIOUS
  <2>6. fpc = "idle"
    OBVIOUS
  <2> HIDE DEF FS!Init
  <2> QED
    BY <2>1, <2>2, <2>3, <2>4, <2>5, <2>6 DEF FTypeInv
<1>2. TempInv /\ PhaseOneInv /\ PhaseTwoInv /\ FreshInv /\ FS!OnlyFirstSpoiled
  BY DEF TempInv, PhaseOneInv, PhaseTwoInv, FreshInv, FS!OnlyFirstSpoiled
<1> QED
  BY <1>1, <1>2 DEF FInv

\* A step of the other script leaves all this as it is.
LEMMA FStays ==
  ASSUME FInv, UNCHANGED filterVars
  PROVE  FInv'
<1> USE DEF filterVars, FInv
<1>1. FTypeInv'
  BY DEF FTypeInv, FS!Range, FS!SourcesAt, FS!Kinds
<1>2. TempInv'
  BY DEF TempInv, PastFirst, Piece, FS!First, FS!SourcesAt
<1>3. PhaseOneInv'
  BY SameRun DEF PhaseOneInv, Filtered, Copied
<1>4. PhaseTwoInv'
  BY DEF PhaseTwoInv
<1>5. FreshInv'
  <2>1. /\ FreshOutput => FreshOutput'
        /\ FreshSource => FreshSource'
        /\ FreshOutput2 => FreshOutput2'
    BY FreshStays DEF Filtered, Copied
  <2> QED
    BY <2>1 DEF FreshInv
<1>6. FS!OnlyFirstSpoiled'
  BY SameRun DEF FS!OnlyFirstSpoiled
<1> QED
  BY <1>1, <1>2, <1>3, <1>4, <1>5, <1>6

(***************************************************************************)
(* The invariant of start.sh: what has been done of the walk and of phase  *)
(* 2, and what is behind it in the directories.                            *)
(***************************************************************************)
THEOREM WalkInvariance == ScriptsSpec => []FInv
<1>1. ScriptsInit => FInv
  BY FInit DEF ScriptsInit
<1>2. FInv /\ [ScriptsNext]_allVars => FInv'
  <2> SUFFICES ASSUME FInv, [ScriptsNext]_allVars
               PROVE  FInv'
    OBVIOUS
  <2>1. CASE UNCHANGED filterVars
    BY <2>1, FStays
  <2>2. CASE FS!Next
    BY <2>2, FTypeStep, TempStep, PhaseOneStep, PhaseTwoStep, FreshStep, SpoiledStep DEF FInv
  <2> QED
    BY <2>1, <2>2 DEF ScriptsNext, allVars, filterVars
<1> QED
  BY <1>1, <1>2, PTL DEF ScriptsSpec

LEMMA FreshFollows == FInv => FS!FreshIsExact
<1> SUFFICES ASSUME FInv, fpc = "finished", fruns = 1
             PROVE  FS!FreshIsExact
  BY DEF FS!FreshIsExact
<1> DEFINE cand == {n \in DOMAIN present : FS!Found(n, {"candidate", "double"})}
<1>1. /\ ~dirty /\ FreshOutput /\ FreshSource /\ FreshOutput2 /\ num = Len(present)
      /\ present \in Seq(Files) /\ todo = {}
  BY DEF FInv, FreshInv, FTypeInv, PhaseTwoInv
<1>2. ASSUME NEW n \in cand
      PROVE  /\ \E x \in output : Own(x, n)
             /\ \E x \in source : OwnCopy(x, n)
  <2>1. Candidate(n) /\ ~Spoiled(n) /\ n \in DOMAIN present
    BY <1>1 DEF Candidate, Spoiled
  <2>2. Filtered(n) /\ Copied(n)
    BY <1>1, <2>1 DEF Filtered, Copied
  <2> QED
    BY <2>1, <2>2 DEF FInv, PhaseOneInv
<1>3. ASSUME NEW n \in cand, FS!Found(n, {"double"})
      PROVE  \E y \in output2 : y.key = FS!Key(n)
  <2>1. PICK x \in output : Own(x, n)
    BY <1>2
  <2>2. x.whole /\ x.kind = "double" /\ x.key = FS!Key(n)
    BY <1>3, <2>1 DEF Own, FS!Found
  <2> QED
    BY <1>1, <2>1, <2>2 DEF FInv, PhaseTwoInv
<1>4. {x.key : x \in output} = {FS!Key(n) : n \in cand}
  BY <1>1, <1>2 DEF FreshOutput, Own, Candidate
<1>5. {<<x.key, x.file>> : x \in source} = {<<FS!Key(n), present[n]>> : n \in cand}
  BY <1>1, <1>2 DEF FreshSource, OwnCopy, Candidate
<1>6. {x.key : x \in output2} = {FS!Key(n) : n \in {m \in cand : FS!Found(m, {"double"})}}
  <2>1. \A n \in DOMAIN present : FS!Found(n, {"double"}) => n \in cand
    BY DEF FS!Found
  <2> HIDE DEF cand
  <2> QED
    BY <1>1, <1>3, <2>1 DEF FreshOutput2
<1> QED
  BY <1>4, <1>5, <1>6 DEF FS!FreshIsExact

LEMMA CurrentFollows == FInv => FS!CurrentIsThere
<1> SUFFICES ASSUME FInv, fpc = "finished", NEW n \in DOMAIN present,
                    FS!Found(n, {"candidate", "double"}), ~(dirty /\ FS!First(n))
             PROVE  /\ \E x \in FS!At(output, FS!Key(n)) :
                         x.origin = present[n] /\ x.from = {present[n]} /\ x.whole /\ x.run = fruns
                    /\ \E x \in FS!At(source, FS!Key(n)) : x.file = present[n] /\ x.run = fruns
                    /\ FS!Found(n, {"double"}) =>
                         \E x \in FS!At(output2, FS!Key(n)) :
                           x.from = {present[n]} /\ x.whole /\ x.run = fruns
  BY DEF FS!CurrentIsThere
<1>1. num = Len(present) /\ present \in Seq(Files) /\ todo = {}
  BY DEF FInv, FTypeInv, PhaseTwoInv
<1>2. Filtered(n) /\ Copied(n)
  BY <1>1 DEF Filtered, Copied
<1>3. PICK x \in output : Own(x, n)
  BY <1>2 DEF FInv, PhaseOneInv, Candidate, Spoiled
<1>4. PICK s \in source : OwnCopy(s, n)
  BY <1>2 DEF FInv, PhaseOneInv, Candidate, Spoiled
<1>5. ASSUME FS!Found(n, {"double"})
      PROVE  \E y \in FS!At(output2, FS!Key(n)) : y.from = {present[n]} /\ y.whole /\ y.run = fruns
  <2>1. x.whole /\ x.kind = "double" /\ x.key = FS!Key(n) /\ x.from = {present[n]}
    BY <1>3, <1>5 DEF Own, FS!Found
  <2>2. PICK y \in output2 : y.key = x.key /\ y.from = x.from /\ y.whole /\ y.run = fruns
    BY <1>1, <1>3, <2>1 DEF FInv, PhaseTwoInv
  <2> QED
    BY <2>1, <2>2 DEF FS!At
<1> QED
  BY <1>3, <1>4, <1>5 DEF FS!At, Own, OwnCopy

(***************************************************************************)
(* ResultsAreOwn of start.sh, for any files, trees and runs, interrupted   *)
(* anywhere: a first run leaves exactly its results; what a finished run   *)
(* has found is there, complete and its own, whatever earlier runs left;   *)
(* lines of another file are found under the first file only.              *)
(***************************************************************************)
THEOREM EachRunHasItsResults == ScriptsSpec => []ResultsAreOwn
<1>1. FInv => ResultsAreOwn
  BY FreshFollows, CurrentFollows DEF FInv, ResultsAreOwn
<1> QED
  BY <1>1, WalkInvariance, PTL

\* With start.sh beside it the other script keeps its promise.
THEOREM BothKeepTheirs == ScriptsSpec => [](OutcomeIsExact /\ ResultsAreOwn)
<1>1. ScriptsInit => Init
  BY DEF ScriptsInit
<1>2. [ScriptsNext]_allVars => [Next]_vars
  BY DEF ScriptsNext, allVars
<1>3. ScriptsSpec => Spec
  BY <1>1, <1>2, PTL DEF ScriptsSpec, Spec
<1> QED
  BY <1>3, OutcomeCorrect, EachRunHasItsResults, PTL
=============================================================================
