---------------------------- MODULE CMakeProofs ----------------------------
(***************************************************************************)
(* What the CMake macros guarantee: the verdicts of the test harness, for  *)
(* any tests, any number of them at a time and any output, and the flat    *)
(* list of hashmap(), for any keys and any lists.  The two share no state. *)
(***************************************************************************)
EXTENDS Hashmap, TestHarness, FiniteSetTheorems, SequenceTheorems, TLAPS

---------------------------------------------------------------------------
(* The test harness.                                                       *)

Running(t) == pc[t] \in {"run", "compare"}
RunningTests == {t \in Test : Running(t)}

\* A compare test that has met no other one has /tmp/output.txt to itself: the
\* file is what its program has written.
HasFile(t) ==
    /\ \A u \in Test : UsesFile(u) /\ Running(u) => u = t
    /\ written[t] <= Len(program[t].out)
    /\ Len(file) = written[t] /\ \A j \in 1..written[t] : file[j] = program[t].out[j]
    /\ pc[t] = "compare" => written[t] = Len(program[t].out)

\* A test that has not been started has written nothing, and only a compare
\* test whose program succeeded is compared.
Order ==
    /\ \A t \in Test : pc[t] = "todo" => written[t] = 0
    /\ \A t \in Test : pc[t] = "compare" => UsesFile(t) /\ program[t].exit = 0

FileIsOwn == \A t \in Test \ disturbed : UsesFile(t) /\ Running(t) => HasFile(t)

TestsIInv == TypeOK /\ Order /\ FileIsOwn /\ VerdictsRight

\* Programs and their output.
LEMMA ProgramFacts ==
  ASSUME TypeOK, NEW t \in Test
  PROVE  /\ program[t].exit \in {0, 1} /\ program[t].found \in BOOLEAN
         /\ program[t].out \in Seq(Block) /\ Len(program[t].out) \in 0..MaxOut
<1>1. program[t] \in Programs
  BY DEF TypeOK
<1>2. PICK len \in 0..MaxOut : program[t].out \in [1..len -> Block]
  BY <1>1 DEF Programs
<1>3. len \in Nat
  BY <1>2, HarnessAssumption
<1>4. program[t].out \in Seq(Block)
  BY <1>2, <1>3, SeqDef
<1>5. Len(program[t].out) = len
  BY <1>2, <1>3, <1>4, LenProperties
<1> QED BY <1>1, <1>2, <1>4, <1>5 DEF Programs

\* The tests before any is started.
LEMMA TestsInit == TestInit => TestsIInv
<1> SUFFICES ASSUME TestInit PROVE TestsIInv
  OBVIOUS
<1>1. file \in Seq(Block \cup {NoBlock})
  BY EmptySeq DEF TestInit
<1>2. RunningTests = {}
  BY DEF TestInit, RunningTests, Running
<1>3. Cardinality(RunningTests) = 0
  BY <1>2, FS_EmptySet
<1>4. TypeOK
  <2>1. 0 \in 0..MaxOut /\ 0 <= Jobs
    BY HarnessAssumption
  <2>2. Cardinality({t \in Test : pc[t] \in {"run", "compare"}}) <= Jobs
    BY <1>3, <2>1 DEF RunningTests, Running
  <2>3. driver \in Driver /\ program \in [Test -> Programs]
    BY DEF TestInit
  <2> QED BY <1>1, <2>1, <2>2, <2>3 DEF TestInit, TypeOK, Verdicts
<1> QED BY <1>4 DEF TestInit, TestsIInv, Order, FileIsOwn, Running, VerdictsRight

\* Any of the tests that run.
LEMMA RunningFinite == IsFiniteSet(RunningTests)
<1>1. RunningTests \subseteq Test
  BY DEF RunningTests
<1>2. IsFiniteSet(Test)
  BY HarnessAssumption
<1> QED BY <1>1, <1>2, FS_Subset

\* How many run after a start.
LEMMA Started ==
  ASSUME TypeOK, NEW t \in Test, pc[t] = "todo", pc' = [pc EXCEPT ![t] = "run"],
         Cardinality(RunningTests) < Jobs
  PROVE  Cardinality(RunningTests') <= Jobs
<1>1. RunningTests' = RunningTests \cup {t} /\ t \notin RunningTests
  BY DEF RunningTests, Running, TypeOK
<1>2. IsFiniteSet(RunningTests)
  BY RunningFinite
<1>3. Cardinality(RunningTests') = Cardinality(RunningTests) + 1 /\ Cardinality(RunningTests) \in Nat
  BY <1>1, <1>2, FS_AddElement, FS_CardinalityType
<1> QED BY <1>3, HarnessAssumption

\* How many run after any other step.
LEMMA NotStarted ==
  ASSUME TypeOK, \A t \in Test : Running(t)' => Running(t)
  PROVE  Cardinality(RunningTests') <= Jobs
<1>1. RunningTests' \subseteq RunningTests
  BY DEF RunningTests
<1>2. IsFiniteSet(RunningTests) /\ Cardinality(RunningTests) <= Jobs
  BY RunningFinite DEF RunningTests, Running, TypeOK
<1>3. Cardinality(RunningTests') <= Cardinality(RunningTests) /\ Cardinality(RunningTests) \in Nat /\ Cardinality(RunningTests') \in Nat
  BY <1>1, <1>2, FS_Subset, FS_CardinalityType
<1> QED BY <1>2, <1>3, HarnessAssumption

\* A test ends and has its verdict.
LEMMA FinishTypes ==
  ASSUME TypeOK, NEW t \in Test, NEW good, Finish(t, good)
  PROVE  /\ pc' \in [Test -> {"todo", "run", "compare", "done"}] /\ verdict' \in [Test -> Verdicts]
         /\ pc'[t] = "done" /\ verdict'[t] = (IF good THEN "pass" ELSE "fail")
         /\ \A u \in Test \ {t} : pc'[u] = pc[u] /\ verdict'[u] = verdict[u]
BY DEF TypeOK, Finish, Verdicts

\* What a test's steps have in common: a test starts, writes, ends, or is
\* compared once it has run.
LEMMA ExitOrCompare ==
  ASSUME TypeOK, Order, NEW t \in Test, Exit(t) \/ ExitNotStarted(t) \/ Compare(t)
  PROVE  /\ UNCHANGED <<driver, program, written, file, disturbed>>
         /\ Running(t)
         /\ pc' \in [Test -> {"todo", "run", "compare", "done"}] /\ verdict' \in [Test -> Verdicts]
         /\ \A u \in Test \ {t} : pc'[u] = pc[u] /\ verdict'[u] = verdict[u]
         /\ \/ pc'[t] = "done" /\ Finish(t, verdict'[t] = "pass")
            \/ /\ pc[t] = "run" /\ pc'[t] = "compare" /\ UsesFile(t) /\ verdict'[t] = verdict[t]
               /\ program[t].exit = 0 /\ written[t] = Len(program[t].out)
<1>1. /\ UNCHANGED <<driver, program, written, file, disturbed>>
      /\ Running(t)
  BY DEF Exit, ExitNotStarted, Compare, tests, Running
<1>2. ASSUME NEW good, Finish(t, good)
      PROVE  /\ pc' \in [Test -> {"todo", "run", "compare", "done"}] /\ verdict' \in [Test -> Verdicts]
             /\ \A u \in Test \ {t} : pc'[u] = pc[u] /\ verdict'[u] = verdict[u]
             /\ pc'[t] = "done" /\ Finish(t, verdict'[t] = "pass")
  BY <1>2, FinishTypes DEF Finish
<1>3. CASE \E good : Finish(t, good)
  BY <1>1, <1>2, <1>3
<1>4. CASE /\ pc[t] = "run" /\ Kind[t] = "compare" /\ ~NameHasQuotes(t)
           /\ program[t].exit = 0 /\ written[t] = Len(program[t].out)
           /\ pc' = [pc EXCEPT ![t] = "compare"] /\ UNCHANGED verdict
  BY <1>1, <1>4 DEF TypeOK, UsesFile
<1> QED BY <1>3, <1>4 DEF Exit, ExitNotStarted, Compare

\* A write at the end of the file appends to it.
LEMMA Written ==
  ASSUME NEW S, NEW f \in Seq(S), NEW b \in S, NEW j \in Nat \ {0}
  PROVE  /\ WriteAt(f, j, b) \in Seq(S \cup {NoBlock})
         /\ Len(f) = j - 1 =>
              /\ Len(WriteAt(f, j, b)) = j /\ WriteAt(f, j, b)[j] = b
              /\ \A l \in 1..(j - 1) : WriteAt(f, j, b)[l] = f[l]
<1> DEFINE len == IF j > Len(f) THEN j ELSE Len(f)
           g == WriteAt(f, j, b)
<1>1. Len(f) \in Nat /\ len \in Nat /\ \A l \in 1..Len(f) : f[l] \in S
  BY LenProperties, ElementOfSeq
<1>2. g = [l \in 1..len |-> IF l = j THEN b ELSE IF l <= Len(f) THEN f[l] ELSE NoBlock]
  BY DEF WriteAt
<1>3. \A l \in 1..len : g[l] \in S \cup {NoBlock}
  BY <1>1, <1>2
<1>4. g \in [1..len -> S \cup {NoBlock}]
  BY <1>2, <1>3
<1> HIDE DEF len, g
<1>5. g \in Seq(S \cup {NoBlock}) /\ Len(g) = len
  BY <1>1, <1>4, SeqDef, LenProperties
<1>6. ASSUME Len(f) = j - 1
      PROVE  Len(g) = j /\ g[j] = b /\ \A l \in 1..(j - 1) : g[l] = f[l]
  <2>1. len = j
    BY <1>1, <1>6 DEF len
  <2> QED BY <1>2, <1>5, <1>6, <2>1
<1> QED BY <1>5, <1>6 DEF g

\* Start: the file is emptied, and compare tests that meet are disturbed.
LEMMA StartStep ==
  ASSUME TestsIInv, NEW t \in Test, Start(t)
  PROVE  TestsIInv'
<1> USE DEF TestsIInv
<1>1. /\ pc[t] = "todo" /\ pc' = [pc EXCEPT ![t] = "run"] /\ written[t] = 0
      /\ UNCHANGED <<driver, program, written, verdict>>
      /\ Cardinality(RunningTests) < Jobs
  BY DEF Start, tests, Order, RunningTests, Running
<1>2. \A u \in Test \ {t} : pc'[u] = pc[u]
  BY <1>1 DEF TypeOK
<1>3. pc'[t] = "run"
  BY <1>1 DEF TypeOK
<1>4. file' \in Seq(Block \cup {NoBlock}) /\ disturbed' \subseteq Test /\ disturbed \subseteq disturbed'
  <2>1. <<>> \in Seq(Block \cup {NoBlock})
    BY EmptySeq
  <2> QED BY <2>1 DEF TypeOK, Start, OpenOutput
<1>5. TypeOK'
  <2>1. Cardinality(RunningTests') <= Jobs
    BY <1>1, Started
  <2>2. pc' \in [Test -> {"todo", "run", "compare", "done"}]
    BY <1>1 DEF TypeOK
  <2>3. Cardinality({u \in Test : pc'[u] \in {"run", "compare"}}) <= Jobs
    BY <2>1 DEF RunningTests, Running
  <2> QED BY <1>1, <1>4, <2>2, <2>3 DEF TypeOK, Programs
<1>6. \A u \in Test : UsesFile(u)' <=> UsesFile(u)
  BY <1>1 DEF UsesFile, NameHasQuotes
<1>7. Order'
  BY <1>1, <1>2, <1>3, <1>6 DEF Order
<1>8. FileIsOwn'
  <2> SUFFICES ASSUME NEW u \in Test \ disturbed', UsesFile(u)', Running(u)' PROVE HasFile(u)'
    BY DEF FileIsOwn
  <2>1. UsesFile(u) /\ u \notin disturbed
    BY <1>4, <1>6
  <2>2. CASE ~UsesFile(t)
    <3>1. u # t /\ UNCHANGED <<file, disturbed>>
      BY <2>1, <2>2 DEF Start, OpenOutput
    <3>2. HasFile(u)
      BY <1>2, <2>1, <3>1 DEF FileIsOwn, Running
    <3> QED BY <1>1, <1>2, <1>6, <2>2, <3>1, <3>2 DEF HasFile, Running
  <2>3. CASE UsesFile(t)
    <3> DEFINE others == {v \in Test : pc[v] \in {"run", "compare"} /\ UsesFile(v)}
    <3>1. file' = <<>> /\ disturbed' = IF others = {} THEN disturbed ELSE disturbed \cup others \cup {t}
      BY <2>3 DEF Start, OpenOutput
    <3>2. others = {}
      <4>1. u = t \/ u \in others
        BY <1>2, <2>1 DEF Running
      <4> QED BY <3>1, <4>1
    <3>3. u = t
      BY <1>2, <2>1, <3>2 DEF Running
    <3>4. \A v \in Test : UsesFile(v)' /\ Running(v)' => v = u
      BY <1>2, <1>6, <3>2, <3>3 DEF Running
    <3>5. Len(file') = 0 /\ written'[u] = 0 /\ Len(program'[u].out) \in Nat
      BY <1>1, <3>1, <3>3, EmptySeq, ProgramFacts, HarnessAssumption
    <3> QED BY <1>3, <3>3, <3>4, <3>5 DEF HasFile
  <2> QED BY <2>2, <2>3
<1>9. VerdictsRight'
  <2> SUFFICES ASSUME NEW u \in Test \ disturbed', pc'[u] = "done"
               PROVE  /\ Passed(u)' => Succeeds(u)'
                      /\ Succeeds(u)' /\ StartedRight(u)' => Passed(u)'
    BY DEF VerdictsRight
  <2>1. u # t /\ pc[u] = "done" /\ u \notin disturbed
    BY <1>2, <1>3, <1>4
  <2> QED BY <1>1, <2>1 DEF VerdictsRight, Passed, Succeeds, StartedRight,
                            NameHasQuotes, PassesMatchMode
<1> QED BY <1>5, <1>7, <1>8, <1>9

\* Write: the test that has the file to itself appends to it.
LEMMA WriteStep ==
  ASSUME TestsIInv, NEW t \in Test, Write(t)
  PROVE  TestsIInv'
<1> USE DEF TestsIInv
<1> DEFINE j == written[t] + 1
           b == program[t].out[j]
<1>1. /\ pc[t] = "run" /\ UsesFile(t) /\ written[t] < Len(program[t].out)
      /\ written' = [written EXCEPT ![t] = j] /\ file' = WriteAt(file, j, b)
      /\ UNCHANGED <<driver, program, pc, verdict, disturbed>>
  BY DEF Write, tests
<1>2. /\ program[t].out \in Seq(Block) /\ Len(program[t].out) \in 0..MaxOut /\ MaxOut \in Nat
      /\ written[t] \in 0..MaxOut
  BY ProgramFacts, HarnessAssumption DEF TypeOK
<1>3. j \in Nat \ {0} /\ j \in 1..Len(program[t].out) /\ j \in 0..MaxOut
  BY <1>1, <1>2
<1>4. b \in Block
  BY <1>2, <1>3, ElementOfSeq
<1>5. /\ file' \in Seq(Block \cup {NoBlock})
      /\ Len(file) = j - 1 => Len(file') = j /\ file'[j] = b /\ \A l \in 1..(j - 1) : file'[l] = file[l]
  <2> DEFINE S == Block \cup {NoBlock}
  <2>1. file \in Seq(S) /\ b \in S
    BY <1>4 DEF TypeOK
  <2>2. S \cup {NoBlock} = S
    OBVIOUS
  <2> HIDE DEF S, j, b
  <2>3. /\ WriteAt(file, j, b) \in Seq(S \cup {NoBlock})
        /\ Len(file) = j - 1 =>
              /\ Len(WriteAt(file, j, b)) = j /\ WriteAt(file, j, b)[j] = b
              /\ \A l \in 1..(j - 1) : WriteAt(file, j, b)[l] = file[l]
    BY <1>3, <2>1, Written
  <2>4. file' = WriteAt(file, j, b) /\ file' \in Seq(S)
    BY <1>1, <2>2, <2>3
  <2> QED BY <2>3, <2>4 DEF S
<1>6. /\ written' \in [Test -> 0..MaxOut] /\ written'[t] = j
      /\ \A u \in Test \ {t} : written'[u] = written[u]
  BY <1>1, <1>3 DEF TypeOK
<1>7. TypeOK'
  BY <1>1, <1>5, <1>6 DEF TypeOK
<1>8. \A u \in Test : (UsesFile(u)' <=> UsesFile(u)) /\ (Running(u)' <=> Running(u))
  BY <1>1 DEF UsesFile, NameHasQuotes, Running
<1>9. Order'
  BY <1>1, <1>6, <1>8 DEF Order
<1>10. FileIsOwn'
  <2> SUFFICES ASSUME NEW u \in Test \ disturbed', UsesFile(u)', Running(u)' PROVE HasFile(u)'
    BY DEF FileIsOwn
  <2>1. HasFile(u)
    BY <1>1, <1>8 DEF FileIsOwn
  <2>2. u = t
    BY <1>1, <2>1 DEF HasFile, Running
  <2>3. Len(file) = j - 1 /\ \A l \in 1..(j - 1) : file[l] = program[t].out[l]
    BY <1>2, <2>1, <2>2 DEF HasFile
  <2>4. Len(file') = j /\ \A l \in 1..j : file'[l] = program[t].out[l]
    BY <1>3, <1>5, <2>3
  <2>5. \A v \in Test : UsesFile(v)' /\ Running(v)' => v = u
    BY <1>8, <2>1 DEF HasFile
  <2>6. program'[u].out = program[t].out /\ pc'[u] = "run" /\ written'[u] = j /\ j <= Len(program[t].out)
    BY <1>1, <1>3, <1>6, <2>2
  <2> QED BY <2>4, <2>5, <2>6 DEF HasFile
<1>11. VerdictsRight'
  BY <1>1 DEF VerdictsRight, Passed, Succeeds, StartedRight,
              NameHasQuotes, PassesMatchMode
<1> QED BY <1>7, <1>9, <1>10, <1>11

\* The verdict of a test that ends: no test passes that should not, and one
\* whose script was started with what it reads passes if it should.
LEMMA VerdictOf ==
  ASSUME TestsIInv, NEW t \in Test, t \notin disturbed, NEW good \in BOOLEAN,
         Exit(t) \/ ExitNotStarted(t) \/ Compare(t), Finish(t, good)
  PROVE  (good => Succeeds(t)) /\ (Succeeds(t) /\ StartedRight(t) => good)
<1> USE DEF TestsIInv
<1>1. verdict'[t] = (IF good THEN "pass" ELSE "fail") /\ pc'[t] = "done"
  BY FinishTypes
<1>2. Kind[t] \in {"simple", "complex", "regex", "compare"} /\ (t \in ExpectFail => Kind[t] = "complex")
      /\ program[t].exit \in {0, 1} /\ driver \in {"ctest", "check"}
  BY ProgramFacts, HarnessAssumption DEF TypeOK
<1>3. ASSUME NEW g, Finish(t, g) PROVE good <=> g
  BY <1>1, <1>3, FinishTypes
<1>4. CASE ExitNotStarted(t)
  <2>1. good <=> FALSE
    BY <1>3, <1>4 DEF ExitNotStarted
  <2> QED BY <1>4, <2>1 DEF ExitNotStarted, StartedRight
<1>5. CASE Compare(t)
  <2>1. good <=> file = Expected[t]
    BY <1>3, <1>5 DEF Compare
  <2>2. UsesFile(t) /\ program[t].exit = 0 /\ HasFile(t) /\ pc[t] = "compare"
    BY <1>5 DEF Compare, Order, FileIsOwn, Running
  <2>3. file = program[t].out
    <3>1. file \in Seq(Block \cup {NoBlock}) /\ program[t].out \in Seq(Block)
      BY ProgramFacts DEF TypeOK
    <3>2. Len(file) = Len(program[t].out) /\ \A l \in 1..Len(file) : file[l] = program[t].out[l]
      BY <2>2 DEF HasFile
    <3> QED BY <3>1, <3>2, SeqEqual
  <2> QED BY <2>1, <2>2, <2>3 DEF UsesFile, Succeeds
<1>6. CASE Exit(t)
  <2>1. pc'[t] = "done" /\ ~NameHasQuotes(t)
    BY <1>1, <1>6 DEF Exit
  <2>2. CASE Kind[t] \in {"simple", "complex"} /\ Finish(t, RunVerdict(t))
    <3>1. good <=> RunVerdict(t)
      BY <1>3, <2>2
    <3>2. t \in ExpectFail => driver = "check"
      BY <1>2, <2>1 DEF NameHasQuotes
    <3> QED BY <1>2, <2>2, <3>1, <3>2 DEF RunVerdict, PassesExpectFail, Succeeds
  <2>3. CASE Kind[t] = "regex" /\ Finish(t, MatchVerdict(t))
    <3>1. good <=> MatchVerdict(t)
      BY <1>3, <2>3
    <3> QED BY <2>3, <3>1 DEF MatchVerdict, Succeeds, StartedRight
  <2>4. CASE Kind[t] = "compare" /\ program[t].exit # 0 /\ Finish(t, FALSE)
    <3>1. good <=> FALSE
      BY <1>3, <2>4
    <3> QED BY <2>4, <3>1 DEF Succeeds
  <2>5. ~(pc' = [pc EXCEPT ![t] = "compare"])
    BY <2>1 DEF TypeOK
  <2> QED BY <1>6, <2>2, <2>3, <2>4, <2>5 DEF Exit
<1> QED BY <1>4, <1>5, <1>6

\* Exit, ExitNotStarted and Compare.
LEMMA EndStep ==
  ASSUME TestsIInv, NEW t \in Test,
         Exit(t) \/ ExitNotStarted(t) \/ Compare(t)
  PROVE  TestsIInv'
<1> USE DEF TestsIInv
<1>1. /\ UNCHANGED <<driver, program, written, file, disturbed>> /\ Running(t)
      /\ pc' \in [Test -> {"todo", "run", "compare", "done"}] /\ verdict' \in [Test -> Verdicts]
      /\ \A u \in Test \ {t} : pc'[u] = pc[u] /\ verdict'[u] = verdict[u]
  BY ExitOrCompare
<1>2. \/ pc'[t] = "done" /\ Finish(t, verdict'[t] = "pass")
      \/ /\ pc[t] = "run" /\ pc'[t] = "compare" /\ UsesFile(t) /\ verdict'[t] = verdict[t]
         /\ program[t].exit = 0 /\ written[t] = Len(program[t].out)
  BY ExitOrCompare
<1>3. \A u \in Test : (UsesFile(u)' <=> UsesFile(u)) /\ (Running(u)' => Running(u))
  BY <1>1 DEF UsesFile, NameHasQuotes, Running
<1>4. TypeOK'
  <2>1. Cardinality(RunningTests') <= Jobs
    BY <1>3, NotStarted
  <2>2. Cardinality({u \in Test : pc'[u] \in {"run", "compare"}}) <= Jobs
    BY <2>1 DEF RunningTests, Running
  <2> QED BY <1>1, <2>2 DEF TypeOK
<1>5. Order'
  BY <1>1, <1>2, <1>3 DEF Order
<1>6. FileIsOwn'
  <2> SUFFICES ASSUME NEW u \in Test \ disturbed', UsesFile(u)', Running(u)' PROVE HasFile(u)'
    BY DEF FileIsOwn
  <2>1. HasFile(u)
    BY <1>1, <1>3 DEF FileIsOwn
  <2>2. pc'[u] = "compare" => written[u] = Len(program[u].out)
    BY <1>1, <1>2, <2>1 DEF HasFile
  <2> QED BY <1>1, <1>3, <2>1, <2>2 DEF HasFile
<1>7. VerdictsRight'
  <2> SUFFICES ASSUME NEW u \in Test \ disturbed', pc'[u] = "done"
               PROVE  /\ Passed(u)' => Succeeds(u)'
                      /\ Succeeds(u)' /\ StartedRight(u)' => Passed(u)'
    BY DEF VerdictsRight
  <2>1. /\ (Succeeds(u)' <=> Succeeds(u)) /\ (StartedRight(u)' <=> StartedRight(u))
        /\ u \notin disturbed
    BY <1>1 DEF Succeeds, StartedRight, NameHasQuotes, PassesMatchMode
  <2>2. CASE u # t
    BY <1>1, <2>1, <2>2 DEF VerdictsRight, Passed
  <2>3. CASE u = t
    <3>1. Finish(t, verdict'[t] = "pass")
      BY <1>2, <2>3
    <3>2. (verdict'[t] = "pass") \in BOOLEAN
      OBVIOUS
    <3> QED BY <2>1, <2>3, <3>1, <3>2, VerdictOf DEF Passed
  <2> QED BY <2>2, <2>3
<1> QED BY <1>4, <1>5, <1>6, <1>7

\* Every step of the driver or of a test.
LEMMA TestsStep == TestsIInv /\ [TestNext]_testVars => TestsIInv'
<1> SUFFICES ASSUME TestsIInv, [TestNext]_testVars PROVE TestsIInv'
  OBVIOUS
<1>1. CASE UNCHANGED testVars
  <2>1. UNCHANGED <<driver, program, pc, written, file, verdict, disturbed>>
    BY <1>1 DEF testVars, tests
  <2>2. TypeOK' /\ Order' /\ FileIsOwn'
    BY <2>1 DEF TestsIInv, TypeOK, Order, FileIsOwn, HasFile, Running, UsesFile, NameHasQuotes
  <2>3. VerdictsRight'
    BY <2>1 DEF TestsIInv, VerdictsRight, Passed, Succeeds, StartedRight,
                NameHasQuotes, PassesMatchMode
  <2> QED BY <2>2, <2>3 DEF TestsIInv
<1>2. CASE \E t \in Test : Start(t) \/ Write(t) \/ Exit(t) \/ ExitNotStarted(t) \/ Compare(t)
  BY <1>2, StartStep, WriteStep, EndStep
<1> QED BY <1>1, <1>2 DEF TestNext

\* So it always holds.
LEMMA TestsAlways == TestSpec => []TestsIInv
<1>1. TestInit => TestsIInv
  BY TestsInit
<1>2. TestsIInv /\ [TestNext]_testVars => TestsIInv'
  BY TestsStep
<1> QED BY <1>1, <1>2, PTL DEF TestSpec

\* No more tests run than the driver was asked to run at a time, and every
\* variable of the harness has its type, whatever the programs write.
THEOREM TestsTyped == TestSpec => []TypeOK
<1>1. TestsIInv => TypeOK
  BY DEF TestsIInv
<1> QED BY <1>1, TestsAlways, PTL

\* With any number of tests, run any number at a time by either driver, a test
\* that has not shared /tmp/output.txt passes only if its program did what the
\* test is documented to look for, and does pass then if its script was started
\* with what it reads.
THEOREM VerdictsAreRight == TestSpec => []VerdictsRight
<1>1. TestsIInv => VerdictsRight
  BY DEF TestsIInv
<1> QED BY <1>1, TestsAlways, PTL

---------------------------------------------------------------------------
(* The walk over a list of hashmap().                                      *)

\* What a list has, and what an index of the walk leads to.
Cell == Key \cup {Default} \cup Elem \cup Nat

Goes(m, i) == i < Len(m) /\ LengthAt(m, i) \in Nat /\ NextAt(m, i) <= Len(m)

FromStep(m, f) == [i \in 1..Len(m) |-> IF Goes(m, i) THEN {i} \cup f[NextAt(m, i)] ELSE {i}]

\* The indexes from the one given on: the function inside Walk.
From(m) == CHOOSE f : f = FromStep(m, f)

\* The next index lies behind, in the list.
LEMMA GoesOn ==
  ASSUME NEW m \in Seq(Cell), NEW i \in 1..Len(m), Goes(m, i)
  PROVE  NextAt(m, i) \in (i + 1)..Len(m)
BY LenProperties DEF Goes, NextAt

\* A set of numbers has a least one.
LEMMA LeastNumber ==
  ASSUME NEW T \in SUBSET Nat, T # {}
  PROVE  \E x \in T : \A y \in T : x <= y
<1>1. PICK x \in T : \A y \in T : ~ (<<y, x>> \in OpToRel(<, Nat))
  BY WFMin, NatLessThanWellFounded
<1>2. ASSUME NEW y \in T PROVE x <= y
  <2>1. <<y, x>> \notin {ss \in Nat \X Nat : ss[1] < ss[2]}
    BY <1>1 DEF OpToRel
  <2> QED BY <2>1
<1> QED BY <1>2

\* There is such a function: it can be given at the last index, and then at one
\* index before the other.
LEMMA FromExists ==
  ASSUME NEW m \in Seq(Cell)
  PROVE  \E f : f = FromStep(m, f)
<1> DEFINE RightFrom(f, lo) ==
             \A i \in lo..Len(m) : f[i] = IF Goes(m, i) THEN {i} \cup f[NextAt(m, i)] ELSE {i}
           Given(d) == \E f : f \in [1..Len(m) -> SUBSET Int] /\ RightFrom(f, Len(m) + 1 - d)
           bad == {d \in 0..Len(m) : ~Given(d)}
<1>1. Len(m) \in Nat
  BY LenProperties
<1>2. bad = {}
  <2> SUFFICES ASSUME bad # {} PROVE FALSE
    OBVIOUS
  <2>1. PICK d \in bad : \A e \in bad : d <= e
    <3>1. bad \in SUBSET Nat
      BY <1>1
    <3> HIDE DEF bad
    <3> QED BY <3>1, LeastNumber
  <2>2. d \in 0..Len(m) /\ ~Given(d)
    OBVIOUS
  <2>3. d # 0
    <3> SUFFICES Given(0)
      BY <2>2
    <3>1. [i \in 1..Len(m) |-> {}] \in [1..Len(m) -> SUBSET Int]
      OBVIOUS
    <3>2. \A i \in (Len(m) + 1 - 0)..Len(m) : FALSE
      BY <1>1
    <3> QED BY <3>1, <3>2
  <2>4. d - 1 \in 0..Len(m) /\ Given(d - 1)
    <3>1. d - 1 \in 0..Len(m) /\ ~(d <= d - 1)
      BY <1>1, <2>2, <2>3
    <3> QED BY <2>1, <3>1
  <2> DEFINE lo == Len(m) + 1 - d
  <2>5. lo \in 1..Len(m) /\ lo + 1 = Len(m) + 1 - (d - 1)
    BY <1>1, <2>2, <2>3
  <2>6. PICK f : f \in [1..Len(m) -> SUBSET Int] /\ RightFrom(f, lo + 1)
    BY <2>4, <2>5
  <2> HIDE DEF lo
  <2> DEFINE v == IF Goes(m, lo) THEN {lo} \cup f[NextAt(m, lo)] ELSE {lo}
             g == [f EXCEPT ![lo] = v]
  <2>7. v \in SUBSET Int
    BY <2>5, <2>6, GoesOn
  <2>8. g \in [1..Len(m) -> SUBSET Int] /\ g[lo] = v /\ \A i \in (lo + 1)..Len(m) : g[i] = f[i]
    BY <1>1, <2>5, <2>6, <2>7
  <2>9. ASSUME NEW i \in lo..Len(m)
        PROVE  g[i] = IF Goes(m, i) THEN {i} \cup g[NextAt(m, i)] ELSE {i}
    <3> HIDE DEF g
    <3>1. i \in 1..Len(m) /\ (Goes(m, i) => NextAt(m, i) \in (lo + 1)..Len(m))
      BY <1>1, <2>5, GoesOn
    <3>2. Goes(m, i) => g[NextAt(m, i)] = f[NextAt(m, i)]
      BY <2>8, <3>1
    <3>3. CASE i = lo
      BY <2>8, <3>2, <3>3
    <3>4. CASE i # lo
      <4>1. i \in (lo + 1)..Len(m)
        BY <1>1, <2>5, <3>4
      <4> QED BY <2>6, <2>8, <3>2, <4>1
    <3> QED BY <3>3, <3>4
  <2>10. Given(d)
    <3> HIDE DEF g
    <3> QED BY <2>8, <2>9 DEF lo
  <2> QED BY <2>2, <2>10
<1>3. Given(Len(m))
  <2> HIDE DEF Given
  <2>1. Len(m) \in 0..Len(m)
    BY <1>1
  <2> QED BY <1>2, <2>1
<1>4. PICK f : f \in [1..Len(m) -> SUBSET Int] /\ RightFrom(f, Len(m) + 1 - Len(m))
  BY <1>3
<1>5. \A i \in 1..Len(m) : f[i] = IF Goes(m, i) THEN {i} \cup f[NextAt(m, i)] ELSE {i}
  BY <1>1, <1>4
<1>6. f = FromStep(m, f)
  BY <1>4, <1>5 DEF FromStep
<1> QED BY <1>6

\* So it is as its definition says.
LEMMA FromIs ==
  ASSUME NEW m \in Seq(Cell)
  PROVE  /\ \A i \in 1..Len(m) : From(m)[i] = IF Goes(m, i) THEN {i} \cup From(m)[NextAt(m, i)] ELSE {i}
         /\ Walk(m) = IF m = <<>> THEN {} ELSE From(m)[1]
<1>1. From(m) = FromStep(m, From(m))
  BY FromExists DEF From
<1>2. Walk(m) = IF m = <<>> THEN {} ELSE From(m)[1]
  BY DEF Walk, From, FromStep, Goes
<1> QED BY <1>1, <1>2 DEF FromStep

---------------------------------------------------------------------------
(* Lists that are maps.                                                    *)

\* The list m is n entries one behind the other, which begin at the indexes
\* p[1], ..., p[n]; p[n + 1] is the first index behind the list.
IsPath(m, n, p) ==
    /\ n \in Nat /\ p \in [1..(n + 1) -> Nat] /\ p[1] = 1 /\ p[n + 1] = Len(m) + 1
    /\ \A j \in 1..n : EntryAt(m, p[j]) /\ KeyAt(m, p[j]) \in Key /\ p[j + 1] = NextAt(m, p[j])
    /\ \A i, j \in 1..(n + 1) : i < j => p[i] < p[j]
    /\ \A i, j \in 1..n : KeyAt(m, p[i]) = KeyAt(m, p[j]) => i = j

\* Where an entry begins.
LEMMA PathFacts ==
  ASSUME NEW m \in Seq(Cell), NEW n, NEW p, IsPath(m, n, p), NEW j \in 1..n
  PROVE  /\ p[j] \in 1..Len(m) /\ j + 1 \in 1..(n + 1) /\ j \in 1..(n + 1)
         /\ LengthAt(m, p[j]) \in Nat /\ NextAt(m, p[j]) = p[j + 1] /\ p[j + 1] \in Nat
         /\ Goes(m, p[j]) <=> j # n
<1>1. n \in Nat /\ Len(m) \in Nat /\ j \in 1..(n + 1) /\ j + 1 \in 1..(n + 1) /\ 1 \in 1..(n + 1) /\ n + 1 \in 1..(n + 1)
  BY LenProperties DEF IsPath
<1>2. p[j] \in Nat /\ p[j + 1] \in Nat /\ NextAt(m, p[j]) = p[j + 1]
  BY <1>1 DEF IsPath
<1>3. 1 <= p[j]
  BY <1>1, <1>2 DEF IsPath
<1>4. p[j] < Len(m) + 1
  BY <1>1 DEF IsPath
<1>5. LengthAt(m, p[j]) \in Nat /\ p[j] < Len(m)
  BY <1>1, KeyAssumption DEF IsPath, EntryAt
<1>6. NextAt(m, p[j]) <= Len(m) <=> j # n
  <2>1. CASE j = n
    BY <1>1, <1>2, <2>1 DEF IsPath
  <2>2. CASE j # n
    <3>1. j + 1 < n + 1
      BY <1>1, <2>2
    <3>2. p[j + 1] < p[n + 1]
      BY <1>1, <3>1 DEF IsPath
    <3>3. p[j + 1] < Len(m) + 1
      BY <3>2 DEF IsPath
    <3> QED BY <1>1, <1>2, <2>2, <3>3
  <2> QED BY <2>1, <2>2
<1> QED BY <1>1, <1>2, <1>3, <1>4, <1>5, <1>6 DEF Goes

\* The walk goes along the path.
LEMMA WalkIs ==
  ASSUME NEW m \in Seq(Cell), NEW n, NEW p, IsPath(m, n, p)
  PROVE  Walk(m) = {p[j] : j \in 1..n}
<1> DEFINE Right(d) == From(m)[p[n - d]] = {p[j] : j \in (n - d)..n}
           bad == {d \in 0..(n - 1) : ~Right(d)}
<1>1. n \in Nat /\ Len(m) \in Nat
  BY LenProperties DEF IsPath
<1>2. ASSUME NEW j \in 1..n
      PROVE  From(m)[p[j]] = IF j # n THEN {p[j]} \cup From(m)[p[j + 1]] ELSE {p[j]}
  <2>1. p[j] \in 1..Len(m) /\ NextAt(m, p[j]) = p[j + 1] /\ (Goes(m, p[j]) <=> j # n)
    BY PathFacts
  <2>2. From(m)[p[j]] = IF Goes(m, p[j]) THEN {p[j]} \cup From(m)[NextAt(m, p[j])] ELSE {p[j]}
    BY <2>1, FromIs
  <2> QED BY <2>1, <2>2
<1>3. bad = {}
  <2> SUFFICES ASSUME bad # {} PROVE FALSE
    OBVIOUS
  <2>1. PICK d \in bad : \A e \in bad : d <= e
    <3>1. bad \in SUBSET Nat
      BY <1>1
    <3> HIDE DEF bad
    <3> QED BY <3>1, LeastNumber
  <2>2. d \in 0..(n - 1) /\ ~Right(d)
    OBVIOUS
  <2>3. CASE d = 0
    <3>1. n - d = n /\ n \in 1..n
      BY <1>1, <2>2, <2>3
    <3>2. From(m)[p[n]] = {p[n]}
      BY <1>2, <3>1
    <3>3. {p[j] : j \in n..n} = {p[n]}
      BY <1>1
    <3> QED BY <2>2, <3>1, <3>2, <3>3
  <2>4. CASE d # 0
    <3>1. d - 1 \in 0..(n - 1) /\ ~(d <= d - 1)
      BY <1>1, <2>2, <2>4
    <3>2. Right(d - 1)
      BY <2>1, <3>1
    <3>3. n - d \in 1..n /\ n - d # n /\ (n - d) + 1 = n - (d - 1)
      BY <1>1, <2>2, <2>4, SMTT(30)
    <3>4. From(m)[p[n - d]] = {p[n - d]} \cup {p[j] : j \in (n - (d - 1))..n}
      BY <1>2, <3>2, <3>3
    <3>5. (n - d)..n = {n - d} \cup ((n - (d - 1))..n)
      BY <1>1, <2>2, SMTT(30)
    <3> QED BY <2>2, <3>4, <3>5
  <2> QED BY <2>3, <2>4
<1>4. CASE n = 0
  <2>1. Len(m) = 0 /\ m = <<>>
    BY <1>4, EmptySeq DEF IsPath
  <2>2. Walk(m) = {}
    BY <2>1, FromIs
  <2>3. {p[j] : j \in 1..n} = {}
    BY <1>4
  <2> QED BY <2>2, <2>3
<1>5. CASE n # 0
  <2>1. n - 1 \in 0..(n - 1) /\ n - (n - 1) = 1 /\ 1 \in 1..n
    BY <1>1, <1>5
  <2>2. Right(n - 1)
    <3> HIDE DEF Right
    <3> QED BY <1>3, <2>1
  <2>3. From(m)[p[1]] = {p[j] : j \in 1..n}
    BY <2>1, <2>2
  <2>4. p[1] = 1 /\ m # <<>>
    <3>1. p[1] \in 1..Len(m)
      BY <2>1, PathFacts
    <3> QED BY <3>1, EmptySeq DEF IsPath
  <2> QED BY <2>3, <2>4, FromIs
<1> QED BY <1>4, <1>5

\* A key is found where its entry begins.
LEMMA FindIs ==
  ASSUME NEW m \in Seq(Cell), NEW n, NEW p, IsPath(m, n, p)
  PROVE  /\ \A j \in 1..n : __find_in_hashmap(m, KeyAt(m, p[j])) = p[j] /\ p[j] # -1
         /\ \A k : (\A j \in 1..n : KeyAt(m, p[j]) # k) => __find_in_hashmap(m, k) = -1
<1>1. Walk(m) = {p[j] : j \in 1..n}
  BY WalkIs
<1>2. ASSUME NEW j \in 1..n PROVE __find_in_hashmap(m, KeyAt(m, p[j])) = p[j] /\ p[j] # -1
  <2>1. {i \in Walk(m) : KeyAt(m, i) = KeyAt(m, p[j])} = {p[j]}
    BY <1>1 DEF IsPath
  <2>2. p[j] \in Nat
    BY PathFacts
  <2>3. Min({p[j]}) = p[j]
    BY <2>2 DEF Min
  <2>4. __find_in_hashmap(m, KeyAt(m, p[j])) = Min({p[j]})
    BY <2>1 DEF __find_in_hashmap
  <2> QED BY <2>2, <2>3, <2>4
<1>3. ASSUME NEW k, \A j \in 1..n : KeyAt(m, p[j]) # k PROVE __find_in_hashmap(m, k) = -1
  <2>1. {i \in Walk(m) : KeyAt(m, i) = k} = {}
    BY <1>1, <1>3
  <2> QED BY <2>1 DEF __find_in_hashmap
<1> QED BY <1>2, <1>3

\* The map of a list.
LEMMA DecodeIs ==
  ASSUME NEW m \in Seq(Cell), NEW n, NEW p, IsPath(m, n, p)
  PROVE  /\ KeysIn(m) = {KeyAt(m, p[j]) : j \in 1..n} /\ KeysIn(m) \subseteq Key
         /\ Decode(m) = [k \in KeysIn(m) |-> Decode(m)[k]]
         /\ DOMAIN Decode(m) = KeysIn(m)
         /\ \A j \in 1..n : Decode(m)[KeyAt(m, p[j])] = ValueAt(m, p[j])
<1>1. KeysIn(m) = {KeyAt(m, p[j]) : j \in 1..n}
  <2>1. ASSUME NEW j \in 1..n PROVE KeyAt(m, p[j]) \in KeysIn(m)
    <3>1. KeyAt(m, p[j]) \in Key
      BY DEF IsPath
    <3>2. __find_in_hashmap(m, KeyAt(m, p[j])) # -1
      BY FindIs
    <3> QED BY <3>1, <3>2 DEF KeysIn
  <2>2. ASSUME NEW k \in KeysIn(m) PROVE \E j \in 1..n : k = KeyAt(m, p[j])
    BY FindIs DEF KeysIn
  <2> QED BY <2>1, <2>2
<1>2. KeysIn(m) \subseteq Key
  BY <1>1 DEF IsPath
<1>3. \A j \in 1..n : Decode(m)[KeyAt(m, p[j])] = ValueAt(m, p[j])
  BY <1>1, FindIs DEF Decode
<1>4. DOMAIN Decode(m) = KeysIn(m) /\ Decode(m) = [k \in KeysIn(m) |-> Decode(m)[k]]
  BY DEF Decode
<1> QED BY <1>1, <1>2, <1>3, <1>4

\* The elements of a list.
LEMMA ValueIs ==
  ASSUME NEW m \in Seq(Cell), NEW i \in 1..Len(m), LengthAt(m, i) \in Nat, NextAt(m, i) <= Len(m) + 1
  PROVE  /\ ValueAt(m, i) \in Seq(Cell) /\ Len(ValueAt(m, i)) = LengthAt(m, i)
         /\ \A x \in 1..LengthAt(m, i) : ValueAt(m, i)[x] = m[i + 1 + x]
<1> DEFINE L == LengthAt(m, i)
<1>1. Len(m) \in Nat /\ L \in Nat /\ i \in Nat /\ i + L + 2 <= Len(m) + 1
  BY LenProperties DEF NextAt
<1>2. \A x \in (i + 2)..(i + 1 + L) : m[x] \in Cell
  BY <1>1, ElementOfSeq
<1> DEFINE v == SubSeq(m, i + 2, i + 1 + L)
<1> HIDE DEF L
<1>3. /\ v \in Seq(Cell) /\ Len(v) = IF i + 2 <= i + 1 + L THEN (i + 1 + L) - (i + 2) + 1 ELSE 0
      /\ \A x \in 1..((i + 1 + L) - (i + 2) + 1) : v[x] = m[(i + 2) + x - 1]
  BY <1>1, <1>2, SubSeqProperties
<1> HIDE DEF v
<1>4. (i + 1 + L) - (i + 2) + 1 = L
  BY <1>1
<1>5. Len(v) = L
  BY <1>1, <1>3
<1>6. ASSUME NEW x \in 1..L PROVE v[x] = m[i + 1 + x]
  <2>1. (i + 2) + x - 1 = i + 1 + x
    BY <1>1
  <2> QED BY <1>3, <1>4, <2>1
<1> QED BY <1>3, <1>5, <1>6 DEF ValueAt, L, v

\* The list q has at o what m has at i, as far as the entry there goes.
Copied(m, i, q, o) ==
    /\ o \in Nat \ {0} /\ o + LengthAt(m, i) + 1 <= Len(q)
    /\ \A x \in 0..(LengthAt(m, i) + 1) : q[o + x] = m[i + x]

\* An entry that is in another list, at another place, is the same entry there.
LEMMA CopyIs ==
  ASSUME NEW m \in Seq(Cell), NEW q \in Seq(Cell), NEW i \in 1..Len(m), NEW o, EntryAt(m, i), Copied(m, i, q, o)
  PROVE  /\ KeyAt(q, o) = KeyAt(m, i) /\ NextAt(q, o) = o + LengthAt(m, i) + 2
         /\ ValueAt(q, o) = ValueAt(m, i) /\ EntryAt(q, o)
<1> DEFINE L == LengthAt(m, i)
<1>1. /\ o \in Nat \ {0} /\ o + L + 1 <= Len(q)
      /\ \A x \in 0..(L + 1) : q[o + x] = m[i + x]
  BY DEF Copied
<1>2. L \in Nat /\ L \in 0..MaxValue /\ Len(q) \in Nat /\ i \in Nat /\ Len(m) \in Nat
  BY KeyAssumption, LenProperties DEF EntryAt
<1>3. 0 \in 0..(L + 1) /\ 1 \in 0..(L + 1)
  BY <1>2
<1>4. KeyAt(q, o) = KeyAt(m, i) /\ LengthAt(q, o) = L
  <2>1. q[o + 0] = m[i + 0] /\ q[o + 1] = m[i + 1] /\ o + 0 = o /\ i + 0 = i
    BY <1>1, <1>2, <1>3
  <2> QED BY <2>1 DEF KeyAt, LengthAt
<1>5. NextAt(q, o) = o + L + 2
  BY <1>4 DEF NextAt
<1> HIDE DEF L
<1>6. o \in 1..Len(q) /\ o < Len(q) /\ NextAt(q, o) <= Len(q) + 1
  BY <1>1, <1>2, <1>5
<1>7. /\ ValueAt(m, i) \in Seq(Cell) /\ Len(ValueAt(m, i)) = L
      /\ \A x \in 1..L : ValueAt(m, i)[x] = m[i + 1 + x]
  BY <1>2, ValueIs DEF L, EntryAt
<1>8. /\ ValueAt(q, o) \in Seq(Cell) /\ Len(ValueAt(q, o)) = L
      /\ \A x \in 1..L : ValueAt(q, o)[x] = q[o + 1 + x]
  BY <1>1, <1>2, <1>4, <1>6, ValueIs
<1>9. ASSUME NEW x \in 1..L PROVE q[o + 1 + x] = m[i + 1 + x]
  <2>1. x + 1 \in 0..(L + 1) /\ o + (x + 1) = o + 1 + x /\ i + (x + 1) = i + 1 + x
    BY <1>1, <1>2
  <2>2. q[o + (x + 1)] = m[i + (x + 1)]
    BY <1>1, <2>1
  <2> QED BY <2>1, <2>2
<1>10. ValueAt(q, o) = ValueAt(m, i)
  BY <1>7, <1>8, <1>9, SeqEqual
<1>11. EntryAt(q, o)
  BY <1>2, <1>4, <1>6, <1>10 DEF EntryAt
<1> QED BY <1>4, <1>5, <1>10, <1>11 DEF L

\* list(APPEND)
LEMMA ConcatIs ==
  ASSUME NEW a \in Seq(Cell), NEW b \in Seq(Cell)
  PROVE  LET q == a \o b IN
         /\ q \in Seq(Cell) /\ Len(q) = Len(a) + Len(b)
         /\ \A x \in 1..(Len(a) + Len(b)) : q[x] = IF x <= Len(a) THEN a[x] ELSE b[x - Len(a)]
BY ConcatProperties

\* The list q is m with an entry for k and v behind it.
Appended(q, m, k, v) ==
    /\ q \in Seq(Cell) /\ Len(q) = Len(m) + 2 + Len(v) /\ Len(m) \in Nat /\ Len(v) \in Nat
    /\ \A x \in 1..Len(m) : q[x] = m[x]
    /\ q[Len(m) + 1] = k /\ q[Len(m) + 2] = Len(v)
    /\ \A x \in 1..Len(v) : q[Len(m) + 2 + x] = v[x]

\* __append_to_hashmap
LEMMA AppendIs ==
  ASSUME NEW m \in Seq(Cell), NEW k \in Key, NEW v \in Seq(Elem)
  PROVE  Appended(__append_to_hashmap(m, k, v), m, k, v)
<1> DEFINE q == __append_to_hashmap(m, k, v)
<1>1. Len(m) \in Nat /\ Len(v) \in Nat /\ v \in Seq(Cell)
  BY LenProperties DEF Cell
<1> DEFINE h == <<k, Len(v)>>
<1>2. h \in Seq(Cell) /\ Len(h) = 2 /\ h[1] = k /\ h[2] = Len(v)
  BY <1>1 DEF Cell
<1> HIDE DEF h
<1> DEFINE r == m \o h
<1>3. r = m \o h
  OBVIOUS
<1> HIDE DEF r
<1>4. /\ r \in Seq(Cell) /\ Len(r) = Len(m) + Len(h)
      /\ \A x \in 1..(Len(m) + Len(h)) : r[x] = IF x <= Len(m) THEN m[x] ELSE h[x - Len(m)]
  BY <1>2, <1>3, ConcatIs
<1>5. /\ r \o v \in Seq(Cell) /\ Len(r \o v) = Len(r) + Len(v)
      /\ \A x \in 1..(Len(r) + Len(v)) : (r \o v)[x] = IF x <= Len(r) THEN r[x] ELSE v[x - Len(r)]
  BY <1>1, <1>4, ConcatIs
<1>6. q = r \o v
  BY DEF __append_to_hashmap, r, h
<1> HIDE DEF q
<1>7. Len(r) = Len(m) + 2 /\ (\A x \in 1..Len(m) : r[x] = m[x]) /\ r[Len(m) + 1] = k /\ r[Len(m) + 2] = Len(v)
  <2>1. Len(r) = Len(m) + 2
    BY <1>1, <1>2, <1>4
  <2>2. \A x \in 1..Len(m) : r[x] = m[x]
    BY <1>1, <1>2, <1>4
  <2>3. Len(m) + 1 - Len(m) = 1 /\ Len(m) + 2 - Len(m) = 2
    BY <1>1
  <2>4. r[Len(m) + 1] = h[1] /\ r[Len(m) + 2] = h[2]
    BY <1>1, <1>2, <1>4, <2>3, SMTT(30)
  <2> QED BY <1>2, <2>1, <2>2, <2>4
<1>8. \A x \in 1..(Len(m) + 2) : q[x] = r[x]
  BY <1>1, <1>5, <1>6, <1>7
<1>9. ASSUME NEW x \in 1..Len(v) PROVE q[Len(m) + 2 + x] = v[x]
  <2>1. /\ Len(m) + 2 + x \in 1..(Len(r) + Len(v)) /\ ~(Len(m) + 2 + x <= Len(r))
        /\ Len(m) + 2 + x - Len(r) = x
    BY <1>1, <1>7
  <2> QED BY <1>5, <1>6, <2>1
<1> QED BY <1>1, <1>5, <1>6, <1>7, <1>8, <1>9 DEF Appended, q

\* The elements of a list after __remove_one_from_hashmap: those behind the
\* entry move up.
LEMMA RemoveIs ==
  ASSUME NEW m \in Seq(Cell), NEW i \in 1..Len(m), NextAt(m, i) \in (i + 1)..(Len(m) + 1)
  PROVE  LET q == __remove_one_from_hashmap(m, i)
             e == NextAt(m, i) IN
         /\ q \in Seq(Cell) /\ Len(q) = Len(m) - (e - i)
         /\ \A x \in 1..(i - 1) : q[x] = m[x]
         /\ \A x \in e..Len(m) : q[x - (e - i)] = m[x]
<1> DEFINE q == __remove_one_from_hashmap(m, i)
           e == NextAt(m, i)
<1>1. e \in (i + 1)..(Len(m) + 1)
  OBVIOUS
<1>2. Len(m) \in Nat /\ \A x \in 1..Len(m) : m[x] \in Cell
  BY LenProperties, ElementOfSeq
<1> DEFINE a == SubSeq(m, 1, i - 1)
           b == SubSeq(m, e, Len(m))
<1>3. a \in Seq(Cell) /\ Len(a) = i - 1 /\ \A x \in 1..(i - 1) : a[x] = m[x]
  <2>1. \A x \in 1..(i - 1) : m[x] \in Cell
    BY <1>2
  <2>2. /\ a \in Seq(Cell) /\ Len(a) = IF 1 <= i - 1 THEN (i - 1) - 1 + 1 ELSE 0
        /\ \A x \in 1..((i - 1) - 1 + 1) : a[x] = m[1 + x - 1]
    BY <1>2, <1>1, <2>1, SubSeqProperties
  <2> HIDE DEF a
  <2> QED BY <1>2, <1>1, <2>2
<1>4. b \in Seq(Cell) /\ Len(b) = Len(m) + 1 - e /\ \A x \in 1..(Len(m) + 1 - e) : b[x] = m[e + x - 1]
  <2>1. \A x \in e..Len(m) : m[x] \in Cell
    BY <1>2, <1>1
  <2>2. /\ b \in Seq(Cell) /\ Len(b) = IF e <= Len(m) THEN Len(m) - e + 1 ELSE 0
        /\ \A x \in 1..(Len(m) - e + 1) : b[x] = m[e + x - 1]
    BY <1>2, <1>1, <2>1, SubSeqProperties
  <2> HIDE DEF b
  <2> QED BY <1>2, <1>1, <2>2
<1>5. q = a \o b
  BY DEF __remove_one_from_hashmap
<1> HIDE DEF a, b, q, e
<1>6. /\ q \in Seq(Cell) /\ Len(q) = Len(a) + Len(b)
      /\ \A x \in 1..(Len(a) + Len(b)) : q[x] = IF x <= Len(a) THEN a[x] ELSE b[x - Len(a)]
  BY <1>3, <1>4, <1>5, ConcatIs
<1>7. Len(q) = Len(m) - (e - i)
  BY <1>2, <1>3, <1>4, <1>6, <1>1
<1>8. ASSUME NEW x \in 1..(i - 1) PROVE q[x] = m[x]
  <2>1. x \in 1..(Len(a) + Len(b)) /\ x <= Len(a)
    BY <1>2, <1>3, <1>4, <1>1
  <2> QED BY <1>3, <1>6, <2>1
<1>9. ASSUME NEW x \in e..Len(m) PROVE q[x - (e - i)] = m[x]
  <2>1. x - (e - i) \in 1..(Len(a) + Len(b)) /\ ~(x - (e - i) <= Len(a))
    BY <1>2, <1>3, <1>4, <1>1
  <2>2. x - (e - i) - Len(a) \in 1..(Len(m) + 1 - e) /\ e + (x - (e - i) - Len(a)) - 1 = x
    BY <1>2, <1>3, <1>1
  <2> QED BY <1>4, <1>6, <2>1, <2>2
<1> QED BY <1>6, <1>7, <1>8, <1>9 DEF q, e

\* An entry of a list that is a map lies in the list.
LEMMA EntryIn ==
  ASSUME NEW m \in Seq(Cell), NEW n, NEW p, IsPath(m, n, p), NEW j \in 1..n
  PROVE  /\ EntryAt(m, p[j]) /\ p[j] \in 1..Len(m) /\ LengthAt(m, p[j]) \in Nat
         /\ p[j] + LengthAt(m, p[j]) + 2 = p[j + 1] /\ p[j + 1] <= Len(m) + 1
<1>1. EntryAt(m, p[j])
  BY DEF IsPath
<1>2. p[j] \in 1..Len(m) /\ LengthAt(m, p[j]) \in Nat /\ NextAt(m, p[j]) = p[j + 1]
  BY PathFacts
<1> QED BY <1>1, <1>2 DEF EntryAt, NextAt

\* The entry that __append_to_hashmap adds.
LEMMA NewEntry ==
  ASSUME NEW m \in Seq(Cell), NEW k \in Key, NEW v \in Values, NEW q, q = __append_to_hashmap(m, k, v)
  PROVE  /\ q \in Seq(Cell) /\ EntryAt(q, Len(m) + 1)
         /\ KeyAt(q, Len(m) + 1) = k /\ ValueAt(q, Len(m) + 1) = v
         /\ NextAt(q, Len(m) + 1) = Len(q) + 1 /\ Len(q) = Len(m) + 2 + Len(v)
<1>1. PICK l \in 0..MaxValue : v \in [1..l -> Elem]
  BY DEF Values
<1>2. l \in Nat
  BY <1>1, KeyAssumption
<1>3. v \in Seq(Elem)
  BY <1>1, <1>2, SeqDef
<1>4. Len(v) = l
  <2>1. Len(v) \in Nat /\ DOMAIN v = 1..Len(v)
    BY <1>3, LenProperties
  <2> QED BY <1>1, <1>2, <2>1
<1>5. Appended(q, m, k, v)
  BY <1>3, AppendIs
<1>6. /\ q \in Seq(Cell) /\ Len(q) = Len(m) + 2 + l /\ Len(m) \in Nat
      /\ q[Len(m) + 1] = k /\ q[Len(m) + 2] = l
      /\ \A x \in 1..l : q[Len(m) + 2 + x] = v[x]
  BY <1>4, <1>5 DEF Appended
<1> DEFINE o == Len(m) + 1
<1>7. o \in 1..Len(q) /\ o < Len(q) /\ o + 1 = Len(m) + 2
  BY <1>2, <1>6
<1>8. KeyAt(q, o) = k /\ LengthAt(q, o) = l /\ NextAt(q, o) = Len(q) + 1
  <2>1. KeyAt(q, o) = k
    BY <1>6 DEF KeyAt
  <2>2. LengthAt(q, o) = l
    BY <1>6, <1>7 DEF LengthAt
  <2>3. NextAt(q, o) = o + l + 2
    BY <2>2 DEF NextAt
  <2> QED BY <1>2, <1>6, <2>1, <2>2, <2>3
<1> HIDE DEF o
<1>9. /\ ValueAt(q, o) \in Seq(Cell) /\ Len(ValueAt(q, o)) = l
      /\ \A x \in 1..l : ValueAt(q, o)[x] = q[o + 1 + x]
  <2>1. LengthAt(q, o) \in Nat /\ NextAt(q, o) <= Len(q) + 1
    BY <1>2, <1>6, <1>8
  <2> QED BY <1>6, <1>7, <1>8, <2>1, ValueIs
<1>10. v \in Seq(Cell)
  BY <1>3 DEF Cell
<1>11. ValueAt(q, o) = v
  <2>1. \A x \in 1..l : ValueAt(q, o)[x] = v[x]
    BY <1>6, <1>7, <1>9
  <2> QED BY <1>4, <1>9, <1>10, <2>1, SeqEqual
<1>12. Range(v) \subseteq Elem
  BY <1>1 DEF Range
<1>13. EntryAt(q, o)
  BY <1>1, <1>6, <1>7, <1>8, <1>11, <1>12 DEF EntryAt
<1> QED BY <1>4, <1>6, <1>8, <1>11, <1>13 DEF o

\* __append_to_hashmap of a key that the list does not have.
LEMMA PathAppend ==
  ASSUME NEW m \in Seq(Cell), NEW n, NEW p, IsPath(m, n, p), NEW k \in Key, NEW v \in Values,
         \A j \in 1..n : KeyAt(m, p[j]) # k, NEW q, q = __append_to_hashmap(m, k, v)
  PROVE  /\ q \in Seq(Cell)
         /\ \E r : /\ IsPath(q, n + 1, r) /\ KeyAt(q, r[n + 1]) = k /\ ValueAt(q, r[n + 1]) = v
                   /\ \A j \in 1..n : KeyAt(q, r[j]) = KeyAt(m, p[j]) /\ ValueAt(q, r[j]) = ValueAt(m, p[j])
<1> DEFINE r == [j \in 1..(n + 2) |-> IF j = n + 2 THEN Len(q) + 1 ELSE p[j]]
<1>1. n \in Nat /\ Len(m) \in Nat /\ n + 1 + 1 = n + 2
  BY LenProperties DEF IsPath
<1>2. v \in Seq(Elem)
  <2>1. PICK l \in 0..MaxValue : v \in [1..l -> Elem]
    BY DEF Values
  <2> QED BY <2>1, KeyAssumption, SeqDef
<1>3. q \in Seq(Cell) /\ Len(q) \in Nat /\ Len(m) < Len(q) /\ \A x \in 1..Len(m) : q[x] = m[x]
  <2>1. Appended(q, m, k, v)
    BY <1>2, AppendIs
  <2> QED BY <2>1 DEF Appended
<1>4. r \in [1..(n + 2) -> Nat] /\ r[n + 2] = Len(q) + 1 /\ \A j \in 1..(n + 1) : r[j] = p[j]
  <2>1. \A j \in 1..(n + 2) : j # n + 2 => j \in 1..(n + 1)
    BY <1>1
  <2>2. \A j \in 1..(n + 1) : p[j] \in Nat
    BY DEF IsPath
  <2>3. n + 2 \in 1..(n + 2) /\ \A j \in 1..(n + 1) : j \in 1..(n + 2) /\ j # n + 2
    BY <1>1
  <2> QED BY <1>3, <2>1, <2>2, <2>3
<1> HIDE DEF r
<1>5. r[1] = 1 /\ r[n + 1] = Len(m) + 1
  <2>1. 1 \in 1..(n + 1) /\ n + 1 \in 1..(n + 1)
    BY <1>1
  <2> QED BY <1>4, <2>1 DEF IsPath
<1>6. ASSUME NEW j \in 1..n
      PROVE  /\ KeyAt(q, r[j]) = KeyAt(m, p[j]) /\ NextAt(q, r[j]) = r[j + 1]
             /\ ValueAt(q, r[j]) = ValueAt(m, p[j]) /\ EntryAt(q, r[j])
  <2> DEFINE i == p[j]
             L == LengthAt(m, i)
  <2>1. EntryAt(m, i) /\ i \in 1..Len(m) /\ L \in Nat /\ i + L + 2 = p[j + 1] /\ p[j + 1] <= Len(m) + 1
    BY EntryIn
  <2>2. r[j] = i /\ r[j + 1] = p[j + 1]
    <3>1. j \in 1..(n + 1) /\ j + 1 \in 1..(n + 1)
      BY <1>1
    <3> QED BY <1>4, <3>1
  <2> HIDE DEF i
  <2>3. i \in Nat \ {0} /\ i + L + 1 <= Len(q)
    BY <1>1, <1>3, <2>1
  <2>4. \A x \in 0..(L + 1) : q[i + x] = m[i + x]
    <3>1. \A x \in 0..(L + 1) : i + x \in 1..Len(m)
      BY <1>1, <2>1
    <3> QED BY <1>3, <3>1
  <2>5. Copied(m, i, q, i)
    BY <2>3, <2>4 DEF Copied
  <2>6. /\ KeyAt(q, i) = KeyAt(m, i) /\ NextAt(q, i) = i + LengthAt(m, i) + 2
        /\ ValueAt(q, i) = ValueAt(m, i) /\ EntryAt(q, i)
    BY <1>3, <2>1, <2>5, CopyIs
  <2> QED BY <2>1, <2>2, <2>6 DEF i
<1>7. /\ EntryAt(q, r[n + 1]) /\ KeyAt(q, r[n + 1]) = k /\ ValueAt(q, r[n + 1]) = v
      /\ NextAt(q, r[n + 1]) = r[n + 2]
  BY <1>4, <1>5, NewEntry
<1>8. \A j \in 1..(n + 1) : EntryAt(q, r[j]) /\ KeyAt(q, r[j]) \in Key /\ r[j + 1] = NextAt(q, r[j])
  <2>1. \A j \in 1..n : KeyAt(m, p[j]) \in Key
    BY DEF IsPath
  <2>2. \A j \in 1..(n + 1) : j \in 1..n \/ j = n + 1
    BY <1>1
  <2> QED BY <1>1, <1>6, <1>7, <2>1, <2>2
<1>9. \A i, j \in 1..(n + 2) : i < j => r[i] < r[j]
  <2> SUFFICES ASSUME NEW i \in 1..(n + 2), NEW j \in 1..(n + 2), i < j PROVE r[i] < r[j]
    OBVIOUS
  <2>1. i \in 1..(n + 1) /\ p[i] \in Nat
    BY <1>1 DEF IsPath
  <2>2. p[i] <= Len(m) + 1
    <3>1. CASE i = n + 1
      BY <1>4, <1>5, <1>1, <2>1, <3>1
    <3>2. CASE i # n + 1
      <4>1. i < n + 1 /\ n + 1 \in 1..(n + 1)
        BY <1>1, <2>1, <3>2
      <4> QED BY <1>1, <2>1, <4>1 DEF IsPath
    <3> QED BY <3>1, <3>2
  <2>3. CASE j = n + 2
    BY <1>1, <1>3, <1>4, <2>1, <2>2, <2>3
  <2>4. CASE j # n + 2
    <3>1. j \in 1..(n + 1)
      BY <1>1, <2>4
    <3>2. p[i] < p[j]
      BY <2>1, <3>1 DEF IsPath
    <3> QED BY <1>4, <2>1, <3>1, <3>2
  <2> QED BY <2>3, <2>4
<1>10. \A i, j \in 1..(n + 1) : KeyAt(q, r[i]) = KeyAt(q, r[j]) => i = j
  <2>1. \A j \in 1..(n + 1) : j \in 1..n \/ j = n + 1
    BY <1>1
  <2>2. \A i, j \in 1..n : KeyAt(m, p[i]) = KeyAt(m, p[j]) => i = j
    BY DEF IsPath
  <2> QED BY <1>6, <1>7, <2>1, <2>2
<1>11. IsPath(q, n + 1, r)
  <2>1. n + 1 \in Nat
    BY <1>1
  <2> QED BY <1>1, <1>4, <1>5, <1>8, <1>9, <1>10, <2>1 DEF IsPath
<1> QED BY <1>3, <1>6, <1>7, <1>11

\* Where entries begin is in order.
LEMMA PathOrder ==
  ASSUME NEW m, NEW n, NEW p, IsPath(m, n, p), NEW i \in 1..(n + 1), NEW j \in 1..(n + 1), i <= j
  PROVE  p[i] \in Nat /\ p[j] \in Nat /\ p[i] <= p[j]
BY SMTT(30) DEF IsPath

\* The place in the old list of entry j of the new one.
Old(j, s) == IF j < s THEN j ELSE j + 1

\* __remove_one_from_hashmap of the entry with number s.
LEMMA PathRemove ==
  ASSUME NEW m \in Seq(Cell), NEW n, NEW p, IsPath(m, n, p), NEW s \in 1..n,
         NEW q, q = __remove_one_from_hashmap(m, p[s])
  PROVE  /\ q \in Seq(Cell)
         /\ \E r : /\ IsPath(q, n - 1, r)
                   /\ \A j \in 1..(n - 1) : /\ KeyAt(q, r[j]) = KeyAt(m, p[Old(j, s)])
                                            /\ ValueAt(q, r[j]) = ValueAt(m, p[Old(j, s)])
<1> DEFINE d == p[s + 1] - p[s]
           r == [j \in 1..n |-> IF j < s THEN p[j] ELSE p[j + 1] - d]
<1>1. n \in Nat \ {0} /\ n - 1 \in Nat /\ n - 1 + 1 = n /\ s \in Nat /\ Len(m) \in Nat
  BY LenProperties DEF IsPath
<1>2. \A j \in 1..(n + 1) : p[j] \in Nat
  BY DEF IsPath
<1>3. /\ p[s] \in 1..Len(m) /\ p[s + 1] \in (p[s] + 1)..(Len(m) + 1) /\ NextAt(m, p[s]) = p[s + 1]
      /\ p[s + 1] \in Nat
  <2>1. /\ p[s] \in 1..Len(m) /\ LengthAt(m, p[s]) \in Nat
        /\ p[s] + LengthAt(m, p[s]) + 2 = p[s + 1] /\ p[s + 1] <= Len(m) + 1
    BY EntryIn
  <2>2. NextAt(m, p[s]) = p[s + 1]
    BY PathFacts
  <2> QED BY <1>1, <2>1, <2>2
<1>4. d \in Nat /\ d > 0 /\ p[s + 1] = p[s] + d
  BY <1>3
<1>5. /\ q \in Seq(Cell) /\ Len(q) = Len(m) - d /\ Len(q) \in Nat
      /\ \A x \in 1..(p[s] - 1) : q[x] = m[x]
      /\ \A x \in p[s + 1]..Len(m) : q[x - d] = m[x]
  <2>1. /\ q \in Seq(Cell) /\ Len(q) = Len(m) - d
        /\ \A x \in 1..(p[s] - 1) : q[x] = m[x]
        /\ \A x \in p[s + 1]..Len(m) : q[x - d] = m[x]
    <3>1. /\ q \in Seq(Cell) /\ Len(q) = Len(m) - (NextAt(m, p[s]) - p[s])
          /\ \A x \in 1..(p[s] - 1) : q[x] = m[x]
          /\ \A x \in NextAt(m, p[s])..Len(m) : q[x - (NextAt(m, p[s]) - p[s])] = m[x]
      BY <1>3, RemoveIs
    <3> QED BY <1>3, <3>1
  <2>2. Len(q) \in Nat
    BY <2>1, LenProperties
  <2> QED BY <2>1, <2>2
<1> HIDE DEF d
<1>6. \A j \in 1..n : r[j] = IF j < s THEN p[j] ELSE p[j + 1] - d
  OBVIOUS
<1>7. ASSUME NEW j \in 1..n PROVE r[j] \in Nat /\ (j <= s => r[j] = p[j]) /\ (j >= s => r[j] = p[j + 1] - d)
  <2>1. CASE j < s
    <3>1. j \in 1..(n + 1)
      BY <1>1
    <3> QED BY <1>1, <1>2, <1>6, <2>1, <3>1
  <2>2. CASE ~(j < s)
    <3>1. r[j] = p[j + 1] - d
      BY <1>6, <2>2
    <3>2. j + 1 \in 1..(n + 1) /\ s + 1 \in 1..(n + 1) /\ s + 1 <= j + 1
      BY <1>1, <2>2
    <3>3. p[j + 1] \in Nat /\ p[s + 1] <= p[j + 1]
      BY <3>2, PathOrder
    <3>4. r[j] \in Nat
      BY <1>3, <1>4, <3>1, <3>3, SMTT(30)
    <3>5. j = s => r[j] = p[j]
      BY <1>3, <1>4, <3>1
    <3> QED BY <1>1, <2>2, <3>1, <3>4, <3>5
  <2> QED BY <2>1, <2>2
<1>8. r \in [1..n -> Nat] /\ r[1] = 1 /\ r[n] = Len(q) + 1
  <2>1. r \in [1..n -> Nat]
    BY <1>7
  <2>2. 1 \in 1..n /\ 1 <= s /\ n \in 1..n /\ n >= s
    BY <1>1
  <2>3. r[1] = p[1] /\ r[n] = p[n + 1] - d
    BY <1>7, <2>2
  <2>4. p[1] = 1 /\ p[n + 1] = Len(m) + 1
    BY DEF IsPath
  <2>5. r[1] = 1 /\ r[n] = Len(q) + 1
    BY <1>1, <1>4, <1>5, <2>3, <2>4
  <2> QED BY <2>1, <2>5
<1> HIDE DEF r
<1>9. ASSUME NEW j \in 1..(n - 1)
      PROVE  /\ KeyAt(q, r[j]) = KeyAt(m, p[Old(j, s)]) /\ NextAt(q, r[j]) = r[j + 1]
             /\ ValueAt(q, r[j]) = ValueAt(m, p[Old(j, s)]) /\ EntryAt(q, r[j])
  <2> DEFINE i == p[Old(j, s)]
             o == r[j]
  <2>1. Old(j, s) \in 1..n /\ j \in 1..n /\ j + 1 \in 1..n
    BY <1>1 DEF Old
  <2>2. /\ EntryAt(m, i) /\ i \in 1..Len(m) /\ LengthAt(m, i) \in Nat
        /\ i + LengthAt(m, i) + 2 = p[Old(j, s) + 1] /\ p[Old(j, s) + 1] <= Len(m) + 1
    BY <2>1, EntryIn
  <2> HIDE DEF i, o
  <2>3. o \in Nat \ {0} /\ o + LengthAt(m, i) + 2 = r[j + 1] /\ o + LengthAt(m, i) + 1 <= Len(q)
        /\ \A x \in 0..(LengthAt(m, i) + 1) : q[o + x] = m[i + x]
    <3>1. CASE j < s
      <4>1. Old(j, s) = j /\ j <= s /\ j + 1 <= s
        BY <1>1, <3>1 DEF Old
      <4>2. o = i /\ r[j + 1] = p[j + 1]
        BY <1>7, <2>1, <4>1 DEF o, i
      <4>3. p[j + 1] <= p[s]
        <5>1. j + 1 \in 1..(n + 1) /\ s \in 1..(n + 1)
          BY <1>1, <2>1
        <5> QED BY <4>1, <5>1, PathOrder
      <4>4. p[j + 1] \in Nat
        BY <1>1, <1>2, <2>1
      <4>5. \A x \in 0..(LengthAt(m, i) + 1) : i + x \in 1..(p[s] - 1)
        <5>1. i + LengthAt(m, i) + 2 <= p[s] /\ i \in Nat \ {0} /\ p[s] \in Nat
          BY <1>3, <2>2, <4>1, <4>3, <4>4, SMTT(30)
        <5> QED BY <2>2, <5>1
      <4>6. o + LengthAt(m, i) + 1 <= Len(q)
        <5>1. i + LengthAt(m, i) + 2 = p[j + 1]
          BY <2>2, <4>1
        <5>2. Len(q) + 1 >= p[s]
          BY <1>1, <1>3, <1>4, <1>5
        <5> QED BY <1>3, <1>5, <2>2, <4>2, <4>3, <4>4, <5>1, <5>2, SMTT(30)
      <4> QED BY <1>5, <2>2, <4>1, <4>2, <4>5, <4>6
    <3>2. CASE ~(j < s)
      <4>1. Old(j, s) = j + 1 /\ j >= s /\ j + 1 >= s
        BY <1>1, <3>2 DEF Old
      <4>2. o = i - d /\ r[j + 1] = p[j + 1 + 1] - d
        BY <1>7, <2>1, <4>1 DEF o, i
      <4>3. p[s + 1] <= i
        <5>1. s + 1 \in 1..(n + 1) /\ j + 1 \in 1..(n + 1) /\ s + 1 <= j + 1
          BY <1>1, <2>1, <4>1
        <5> QED BY <4>1, <5>1, PathOrder DEF i
      <4>4. o \in Nat \ {0}
        <5>1. p[s] \in Nat \ {0} /\ i \in Nat
          BY <1>3, <2>2
        <5> QED BY <1>4, <4>2, <4>3, <5>1
      <4>5. i + LengthAt(m, i) + 2 = p[j + 1 + 1] /\ p[j + 1 + 1] <= Len(m) + 1
        BY <2>2, <4>1
      <4>6. ASSUME NEW x \in 0..(LengthAt(m, i) + 1)
            PROVE  i + x \in p[s + 1]..Len(m) /\ (i + x) - d = o + x
        <5>1. x \in Nat /\ x <= LengthAt(m, i) + 1 /\ i \in Nat
          BY <2>2
        <5>2. i + x <= Len(m)
          BY <1>1, <2>2, <4>5, <5>1
        <5>3. i + x >= p[s + 1]
          BY <1>3, <4>3, <5>1
        <5>4. (i + x) - d = o + x
          BY <1>4, <4>2, <5>1
        <5>5. i + x \in Nat /\ p[s + 1] \in Nat
          BY <1>3, <5>1
        <5> QED BY <1>1, <5>2, <5>3, <5>4, <5>5
      <4>7. o + LengthAt(m, i) + 1 <= Len(q) /\ o + LengthAt(m, i) + 2 = r[j + 1]
        <5>1. o + LengthAt(m, i) + 2 = r[j + 1]
          BY <1>4, <2>2, <4>2, <4>5
        <5>2. i + LengthAt(m, i) + 2 <= Len(m) + 1 /\ i \in Nat
          BY <2>2, <4>5
        <5>3. o + LengthAt(m, i) + 1 <= Len(q)
          <6>1. o = i - d /\ Len(q) = Len(m) - d
            BY <1>5, <4>2
          <6> QED BY <1>1, <1>4, <2>2, <5>2, <6>1, SMTT(30)
        <5> QED BY <5>1, <5>3
      <4> QED BY <1>5, <4>4, <4>6, <4>7
    <3> QED BY <3>1, <3>2
  <2>4. Copied(m, i, q, o)
    BY <2>3 DEF Copied
  <2>5. /\ KeyAt(q, o) = KeyAt(m, i) /\ NextAt(q, o) = o + LengthAt(m, i) + 2
        /\ ValueAt(q, o) = ValueAt(m, i) /\ EntryAt(q, o)
    BY <1>5, <2>2, <2>4, CopyIs
  <2> QED BY <2>3, <2>5 DEF i, o
<1>10. \A i, j \in 1..n : i < j => r[i] < r[j]
  <2> SUFFICES ASSUME NEW i \in 1..n, NEW j \in 1..n, i < j PROVE r[i] < r[j]
    OBVIOUS
  <2>1. /\ i \in 1..(n + 1) /\ j \in 1..(n + 1) /\ i + 1 \in 1..(n + 1) /\ j + 1 \in 1..(n + 1)
        /\ s \in 1..(n + 1) /\ i + 1 < j + 1
    BY <1>1
  <2>2. p[i] < p[j] /\ p[i + 1] < p[j + 1] /\ \A k \in 1..(n + 1) : p[k] \in Nat
    BY <2>1 DEF IsPath
  <2>3. CASE j <= s
    <3>1. r[i] = p[i] /\ r[j] = p[j]
      BY <1>1, <1>7, <2>3
    <3> QED BY <2>2, <3>1
  <2>4. CASE i >= s
    <3>1. r[i] = p[i + 1] - d /\ r[j] = p[j + 1] - d
      BY <1>1, <1>7, <2>4
    <3>2. p[i + 1] \in Nat /\ p[j + 1] \in Nat
      BY <2>1, <2>2
    <3>3. p[i + 1] < p[j + 1]
      BY <2>2
    <3> QED BY ONLY <1>4, <3>1, <3>2, <3>3
  <2>5. CASE i < s /\ s < j
    <3>1. r[i] = p[i] /\ r[j] = p[j + 1] - d
      BY <1>1, <1>7, <2>5
    <3>2. p[i] < p[s] /\ s + 1 \in 1..(n + 1) /\ s + 1 < j + 1
      BY <1>1, <2>1, <2>5 DEF IsPath
    <3>3. p[s + 1] < p[j + 1]
      BY <2>1, <3>2 DEF IsPath
    <3>4. p[i] \in Nat /\ p[s] \in Nat /\ p[j + 1] \in Nat
      BY <2>1, <2>2
    <3> QED BY ONLY <1>4, <3>1, <3>2, <3>3, <3>4, SMTT(30)
  <2> QED BY <1>1, <2>3, <2>4, <2>5
<1>11. \A j \in 1..(n - 1) : EntryAt(q, r[j]) /\ KeyAt(q, r[j]) \in Key /\ r[j + 1] = NextAt(q, r[j])
  <2>1. \A j \in 1..(n - 1) : Old(j, s) \in 1..n
    BY <1>1 DEF Old
  <2>2. \A j \in 1..n : KeyAt(m, p[j]) \in Key
    BY DEF IsPath
  <2> QED BY <1>9, <2>1, <2>2
<1>12. \A i, j \in 1..(n - 1) : KeyAt(q, r[i]) = KeyAt(q, r[j]) => i = j
  <2> SUFFICES ASSUME NEW i \in 1..(n - 1), NEW j \in 1..(n - 1), KeyAt(q, r[i]) = KeyAt(q, r[j]) PROVE i = j
    OBVIOUS
  <2>1. Old(i, s) \in 1..n /\ Old(j, s) \in 1..n
    BY <1>1 DEF Old
  <2>2. KeyAt(m, p[Old(i, s)]) = KeyAt(m, p[Old(j, s)])
    BY <1>9
  <2>3. Old(i, s) = Old(j, s)
    BY <2>1, <2>2 DEF IsPath
  <2> QED BY <1>1, <2>3 DEF Old
<1>13. IsPath(q, n - 1, r)
  BY <1>1, <1>8, <1>10, <1>11, <1>12 DEF IsPath
<1> QED BY <1>5, <1>9, <1>13

---------------------------------------------------------------------------
(* The macros on lists that are maps.                                      *)

IsMap(m) == m \in Seq(Cell) /\ \E n, p : IsPath(m, n, p)

\* The keys are keys, and Default is none of them.
LEMMA MapKeys ==
  ASSUME NEW m, IsMap(m)
  PROVE  KeysIn(m) \subseteq Key /\ Default \notin KeysIn(m) /\ DOMAIN Decode(m) = KeysIn(m)
<1>1. PICK n, p : IsPath(m, n, p)
  BY DEF IsMap
<1>2. KeysIn(m) \subseteq Key /\ DOMAIN Decode(m) = KeysIn(m)
  BY <1>1, DecodeIs DEF IsMap
<1> QED BY <1>2, KeyAssumption

\* The empty list is the empty map.
LEMMA EmptyMapIs == IsMap(<<>>) /\ Decode(<<>>) = <<>>
<1> DEFINE p == [j \in 1..1 |-> 1]
<1>1. <<>> \in Seq(Cell) /\ Len(<<>>) = 0
  OBVIOUS
<1>2. IsPath(<<>>, 0, p)
  BY <1>1 DEF IsPath
<1>3. IsMap(<<>>)
  BY <1>1, <1>2 DEF IsMap
<1>4. KeysIn(<<>>) = {}
  <2>1. Walk(<<>>) = {}
    BY DEF Walk
  <2>2. \A k : __find_in_hashmap(<<>>, k) = -1
    BY <2>1 DEF __find_in_hashmap
  <2> QED BY <2>2 DEF KeysIn
<1>5. Decode(<<>>) = <<>>
  BY <1>4 DEF Decode
<1> QED BY <1>3, <1>5

\* Appending an entry with a new key adds it to the map.
LEMMA AppendMap ==
  ASSUME NEW m, IsMap(m), NEW k \in Key \ KeysIn(m), NEW v \in Values
  PROVE  LET q == __append_to_hashmap(m, k, v) IN
         /\ IsMap(q)
         /\ Decode(q) = [c \in KeysIn(m) \cup {k} |-> IF c = k THEN v ELSE Decode(m)[c]]
<1> DEFINE q == __append_to_hashmap(m, k, v)
<1>1. m \in Seq(Cell) /\ q = __append_to_hashmap(m, k, v)
  BY DEF IsMap
<1>2. PICK n, p : IsPath(m, n, p)
  BY DEF IsMap
<1>3. /\ KeysIn(m) = {KeyAt(m, p[j]) : j \in 1..n}
      /\ \A j \in 1..n : Decode(m)[KeyAt(m, p[j])] = ValueAt(m, p[j])
  BY <1>1, <1>2, DecodeIs
<1>4. \A j \in 1..n : KeyAt(m, p[j]) # k
  BY <1>3
<1> HIDE DEF q
<1>5. /\ q \in Seq(Cell)
      /\ \E r : /\ IsPath(q, n + 1, r) /\ KeyAt(q, r[n + 1]) = k /\ ValueAt(q, r[n + 1]) = v
                /\ \A j \in 1..n : KeyAt(q, r[j]) = KeyAt(m, p[j]) /\ ValueAt(q, r[j]) = ValueAt(m, p[j])
  BY <1>1, <1>2, <1>4, PathAppend
<1>6. PICK r : /\ IsPath(q, n + 1, r) /\ KeyAt(q, r[n + 1]) = k /\ ValueAt(q, r[n + 1]) = v
               /\ \A j \in 1..n : KeyAt(q, r[j]) = KeyAt(m, p[j]) /\ ValueAt(q, r[j]) = ValueAt(m, p[j])
  BY <1>5
<1>7. /\ KeysIn(q) = {KeyAt(q, r[j]) : j \in 1..(n + 1)}
      /\ Decode(q) = [c \in KeysIn(q) |-> Decode(q)[c]]
      /\ \A j \in 1..(n + 1) : Decode(q)[KeyAt(q, r[j])] = ValueAt(q, r[j])
  BY <1>5, <1>6, DecodeIs
<1>8. n \in Nat /\ n + 1 \in 1..(n + 1) /\ \A j \in 1..(n + 1) : j \in 1..n \/ j = n + 1
  BY <1>2 DEF IsPath
<1>9. \A j \in 1..n : j \in 1..(n + 1)
  BY <1>8
<1>10. KeysIn(q) = KeysIn(m) \cup {k}
  <2>1. ASSUME NEW c \in KeysIn(q) PROVE c \in KeysIn(m) \cup {k}
    BY <1>3, <1>6, <1>7, <1>8
  <2>2. ASSUME NEW c \in KeysIn(m) PROVE c \in KeysIn(q)
    BY <1>3, <1>6, <1>7, <1>9
  <2>3. k \in KeysIn(q)
    BY <1>6, <1>7, <1>8
  <2> QED BY <2>1, <2>2, <2>3
<1>11. ASSUME NEW c \in KeysIn(q) PROVE Decode(q)[c] = IF c = k THEN v ELSE Decode(m)[c]
  <2>1. CASE c = k
    BY <1>6, <1>7, <1>8, <2>1
  <2>2. CASE c # k
    <3>1. PICK j \in 1..n : c = KeyAt(m, p[j])
      BY <1>3, <1>10, <2>2
    <3> QED BY <1>3, <1>6, <1>7, <1>9, <2>2, <3>1
  <2> QED BY <2>1, <2>2
<1>12. Decode(q) = [c \in KeysIn(m) \cup {k} |-> IF c = k THEN v ELSE Decode(m)[c]]
  BY <1>7, <1>10, <1>11
<1>13. IsMap(q)
  BY <1>5, <1>6 DEF IsMap
<1> QED BY <1>12, <1>13 DEF q

\* __remove_from_hashmap takes the key out of the map.
LEMMA RemoveMap ==
  ASSUME NEW m, IsMap(m), NEW k \in Key
  PROVE  LET q == __remove_from_hashmap(m, k) IN
         /\ IsMap(q)
         /\ Decode(q) = [c \in KeysIn(m) \ {k} |-> Decode(m)[c]]
<1> DEFINE q == __remove_from_hashmap(m, k)
<1>1. m \in Seq(Cell)
  BY DEF IsMap
<1>2. PICK n, p : IsPath(m, n, p)
  BY DEF IsMap
<1>3. /\ KeysIn(m) = {KeyAt(m, p[j]) : j \in 1..n}
      /\ \A j \in 1..n : Decode(m)[KeyAt(m, p[j])] = ValueAt(m, p[j])
      /\ Decode(m) = [c \in KeysIn(m) |-> Decode(m)[c]]
  BY <1>1, <1>2, DecodeIs
<1>4. n \in Nat
  BY <1>2 DEF IsPath
<1>5. CASE \A j \in 1..n : KeyAt(m, p[j]) # k
  <2>1. __find_in_hashmap(m, k) = -1
    BY <1>1, <1>2, <1>5, FindIs
  <2>2. q = m
    BY <2>1 DEF __remove_from_hashmap
  <2>3. KeysIn(m) \ {k} = KeysIn(m)
    BY <1>3, <1>5
  <2> HIDE DEF q
  <2> QED BY <1>3, <2>2, <2>3 DEF q
<1>6. CASE \E s \in 1..n : KeyAt(m, p[s]) = k
  <2>1. PICK s \in 1..n : KeyAt(m, p[s]) = k
    BY <1>6
  <2>2. __find_in_hashmap(m, k) = p[s] /\ p[s] # -1
    BY <1>1, <1>2, <2>1, FindIs
  <2>3. q = __remove_one_from_hashmap(m, p[s])
    BY <2>2 DEF __remove_from_hashmap
  <2> HIDE DEF q
  <2>4. /\ q \in Seq(Cell)
        /\ \E r : /\ IsPath(q, n - 1, r)
                  /\ \A j \in 1..(n - 1) : /\ KeyAt(q, r[j]) = KeyAt(m, p[Old(j, s)])
                                           /\ ValueAt(q, r[j]) = ValueAt(m, p[Old(j, s)])
    BY <1>1, <1>2, <2>3, PathRemove
  <2>5. PICK r : /\ IsPath(q, n - 1, r)
                 /\ \A j \in 1..(n - 1) : /\ KeyAt(q, r[j]) = KeyAt(m, p[Old(j, s)])
                                          /\ ValueAt(q, r[j]) = ValueAt(m, p[Old(j, s)])
    BY <2>4
  <2>6. /\ KeysIn(q) = {KeyAt(q, r[j]) : j \in 1..(n - 1)}
        /\ Decode(q) = [c \in KeysIn(q) |-> Decode(q)[c]]
        /\ \A j \in 1..(n - 1) : Decode(q)[KeyAt(q, r[j])] = ValueAt(q, r[j])
    BY <2>4, <2>5, DecodeIs
  <2>7. \A j \in 1..(n - 1) : Old(j, s) \in 1..n /\ Old(j, s) # s
    BY <1>4 DEF Old
  <2>8. \A j \in 1..n : j # s => \E i \in 1..(n - 1) : Old(i, s) = j
    <3> SUFFICES ASSUME NEW j \in 1..n, j # s PROVE \E i \in 1..(n - 1) : Old(i, s) = j
      OBVIOUS
    <3>1. CASE j < s
      <4>1. j \in 1..(n - 1) /\ Old(j, s) = j
        BY <1>4, <3>1 DEF Old
      <4> QED BY <4>1
    <3>2. CASE j > s
      <4>1. j - 1 \in 1..(n - 1) /\ Old(j - 1, s) = j
        BY <1>4, <3>2 DEF Old
      <4> QED BY <4>1
    <3> QED BY <1>4, <3>1, <3>2
  <2>9. \A j \in 1..n : KeyAt(m, p[j]) = k => j = s
    BY <1>2, <2>1 DEF IsPath
  <2>10. KeysIn(q) = KeysIn(m) \ {k}
    <3>1. ASSUME NEW c \in KeysIn(q) PROVE c \in KeysIn(m) \ {k}
      BY <1>3, <2>5, <2>6, <2>7, <2>9
    <3>2. ASSUME NEW c \in KeysIn(m) \ {k} PROVE c \in KeysIn(q)
      BY <1>3, <2>1, <2>5, <2>6, <2>8
    <3> QED BY <3>1, <3>2
  <2>11. ASSUME NEW c \in KeysIn(q) PROVE Decode(q)[c] = Decode(m)[c]
    <3>1. PICK j \in 1..(n - 1) : c = KeyAt(q, r[j])
      BY <2>6
    <3> QED BY <1>3, <2>5, <2>6, <2>7, <3>1
  <2>12. IsMap(q)
    BY <2>4, <2>5 DEF IsMap
  <2>13. Decode(q) = [c \in KeysIn(m) \ {k} |-> Decode(m)[c]]
    BY <2>6, <2>10, <2>11
  <2> QED BY <2>12, <2>13 DEF q
<1> QED BY <1>5, <1>6

\* __put_into_hashmap gives the key its value.
LEMMA PutMap ==
  ASSUME NEW m, IsMap(m), NEW k \in Key, NEW v \in Values
  PROVE  LET q == __put_into_hashmap(m, k, v) IN
         /\ IsMap(q)
         /\ Decode(q) = [c \in KeysIn(m) \cup {k} |-> IF c = k THEN v ELSE Decode(m)[c]]
<1> DEFINE w == __remove_from_hashmap(m, k)
           q == __append_to_hashmap(w, k, v)
<1>1. IsMap(w) /\ Decode(w) = [c \in KeysIn(m) \ {k} |-> Decode(m)[c]]
  BY RemoveMap
<1> HIDE DEF w
<1>2. KeysIn(w) = KeysIn(m) \ {k}
  BY <1>1, MapKeys
<1>3. IsMap(q) /\ Decode(q) = [c \in KeysIn(w) \cup {k} |-> IF c = k THEN v ELSE Decode(w)[c]]
  <2>1. k \in Key \ KeysIn(w)
    BY <1>2
  <2> QED BY <1>1, <2>1, AppendMap
<1> HIDE DEF q
<1>4. KeysIn(w) \cup {k} = KeysIn(m) \cup {k}
  BY <1>2
<1>5. \A c \in KeysIn(m) \cup {k} : c # k => Decode(w)[c] = Decode(m)[c]
  BY <1>1
<1>6. Decode(q) = [c \in KeysIn(m) \cup {k} |-> IF c = k THEN v ELSE Decode(m)[c]]
  BY <1>3, <1>4, <1>5
<1>7. q = __put_into_hashmap(m, k, v)
  BY DEF __put_into_hashmap, q, w
<1> QED BY <1>3, <1>6, <1>7

---------------------------------------------------------------------------
(* The commands.                                                           *)

\* The list is a map, which GET has read.
HashmapIInv == IsMap(hashmap) /\ GetFindsList

\* The configuration starts with the empty list.
LEMMA HashmapInit == Init => HashmapIInv
<1> SUFFICES ASSUME Init PROVE HashmapIInv
  OBVIOUS
<1>1. hashmap = <<>> /\ asked = Default
  BY DEF Init
<1>2. IsMap(hashmap)
  BY <1>1, EmptyMapIs
<1>3. GetFindsList
  BY <1>1, <1>2, MapKeys DEF GetFindsList
<1> QED BY <1>2, <1>3 DEF HashmapIInv

\* What each command does to the map, and what GET answers.
LEMMA CommandsAre ==
  ASSUME HashmapIInv, NEW k \in Key
  PROVE  /\ \A v \in Values : PUT(k, v) =>
              /\ IsMap(hashmap')
              /\ Decode(hashmap') = [c \in KeysIn(hashmap) \cup {k} |-> IF c = k THEN v ELSE Decode(hashmap)[c]]
         /\ REMOVE(k) =>
              /\ IsMap(hashmap')
              /\ Decode(hashmap') = [c \in KeysIn(hashmap) \ {k} |-> Decode(hashmap)[c]]
         /\ GET(k) => hashmap' = hashmap /\ (k \in KeysIn(hashmap) => out' = Decode(hashmap)[k])
<1>1. IsMap(hashmap)
  BY DEF HashmapIInv
<1>2. ASSUME NEW v \in Values, PUT(k, v)
      PROVE  /\ IsMap(hashmap')
             /\ Decode(hashmap') = [c \in KeysIn(hashmap) \cup {k} |-> IF c = k THEN v ELSE Decode(hashmap)[c]]
  <2>1. hashmap' = __put_into_hashmap(hashmap, k, v)
    BY <1>2 DEF PUT
  <2> QED BY <1>1, <2>1, PutMap
<1>3. ASSUME REMOVE(k)
      PROVE  /\ IsMap(hashmap')
             /\ Decode(hashmap') = [c \in KeysIn(hashmap) \ {k} |-> Decode(hashmap)[c]]
  <2>1. hashmap' = __remove_from_hashmap(hashmap, k)
    BY <1>3 DEF REMOVE
  <2> QED BY <1>1, <2>1, RemoveMap
<1>4. ASSUME GET(k)
      PROVE  hashmap' = hashmap /\ (k \in KeysIn(hashmap) => out' = Decode(hashmap)[k])
  <2>1. hashmap' = hashmap /\ out' = FoundValue(hashmap, k, __value)
    BY <1>4 DEF GET, __get_from_hashmap
  <2>2. ASSUME k \in KeysIn(hashmap) PROVE out' = Decode(hashmap)[k]
    BY <2>1, <2>2 DEF FoundValue, KeysIn, Decode
  <2> QED BY <2>1, <2>2
<1> QED BY <1>2, <1>3, <1>4

\* Every command keeps the list a map.
LEMMA HashmapStep == HashmapIInv /\ [Next]_vars => HashmapIInv'
<1> SUFFICES ASSUME HashmapIInv, [Next]_vars PROVE HashmapIInv'
  OBVIOUS
<1>1. IsMap(hashmap) /\ GetFindsList
  BY DEF HashmapIInv
<1>2. ASSUME NEW k \in Key, NEW v \in Values, PUT(k, v) PROVE HashmapIInv'
  <2>1. IsMap(hashmap')
    BY <1>2, CommandsAre
  <2>2. asked' = Default
    BY <1>2 DEF PUT
  <2> QED BY <2>1, <2>2, MapKeys DEF HashmapIInv, GetFindsList
<1>3. ASSUME NEW k \in Key, GET(k) PROVE HashmapIInv'
  <2>1. hashmap' = hashmap /\ (k \in KeysIn(hashmap) => out' = Decode(hashmap)[k])
    BY <1>3, CommandsAre
  <2>2. asked' = k
    BY <1>3 DEF GET
  <2> QED BY <1>1, <2>1, <2>2 DEF HashmapIInv, GetFindsList
<1>4. ASSUME NEW k \in Key, REMOVE(k) PROVE HashmapIInv'
  <2>1. IsMap(hashmap')
    BY <1>4, CommandsAre
  <2>2. asked' = Default
    BY <1>4 DEF REMOVE
  <2> QED BY <2>1, <2>2, MapKeys DEF HashmapIInv, GetFindsList
<1>5. CASE CLEAR
  <2>1. hashmap' = <<>> /\ asked' = Default
    BY <1>5 DEF CLEAR
  <2>2. IsMap(hashmap')
    BY <2>1, EmptyMapIs
  <2> QED BY <2>1, <2>2, MapKeys DEF HashmapIInv, GetFindsList
<1>6. CASE UNCHANGED vars
  BY <1>1, <1>6 DEF HashmapIInv, GetFindsList, vars
<1> QED BY <1>2, <1>3, <1>4, <1>5, <1>6 DEF Next

\* So it always is one.
LEMMA HashmapAlways == Spec => []HashmapIInv
BY HashmapInit, HashmapStep, PTL DEF Spec

\* The walk over a map goes from entry to entry.
LEMMA MapLayout == IsMap(hashmap) => Layout
<1> SUFFICES ASSUME IsMap(hashmap) PROVE Layout
  OBVIOUS
<1>1. PICK n, p : IsPath(hashmap, n, p)
  BY DEF IsMap
<1>2. Walk(hashmap) = {p[j] : j \in 1..n}
  BY <1>1, WalkIs DEF IsMap
<1> QED BY <1>1, <1>2 DEF Layout, IsPath

\* hashmap(): a walk over the list meets complete entries only, each with a key
\* of its own, after any commands.
THEOREM LayoutStays == Spec => []Layout
<1>1. HashmapIInv => Layout
  BY MapLayout DEF HashmapIInv
<1> QED BY <1>1, HashmapAlways, PTL

\* hashmap(GET): the answer is the list of the key, if the map has it.
THEOREM GetAnswers == Spec => []GetFindsList
<1>1. HashmapIInv => GetFindsList
  BY DEF HashmapIInv
<1> QED BY <1>1, HashmapAlways, PTL

\* Each command is the map's operation of its name.
LEMMA CommandsMap == HashmapIInv => CommandsImplemented
<1> SUFFICES ASSUME HashmapIInv PROVE CommandsImplemented
  OBVIOUS
<1>1. DOMAIN Decode(hashmap) = KeysIn(hashmap)
  BY MapKeys DEF HashmapIInv
<1>2. CLEAR => Map!Clear
  BY EmptyMapIs DEF CLEAR, Map!Clear
<1>3. ASSUME NEW k \in Key, GET(k) PROVE UNCHANGED Decode(hashmap)
  BY <1>3, CommandsAre
<1>4. ASSUME NEW k \in Key, REMOVE(k) PROVE Map!Remove(k)
  BY <1>1, <1>4, CommandsAre DEF Map!Remove
<1>5. ASSUME NEW k \in Key, NEW v \in Values, PUT(k, v) PROVE Map!Put(k, v)
  BY <1>1, <1>5, CommandsAre DEF Map!Put
<1> QED BY <1>2, <1>3, <1>4, <1>5 DEF CommandsImplemented

\* The flat list implements the map from keys to lists, and each command of
\* hashmap() is the map's operation of its name.
THEOREM HashmapIsMap == Spec => ImplementsMap
<1>1. Init => Map!Init
  BY EmptyMapIs DEF Init, Map!Init
<1>2. HashmapIInv /\ [Next]_vars => [Map!Next]_(Decode(hashmap))
  <2> SUFFICES ASSUME HashmapIInv, [Next]_vars PROVE Map!Next \/ UNCHANGED Decode(hashmap)
    OBVIOUS
  <2>1. CommandsImplemented
    BY CommandsMap
  <2>2. CASE UNCHANGED vars
    BY <2>2 DEF vars
  <2>3. CASE CLEAR
    BY <2>1, <2>3 DEF CommandsImplemented, Map!Next
  <2>4. ASSUME NEW k \in Key, GET(k) PROVE UNCHANGED Decode(hashmap)
    BY <2>1, <2>4 DEF CommandsImplemented
  <2>5. ASSUME NEW k \in Key, REMOVE(k) PROVE Map!Next
    BY <2>1, <2>5 DEF CommandsImplemented, Map!Next
  <2>6. ASSUME NEW k \in Key, NEW v \in Values, PUT(k, v) PROVE Map!Next
    BY <2>1, <2>6 DEF CommandsImplemented, Map!Next
  <2> QED BY <2>2, <2>3, <2>4, <2>5, <2>6 DEF Next
<1>3. HashmapIInv => [CommandsImplemented]_vars
  BY CommandsMap
<1> QED BY <1>1, <1>2, <1>3, HashmapAlways, PTL DEF Spec, ImplementsMap, Map!Spec
=============================================================================
