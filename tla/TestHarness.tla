---------------------------- MODULE TestHarness ----------------------------
(***************************************************************************)
(* The test targets of CMake/Packages/ZilliansTestUtility.cmake and the    *)
(* scripts run.cmake, run_and_match.cmake and run_and_compare.cmake they   *)
(* start.  Every test is registered twice, with add_test for ctest and as  *)
(* a custom target under "check" for make; either driver runs up to Jobs   *)
(* tests at a time.                                                        *)
(***************************************************************************)
EXTENDS Integers, Sequences, FiniteSets

CONSTANTS
    Test,        \* the registered tests
    Kind,        \* "simple", "complex", "regex" or "compare", per test
    ExpectFail,  \* complex tests declared with EXPECT_FAIL
    Mode,        \* "success" or "failure": the MODE of a regex test
    Expected,    \* the expected output of a compare test, a list of blocks
    Block,       \* blocks of output
    Driver,      \* the drivers in use, of "ctest" and "check"
    Jobs,        \* tests that may run at a time
    MaxOut       \* bound on the blocks a program writes

ASSUME HarnessAssumption ==
    /\ IsFiniteSet(Test)
    /\ Kind \in [Test -> {"simple", "complex", "regex", "compare"}]
    /\ ExpectFail \subseteq {t \in Test : Kind[t] = "complex"}
    /\ Mode \in [Test -> {"success", "failure"}]
    /\ Driver \subseteq {"ctest", "check"}
    /\ Jobs \in Nat \ {0} /\ MaxOut \in Nat

NoBlock == "hole"    \* what the file has where nothing was written
Verdicts == {"none", "pass", "fail"}

VARIABLES
    driver,   \* the driver that runs the tests
    program,  \* what each test's program does: exit code, output, pattern found
    pc,       \* where each test is
    written,  \* blocks a compare test's program has written
    file,     \* /tmp/output.txt
    verdict,  \* each test's verdict
    disturbed \* history: compare tests that ran while another one did

tests == <<driver, program>>
testVars == <<tests, pc, written, file, verdict, disturbed>>

Programs == [exit: {0, 1}, out: UNION {[1..n -> Block] : n \in 0..MaxOut}, found: BOOLEAN]

TypeOK ==
    /\ driver \in Driver /\ program \in [Test -> Programs]
    /\ pc \in [Test -> {"todo", "run", "compare", "done"}]
    /\ written \in [Test -> 0..MaxOut]
    /\ file \in Seq(Block \cup {NoBlock})
    /\ verdict \in [Test -> Verdicts]
    /\ disturbed \subseteq Test
    /\ Cardinality({t \in Test : pc[t] \in {"run", "compare"}}) <= Jobs

TestInit ==
    /\ driver \in Driver
    /\ program \in [Test -> Programs]
    /\ \A t \in Test :
         /\ Kind[t] \in {"simple", "complex"} => program[t].out = <<>>    \* not looked at
         /\ Kind[t] = "regex" => program[t].out \in {<<>>, Expected[t]}   \* empty or not
         /\ Kind[t] # "regex" \/ program[t].out = <<>> => ~program[t].found
    /\ pc = [t \in Test |-> "todo"]
    /\ written = [t \in Test |-> 0]
    /\ file = <<>>
    /\ verdict = [t \in Test |-> "none"]
    /\ disturbed = {}

Finish(t, good) ==
    /\ pc' = [pc EXCEPT ![t] = "done"]
    /\ verdict' = [verdict EXCEPT ![t] = IF good THEN "pass" ELSE "fail"]

---------------------------------------------------------------------------
(* What the driver passes to the script.                                   *)

\* -DEXPECT_FAIL is on the command line of the custom target only.
PassesExpectFail(t) == driver = "check" /\ t \in ExpectFail

\* The custom target passes the mode as -DMATCH_TYPE, which run_and_match.cmake
\* does not read.
PassesMatchMode == driver = "ctest"

\* Double quotes inside an unquoted CMake argument are kept.  make's shell takes
\* them off again; ctest has no shell, so the scripts get a program, or an
\* output file, whose name has quotes in it and does not exist.
NameHasQuotes(t) == driver = "ctest" /\ Kind[t] \in {"complex", "compare"}

---------------------------------------------------------------------------
(* The scripts.                                                            *)

\* run.cmake
RunVerdict(t) ==
    IF PassesExpectFail(t) THEN program[t].exit # 0 ELSE program[t].exit = 0

\* run_and_match.cmake; without any output its string(REGEX) is an error, and
\* without MATCH_MODE its if() is.
MatchVerdict(t) ==
    /\ program[t].exit = 0
    /\ program[t].out # <<>>
    /\ PassesMatchMode
    /\ program[t].found <=> Mode[t] = "success"

\* Tests whose command uses the output file.
UsesFile(t) == Kind[t] = "compare" /\ ~NameHasQuotes(t)

\* execute_process opens OUTPUT_FILE, which all compare tests share, and
\* truncates it.
OpenOutput(t) ==
    LET others == {u \in Test : pc[u] \in {"run", "compare"} /\ UsesFile(u)} IN
    IF UsesFile(t)
    THEN /\ file' = <<>>
         /\ disturbed' = IF others = {} THEN disturbed ELSE disturbed \cup others \cup {t}
    ELSE UNCHANGED <<file, disturbed>>

\* The driver starts a test.
Start(t) ==
    /\ pc[t] = "todo"
    /\ Cardinality({u \in Test : pc[u] \in {"run", "compare"}}) < Jobs
    /\ pc' = [pc EXCEPT ![t] = "run"]
    /\ OpenOutput(t)
    /\ UNCHANGED <<tests, written, verdict>>

\* A program writes at its own position in the file, which another test may
\* have truncated since.
WriteAt(f, i, b) ==
    [j \in 1..(IF i > Len(f) THEN i ELSE Len(f)) |->
        IF j = i THEN b ELSE IF j <= Len(f) THEN f[j] ELSE NoBlock]

Write(t) ==
    /\ pc[t] = "run" /\ UsesFile(t)
    /\ written[t] < Len(program[t].out)
    /\ written' = [written EXCEPT ![t] = @ + 1]
    /\ file' = WriteAt(file, written[t] + 1, program[t].out[written[t] + 1])
    /\ UNCHANGED <<tests, pc, verdict, disturbed>>

\* Mutant of Exit: run_and_compare.cmake does not look at the exit code.
ExitIgnoresCode(t) ==
    /\ pc[t] = "run" /\ ~NameHasQuotes(t)
    /\ Kind[t] = "compare" => written[t] = Len(program[t].out)
    /\ \/ Kind[t] \in {"simple", "complex"} /\ Finish(t, RunVerdict(t))
       \/ Kind[t] = "regex" /\ Finish(t, MatchVerdict(t))
       \/ /\ Kind[t] = "compare"
          /\ pc' = [pc EXCEPT ![t] = "compare"]
          /\ UNCHANGED verdict
    /\ UNCHANGED <<tests, written, file, disturbed>>

\* The program ends and the script tests its exit code, and its output if it
\* has that in a variable.
Exit(t) ==
    /\ pc[t] = "run" /\ ~NameHasQuotes(t)
    /\ Kind[t] = "compare" => written[t] = Len(program[t].out)
    /\ \/ Kind[t] \in {"simple", "complex"} /\ Finish(t, RunVerdict(t))
       \/ Kind[t] = "regex" /\ Finish(t, MatchVerdict(t))
       \/ Kind[t] = "compare" /\ program[t].exit # 0 /\ Finish(t, FALSE)
       \/ /\ Kind[t] = "compare" /\ program[t].exit = 0
          /\ pc' = [pc EXCEPT ![t] = "compare"]
          /\ UNCHANGED verdict
    /\ UNCHANGED <<tests, written, file, disturbed>>

\* execute_process cannot start the program or open its output file.
ExitNotStarted(t) ==
    /\ pc[t] = "run" /\ NameHasQuotes(t)
    /\ Finish(t, FALSE)
    /\ UNCHANGED <<tests, written, file, disturbed>>

\* cmake -E compare_files
Compare(t) ==
    /\ pc[t] = "compare"
    /\ Finish(t, file = Expected[t])
    /\ UNCHANGED <<tests, written, file, disturbed>>

AllDone == \A t \in Test : pc[t] = "done"

TestNext ==
    \/ \E t \in Test : Start(t) \/ Write(t) \/ Exit(t) \/ ExitNotStarted(t) \/ Compare(t)
    \/ AllDone /\ UNCHANGED testVars

TestSpec == TestInit /\ [][TestNext]_testVars

---------------------------------------------------------------------------
(* Properties.                                                             *)

Passed(t) == verdict[t] = "pass"

\* What each kind of test is documented to find out about its own program.
Succeeds(t) ==
    CASE Kind[t] \in {"simple", "complex"} -> program[t].exit = 0 <=> t \notin ExpectFail
      [] Kind[t] = "regex" -> program[t].exit = 0 /\ (program[t].found <=> Mode[t] = "success")
      [] Kind[t] = "compare" -> program[t].exit = 0 /\ program[t].out = Expected[t]

\* Tests whose script is started with what it reads.
StartedRight(t) ==
    /\ ~NameHasQuotes(t)
    /\ Kind[t] = "regex" => PassesMatchMode /\ program[t].out # <<>>

\* The test "determine[s] failed or success depending on the execution return
\* value", "tr[ies] to match the given pattern" or "tr[ies] to compare the
\* program output to the expected output" (ZilliansTestUtility.cmake): no test
\* passes that should not, and a test passes that should if its script was
\* started with what it reads, with any mix of tests at a time but two compare
\* tests, which share /tmp/output.txt.
VerdictsRight ==
    \A t \in Test \ disturbed : pc[t] = "done" =>
      /\ Passed(t) => Succeeds(t)
      /\ Succeeds(t) /\ StartedRight(t) => Passed(t)
=============================================================================
