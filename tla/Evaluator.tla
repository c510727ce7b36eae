----------------------------- MODULE Evaluator ------------------------------
(***************************************************************************)
(* evaluate_submission, called by several worker threads at once: find the *)
(* problem, write the source, compile it, run every test case in the       *)
(* sandbox, sum up and remove the binary.  All of it happens in a          *)
(* directory named after the submission, which is the only thing that      *)
(* keeps two evaluations apart.                                            *)
(*                                                                         *)
(* A test case is one step here, with the verdict the sandbox gives it:    *)
(* module Sandbox shows that a child that is not killed at the deadline is *)
(* judged by its output alone.  The test files are read anew for every     *)
(* evaluation, so any number may be there, none included; no expected      *)
(* output is blank.                                                        *)
(***************************************************************************)
EXTENDS Naturals, Sequences, FiniteSets, SandboxVerdict

CONSTANTS
  Workers,    \* worker threads
  Subs,       \* submissions
  Language,   \* of a submission, normalised
  MaxTests,   \* bound on the test cases of a problem
  Exclusive   \* no submission is in two workers' hands at the same time

ASSUME EvaluatorSubsAssumption == Subs # {}
ASSUME LanguageAssumption == Language \in [Subs -> {"c", "cpp", "python"}]
ASSUME MaxTestsAssumption == MaxTests \in Nat
ASSUME ExclusiveAssumption == Exclusive \in BOOLEAN

VARIABLES
  pc,       \* the next step of a thread
  sub,      \* job.submission_id
  binary,   \* the file main exists in the submission's directory
  result,   \* result.verdict, passed and total
  tests,    \* the verdicts of test_results
  perfect,  \* history: the program is right, and in time, on every test so far
  litter    \* history: submissions whose main nobody is going to remove

vars == <<pc, sub, binary, result, tests, perfect, litter>>

Steps == {"idle", "problem", "compile", "load", "test", "remove", "done"}

NoResult == [verdict |-> "PENDING", passed |-> 0, total |-> 0]

Goto(w, step) == pc' = [pc EXCEPT ![w] = step]

Compiled(s) == Language[s] # "python"

Return(w, v) ==
  /\ result' = [result EXCEPT ![w].verdict = v]
  /\ Goto(w, "done")

-----------------------------------------------------------------------------
\* Mutant: the queue delivers a submission a second time.
TakeTwice(w, s) ==
  /\ pc[w] = "idle"
  /\ sub' = [sub EXCEPT ![w] = s]
  /\ result' = [result EXCEPT ![w] = NoResult]
  /\ tests' = [tests EXCEPT ![w] = <<>>]
  /\ perfect' = [perfect EXCEPT ![w] = TRUE]
  /\ Goto(w, "problem")
  /\ UNCHANGED <<binary, litter>>

(***************************************************************************)
(* worker_loop has dequeued a job for s.                                   *)
(***************************************************************************)
Take(w, s) ==
  /\ pc[w] = "idle"
  /\ Exclusive => \A x \in Workers : pc[x] # "idle" => sub[x] # s
  /\ sub' = [sub EXCEPT ![w] = s]
  /\ result' = [result EXCEPT ![w] = NoResult]
  /\ tests' = [tests EXCEPT ![w] = <<>>]
  /\ perfect' = [perfect EXCEPT ![w] = TRUE]
  /\ Goto(w, "problem")
  /\ UNCHANGED <<binary, litter>>

(***************************************************************************)
(* The problem may be gone since the API looked; the language is one the   *)
(* API has checked, so the return for unsupported ones is never taken.     *)
(***************************************************************************)
FindProblem(w) ==
  /\ pc[w] = "problem"
  /\ \/ Return(w, "INTERNAL_ERROR")
     \/ Goto(w, "compile") /\ UNCHANGED result
  /\ UNCHANGED <<sub, binary, tests, perfect, litter>>

(***************************************************************************)
(* compile_source leaves an executable main behind when it succeeds; for   *)
(* Python it only checks the syntax.                                       *)
(***************************************************************************)
Compile(w) ==
  /\ pc[w] = "compile"
  /\ binary' = [binary EXCEPT ![sub[w]] = @ \/ Compiled(sub[w])]
  /\ Goto(w, "load")
  /\ UNCHANGED <<sub, result, tests, perfect, litter>>

(***************************************************************************)
(* A compilation that fails may have removed main or left it: a compiler   *)
(* that has written it and is killed before it was waited for has failed.  *)
(* evaluate_submission returns without a look.                             *)
(***************************************************************************)
CompileFails(w) ==
  /\ pc[w] = "compile"
  /\ Return(w, "COMPILATION_ERROR")
  /\ \E left \in BOOLEAN :
       binary' = [binary EXCEPT ![sub[w]] = Compiled(sub[w]) /\ left]
  /\ litter' = IF binary'[sub[w]] THEN litter \cup {sub[w]} ELSE litter
  /\ UNCHANGED <<sub, tests, perfect>>

LoadTests(w) ==
  /\ pc[w] = "load"
  /\ \E n \in 0 .. MaxTests : result' = [result EXCEPT ![w].total = n]
  /\ Goto(w, "test")
  /\ UNCHANGED <<sub, binary, tests, perfect, litter>>

(***************************************************************************)
(* Sandbox::run can start a binary that exists.  It cannot start python3:  *)
(* execv does not search PATH.  A child that could not start its program   *)
(* exits with 127, which is seen as a program without output.              *)
(***************************************************************************)
Starts(s) == Compiled(s) /\ binary[s]

TestVerdict(s, right, late) ==
  IF Starts(s) THEN RunVerdict(late, NoStatus, NoUsage, right)
               ELSE OutputVerdict(FALSE)

\* Mutant: i <= test_cases.size().
RunTestOnceMore(w) ==
  /\ pc[w] = "test"
  /\ Len(tests[w]) <= result[w].total
  /\ tests' = [tests EXCEPT ![w] = Append(@, TestVerdict(sub[w], FALSE, FALSE))]
  /\ perfect' = [perfect EXCEPT ![w] = FALSE]
  /\ UNCHANGED <<pc, sub, binary, result, litter>>

RunTest(w) ==
  /\ pc[w] = "test"
  /\ Len(tests[w]) < result[w].total
  /\ \/ \E right, late \in BOOLEAN :
          /\ tests' = [tests EXCEPT ![w] = Append(@, TestVerdict(sub[w], right, late))]
          /\ perfect' = [perfect EXCEPT ![w] = @ /\ right /\ ~late]
     \/ /\ tests' = [tests EXCEPT ![w] = Append(@, "INTERNAL_ERROR")]
        /\ perfect' = [perfect EXCEPT ![w] = FALSE]
  /\ UNCHANGED <<pc, sub, binary, result, litter>>

\* Mutant: the first test is not counted.
PassedButFirst(verdicts) ==
  Cardinality({i \in DOMAIN verdicts : i > 1 /\ verdicts[i] = "ACCEPTED"})

(***************************************************************************)
(* The verdict of the submission: unless every test passed, it is that of  *)
(* the last one.                                                           *)
(***************************************************************************)
Passed(verdicts) == Cardinality({i \in DOMAIN verdicts : verdicts[i] = "ACCEPTED"})

\* Mutant: a submission without tests keeps its initial verdict.
OverallOrPending(verdicts, total) ==
  IF verdicts = <<>> THEN "PENDING"
  ELSE IF Passed(verdicts) = total THEN "ACCEPTED"
  ELSE verdicts[Len(verdicts)]

Overall(verdicts, total) ==
  IF verdicts = <<>> THEN "INTERNAL_ERROR"
  ELSE IF Passed(verdicts) = total THEN "ACCEPTED"
  ELSE LET last == verdicts[Len(verdicts)]
       IN IF last = "PENDING" THEN "WRONG_ANSWER" ELSE last

\* Mutant: an evaluation without tests returns early.
SumUpOrReturn(w) ==
  /\ pc[w] = "test"
  /\ Len(tests[w]) = result[w].total
  /\ result' = [result EXCEPT ![w].passed = Passed(tests[w]),
                              ![w].verdict = Overall(tests[w], result[w].total)]
  /\ Goto(w, IF tests[w] = <<>> THEN "done" ELSE "remove")
  /\ UNCHANGED <<sub, binary, tests, perfect, litter>>

SumUp(w) ==
  /\ pc[w] = "test"
  /\ Len(tests[w]) = result[w].total
  /\ result' = [result EXCEPT ![w].passed = Passed(tests[w]),
                              ![w].verdict = Overall(tests[w], result[w].total)]
  /\ Goto(w, "remove")
  /\ UNCHANGED <<sub, binary, tests, perfect, litter>>

RemoveBinary(w) ==
  /\ pc[w] = "remove"
  /\ binary' = [binary EXCEPT ![sub[w]] = @ /\ ~Compiled(sub[w])]
  /\ litter' = litter \ {sub[w]}
  /\ Goto(w, "done")
  /\ UNCHANGED <<sub, result, tests, perfect>>

(***************************************************************************)
(* worker_loop stores the result and dequeues the next job.                *)
(***************************************************************************)
Finish(w) ==
  /\ pc[w] = "done"
  /\ Goto(w, "idle")
  /\ UNCHANGED <<sub, binary, result, tests, perfect, litter>>

(***************************************************************************)
(* An exception in one of the evaluations, or a signal, ends the process.  *)
(* The files stay; the pool starts again with nothing in its hands.        *)
(***************************************************************************)
ProcessDies ==
  /\ \E w \in Workers : pc[w] # "idle"
  /\ pc' = [w \in Workers |-> "idle"]
  /\ litter' = litter \cup {s \in Subs : binary[s]}
  /\ UNCHANGED <<sub, binary, result, tests, perfect>>

-----------------------------------------------------------------------------
Init ==
  /\ pc = [w \in Workers |-> "idle"]
  /\ sub \in [Workers -> {CHOOSE s \in Subs : TRUE}]
  /\ binary = [s \in Subs |-> FALSE]
  /\ result = [w \in Workers |-> NoResult]
  /\ tests = [w \in Workers |-> <<>>]
  /\ perfect = [w \in Workers |-> TRUE]
  /\ litter = {}

Next ==
  \/ ProcessDies
  \/ \E w \in Workers :
       \/ \E s \in Subs : Take(w, s)
       \/ FindProblem(w) \/ Compile(w) \/ CompileFails(w) \/ LoadTests(w)
       \/ RunTest(w) \/ SumUp(w) \/ RemoveBinary(w) \/ Finish(w)

Spec == Init /\ [][Next]_vars

-----------------------------------------------------------------------------
(***************************************************************************)
(* Type invariant.                                                         *)
(***************************************************************************)
TypeOK ==
  /\ pc \in [Workers -> Steps]
  /\ sub \in [Workers -> Subs]
  /\ binary \in [Subs -> BOOLEAN]
  /\ result \in [Workers -> [verdict : Verdict, passed : 0 .. MaxTests, total : 0 .. MaxTests]]
  /\ tests \in [Workers -> Seq(Verdict)]
  /\ \A w \in Workers : Len(tests[w]) <= MaxTests
  /\ perfect \in [Workers -> BOOLEAN]
  /\ litter \subseteq Subs

(***************************************************************************)
(* While a worker runs the tests of a compiled submission its binary is    *)
(* there: no other evaluation removes it.  It takes the exclusive work     *)
(* directory SubmissionPipeline shows (ExclusiveWorkDir), and a queue that *)
(* delivers a submission twice breaks it.                                  *)
(***************************************************************************)
OwnBinary ==
  \A w \in Workers : pc[w] \in {"load", "test"} /\ Compiled(sub[w]) => binary[sub[w]]

(***************************************************************************)
(* An evaluation that compiled leaves nothing executable behind, on any    *)
(* path that returns and whatever its predecessors left: a main that       *)
(* nobody is going to remove is that of a failed compilation or of a       *)
(* process that died.                                                      *)
(***************************************************************************)
NoLeftovers ==
  \A s \in Subs :
    binary[s] => s \in litter \/ \E w \in Workers : pc[w] # "idle" /\ sub[w] = s

(***************************************************************************)
(* What an evaluation returns is a verdict the clients stop polling at,    *)
(* also when the test files have vanished: worker_loop stores it as the    *)
(* last word on the submission.                                            *)
(***************************************************************************)
ResultIsFinal == \A w \in Workers : pc[w] = "done" => result[w].verdict \in Final

(***************************************************************************)
(* A compiled program that gave the right answer in time on every one of   *)
(* at least one tests is accepted with all its tests passed, whatever the  *)
(* other workers do meanwhile.                                             *)
(***************************************************************************)
RightIsAccepted ==
  \A w \in Workers :
    pc[w] = "done" /\ Compiled(sub[w]) /\ perfect[w] /\ tests[w] # <<>> =>
      result[w].verdict = "ACCEPTED" /\ result[w].passed = result[w].total

(***************************************************************************)
(* An accepted submission passed all of its tests: the web page and the    *)
(* load test take ACCEPTED for that.                                       *)
(***************************************************************************)
AcceptedMeansAllPassed ==
  \A w \in Workers : result[w].verdict = "ACCEPTED" => result[w].passed = result[w].total

=============================================================================
