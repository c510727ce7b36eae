-------------------------- MODULE EvaluatorProofs ---------------------------
(***************************************************************************)
(* Proofs about Evaluator, for any number of workers, submissions and      *)
(* tests: what is returned is final, the last test decides, nothing is     *)
(* left behind, and where a submission is in one worker's hands only, its  *)
(* binary is its own and a right program is accepted.                      *)
(***************************************************************************)
EXTENDS Evaluator, FiniteSetTheorems, SequenceTheorems, TLAPS

USE EvaluatorSubsAssumption, LanguageAssumption, MaxTestsAssumption, ExclusiveAssumption

Failures == {"INTERNAL_ERROR", "COMPILATION_ERROR"}

Result == [verdict : Verdict, passed : 0 .. MaxTests, total : 0 .. MaxTests]

(***************************************************************************)
(* The tests of a submission all have final verdicts, are run after the    *)
(* compilation, and are as many as were loaded when they are summed up.    *)
(***************************************************************************)
Tested(w) ==
  /\ tests[w] \in Seq(Final)
  /\ pc[w] \in {"problem", "compile", "load"} => tests[w] = <<>>
  /\ pc[w] = "test" => Len(tests[w]) <= result[w].total
  /\ pc[w] \in {"remove", "done"} => result[w].verdict \in Final
  /\ pc[w] \in {"remove", "done"} /\ tests[w] = <<>> => result[w].verdict \in Failures
  /\ pc[w] \in {"remove", "done"} /\ tests[w] # <<>> =>
       /\ Len(tests[w]) = result[w].total
       /\ result[w].passed = Passed(tests[w])
       /\ result[w].verdict = Overall(tests[w], result[w].total)

(***************************************************************************)
(* A binary is that of a compiled submission, and it is litter or a worker *)
(* who will remove it is on the way.                                       *)
(***************************************************************************)
Removed ==
  \A s \in Subs :
    binary[s] =>
      /\ Compiled(s)
      /\ s \in litter \/ \E w \in Workers : pc[w] \in {"load", "test", "remove"} /\ sub[w] = s

(***************************************************************************)
(* Where submissions are exclusive: no two workers have the same one, so   *)
(* the binary stays as long as it is needed, and every test of a program   *)
(* that is right is passed.                                                *)
(***************************************************************************)
Apart ==
  \A w, x \in Workers :
    w # x /\ pc[w] # "idle" /\ pc[x] # "idle" => sub[w] # sub[x]

AllRight(w) ==
  Compiled(sub[w]) /\ perfect[w] => \A i \in 1 .. Len(tests[w]) : tests[w][i] = "ACCEPTED"

IInv ==
  /\ TypeOK
  /\ \A w \in Workers : Tested(w)
  /\ Removed
  /\ Exclusive => Apart /\ OwnBinary /\ \A w \in Workers : AllRight(w)

-----------------------------------------------------------------------------
(***************************************************************************)
(* How many tests were passed: at most all, and all if and only if each    *)
(* was.                                                                    *)
(***************************************************************************)
LEMMA PassedBound ==
  ASSUME NEW v \in Seq(Final)
  PROVE  /\ Passed(v) \in 0 .. Len(v)
         /\ Passed(v) = Len(v) <=> \A i \in 1 .. Len(v) : v[i] = "ACCEPTED"
<1> DEFINE hits == {i \in DOMAIN v : v[i] = "ACCEPTED"}
<1>1. Len(v) \in Nat /\ DOMAIN v = 1 .. Len(v)
  BY LenProperties
<1>2. IsFiniteSet(1 .. Len(v)) /\ Cardinality(1 .. Len(v)) = Len(v)
  BY <1>1, FS_Interval
<1>3. hits \in SUBSET (1 .. Len(v))
  BY <1>1
<1>4. Cardinality(hits) \in Nat /\ Cardinality(hits) <= Len(v)
  BY <1>2, <1>3, FS_Subset, FS_CardinalityType
<1>5. (\A i \in 1 .. Len(v) : v[i] = "ACCEPTED") <=> hits = 1 .. Len(v)
  BY <1>1
<1>6. Passed(v) = Cardinality(hits)
  BY DEF Passed
<1> HIDE DEF hits
<1>7. Passed(v) \in 0 .. Len(v)
  BY <1>1, <1>4, <1>6
<1>8. Passed(v) = Len(v) <=> \A i \in 1 .. Len(v) : v[i] = "ACCEPTED"
  <2>1. Cardinality(hits) = Len(v) => hits = 1 .. Len(v)
    BY <1>2, <1>3, FS_Subset
  <2> QED
    BY <1>2, <1>5, <1>6, <2>1
<1> QED
  BY <1>7, <1>8

(***************************************************************************)
(* A test and the sum of all tests have final verdicts.                    *)
(***************************************************************************)
LEMMA FinalVerdicts ==
  /\ Final \subseteq Verdict
  /\ {"INTERNAL_ERROR", "COMPILATION_ERROR", "ACCEPTED", "WRONG_ANSWER"} \subseteq Final
  /\ "PENDING" \in Verdict
  BY DEF Final, Verdict, InProgress

LEMMA TestVerdictFinal ==
  ASSUME NEW s \in Subs, NEW right \in BOOLEAN, NEW late \in BOOLEAN
  PROVE  /\ TestVerdict(s, right, late) \in Final
         /\ Starts(s) /\ right /\ ~late => TestVerdict(s, right, late) = "ACCEPTED"
  BY DEF TestVerdict, RunVerdict, OutputVerdict, NoStatus, NoUsage, Final

LEMMA OverallFinal ==
  ASSUME NEW v \in Seq(Final), NEW total \in Nat
  PROVE  Overall(v, total) \in Final
<1>1. v # <<>> => v[Len(v)] \in Final
  <2>1. v # <<>> => Len(v) \in 1 .. Len(v)
    BY EmptySeq, LenProperties
  <2> QED
    BY <2>1, ElementOfSeq
<1> QED
  BY <1>1, FinalVerdicts DEF Overall

-----------------------------------------------------------------------------
(***************************************************************************)
(* At first there is nothing.                                              *)
(***************************************************************************)
LEMMA InitIInv == Init => IInv
<1> SUFFICES ASSUME Init PROVE IInv
  OBVIOUS
<1>1. <<>> \in Seq(Final) /\ <<>> \in Seq(Verdict) /\ Len(<<>>) = 0
  BY EmptySeq
<1>2. NoResult \in Result
  BY FinalVerdicts DEF NoResult, Result
<1>3. sub \in [Workers -> Subs]
  BY DEF Init
<1>4. TypeOK
  BY <1>1, <1>2, <1>3 DEF Init, TypeOK, Steps, Result
<1>5. (\A w \in Workers : Tested(w)) /\ Removed
  BY <1>1 DEF Init, Tested, Removed
<1>6. Apart /\ OwnBinary /\ \A w \in Workers : AllRight(w)
  BY <1>1 DEF Init, Apart, OwnBinary, AllRight
<1> QED
  BY <1>4, <1>5, <1>6 DEF IInv

(***************************************************************************)
(* What the step of one worker leaves alone.                               *)
(***************************************************************************)
LEMMA Untouched ==
  ASSUME IInv, NEW w \in Workers, NEW x \in Workers \ {w},
         pc'[x] = pc[x], sub'[x] = sub[x], result'[x] = result[x], tests'[x] = tests[x],
         perfect'[x] = perfect[x]
  PROVE  Tested(x)' /\ (Exclusive => AllRight(x)')
  BY DEF IInv, Tested, AllRight, Passed, Overall, Compiled

(***************************************************************************)
(* A job is taken, or the one at hand is done.                             *)
(***************************************************************************)
LEMMA TakeIInv == ASSUME IInv, NEW w \in Workers, NEW s \in Subs, Take(w, s) PROVE IInv'
<1> USE DEF IInv, Take, Goto
<1>1. <<>> \in Seq(Final) /\ <<>> \in Seq(Verdict) /\ Len(<<>>) = 0
  BY EmptySeq
<1>2. TypeOK'
  <2>1. NoResult \in Result
    BY FinalVerdicts DEF NoResult, Result
  <2> QED
    BY <1>1, <2>1 DEF TypeOK, Steps, Result
<1>3. \A x \in Workers : Tested(x)' /\ (Exclusive => AllRight(x)')
  <2>1. Tested(w)' /\ AllRight(w)'
    BY <1>1 DEF TypeOK, Tested, AllRight
  <2> QED
    BY <2>1, Untouched DEF TypeOK
<1>4. Removed'
  BY DEF TypeOK, Removed
<1>5. Exclusive => Apart' /\ OwnBinary'
  BY DEF TypeOK, Apart, OwnBinary
<1> QED
  BY <1>2, <1>3, <1>4, <1>5

LEMMA FinishIInv == ASSUME IInv, NEW w \in Workers, Finish(w) PROVE IInv'
<1> USE DEF IInv, Finish, Goto
<1>1. TypeOK' /\ Removed' /\ (Exclusive => Apart' /\ OwnBinary')
  BY DEF TypeOK, Steps, Removed, Apart, OwnBinary
<1>2. \A x \in Workers : Tested(x)' /\ (Exclusive => AllRight(x)')
  <2>1. Tested(w)' /\ (Exclusive => AllRight(w)')
    BY DEF TypeOK, Tested, AllRight
  <2> QED
    BY <2>1, Untouched DEF TypeOK
<1> QED
  BY <1>1, <1>2

(***************************************************************************)
(* The returns before the tests: the problem is gone, or the compilation   *)
(* failed, and there main is removed or it is litter.                      *)
(***************************************************************************)
LEMMA ReturnIInv ==
  ASSUME IInv, NEW w \in Workers, NEW v \in Failures,
         pc[w] \in {"problem", "compile"}, Return(w, v), UNCHANGED <<sub, tests, perfect>>
  PROVE  \A x \in Workers : Tested(x)' /\ (Exclusive => AllRight(x)')
<1> USE DEF IInv, Return, Goto
<1>1. v \in Final
  BY FinalVerdicts DEF Failures
<1>2. Tested(w)' /\ (Exclusive => AllRight(w)')
  BY <1>1 DEF TypeOK, Tested, AllRight
<1> QED
  BY <1>2, Untouched DEF TypeOK

LEMMA CompileFailsIInv == ASSUME IInv, NEW w \in Workers, CompileFails(w) PROVE IInv'
<1> USE DEF IInv, CompileFails, Return, Goto
<1>1. PICK left \in BOOLEAN :
        binary' = [binary EXCEPT ![sub[w]] = Compiled(sub[w]) /\ left]
  OBVIOUS
<1>2. sub[w] \in Subs /\ (Compiled(sub[w]) /\ left) \in BOOLEAN
  BY DEF TypeOK, Compiled
<1>3. TypeOK'
  <2>1. "COMPILATION_ERROR" \in Verdict
    BY FinalVerdicts
  <2>2. result' \in [Workers -> Result]
    BY <2>1 DEF TypeOK, Result
  <2>3. binary' \in [Subs -> BOOLEAN] /\ litter' \subseteq Subs
    BY <1>1, <1>2 DEF TypeOK
  <2>4. pc' \in [Workers -> Steps]
    BY DEF TypeOK, Steps
  <2> QED
    BY <2>2, <2>3, <2>4 DEF TypeOK, Result
<1>4. \A x \in Workers : Tested(x)' /\ (Exclusive => AllRight(x)')
  BY ReturnIInv DEF Failures
<1>5. Removed'
  <2> SUFFICES ASSUME NEW s \in Subs, binary'[s]
               PROVE  /\ Compiled(s)
                      /\ \/ s \in litter'
                         \/ \E x \in Workers : pc'[x] \in {"load", "test", "remove"} /\ sub'[x] = s
    BY DEF Removed, Compiled
  <2>1. CASE s = sub[w]
    BY <1>1, <1>2, <2>1 DEF TypeOK
  <2>2. CASE s # sub[w]
    BY <1>1, <1>2, <2>2 DEF TypeOK, Removed
  <2> QED
    BY <2>1, <2>2
<1>6. Exclusive => Apart' /\ OwnBinary'
  BY <1>1 DEF TypeOK, Apart, OwnBinary, Compiled
<1> QED
  BY <1>3, <1>4, <1>5, <1>6

(***************************************************************************)
(* The steps up to the tests.                                              *)
(***************************************************************************)
LEMMA PrepareIInv ==
  ASSUME IInv, NEW w \in Workers,
         FindProblem(w) \/ Compile(w) \/ CompileFails(w) \/ LoadTests(w)
  PROVE  IInv'
<1> USE DEF IInv, Goto
<1>1. CASE FindProblem(w) /\ Return(w, "INTERNAL_ERROR")
  <2>1. TypeOK'
    BY <1>1, FinalVerdicts DEF FindProblem, Return, TypeOK, Steps
  <2>2. \A x \in Workers : Tested(x)' /\ (Exclusive => AllRight(x)')
    BY <1>1, ReturnIInv DEF FindProblem, Failures
  <2>3. Removed' /\ (Exclusive => Apart' /\ OwnBinary')
    BY <1>1 DEF FindProblem, Return, TypeOK, Removed, Apart, OwnBinary
  <2> QED
    BY <2>1, <2>2, <2>3
<1>2. CASE FindProblem(w) /\ Goto(w, "compile") /\ UNCHANGED result
  <2>1. /\ TypeOK' /\ Removed' /\ (Exclusive => Apart' /\ OwnBinary')
    BY <1>2 DEF FindProblem, TypeOK, Steps, Removed, Apart, OwnBinary
  <2>2. \A x \in Workers : Tested(x)' /\ (Exclusive => AllRight(x)')
    BY <1>2, Untouched DEF FindProblem, TypeOK, Tested, AllRight
  <2> QED
    BY <2>1, <2>2
<1>3. CASE CompileFails(w)
  BY <1>3, CompileFailsIInv
<1>4. CASE Compile(w)
  <2>1. TypeOK'
    BY <1>4 DEF Compile, TypeOK, Steps, Compiled
  <2>2. \A x \in Workers : Tested(x)' /\ (Exclusive => AllRight(x)')
    BY <1>4, Untouched DEF Compile, TypeOK, Tested, AllRight
  <2>3. Removed'
    BY <1>4 DEF Compile, TypeOK, Removed, Compiled
  <2>4. Exclusive => Apart' /\ OwnBinary'
    BY <1>4 DEF Compile, TypeOK, Apart, OwnBinary, Compiled
  <2> QED
    BY <2>1, <2>2, <2>3, <2>4
<1>5. CASE LoadTests(w)
  <2>1. PICK n \in 0 .. MaxTests : result' = [result EXCEPT ![w].total = n]
    BY <1>5 DEF LoadTests
  <2>2. TypeOK'
    BY <1>5, <2>1 DEF LoadTests, TypeOK, Steps
  <2>3. \A x \in Workers : Tested(x)' /\ (Exclusive => AllRight(x)')
    <3>1. Tested(w)' /\ (Exclusive => AllRight(w)')
      BY <1>5, <2>1, EmptySeq DEF LoadTests, TypeOK, Tested, AllRight
    <3> QED
      BY <1>5, <2>1, <3>1, Untouched DEF LoadTests, TypeOK
  <2>4. Removed' /\ (Exclusive => Apart' /\ OwnBinary')
    BY <1>5 DEF LoadTests, TypeOK, Removed, Apart, OwnBinary
  <2> QED
    BY <2>2, <2>3, <2>4
<1> QED
  BY <1>1, <1>2, <1>3, <1>4, <1>5 DEF FindProblem

(***************************************************************************)
(* A test: a program that is right and in time passes it, for its binary   *)
(* is there.                                                               *)
(***************************************************************************)
LEMMA RunTestIInv == ASSUME IInv, NEW w \in Workers, RunTest(w) PROVE IInv'
<1> USE DEF IInv
<1>1. PICK v \in Final :
        /\ tests' = [tests EXCEPT ![w] = Append(@, v)]
        /\ perfect' \in {[perfect EXCEPT ![w] = b] : b \in BOOLEAN}
        /\ perfect'[w] => perfect[w] /\ (Starts(sub[w]) => v = "ACCEPTED")
  <2>0. sub[w] \in Subs /\ perfect[w] \in BOOLEAN
    BY DEF TypeOK
  <2>1. CASE \E right, late \in BOOLEAN :
               /\ tests' = [tests EXCEPT ![w] = Append(@, TestVerdict(sub[w], right, late))]
               /\ perfect' = [perfect EXCEPT ![w] = @ /\ right /\ ~late]
    BY <2>0, <2>1, TestVerdictFinal DEF TypeOK
  <2>2. CASE /\ tests' = [tests EXCEPT ![w] = Append(@, "INTERNAL_ERROR")]
             /\ perfect' = [perfect EXCEPT ![w] = FALSE]
    BY <2>2, FinalVerdicts DEF TypeOK
  <2> QED
    BY <2>1, <2>2 DEF RunTest
<1>2. /\ pc[w] = "test" /\ Len(tests[w]) < result[w].total
      /\ UNCHANGED <<pc, sub, binary, result, litter>>
  BY DEF RunTest
<1>3. /\ tests'[w] = Append(tests[w], v) /\ tests'[w] \in Seq(Final)
      /\ Len(tests'[w]) = Len(tests[w]) + 1 /\ Len(tests[w]) \in Nat
      /\ \A i \in 1 .. Len(tests[w]) : tests'[w][i] = tests[w][i]
      /\ tests'[w][Len(tests[w]) + 1] = v
  BY <1>1 DEF TypeOK, Tested
<1>4. result[w].total \in 0 .. MaxTests
  BY DEF TypeOK
<1>5. TypeOK'
  <2>1. tests'[w] \in Seq(Verdict)
    BY <1>3, FinalVerdicts, SeqMonotonic
  <2>2. \A x \in Workers : tests'[x] \in Seq(Verdict) /\ Len(tests'[x]) <= MaxTests
    BY <1>1, <1>2, <1>3, <1>4, <2>1 DEF TypeOK
  <2>3. tests' \in [Workers -> Seq(Verdict)] /\ perfect' \in [Workers -> BOOLEAN]
    BY <1>1, <2>2 DEF TypeOK
  <2> QED
    BY <1>2, <2>2, <2>3 DEF TypeOK
<1>6. Tested(w)'
  BY <1>2, <1>3, <1>4 DEF Tested
<1>7. Exclusive => AllRight(w)'
  <2> SUFFICES ASSUME Exclusive, Compiled(sub[w]), perfect'[w]
               PROVE  \A i \in 1 .. Len(tests'[w]) : tests'[w][i] = "ACCEPTED"
    BY <1>2 DEF AllRight, Compiled
  <2>1. v = "ACCEPTED"
    BY <1>1, <1>2 DEF OwnBinary, Starts
  <2>2. \A i \in 1 .. Len(tests[w]) : tests[w][i] = "ACCEPTED"
    BY <1>1 DEF AllRight
  <2> QED
    BY <1>3, <2>1, <2>2
<1>8. \A x \in Workers \ {w} : Tested(x)' /\ (Exclusive => AllRight(x)')
  BY <1>1, <1>2, Untouched DEF TypeOK
<1>9. Removed' /\ (Exclusive => Apart' /\ OwnBinary')
  BY <1>2 DEF Removed, Apart, OwnBinary, Compiled
<1> QED
  BY <1>5, <1>6, <1>7, <1>8, <1>9

(***************************************************************************)
(* The sum, and the end.                                                   *)
(***************************************************************************)
LEMMA SumUpIInv == ASSUME IInv, NEW w \in Workers, SumUp(w) PROVE IInv'
<1> USE DEF IInv, SumUp, Goto
<1>1. /\ tests[w] \in Seq(Final) /\ Len(tests[w]) <= MaxTests /\ result[w] \in Result
      /\ Len(tests[w]) = result[w].total
  BY DEF TypeOK, Tested, Result
<1>2. Passed(tests[w]) \in 0 .. MaxTests
  BY <1>1, PassedBound, LenProperties
<1>3. Overall(tests[w], result[w].total) \in Final
  BY <1>1, OverallFinal DEF Result
<1>4. /\ result'[w].verdict = Overall(tests[w], result[w].total)
      /\ result'[w].passed = Passed(tests[w])
      /\ result'[w].total = result[w].total
      /\ result'[w] \in Result
      /\ \A x \in Workers \ {w} : result'[x] = result[x]
      /\ result' \in [Workers -> Result]
  BY <1>1, <1>2, <1>3, FinalVerdicts DEF TypeOK, Result
<1>5. TypeOK'
  BY <1>4 DEF TypeOK, Steps, Result
<1>6. Tested(w)'
  <2>1. tests[w] = <<>> => Overall(tests[w], result[w].total) \in Failures
    BY DEF Overall, Failures
  <2>2. /\ tests'[w] = tests[w] /\ pc'[w] = "remove"
        /\ Passed(tests[w])' = Passed(tests[w])
        /\ Overall(tests[w], result[w].total)' = Overall(tests[w], result[w].total)
    BY <1>4 DEF TypeOK, Passed, Overall
  <2> QED
    BY <1>1, <1>3, <1>4, <2>1, <2>2 DEF Tested
<1>7. Exclusive => AllRight(w)'
  BY DEF TypeOK, AllRight, Compiled
<1>8. \A x \in Workers \ {w} : Tested(x)' /\ (Exclusive => AllRight(x)')
  BY <1>4, Untouched DEF TypeOK
<1>9. Removed' /\ (Exclusive => Apart' /\ OwnBinary')
  BY DEF TypeOK, Removed, Apart, OwnBinary
<1> QED
  BY <1>5, <1>6, <1>7, <1>8, <1>9

LEMMA RemoveIInv == ASSUME IInv, NEW w \in Workers, RemoveBinary(w) PROVE IInv'
<1> USE DEF IInv, RemoveBinary, Goto
<1>1. TypeOK'
  BY DEF TypeOK, Steps
<1>2. \A x \in Workers : Tested(x)' /\ (Exclusive => AllRight(x)')
  <2>1. Tested(w)' /\ (Exclusive => AllRight(w)')
    <3>1. pc[w] = "remove" /\ pc'[w] = "done" /\ UNCHANGED <<sub, result, tests, perfect>>
      BY DEF TypeOK
    <3>2. Tested(w)'
      BY <3>1 DEF Tested, Passed, Overall
    <3>3. Exclusive => AllRight(w)'
      BY <3>1 DEF AllRight, Compiled
    <3> QED
      BY <3>2, <3>3
  <2> QED
    BY <2>1, Untouched DEF TypeOK
<1>3. Removed'
  BY DEF TypeOK, Removed
<1>4. Exclusive => Apart' /\ OwnBinary'
  BY DEF TypeOK, Apart, OwnBinary
<1> QED
  BY <1>1, <1>2, <1>3, <1>4

(***************************************************************************)
(* A process that dies has nothing in its hands.                           *)
(***************************************************************************)
LEMMA DiesIInv == ASSUME IInv, ProcessDies PROVE IInv'
<1> USE DEF IInv, ProcessDies
<1>1. TypeOK'
  BY DEF TypeOK, Steps
<1>2. \A x \in Workers : Tested(x)' /\ (Exclusive => AllRight(x)')
  BY DEF Tested, AllRight, Compiled
<1>3. Removed' /\ Apart' /\ OwnBinary'
  BY DEF Removed, Apart, OwnBinary, Compiled
<1> QED
  BY <1>1, <1>2, <1>3

(***************************************************************************)
(* Hence the invariant holds in every reachable state.                     *)
(***************************************************************************)
LEMMA NextIInv == IInv /\ [Next]_vars => IInv'
<1> SUFFICES ASSUME IInv, [Next]_vars PROVE IInv'
  OBVIOUS
<1>1. CASE UNCHANGED vars
  <2> USE <1>1 DEF vars, IInv
  <2>1. TypeOK'
    BY DEF TypeOK
  <2>2. \A w \in Workers : Tested(w)'
    BY DEF Tested, Passed, Overall
  <2>3. Removed' /\ (Exclusive => Apart' /\ OwnBinary' /\ \A w \in Workers : AllRight(w)')
    BY DEF Removed, Apart, OwnBinary, AllRight, Compiled
  <2> QED
    BY <2>1, <2>2, <2>3
<1>2. CASE Next
  BY <1>2, TakeIInv, FinishIInv, PrepareIInv, RunTestIInv, SumUpIInv, RemoveIInv, DiesIInv
    DEF Next
<1> QED
  BY <1>1, <1>2

LEMMA Invariance == Spec => []IInv
  BY InitIInv, NextIInv, PTL DEF Spec

-----------------------------------------------------------------------------
(***************************************************************************)
(* Every variable keeps its type; no more tests are passed or run than     *)
(* there may be.                                                           *)
(***************************************************************************)
THEOREM TypeCorrect == Spec => []TypeOK
<1>1. IInv => TypeOK
  BY DEF IInv
<1> QED
  BY <1>1, Invariance, PTL

(***************************************************************************)
(* What an evaluation returns is final, whoever else evaluates what.       *)
(***************************************************************************)
THEOREM Finality == Spec => []ResultIsFinal
<1>1. IInv => ResultIsFinal
  BY DEF IInv, Tested, ResultIsFinal
<1> QED
  BY <1>1, Invariance, PTL

(***************************************************************************)
(* Nothing executable is left where nobody works but what a failed         *)
(* compilation or a dead process left, also when two workers have the same *)
(* submission.                                                             *)
(***************************************************************************)
THEOREM LeavesNothing == Spec => []NoLeftovers
<1>1. IInv => NoLeftovers
  BY DEF IInv, Removed, NoLeftovers
<1> QED
  BY <1>1, Invariance, PTL

(***************************************************************************)
(* Where no submission is in two workers' hands, its binary is there while *)
(* its tests run.                                                          *)
(***************************************************************************)
THEOREM BinaryIsThere == ASSUME Exclusive PROVE Spec => []OwnBinary
<1>1. IInv => OwnBinary
  BY DEF IInv
<1> QED
  BY <1>1, Invariance, PTL

(***************************************************************************)
(* There, a compiled program that is right and in time on every test is    *)
(* accepted with all tests passed.                                         *)
(***************************************************************************)
THEOREM RightAccepted == ASSUME Exclusive PROVE Spec => []RightIsAccepted
<1>1. IInv => RightIsAccepted
  <2> SUFFICES ASSUME IInv, NEW w \in Workers, pc[w] = "done", Compiled(sub[w]), perfect[w],
                      tests[w] # <<>>
               PROVE  result[w].verdict = "ACCEPTED" /\ result[w].passed = result[w].total
    BY DEF RightIsAccepted
  <2>1. /\ tests[w] \in Seq(Final) /\ Len(tests[w]) = result[w].total
        /\ result[w].passed = Passed(tests[w])
        /\ result[w].verdict = Overall(tests[w], result[w].total)
    BY DEF IInv, Tested
  <2>2. Passed(tests[w]) = Len(tests[w])
    BY <2>1, PassedBound DEF IInv, AllRight
  <2> QED
    BY <2>1, <2>2 DEF Overall
<1> QED
  BY <1>1, Invariance, PTL

(***************************************************************************)
(* What a verdict does say, of several workers at any time: if tests were  *)
(* run, it is the verdict of the last one, "every test was passed"         *)
(* included, and otherwise it is an error.  So ACCEPTED means that the     *)
(* last test was run and passed, and that of the others says nothing:      *)
(* AcceptedMeansAllPassed fails there.                                     *)
(***************************************************************************)
LastTestDecides ==
  \A w \in Workers :
    pc[w] \in {"remove", "done"} =>
      IF tests[w] = <<>> THEN result[w].verdict \in Failures
                         ELSE result[w].verdict = tests[w][Len(tests[w])]

(***************************************************************************)
(* So the verdict of evaluate_submission is that of the last test, for any *)
(* number of tests and workers.                                            *)
(***************************************************************************)
THEOREM VerdictOfTheLast == Spec => []LastTestDecides
<1>1. IInv => LastTestDecides
  <2> SUFFICES ASSUME IInv, NEW w \in Workers, pc[w] \in {"remove", "done"}, tests[w] # <<>>
               PROVE  result[w].verdict = tests[w][Len(tests[w])]
    BY DEF IInv, Tested, LastTestDecides
  <2>1. /\ tests[w] \in Seq(Final) /\ Len(tests[w]) = result[w].total
        /\ result[w].verdict = Overall(tests[w], result[w].total)
    BY DEF IInv, Tested
  <2>2. Len(tests[w]) \in 1 .. Len(tests[w])
    BY <2>1, EmptySeq, LenProperties
  <2>3. tests[w][Len(tests[w])] # "PENDING"
    <3>1. tests[w][Len(tests[w])] \in Final
      BY <2>1, <2>2, ElementOfSeq
    <3> QED
      BY <3>1 DEF Final
  <2>4. CASE Passed(tests[w]) = Len(tests[w])
    BY <2>1, <2>2, <2>4, PassedBound DEF Overall
  <2>5. CASE Passed(tests[w]) # Len(tests[w])
    BY <2>1, <2>3, <2>5 DEF Overall
  <2> QED
    BY <2>4, <2>5
<1> QED
  BY <1>1, Invariance, PTL

=============================================================================
