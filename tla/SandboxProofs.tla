--------------------------- MODULE SandboxProofs ----------------------------
(***************************************************************************)
(* Proofs about Sandbox, for any number of threads, any pipe capacity and  *)
(* whatever programs and compilers do: every child is reaped, no other     *)
(* process is killed, the output of a child is read to its end and is all  *)
(* that counts besides the deadline, and no two threads wait for each      *)
(* other.                                                                  *)
(***************************************************************************)
EXTENDS Sandbox, TLAPS

USE WorkerAssumption, CapacityAssumption, ProgramsAssumption

Ended   == {"closed", "zombie", "gone"}
Alive   == {"forked", "running"}
Testing == {"loop", "select", "poll", "drain", "reap"}
Waiting == {"read", "wait", "collect"}

(***************************************************************************)
(* Where the child is, by where its parent is.                             *)
(***************************************************************************)
Life(t) ==
  /\ pc[t] \in {"idle", "fork"} => child[t] = "none"
  /\ pc[t] \in {"close", "loop", "select", "poll", "read", "wait"} =>
       child[t] \in {"forked", "running", "closed", "zombie"}
  /\ pc[t] = "drain" => child[t] = "gone"
  /\ pc[t] = "reap" => child[t] \in Ended
  /\ pc[t] = "collect" => child[t] \in {"closed", "zombie"}
  /\ pc[t] = "done" => child[t] \in {"none", "gone"}
  /\ late[t] => child[t] # "forked"
  /\ pc[t] \in {"idle", "fork", "close"} => ~late[t]
  /\ pc[t] \in Testing => job[t] = "test"
  /\ pc[t] \in Waiting => job[t] = "compile"

(***************************************************************************)
(* A child that lives can write, and the worker can until it closes its    *)
(* end: the pipe ends after both.                                          *)
(***************************************************************************)
Held(t) ==
  /\ pc[t] \in {"fork", "close"} => Worker \in holders[t]
  /\ child[t] \in Alive => t \in holders[t]

(***************************************************************************)
(* A child that was not killed has written everything, and it is read      *)
(* before anybody judges it.                                               *)
(***************************************************************************)
Complete(t) ==
  /\ timedOut[t] => late[t]
  /\ pc[t] \notin {"reap", "collect", "done"} => ~timedOut[t]
  /\ child[t] \in Ended /\ ~timedOut[t] => left[t] = 0 /\ ending[t] = program[t].ends
  /\ pc[t] = "reap" /\ ~timedOut[t] => child[t] = "gone" /\ unread[t] = 0
  /\ pc[t] \in {"wait", "collect"} => /\ child[t] \notin Alive
                                      /\ left[t] = 0 /\ unread[t] = 0
  /\ pc[t] = "collect" => timedOut[t]

(***************************************************************************)
(* The verdict of a test run: no process, no time, or by the output.  The  *)
(* last two are what RunVerdict says without a status and a usage.         *)
(***************************************************************************)
TestVerdict(t) ==
  IF child[t] = "none" THEN "INTERNAL_ERROR"
                       ELSE RunVerdict(timedOut[t], NoStatus, NoUsage, program[t].right)

Judged(t) ==
  pc[t] = "done" =>
    /\ job[t] = "test" => verdict[t] = TestVerdict(t)
    /\ job[t] = "compile" => verdict[t] \in {"PENDING", "COMPILATION_ERROR"}
    /\ job[t] = "compile" /\ child[t] # "none" =>
         /\ verdict[t] = "PENDING" <=> ~timedOut[t] /\ program[t].ends = "exit zero"
         /\ left[t] = 0 /\ unread[t] = 0

Sound(t) == Life(t) /\ Held(t) /\ Complete(t) /\ Judged(t)

IInv == TypeOK /\ \A t \in Threads : Sound(t)

Step(t) == Parent(t) \/ Child(t) \/ DeadlinePasses(t)

-----------------------------------------------------------------------------
(***************************************************************************)
(* What is said of a child or its parent has a type.                       *)
(***************************************************************************)
LEMMA Constants ==
  /\ NoProgram \in Program /\ NoStatus \in Endings
  /\ \A right \in BOOLEAN : OutputVerdict(right) \in Verdict \ {"PENDING"}
  /\ \A l, right \in BOOLEAN, status \in Endings, usage \in Usage :
       RunVerdict(l, status, usage, right) \in Verdict
  /\ NoUsage \in Usage
  /\ {"PENDING", "INTERNAL_ERROR", "COMPILATION_ERROR"} \subseteq Verdict
  /\ \A right \in BOOLEAN : RunVerdict(FALSE, NoStatus, NoUsage, right) = OutputVerdict(right)
  /\ \A status \in Endings, usage \in Usage, right \in BOOLEAN :
       RunVerdict(TRUE, status, usage, right) = "TIME_LIMIT_EXCEEDED"
<1>1. NoUsage \in Usage
  BY DEF NoUsage, Usage
<1>2. NoProgram \in Program /\ NoStatus \in Endings
  BY <1>1 DEF NoProgram, Program, NoStatus, Endings
<1>3. {"PENDING", "INTERNAL_ERROR", "COMPILATION_ERROR"} \subseteq Verdict
  BY DEF Verdict, InProgress, Final
<1>4. \A right \in BOOLEAN : OutputVerdict(right) \in Verdict \ {"PENDING"}
  BY DEF OutputVerdict, Verdict, InProgress, Final
<1>5. ASSUME NEW l \in BOOLEAN, NEW right \in BOOLEAN, NEW status \in Endings,
             NEW usage \in Usage
      PROVE  RunVerdict(l, status, usage, right) \in Verdict
  BY DEF RunVerdict, OutputVerdict, Verdict, InProgress, Final
<1>6. \A right \in BOOLEAN : RunVerdict(FALSE, NoStatus, NoUsage, right) = OutputVerdict(right)
  BY DEF RunVerdict, NoStatus, NoUsage
<1>7. ASSUME NEW status \in Endings, NEW usage \in Usage, NEW right \in BOOLEAN
      PROVE  RunVerdict(TRUE, status, usage, right) = "TIME_LIMIT_EXCEEDED"
  BY DEF RunVerdict
<1> QED
  BY <1>1, <1>2, <1>3, <1>4, <1>5, <1>6, <1>7

(***************************************************************************)
(* A step of one thread or its child touches nothing of another thread,    *)
(* but for the pipe ends its child inherits or closes.                     *)
(***************************************************************************)
LEMMA Untouched ==
  ASSUME TypeOK, NEW t \in Threads, Step(t), NEW u \in Threads \ {t}
  PROVE  /\ pc'[u] = pc[u] /\ job'[u] = job[u] /\ program'[u] = program[u]
         /\ child'[u] = child[u] /\ ending'[u] = ending[u] /\ left'[u] = left[u]
         /\ unread'[u] = unread[u] /\ late'[u] = late[u]
         /\ timedOut'[u] = timedOut[u] /\ verdict'[u] = verdict[u]
         /\ Worker \in holders[u] => Worker \in holders'[u]
         /\ u \in holders[u] => u \in holders'[u]
<1> USE DEF TypeOK, Goto, childVars
<1>1. CASE Pipe(t)
  BY <1>1 DEF Pipe, Fails
<1>2. CASE Fork(t)
  BY <1>2 DEF Fork
<1>3. CASE ForkFails(t)
  BY <1>3 DEF ForkFails, Fails
<1>4. CASE CloseWriteEnd(t)
  BY <1>4 DEF CloseWriteEnd
<1>5. CASE CheckDeadline(t)
  BY <1>5 DEF CheckDeadline, Kill, ClosedBy
<1>6. CASE Select(t) \/ Poll(t) \/ Drain(t) \/ Reap(t)
  BY <1>6 DEF Select, Poll, Drain, Reap, ReadSome, ReadToEnd
<1>7. CASE ReadCompiler(t) \/ CollectCompiler(t) \/ NextRun(t)
  BY <1>7 DEF ReadCompiler, CollectCompiler, NextRun, ReadSome, ReadToEnd
<1>8. CASE WaitForCompiler(t)
  BY <1>8 DEF WaitForCompiler, Kill, ClosedBy
<1>9. CASE Child(t) \/ DeadlinePasses(t)
  BY <1>9 DEF Child, Exec, Write, Exit, BecomeZombie, ClosedBy, DeadlinePasses
<1> QED
  BY <1>1, <1>2, <1>3, <1>4, <1>5, <1>6, <1>7, <1>8, <1>9 DEF Step, Parent

(***************************************************************************)
(* So what is known of the other threads stays.                            *)
(***************************************************************************)
LEMMA OthersSound ==
  ASSUME IInv, NEW t \in Threads, Step(t)
  PROVE  \A u \in Threads \ {t} : Sound(u)'
<1> SUFFICES ASSUME NEW u \in Threads \ {t} PROVE Sound(u)'
  OBVIOUS
<1> USE Untouched DEF IInv, Sound
<1>1. Life(u)'
  BY DEF Life
<1>2. Held(u)'
  BY DEF Held
<1>3. Complete(u)'
  BY DEF Complete
<1>4. Judged(u)'
  BY DEF Judged, TestVerdict
<1> QED
  BY <1>1, <1>2, <1>3, <1>4

-----------------------------------------------------------------------------
(***************************************************************************)
(* The beginning of a run, and the step from one to the next.              *)
(***************************************************************************)
LEMMA OpeningIInv ==
  ASSUME IInv, NEW t \in Threads, Pipe(t) \/ Fork(t) \/ ForkFails(t) \/ CloseWriteEnd(t)
                                  \/ NextRun(t)
  PROVE  TypeOK' /\ Sound(t)'
<1> USE DEF IInv, Sound, Goto, childVars
<1>1. CASE Pipe(t)
  <2>0. /\ pc[t] = "idle" /\ UNCHANGED <<childVars, unread, late, timedOut>>
        /\ \E kind \in {"test", "compile"} : job' = [job EXCEPT ![t] = kind]
        /\ \E hs \in SUBSET (Threads \cup {Worker}) :
             holders' = [holders EXCEPT ![t] = hs]
        /\ \/ pc' = [pc EXCEPT ![t] = "fork"] /\ UNCHANGED verdict /\ holders'[t] = {Worker}
           \/ /\ pc' = [pc EXCEPT ![t] = "done"]
              /\ \E v \in {"INTERNAL_ERROR", "COMPILATION_ERROR"} :
                   /\ verdict' = [verdict EXCEPT ![t] = v]
                   /\ v = IF job'[t] = "test" THEN "INTERNAL_ERROR" ELSE "COMPILATION_ERROR"
    <3>1. CASE Fails(t) /\ UNCHANGED holders
      <4>1. holders' = [holders EXCEPT ![t] = holders[t]]
        BY <3>1 DEF TypeOK
      <4> QED
        BY <1>1, <3>1, <4>1 DEF Pipe, Fails, TypeOK
    <3>2. CASE ~(Fails(t) /\ UNCHANGED holders)
      BY <1>1, <3>2 DEF Pipe, TypeOK
    <3> QED
      BY <3>1, <3>2
  <2>1. TypeOK'
    <3>1. job' \in [Threads -> {"test", "compile"}]
      BY <2>0 DEF TypeOK
    <3>2. holders' \in [Threads -> SUBSET (Threads \cup {Worker})]
      BY <2>0 DEF TypeOK
    <3>3. pc' \in [Threads -> Steps]
      BY <2>0 DEF TypeOK, Steps
    <3>4. verdict' \in [Threads -> Verdict]
      <4>1. {"INTERNAL_ERROR", "COMPILATION_ERROR"} \subseteq Verdict
        BY Constants
      <4> QED
        BY <2>0, <4>1 DEF TypeOK
    <3> QED
      BY <2>0, <3>1, <3>2, <3>3, <3>4 DEF TypeOK
  <2>2. Life(t)' /\ Held(t)' /\ Complete(t)'
    BY <2>0 DEF TypeOK, Life, Held, Complete, Ended, Alive, Testing, Waiting
  <2>3. Judged(t)'
    <3>1. child'[t] = "none"
      BY <2>0 DEF Life, TypeOK
    <3> QED
      BY <2>0, <3>1 DEF TypeOK, Judged, TestVerdict
  <2> QED
    BY <2>1, <2>2, <2>3
<1>2. CASE Fork(t)
  <2>1. TypeOK'
    BY <1>2 DEF Fork, TypeOK, Steps, ChildStates, Program
  <2>2. Sound(t)'
    BY <1>2 DEF Fork, TypeOK, Life, Held, Complete, Judged, Ended, Alive, Testing, Waiting
  <2> QED
    BY <2>1, <2>2
<1>3. CASE ForkFails(t)
  <2>1. TypeOK'
    BY <1>3, Constants DEF ForkFails, Fails, TypeOK, Steps
  <2>2. Sound(t)'
    BY <1>3 DEF ForkFails, Fails, TypeOK, Life, Held, Complete, Judged, TestVerdict, Ended,
                Alive, Testing, Waiting
  <2> QED
    BY <2>1, <2>2
<1>4. CASE CloseWriteEnd(t)
  <2>1. TypeOK'
    BY <1>4 DEF CloseWriteEnd, TypeOK, Steps
  <2>2. Sound(t)'
    BY <1>4 DEF CloseWriteEnd, TypeOK, Life, Held, Complete, Judged, Ended, Alive,
                Testing, Waiting
  <2> QED
    BY <2>1, <2>2
<1>5. CASE NextRun(t)
  <2>1. TypeOK'
    BY <1>5, Constants DEF NextRun, TypeOK, Steps, ChildStates
  <2>2. Sound(t)'
    BY <1>5 DEF NextRun, TypeOK, Life, Held, Complete, Judged, Ended, Alive, Testing, Waiting
  <2> QED
    BY <2>1, <2>2
<1> QED
  BY <1>1, <1>2, <1>3, <1>4, <1>5

(***************************************************************************)
(* The steps of a test run.  Only a child that timed out is reaped without *)
(* its output having been read to the end.                                 *)
(***************************************************************************)
LEMMA TestIInv ==
  ASSUME IInv, NEW t \in Threads,
         CheckDeadline(t) \/ Select(t) \/ Poll(t) \/ Drain(t) \/ Reap(t)
  PROVE  TypeOK' /\ Sound(t)'
<1> USE DEF IInv, Sound, Goto, childVars
<1>1. CASE CheckDeadline(t)
  <2>1. CASE ~late[t]
    <3>1. TypeOK'
      BY <1>1, <2>1 DEF CheckDeadline, TypeOK, Steps
    <3>2. Sound(t)'
      <4>1. pc'[t] = "select"
        BY <1>1, <2>1 DEF CheckDeadline, TypeOK
      <4>2. Judged(t)'
        BY <4>1 DEF Judged
      <4> QED
        BY <1>1, <2>1, <4>2 DEF CheckDeadline, TypeOK, Life, Held, Complete, Ended, Alive,
                                Testing, Waiting
    <3> QED
      BY <3>1, <3>2
  <2>2. CASE late[t] /\ child[t] # "running"
    <3>1. TypeOK'
      BY <1>1, <2>2 DEF CheckDeadline, Kill, TypeOK, Steps
    <3>2. Sound(t)'
      BY <1>1, <2>2 DEF CheckDeadline, Kill, TypeOK, Life, Held, Complete, Judged, Ended,
                        Alive, Testing, Waiting
    <3> QED
      BY <3>1, <3>2
  <2>3. CASE late[t] /\ child[t] = "running"
    <3>0. /\ pc' = [pc EXCEPT ![t] = "reap"] /\ pc[t] = "loop"
          /\ timedOut' = [timedOut EXCEPT ![t] = TRUE]
          /\ child' = [child EXCEPT ![t] = "closed"]
          /\ ending' = [ending EXCEPT ![t] = "SIGKILL"]
          /\ holders' = [u \in Threads |-> holders[u] \ {t}]
          /\ UNCHANGED <<job, program, left, unread, late, verdict>>
      BY <1>1, <2>3 DEF CheckDeadline, Kill, ClosedBy
    <3>1. holders' \in [Threads -> SUBSET (Threads \cup {Worker})]
      BY <3>0 DEF TypeOK
    <3>2. TypeOK'
      BY <3>0, <3>1 DEF TypeOK, Steps, ChildStates, Endings
    <3>3. Life(t)' /\ Held(t)' /\ Judged(t)'
      BY <3>0, <2>3 DEF TypeOK, Life, Held, Judged, Ended, Alive, Testing, Waiting
    <3>4. Complete(t)'
      BY <3>0, <2>3 DEF TypeOK, Complete
    <3> QED
      BY <3>2, <3>3, <3>4
  <2> QED
    BY <2>1, <2>2, <2>3
<1>2. CASE Select(t)
  <2>1. TypeOK'
    BY <1>2 DEF Select, ReadSome, TypeOK, Steps
  <2>2. Sound(t)'
    BY <1>2 DEF Select, ReadSome, TypeOK, Life, Held, Complete, Judged, Ended, Alive,
                Testing, Waiting
  <2> QED
    BY <2>1, <2>2
<1>3. CASE Poll(t)
  <2>1. TypeOK'
    BY <1>3 DEF Poll, TypeOK, Steps, ChildStates
  <2>2. Sound(t)'
    <3>1. pc'[t] \in {"drain", "loop"}
      BY <1>3 DEF Poll, TypeOK
    <3>2. Judged(t)'
      BY <3>1 DEF Judged
    <3> QED
      BY <1>3, <3>2 DEF Poll, TypeOK, Life, Held, Complete, Ended, Alive, Testing, Waiting
  <2> QED
    BY <2>1, <2>2
<1>4. CASE Drain(t)
  <2>1. TypeOK'
    BY <1>4 DEF Drain, ReadToEnd, ReadSome, TypeOK, Steps
  <2>2. Sound(t)'
    BY <1>4 DEF Drain, ReadToEnd, ReadSome, TypeOK, Life, Held, Complete, Judged, Ended,
                Alive, Testing, Waiting
  <2> QED
    BY <2>1, <2>2
<1>5. CASE Reap(t)
  <2>0. /\ program[t] \in Program /\ ending[t] \in Endings /\ timedOut[t] \in BOOLEAN
        /\ Matches(t) \in BOOLEAN
    BY DEF TypeOK, Matches, Program
  <2>1. verdict'[t] \in Verdict
    BY <1>5, <2>0, Constants DEF Reap, TypeOK, Program
  <2>2. TypeOK'
    BY <1>5, <2>1 DEF Reap, TypeOK, Steps, ChildStates
  <2>3. verdict'[t] = RunVerdict(timedOut[t], NoStatus, NoUsage, program[t].right)
    <3>1. CASE timedOut[t]
      <4>1. timedOut[t] = TRUE
        BY <2>0, <3>1
      <4>2. verdict'[t] = "TIME_LIMIT_EXCEEDED"
        <5>1. \/ verdict'[t] = RunVerdict(timedOut[t], ending[t], program[t].usage, Matches(t))
              \/ verdict'[t] = RunVerdict(timedOut[t], NoStatus, NoUsage, Matches(t))
          BY <1>5 DEF Reap, TypeOK
        <5>2. program[t].usage \in Usage /\ NoStatus \in Endings /\ NoUsage \in Usage
          BY <2>0, Constants DEF Program
        <5> QED
          BY <2>0, <4>1, <5>1, <5>2, Constants
      <4>3. NoStatus \in Endings /\ NoUsage \in Usage /\ program[t].right \in BOOLEAN
        BY <2>0, Constants DEF Program
      <4> QED
        BY <4>1, <4>2, <4>3, Constants
    <3>2. CASE ~timedOut[t]
      <4>1. child[t] = "gone" /\ Matches(t) = program[t].right
        BY <1>5, <2>0, <3>2 DEF Reap, Complete, Matches, Ended, Program
      <4> QED
        BY <1>5, <3>2, <4>1 DEF Reap, TypeOK
    <3> QED
      BY <3>1, <3>2
  <2>4. Sound(t)'
    BY <1>5, <2>3 DEF TestVerdict, Reap, TypeOK, Life, Held, Complete, Judged, Ended, Alive, Testing, Waiting
  <2> QED
    BY <2>2, <2>4
<1> QED
  BY <1>1, <1>2, <1>3, <1>4, <1>5

(***************************************************************************)
(* The steps of a compilation.  The end of the stream says that the        *)
(* compiler has ended, so nothing is killed that still has to write.       *)
(***************************************************************************)
LEMMA CompileIInv ==
  ASSUME IInv, NEW t \in Threads,
         ReadCompiler(t) \/ WaitForCompiler(t) \/ CollectCompiler(t)
  PROVE  TypeOK' /\ Sound(t)'
<1> USE DEF IInv, Sound, Goto, childVars
<1>1. CASE ReadCompiler(t)
  <2>1. TypeOK'
    BY <1>1 DEF ReadCompiler, ReadToEnd, ReadSome, TypeOK, Steps
  <2>2. Sound(t)'
    BY <1>1 DEF ReadCompiler, ReadToEnd, ReadSome, TypeOK, Life, Held, Complete, Judged,
                Ended, Alive, Testing, Waiting
  <2> QED
    BY <2>1, <2>2
<1>2. CASE WaitForCompiler(t)
  <2>0. ~timedOut[t] /\ child[t] \in {"closed", "zombie"} /\ ending[t] = program[t].ends
    BY <1>2 DEF WaitForCompiler, Life, Complete, Ended, Alive
  <2>1. TypeOK'
    <3>1. CompileVerdict(t) \in Verdict
      BY Constants DEF CompileVerdict
    <3>2. CASE timedOut' = timedOut
      BY <1>2, <2>0, <3>1, <3>2 DEF WaitForCompiler, Kill, TypeOK, Steps, ChildStates
    <3>3. CASE UNCHANGED <<child, verdict, ending, holders>>
      BY <1>2, <2>0, <3>3 DEF WaitForCompiler, Kill, TypeOK, Steps
    <3> QED
      BY <1>2, <2>0, <3>2, <3>3 DEF WaitForCompiler, Kill
  <2>2. Sound(t)'
    <3>1. CASE pc'[t] = "done"
      BY <1>2, <2>0, <3>1 DEF WaitForCompiler, CompileVerdict, Kill, TypeOK, Life, Held,
                              Complete, Judged, Ended, Alive, Testing, Waiting
    <3>2. CASE pc'[t] # "done"
      <4>1. Judged(t)'
        BY <3>2 DEF Judged
      <4> QED
        BY <1>2, <2>0, <3>2, <4>1 DEF WaitForCompiler, Kill, TypeOK, Life, Held, Complete,
                                      Ended, Alive, Testing, Waiting
    <3> QED
      BY <3>1, <3>2
  <2> QED
    BY <2>1, <2>2
<1>3. CASE CollectCompiler(t)
  <2>1. TypeOK'
    BY <1>3, Constants DEF CollectCompiler, TypeOK, Steps, ChildStates
  <2>2. Sound(t)'
    BY <1>3 DEF CollectCompiler, TypeOK, Life, Held, Complete, Judged, Ended, Alive,
                Testing, Waiting
  <2> QED
    BY <2>1, <2>2
<1> QED
  BY <1>1, <1>2, <1>3

(***************************************************************************)
(* The steps of the child, and of time.                                    *)
(***************************************************************************)
LEMMA ChildIInv ==
  ASSUME IInv, NEW t \in Threads, Child(t) \/ DeadlinePasses(t)
  PROVE  TypeOK' /\ Sound(t)'
<1> USE DEF IInv, Sound, childVars
<1>1. TypeOK'
  <2>1. CASE Exit(t)
    BY <2>1 DEF Exit, ClosedBy, TypeOK, ChildStates, Program
  <2>2. CASE Exec(t) \/ BecomeZombie(t)
    BY <2>2 DEF Exec, BecomeZombie, TypeOK, ChildStates
  <2>3. CASE Write(t)
    BY <2>3 DEF Write, TypeOK
  <2>4. CASE DeadlinePasses(t)
    BY <2>4 DEF DeadlinePasses, TypeOK
  <2> QED
    BY <2>1, <2>2, <2>3, <2>4 DEF Child
<1>2. CASE Exec(t)
  BY <1>1, <1>2 DEF Exec, TypeOK, Life, Held, Complete, Judged, Ended, Alive, Testing, Waiting
<1>3. CASE BecomeZombie(t)
  BY <1>1, <1>3 DEF BecomeZombie, TypeOK, Life, Held, Complete, Judged, Ended, Alive,
                    Testing, Waiting
<1>4. CASE DeadlinePasses(t)
  BY <1>1, <1>4 DEF DeadlinePasses, TypeOK, Life, Held, Complete, Judged, Ended, Alive,
                    Testing, Waiting
<1>5. CASE Write(t)
  BY <1>1, <1>5 DEF Write, TypeOK, Life, Held, Complete, Judged, Ended, Alive, Testing, Waiting
<1>6. CASE Exit(t)
  BY <1>1, <1>6 DEF Exit, ClosedBy, TypeOK, Life, Held, Complete, Judged, Ended, Alive,
                    Testing, Waiting
<1> QED
  BY <1>1, <1>2, <1>5, <1>6, <1>4, <1>3 DEF Child

-----------------------------------------------------------------------------
(***************************************************************************)
(* At first there are no children.                                         *)
(***************************************************************************)
LEMMA InitIInv == Init => IInv
<1> SUFFICES ASSUME Init PROVE IInv
  OBVIOUS
<1>1. TypeOK
  BY Constants DEF Init, TypeOK, Steps, ChildStates
<1>2. \A t \in Threads : Sound(t)
  BY DEF Init, Sound, Life, Held, Complete, Judged, Ended, Alive, Testing, Waiting
<1> QED
  BY <1>1, <1>2 DEF IInv

LEMMA NextIInv == IInv /\ [Next]_vars => IInv'
<1> SUFFICES ASSUME IInv, [Next]_vars PROVE IInv'
  OBVIOUS
<1>1. CASE UNCHANGED vars
  BY <1>1 DEF vars, IInv, TypeOK, Sound, Life, Held, Complete, Judged, TestVerdict
<1>2. ASSUME NEW t \in Threads, Step(t) PROVE IInv'
  <2>1. TypeOK' /\ Sound(t)'
    BY <1>2, OpeningIInv, TestIInv, CompileIInv, ChildIInv DEF Step, Parent
  <2> QED
    BY <1>2, <2>1, OthersSound DEF IInv
<1> QED
  BY <1>1, <1>2 DEF Next, Step

(***************************************************************************)
(* Hence the invariant holds in every reachable state.                     *)
(***************************************************************************)
LEMMA Invariance == Spec => []IInv
  BY InitIInv, NextIInv, PTL DEF Spec

-----------------------------------------------------------------------------
(***************************************************************************)
(* Every variable keeps its type; in particular no pipe holds more than    *)
(* its capacity and every verdict is one.                                  *)
(***************************************************************************)
THEOREM TypeCorrect == Spec => []TypeOK
<1>1. IInv => TypeOK
  BY DEF IInv
<1> QED
  BY <1>1, Invariance, PTL

(***************************************************************************)
(* No run and no compilation returns before its child is reaped.           *)
(***************************************************************************)
THEOREM Reaped == Spec => []NoChildLeft
<1>1. IInv => NoChildLeft
  BY DEF IInv, Sound, Life, NoChildLeft
<1> QED
  BY <1>1, Invariance, PTL

(***************************************************************************)
(* While the worker may still kill its child, nothing has reaped it.       *)
(***************************************************************************)
THEOREM KillsItsOwn == Spec => []KillsOwnChild
<1>1. IInv => KillsOwnChild
  BY DEF IInv, Sound, Life, KillsOwnChild
<1> QED
  BY <1>1, Invariance, PTL

(***************************************************************************)
(* A program that ended in time is judged by all of its output.            *)
(***************************************************************************)
THEOREM Judging == Spec => []JudgedByOutput
<1>1. IInv => JudgedByOutput
  <2> SUFFICES ASSUME IInv, NEW t \in Threads, pc[t] = "done", job[t] = "test", ~late[t],
                      child[t] # "none"
               PROVE  verdict[t] = OutputVerdict(program[t].right)
    BY DEF JudgedByOutput
  <2>1. program[t].right \in BOOLEAN /\ timedOut[t] = FALSE
    BY DEF IInv, TypeOK, Program, Sound, Complete
  <2> QED
    BY <2>1, Constants DEF IInv, Sound, Judged, TestVerdict
<1> QED
  BY <1>1, Invariance, PTL

(***************************************************************************)
(* A compilation says what the compiler did, and shows all it wrote.       *)
(***************************************************************************)
THEOREM Compiling == Spec => []CompilerIsBelieved
<1>1. IInv => CompilerIsBelieved
  BY DEF IInv, Sound, Judged, CompilerIsBelieved
<1> QED
  BY <1>1, Invariance, PTL

(***************************************************************************)
(* What a test run says depends on the deadline and the output alone,      *)
(* whatever the program does and however long the worker takes to notice:  *)
(* waitpid has reaped every child that was not killed, wait4 fails, and    *)
(* its status and its usage are never seen.  This is why Evaluator may     *)
(* take a test for one step with the verdict                               *)
(* RunVerdict(late, NoStatus, NoUsage, right), and why CrashIsReported     *)
(* fails in every run that crashes in time.                                *)
(***************************************************************************)
StatusIsNeverSeen ==
  \A t \in Threads : pc[t] = "done" /\ job[t] = "test" => verdict[t] = TestVerdict(t)

(***************************************************************************)
(* So the verdict of a run is a function of the deadline and the output.   *)
(***************************************************************************)
THEOREM JudgedInOneStep == Spec => []StatusIsNeverSeen
<1>1. IInv => StatusIsNeverSeen
  BY DEF IInv, Sound, Judged, StatusIsNeverSeen
<1> QED
  BY <1>1, Invariance, PTL

(***************************************************************************)
(* In particular nobody ever gets the verdicts RUNTIME_ERROR and           *)
(* MEMORY_LIMIT_EXCEEDED from a test.                                      *)
(***************************************************************************)
VerdictsInUse ==
  \A t \in Threads :
    pc[t] = "done" => verdict[t] \notin {"RUNTIME_ERROR", "MEMORY_LIMIT_EXCEEDED"}

(***************************************************************************)
(* Two of the verdicts that the API can show are never given to a program. *)
(***************************************************************************)
THEOREM NeverAtRuntime == Spec => []VerdictsInUse
<1>1. IInv => VerdictsInUse
  <2> SUFFICES ASSUME IInv, NEW t \in Threads, pc[t] = "done"
               PROVE  verdict[t] \notin {"RUNTIME_ERROR", "MEMORY_LIMIT_EXCEEDED"}
    BY DEF VerdictsInUse
  <2>1. CASE job[t] = "test"
    <3>1. TestVerdict(t) \in {"INTERNAL_ERROR", "TIME_LIMIT_EXCEEDED", "ACCEPTED",
                              "WRONG_ANSWER"}
      BY DEF TestVerdict, RunVerdict, OutputVerdict, NoStatus, NoUsage
    <3> QED
      BY <2>1, <3>1 DEF IInv, Sound, Judged
  <2>2. CASE job[t] = "compile"
    BY <2>2 DEF IInv, Sound, Judged
  <2> QED
    BY <2>1, <2>2 DEF IInv, TypeOK
<1> QED
  BY <1>1, Invariance, PTL

-----------------------------------------------------------------------------
(***************************************************************************)
(* Nobody has a pipe open for longer than he needs it: the worker does     *)
(* until it has forked, or failed to, and a child as long as it lives, its *)
(* own pipe and the ones it has inherited.                                 *)
(***************************************************************************)
Open ==
  \A t \in Threads :
    /\ Worker \in holders[t] => pc[t] \in {"fork", "close"}
    /\ \A u \in holders[t] \cap Threads : child[u] \in Alive

LEMMA OpenStep ==
  ASSUME IInv, Open, NEW t \in Threads, Step(t)
  PROVE  Open'
<1> USE WorkerAssumption DEF IInv, TypeOK, Open, Alive, Goto, childVars
<1>1. CASE Pipe(t)
  <2>1. \/ holders' = [holders EXCEPT ![t] = {Worker}] /\ pc'[t] = "fork"
        \/ holders' = holders /\ Worker \notin holders[t]
    BY <1>1 DEF Pipe, Fails
  <2>2. child' = child /\ \A u \in Threads \ {t} : pc'[u] = pc[u]
    BY <1>1 DEF Pipe, Fails
  <2> QED
    BY <2>1, <2>2
<1>2. CASE Fork(t)
  <2>1. /\ child' = [child EXCEPT ![t] = "forked"]
        /\ \A u \in Threads : /\ holders[u] \subseteq holders'[u]
                              /\ holders'[u] \subseteq holders[u] \cup {t}
        /\ pc[t] = "fork" /\ pc' = [pc EXCEPT ![t] = "close"]
    BY <1>2 DEF Fork
  <2> QED
    BY <2>1
<1>3. CASE ForkFails(t) \/ CloseWriteEnd(t)
  <2>1. /\ holders' = [holders EXCEPT ![t] = @ \ {Worker}] /\ child' = child
        /\ \A u \in Threads \ {t} : pc'[u] = pc[u]
    BY <1>3 DEF ForkFails, Fails, CloseWriteEnd
  <2> QED
    BY <2>1
<1>4. CASE Kill(t) /\ pc[t] \in {"loop", "wait"} /\ \A u \in Threads \ {t} : pc'[u] = pc[u]
  <2>1. CASE child[t] = "running"
    <3>1. /\ child' = [child EXCEPT ![t] = "closed"]
          /\ \A u \in Threads : holders'[u] = holders[u] \ {t}
      <4>1. child' = [child EXCEPT ![t] = "closed"] /\ holders' = ClosedBy(t)
        BY <2>1, <1>4 DEF Kill
      <4> QED
        BY <4>1 DEF ClosedBy
    <3>2. \A u \in Threads : Worker \in holders'[u] => pc'[u] \in {"fork", "close"}
      BY <1>4, <3>1
    <3> QED
      BY <3>1, <3>2
  <2>2. CASE child[t] # "running"
    BY <1>4, <2>2 DEF Kill
  <2> QED
    BY <2>1, <2>2
<1>5. CASE Exit(t)
  BY <1>5 DEF Exit, ClosedBy
<1>6. ASSUME holders' = holders, pc[t] \notin {"fork", "close"},
             \A u \in Threads \ {t} : pc'[u] = pc[u] /\ child'[u] = child[u],
             child'[t] = child[t] \/ child[t] \notin Alive
      PROVE  Open'
  BY <1>6
<1>7. CASE CheckDeadline(t)
  BY <1>4, <1>6, <1>7 DEF CheckDeadline
<1>8. CASE Select(t) \/ Poll(t) \/ Drain(t) \/ Reap(t)
  BY <1>6, <1>8 DEF Select, Poll, Drain, Reap, ReadToEnd
<1>9. CASE ReadCompiler(t) \/ CollectCompiler(t)
  BY <1>6, <1>9 DEF ReadCompiler, CollectCompiler, ReadToEnd
<1>10. CASE WaitForCompiler(t)
  BY <1>4, <1>6, <1>10 DEF WaitForCompiler
<1>11. CASE NextRun(t)
  BY <1>6, <1>11 DEF NextRun, Sound, Life
<1>12. CASE Exec(t)
  BY <1>12 DEF Exec
<1>13. CASE BecomeZombie(t)
  BY <1>13 DEF BecomeZombie
<1>14. CASE Write(t) \/ DeadlinePasses(t)
  BY <1>14 DEF Write, DeadlinePasses
<1> QED
  BY <1>1, <1>2, <1>3, <1>5, <1>7, <1>8, <1>9, <1>10, <1>11, <1>12, <1>13, <1>14
     DEF Step, Parent, Child

LEMMA OpenHolds == Spec => []Open
<1>1. Init => Open
  BY DEF Init, Open
<1>2. IInv /\ Open /\ [Next]_vars => Open'
  <2>1. IInv /\ Open /\ UNCHANGED vars => Open'
    BY DEF vars, Open
  <2> QED
    BY <2>1, OpenStep DEF Next, Step
<1> QED
  BY <1>1, <1>2, Invariance, PTL DEF Spec

(***************************************************************************)
(* No two threads wait for each other.  One that reads to the end of a     *)
(* pipe waits for children that live, never for the worker itself, and the *)
(* parent of such a child has yet to wait for its end: it is about to look *)
(* at the time, or it reads what its compiler writes.  This is why         *)
(* EveryRunReturns needs only deadlines, and compilers that end.           *)
(***************************************************************************)
WaitsForTheLiving ==
  \A t \in Threads :
    pc[t] \in {"drain", "read"} =>
      \A p \in holders[t] :
        /\ p \in Threads /\ child[p] \in Alive
        /\ \/ job[p] = "test" /\ pc[p] \in {"close", "loop", "select", "poll"}
           \/ job[p] = "compile" /\ pc[p] \in {"close", "read"}

(***************************************************************************)
(* So threads whose children inherit each other's pipes cannot deadlock.   *)
(***************************************************************************)
THEOREM NoCircularWait == Spec => []WaitsForTheLiving
<1>1. IInv /\ Open => WaitsForTheLiving
  <2> SUFFICES ASSUME IInv, Open, NEW t \in Threads, pc[t] \in {"drain", "read"},
                      NEW p \in holders[t]
               PROVE  /\ p \in Threads /\ child[p] \in Alive
                      /\ \/ job[p] = "test" /\ pc[p] \in {"close", "loop", "select", "poll"}
                         \/ job[p] = "compile" /\ pc[p] \in {"close", "read"}
    BY DEF WaitsForTheLiving
  <2>1. p \in Threads /\ child[p] \in Alive
    BY DEF IInv, TypeOK, Open
  <2>2. pc[p] \in Steps /\ job[p] \in {"test", "compile"} /\ Life(p) /\ Complete(p)
    BY <2>1 DEF IInv, TypeOK, Sound
  <2>3. pc[p] \in {"close", "loop", "select", "poll", "read"}
    BY <2>1, <2>2 DEF Life, Complete, Alive, Ended, Steps
  <2> QED
    BY <2>1, <2>2, <2>3 DEF Life, Testing, Waiting
<1> QED
  BY <1>1, OpenHolds, Invariance, PTL

=============================================================================
