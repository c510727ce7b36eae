------------------------------ MODULE Sandbox -------------------------------
(***************************************************************************)
(* Sandbox::run and run_compile_process, called by the threads of one      *)
(* worker process at the same time.  A test run forks a child, reads its   *)
(* output through pipes until the child exits or the deadline passes, and  *)
(* turns the end into a verdict.  A compilation forks a compiler, reads    *)
(* all of its output, and only then waits for it with a deadline.          *)
(*                                                                         *)
(* The runs are not independent: a child inherits every pipe end that is   *)
(* open in the worker at its fork and keeps it over exec (none is          *)
(* close-on-exec), so the output of one run ends only when the children of *)
(* other runs have exited too.                                             *)
(*                                                                         *)
(* The two pipes of a test run are one here: they are opened, inherited    *)
(* and closed together, and read in the same places.  Programs leave no    *)
(* process of their own behind, and a child that was forked reaches        *)
(* setpgid before its deadline (at least half a second away).              *)
(***************************************************************************)
EXTENDS Naturals, SandboxVerdict

CONSTANTS
  Threads,   \* worker threads; also names the child of the thread
  Worker,    \* the worker process itself
  Programs,  \* what a submitted program may do: a set of records
  Compilers, \* what a compiler may do: a set of records
  Capacity   \* of a pipe, in pieces of output

ASSUME WorkerAssumption == Worker \notin Threads
ASSUME CapacityAssumption == Capacity \in Nat \ {0}

(***************************************************************************)
(* A program writes pieces of output and then ends, or never does.         *)
(***************************************************************************)
Program == [ends : Endings \cup {"never"}, usage : Usage, right : BOOLEAN, pieces : Nat]

ASSUME ProgramsAssumption == Programs \cup Compilers \subseteq Program

VARIABLES
  pc,        \* the next step of a thread
  job,       \* what it does: "test" or "compile"
  program,   \* what its child does
  child,     \* the state of its child ("closed": ended, but not yet waitable)
  ending,    \* how the child ended, for wait
  left,      \* pieces of output the child has yet to write
  unread,    \* pieces in the pipe
  holders,   \* the processes that have the write end of its pipe open
  late,      \* the deadline has passed
  timedOut,  \* timed_out
  verdict    \* result.verdict; a compilation leaves it PENDING or fails

vars == <<pc, job, program, child, ending, left, unread, holders, late, timedOut, verdict>>
childVars == <<program, child, ending, left>>

Steps == {"idle", "fork", "close", "loop", "select", "poll", "drain", "reap",
          "read", "wait", "collect", "done"}

ChildStates == {"none", "forked", "running", "closed", "zombie", "gone"}

NoProgram == [ends |-> "exit zero", usage |-> NoUsage, right |-> FALSE, pieces |-> 0]

Goto(t, step) == pc' = [pc EXCEPT ![t] = step]

(***************************************************************************)
(* The files of a process are closed when it ends.                         *)
(***************************************************************************)
ClosedBy(p) == [t \in Threads |-> holders[t] \ {p}]

-----------------------------------------------------------------------------
Fails(t) ==
  /\ verdict' = [verdict EXCEPT ![t] = IF job'[t] = "test" THEN "INTERNAL_ERROR"
                                                         ELSE "COMPILATION_ERROR"]
  /\ Goto(t, "done")

Pipe(t) ==
  /\ pc[t] = "idle"
  /\ \E kind \in {"test", "compile"} : job' = [job EXCEPT ![t] = kind]
  /\ \/ /\ holders' = [holders EXCEPT ![t] = {Worker}]
        /\ Goto(t, "fork")
        /\ UNCHANGED verdict
     \/ Fails(t) /\ UNCHANGED holders
  /\ UNCHANGED <<childVars, unread, late, timedOut>>

(***************************************************************************)
(* The child gets a copy of every write end the worker has open.           *)
(***************************************************************************)
Fork(t) ==
  /\ pc[t] = "fork"
  /\ \E p \in IF job[t] = "test" THEN Programs ELSE Compilers :
       /\ program' = [program EXCEPT ![t] = p]
       /\ left' = [left EXCEPT ![t] = p.pieces]
  /\ child' = [child EXCEPT ![t] = "forked"]
  /\ holders' = [u \in Threads |-> IF Worker \in holders[u] THEN holders[u] \cup {t}
                                                            ELSE holders[u]]
  /\ Goto(t, "close")
  /\ UNCHANGED <<job, ending, unread, late, timedOut, verdict>>

ForkFails(t) ==
  /\ pc[t] = "fork"
  /\ UNCHANGED job
  /\ Fails(t)
  /\ holders' = [holders EXCEPT ![t] = @ \ {Worker}]
  /\ UNCHANGED <<childVars, unread, late, timedOut>>

CloseWriteEnd(t) ==
  /\ pc[t] = "close"
  /\ holders' = [holders EXCEPT ![t] = @ \ {Worker}]
  /\ Goto(t, IF job[t] = "test" THEN "loop" ELSE "read")
  /\ UNCHANGED <<job, childVars, unread, late, timedOut, verdict>>

-----------------------------------------------------------------------------
(***************************************************************************)
(* Sandbox::run.                                                           *)
(***************************************************************************)

\* Mutant: nothing is killed at the deadline.
KillNothing(t) == UNCHANGED <<child, ending, holders>>

(***************************************************************************)
(* SIGKILL ends a child that runs.  (A test run kills the process group,   *)
(* which is the child's own by then, a compilation the child.)             *)
(***************************************************************************)
Kill(t) ==
  IF child[t] = "running"
  THEN /\ child' = [child EXCEPT ![t] = "closed"]
       /\ ending' = [ending EXCEPT ![t] = "SIGKILL"]
       /\ holders' = ClosedBy(t)
  ELSE UNCHANGED <<child, ending, holders>>

\* Mutant: a run that timed out returns at once.
CheckDeadlineAndReturn(t) ==
  /\ pc[t] = "loop"
  /\ IF late[t]
     THEN /\ timedOut' = [timedOut EXCEPT ![t] = TRUE]
          /\ verdict' = [verdict EXCEPT ![t] = "TIME_LIMIT_EXCEEDED"]
          /\ Kill(t)
          /\ Goto(t, "done")
     ELSE /\ UNCHANGED <<timedOut, verdict, child, ending, holders>>
          /\ Goto(t, "select")
  /\ UNCHANGED <<job, program, left, unread, late>>

CheckDeadline(t) ==
  /\ pc[t] = "loop"
  /\ IF late[t]
     THEN /\ timedOut' = [timedOut EXCEPT ![t] = TRUE]
          /\ Kill(t)
          /\ Goto(t, "reap")
     ELSE /\ UNCHANGED <<timedOut, child, ending, holders>>
          /\ Goto(t, "select")
  /\ UNCHANGED <<job, program, left, unread, late, verdict>>

\* Mutant: what read returns is not checked.
ReadUnchecked(t) == unread' = [unread EXCEPT ![t] = @ - 1]

(***************************************************************************)
(* select waits 100 ms at most, then what is there is read.                *)
(***************************************************************************)
ReadSome(t) == unread' = [unread EXCEPT ![t] = IF @ = 0 THEN 0 ELSE @ - 1]

Select(t) ==
  /\ pc[t] = "select"
  /\ ReadSome(t)
  /\ Goto(t, "poll")
  /\ UNCHANGED <<job, childVars, holders, late, timedOut, verdict>>

\* Mutant: the loop goes on after the child was reaped.
PollWithoutBreak(t) ==
  /\ pc[t] = "poll"
  /\ child' = [child EXCEPT ![t] = IF @ = "zombie" THEN "gone" ELSE @]
  /\ Goto(t, "loop")
  /\ UNCHANGED <<job, program, ending, left, unread, holders, late, timedOut, verdict>>

\* Mutant: what the child wrote last is not read.
PollWithoutDrain(t) ==
  /\ pc[t] = "poll"
  /\ IF child[t] = "zombie"
     THEN child' = [child EXCEPT ![t] = "gone"] /\ Goto(t, "reap")
     ELSE UNCHANGED child /\ Goto(t, "loop")
  /\ UNCHANGED <<job, program, ending, left, unread, holders, late, timedOut, verdict>>

(***************************************************************************)
(* waitpid(pid, WNOHANG) reaps the child if it has exited.                 *)
(***************************************************************************)
Poll(t) ==
  /\ pc[t] = "poll"
  /\ IF child[t] = "zombie"
     THEN child' = [child EXCEPT ![t] = "gone"] /\ Goto(t, "drain")
     ELSE UNCHANGED child /\ Goto(t, "loop")
  /\ UNCHANGED <<job, program, ending, left, unread, holders, late, timedOut, verdict>>

(***************************************************************************)
(* read blocks while the pipe is empty and anybody can still write to it.  *)
(***************************************************************************)
ReadToEnd(t, next) ==
  /\ \/ unread[t] > 0 /\ ReadSome(t) /\ UNCHANGED pc
     \/ unread[t] = 0 /\ holders[t] = {} /\ UNCHANGED unread /\ Goto(t, next)
  /\ UNCHANGED <<job, childVars, holders, late, timedOut, verdict>>

Drain(t) == pc[t] = "drain" /\ ReadToEnd(t, "reap")

(***************************************************************************)
(* outputs_match: a right answer that was not read to its end is no match. *)
(***************************************************************************)
Matches(t) == program[t].right /\ left[t] = 0 /\ unread[t] = 0

(***************************************************************************)
(* wait4 waits for the child; for one that waitpid has reaped it fails.    *)
(***************************************************************************)
Reap(t) ==
  /\ pc[t] = "reap"
  /\ child[t] \in {"zombie", "gone"}
  /\ child' = [child EXCEPT ![t] = "gone"]
  /\ verdict' = [verdict EXCEPT ![t] =
       IF child[t] = "zombie"
       THEN RunVerdict(timedOut[t], ending[t], program[t].usage, Matches(t))
       ELSE RunVerdict(timedOut[t], NoStatus, NoUsage, Matches(t))]
  /\ Goto(t, "done")
  /\ UNCHANGED <<job, program, ending, left, unread, holders, late, timedOut>>

-----------------------------------------------------------------------------
(***************************************************************************)
(* run_compile_process.                                                    *)
(***************************************************************************)
\* Mutant: the pipe is read with O_NONBLOCK.
ReadCompilerOnce(t) ==
  /\ pc[t] = "read"
  /\ ReadSome(t)
  /\ Goto(t, "wait")
  /\ UNCHANGED <<job, childVars, holders, late, timedOut, verdict>>

ReadCompiler(t) == pc[t] = "read" /\ ReadToEnd(t, "wait")

CompileVerdict(t) == IF ending[t] = "exit zero" THEN "PENDING" ELSE "COMPILATION_ERROR"

(***************************************************************************)
(* waitpid(pid, WNOHANG) until it reaps the compiler or the deadline       *)
(* passes, which may also be just after waitpid looked in vain.            *)
(***************************************************************************)
WaitForCompiler(t) ==
  /\ pc[t] = "wait"
  /\ \/ /\ child[t] = "zombie"
        /\ child' = [child EXCEPT ![t] = "gone"]
        /\ verdict' = [verdict EXCEPT ![t] = CompileVerdict(t)]
        /\ Goto(t, "done")
        /\ UNCHANGED <<timedOut, ending, holders>>
     \/ /\ late[t]
        /\ timedOut' = [timedOut EXCEPT ![t] = TRUE]
        /\ Kill(t)
        /\ Goto(t, "collect")
        /\ UNCHANGED verdict
  /\ UNCHANGED <<job, program, left, unread, late>>

CollectCompiler(t) ==
  /\ pc[t] = "collect"
  /\ child[t] = "zombie"
  /\ child' = [child EXCEPT ![t] = "gone"]
  /\ verdict' = [verdict EXCEPT ![t] = "COMPILATION_ERROR"]
  /\ Goto(t, "done")
  /\ UNCHANGED <<job, program, ending, left, unread, holders, late, timedOut>>

-----------------------------------------------------------------------------
(***************************************************************************)
(* evaluate_submission goes on to the next test, worker_loop to the next   *)
(* submission: new pipes, a new child, a new result.                       *)
(***************************************************************************)
NextRun(t) ==
  /\ pc[t] = "done"
  /\ Goto(t, "idle")
  /\ job' = [job EXCEPT ![t] = "test"]
  /\ program' = [program EXCEPT ![t] = NoProgram]
  /\ child' = [child EXCEPT ![t] = "none"]
  /\ ending' = [ending EXCEPT ![t] = NoStatus]
  /\ left' = [left EXCEPT ![t] = 0]
  /\ unread' = [unread EXCEPT ![t] = 0]
  /\ late' = [late EXCEPT ![t] = FALSE]
  /\ timedOut' = [timedOut EXCEPT ![t] = FALSE]
  /\ verdict' = [verdict EXCEPT ![t] = "PENDING"]
  /\ UNCHANGED holders

Parent(t) ==
  \/ Pipe(t) \/ Fork(t) \/ ForkFails(t) \/ CloseWriteEnd(t)
  \/ CheckDeadline(t) \/ Select(t) \/ Poll(t) \/ Drain(t) \/ Reap(t)
  \/ ReadCompiler(t) \/ WaitForCompiler(t) \/ CollectCompiler(t) \/ NextRun(t)

-----------------------------------------------------------------------------
(***************************************************************************)
(* The child: limits, process group, input, execv; then the program.       *)
(***************************************************************************)
Exec(t) ==
  /\ child[t] = "forked"
  /\ child' = [child EXCEPT ![t] = "running"]
  /\ UNCHANGED <<pc, job, program, ending, left, unread, holders, late, timedOut, verdict>>

Write(t) ==
  /\ child[t] = "running"
  /\ left[t] > 0
  /\ unread[t] < Capacity
  /\ left' = [left EXCEPT ![t] = @ - 1]
  /\ unread' = [unread EXCEPT ![t] = @ + 1]
  /\ UNCHANGED <<pc, job, program, child, ending, holders, late, timedOut, verdict>>

Exit(t) ==
  /\ child[t] = "running"
  /\ left[t] = 0
  /\ program[t].ends # "never"
  /\ child' = [child EXCEPT ![t] = "closed"]
  /\ ending' = [ending EXCEPT ![t] = program[t].ends]
  /\ holders' = ClosedBy(t)
  /\ UNCHANGED <<pc, job, program, left, unread, late, timedOut, verdict>>

(***************************************************************************)
(* The parent finds the files closed before it can wait for the process.   *)
(***************************************************************************)
BecomeZombie(t) ==
  /\ child[t] = "closed"
  /\ child' = [child EXCEPT ![t] = "zombie"]
  /\ UNCHANGED <<pc, job, program, ending, left, unread, holders, late, timedOut, verdict>>

Child(t) == Exec(t) \/ Write(t) \/ Exit(t) \/ BecomeZombie(t)

(***************************************************************************)
(* The deadline of a compilation is set when its output has been read.     *)
(***************************************************************************)
DeadlinePasses(t) ==
  /\ pc[t] \in {"loop", "select", "poll", "wait"}
  /\ ~late[t]
  /\ child[t] # "forked"
  /\ late' = [late EXCEPT ![t] = TRUE]
  /\ UNCHANGED <<pc, job, childVars, unread, holders, timedOut, verdict>>

-----------------------------------------------------------------------------
Init ==
  /\ pc = [t \in Threads |-> "idle"]
  /\ job = [t \in Threads |-> "test"]
  /\ program = [t \in Threads |-> NoProgram]
  /\ child = [t \in Threads |-> "none"]
  /\ ending = [t \in Threads |-> NoStatus]
  /\ left = [t \in Threads |-> 0]
  /\ unread = [t \in Threads |-> 0]
  /\ holders = [t \in Threads |-> {}]
  /\ late = [t \in Threads |-> FALSE]
  /\ timedOut = [t \in Threads |-> FALSE]
  /\ verdict = [t \in Threads |-> "PENDING"]

Next == \E t \in Threads : Parent(t) \/ Child(t) \/ DeadlinePasses(t)

Spec == Init /\ [][Next]_vars

(***************************************************************************)
(* The kernel schedules threads and children, and time passes.             *)
(***************************************************************************)
FairSpec ==
  /\ Spec
  /\ \A t \in Threads : /\ WF_vars(Parent(t))
                        /\ WF_vars(Child(t))
                        /\ WF_vars(DeadlinePasses(t))

-----------------------------------------------------------------------------
(***************************************************************************)
(* Type invariant.                                                         *)
(***************************************************************************)
TypeOK ==
  /\ pc \in [Threads -> Steps]
  /\ job \in [Threads -> {"test", "compile"}]
  /\ program \in [Threads -> Program]
  /\ child \in [Threads -> ChildStates]
  /\ ending \in [Threads -> Endings]
  /\ left \in [Threads -> Nat]
  /\ unread \in [Threads -> 0 .. Capacity]
  /\ holders \in [Threads -> SUBSET (Threads \cup {Worker})]
  /\ late \in [Threads -> BOOLEAN]
  /\ timedOut \in [Threads -> BOOLEAN]
  /\ verdict \in [Threads -> Verdict]

(***************************************************************************)
(* No run and no compilation returns before its child is reaped, on any    *)
(* path: the worker collects no zombies and leaves no program running.     *)
(***************************************************************************)
NoChildLeft == \A t \in Threads : pc[t] \in {"done", "idle"} => child[t] \in {"none", "gone"}

(***************************************************************************)
(* A kill is only sent while the pid is still the child's: as long as the  *)
(* loops go on nothing has reaped it.  (wait4 after the drain is not so    *)
(* careful, and fails.)                                                    *)
(***************************************************************************)
KillsOwnChild ==
  \A t \in Threads : pc[t] \in {"loop", "select", "poll", "wait"} => child[t] # "gone"

(***************************************************************************)
(* A program that ended in time is judged by its own output and by all of  *)
(* it, although it wrote, exited and was reaped between two reads of the   *)
(* worker and whatever the other threads and their children did meanwhile; *)
(* only a late one exceeds the time limit.                                 *)
(***************************************************************************)
JudgedByOutput ==
  \A t \in Threads :
    pc[t] = "done" /\ job[t] = "test" /\ ~late[t] /\ child[t] # "none" =>
      verdict[t] = OutputVerdict(program[t].right)

(***************************************************************************)
(* A compilation that did not time out fails if and only if the compiler   *)
(* did, and shows everything the compiler wrote, whoever else held the     *)
(* pipe; one that did time out fails.                                      *)
(***************************************************************************)
CompilerIsBelieved ==
  \A t \in Threads :
    pc[t] = "done" /\ job[t] = "compile" /\ child[t] # "none" =>
      /\ verdict[t] = "PENDING" <=> ~timedOut[t] /\ program[t].ends = "exit zero"
      /\ left[t] = 0 /\ unread[t] = 0

(***************************************************************************)
(* Every run and every compilation ends, also one whose output is held     *)
(* open by the child of another run: that one is killed at its own         *)
(* deadline at the latest.  The one thing that can hold a thread up is a   *)
(* compiler that never ends, its own or another thread's that has          *)
(* inherited its pipe: the deadline of a compilation does not start before *)
(* the output ends.                                                        *)
(***************************************************************************)
HeldUp(t) ==
  \E u \in holders[t] \cap Threads : job[u] = "compile" /\ program[u].ends = "never"

EveryRunReturns ==
  \A t \in Threads : pc[t] \in {"loop", "read"} ~> (pc[t] = "done" \/ HeldUp(t))

(***************************************************************************)
(* A program that crashes or exits with an error in time is not judged by  *)
(* its output: README.md lists RUNTIME_ERROR and says that wait4 captures  *)
(* how the child ended and what it used.                                   *)
(***************************************************************************)
CrashIsReported ==
  \A t \in Threads :
    pc[t] = "done" /\ job[t] = "test" /\ program[t].ends \notin {"exit zero", "never"} =>
      verdict[t] \notin {"ACCEPTED", "WRONG_ANSWER"}

=============================================================================
