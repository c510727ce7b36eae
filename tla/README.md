# OCPE in TLA+

A verification project for OCPE, the online judge in this repository: TLA+ models of its
components, TLC configurations that check them on small instances, and theorems proved
with TLAPS for instances of any size. Paths below are relative to the repository.

Contents: [inventory](#inventory) · [modules](#modules-and-the-code-they-model) ·
[runs](#runs) · [bounds](#bounds) · [fairness](#fairness) · [proofs](#proofs) ·
[findings](#findings) · [assumptions and what is left out](#assumptions-and-what-is-left-out) ·
[plan](#plan)

## Inventory

OCPE is two processes around a Redis server. The API server answers HTTP requests; the
worker pool evaluates submissions; everything they share is in Redis and in the directory
of submissions.

| Component | Source | State | Operations | Correct when |
|---|---|---|---|---|
| API server | `api/src/server.cpp` | one `RedisClient` for all request threads | the HTTP handlers | an answer tells the truth about the queue and the store, whatever a worker does meanwhile |
| Redis client | `shared/src/redis_client.cpp` | `ctx_`, a hiredis context | `connect`, `reconnect`, `exec_command` and the commands | a call returns; a command runs as often as its caller can live with |
| Redis | (external), keys in `shared/include/ocpe/redis_client.hpp` | `submission_queue`, `status:*`, `result:*`, `user_subs:*`, `user:*`, `token:*` | LPUSH, BRPOP, SET, GET, LTRIM, LRANGE, LLEN, expiry | |
| Worker pool | `worker/src/worker.cpp`, `worker/src/main.cpp` | `running_`, the threads, a client and a job per thread | `start`, `stop`, `join`, `worker_loop` | each job is evaluated once and published; a stop drains |
| Evaluator | `worker/src/evaluator.cpp` | a work directory per submission | `evaluate_submission` | the verdict follows from the tests; evaluations do not disturb each other |
| Test runner | `sandbox/src/runner.cpp` | none | `run_all_test_cases` | one result per test, in order |
| Sandbox | `sandbox/src/sandbox.cpp` | a child process and two pipes per run | `Sandbox::run` | every run ends, leaves no child, and judges what the program did |
| Compiler driver | `sandbox/src/compiler.cpp` | a child process and a pipe | `compile_source` | it ends, and says whether there is a program |
| Accounts | `shared/src/auth.cpp` | `user:*`, `token:*`, `user_subs:*` | `register_user`, `login`, `validate_token`, `record_submission`, `get_user_submissions` | a name has one owner; histories are bounded |
| Problem loader | `shared/src/problem_loader.cpp` | files | `list_problems`, `get_problem`, `load_test_cases`, `generate_submission_id` | tests are read in their order; ids are unique |
| Models, JSON | `shared/src/submission.cpp`, `json_utils.cpp` | none | conversions | round trips |
| Web UI | `web/app.js` | the poll timer, the page | `pollSubmission`, `renderResult` | the page shows the last answer about the submission it is about |
| Load test | `scripts/load_test.py` | counters | `submit_one` | |

**How they interact.** `POST /submit` validates the token with a GET, pushes a job on the
queue, then writes the status PENDING, then records the submission in the user's history,
and answers 202. A worker thread blocks in BRPOP, writes COMPILING and RUNNING, evaluates
(in the directory named after the submission: compile, one sandboxed child per test,
remove the binary), stores the result, and writes the final status.
`GET /submissions/:id` reads the result and, when there is none, the status. The pages and
the load test poll until they see a final verdict.

**What is hard.** The handler and the worker race on the status of the same submission.
Every Redis command may run without its reply arriving, and `exec_command` then repeats
it, once. BRPOP removes the job it returns, and nothing acknowledges it. Both status and
result expire, at different times. A stop is noticed between jobs only. One process
holds the jobs of all workers. The children of one run inherit the open pipes of the
others. The child is waited for twice. A compilation reads to the end before it looks at
its deadline. Evaluations of one submission share a directory. All request threads of the
API share one connection. A registration checks and then sets. The page polls on a timer
in a global variable and handles answers in whatever order they come.
`PROJECT.json` lists these hazards with their lines and the properties about them.

The API server does not compile as it stands: `api/src/main.cpp:22` moves a `RedisClient`,
whose copy constructor is deleted and which has no move constructor
(`shared/include/ocpe/redis_client.hpp:24-25`). What is modelled is the evident intent: the
connected client of `main` becomes the server's.

## Modules and the code they model

| Module | What it is |
|---|---|
| `Verdicts` | the verdicts; which are final for the clients |
| `RedisCall` | the contract of one `exec_command`: answered, retried, failed |
| `RedisClient` | `exec_command` step by step with hiredis, connection and server; shown to keep `RedisCall` |
| `JudgeService` | the abstract promise: unknown, judging, one verdict for good |
| `JobQueue` | the abstract queue: in order, at most once, one job in a hand, nothing put back |
| `SubmissionPipeline` | submit, poll, store, queue and worker pool; shown to implement `JudgeService` and `JobQueue` |
| `SandboxVerdict` | the decision at the end of `Sandbox::run`, shared by the next two |
| `Sandbox` | `Sandbox::run` and `run_compile_process` in several threads, with children and pipes |
| `Evaluator` | `evaluate_submission` in several threads, with work directories |
| `Accounts` | `register_user`, `login`, `validate_token` over Redis, with replies that get lost |
| `SharedConnection` | `redisvCommand` of several request threads on the API's one context |
| `Page` | the poll timer, fetches and sections of `web/app.js`, in front of `JudgeService` |
| `RedisClientProofs`, `SubmissionPipelineProofs`, `OutcomeProofs`, `AccountsProofs`, `SandboxProofs`, `EvaluatorProofs`, `SharedConnectionProofs`, `PageProofs` | theorems |
| `MCSubmissionPipeline`, `MCSandbox`, `MCEvaluator`, `MCAccounts` | small instances for TLC |

The components meet at these seams, and each is checked on both sides:

- `SubmissionPipeline` and `Accounts` instantiate `RedisCall`; `RedisClient` refines it
  (`KeepsContract`). Both take every command of a request for itself; `SharedConnection`
  shows what that leaves out.
- `Evaluator` takes a test for one step whose verdict is a function of the deadline and the
  output. That is the theorem `JudgedInOneStep` about `Sandbox` (and why `CrashIsReported`
  fails). It takes from `Sandbox` too that a compilation says what the compiler did
  (`CompilerIsBelieved`), and from `SubmissionPipeline` that no two workers hold one
  submission (`ExclusiveWorkDir`).
- `Page` asks `JudgeService`, which `SubmissionPipeline` implements (`ImplementsJudge`).
- `SubmissionPipeline` takes from `Evaluator` that an evaluation returns a final verdict
  (`ResultIsFinal`; the constant `Outcomes`).

**SubmissionPipeline.** A step is one Redis command or one local decision. `pc[s]` is the
line the request session of submission `s` is at, `pc[w]` that of a worker thread.

| Code | Action |
|---|---|
| `server.cpp` 174-217 `require_auth`, body checks | `Authorize` (any refusal: `rejected`) |
| 219-223 `enqueue_job`, 503 | `Enqueue` (`refused`) |
| 225 `set_status(PENDING)` | `MarkPending` |
| 226, `auth.cpp` 133-140 | `Record`, `Trim` |
| 237-257 (and 130-153 for an entry of the history) | `GetResult`, `GetStatus` |
| `worker.cpp` 33-37 | `Connect`, `GiveUp` |
| 41-43 | `CheckRunning`, `Dequeue` |
| 47, 49, 50, 52, 53 | `MarkCompiling`, `MarkRunning`, `Evaluate`, `StoreResult`, `Publish` |
| `stop`, `start` after the process died or was stopped | `Stop`, `Restart` |
| an exception nobody catches, in `evaluate_submission` or `set_result` | `Terminate` |
| (the process is killed; Redis expires a key) | `Crash`, `Expire` |

Every command goes through `Command`, which has all the ways `exec_command` ends: with a
reply; repeated once after an I/O error, and Redis may have executed the first attempt;
failed, and Redis may have executed it all the same. The constant `Events` says which
failures an instance has: `"io"` (REDIS_ERR_IO), `"cut"` (the connection is closed for
good), `"crash"`, `"throw"`, `"restart"`, `"stop"`, `"expire"`. The variables `pushed`, `popped`,
`finished` and `lost` are history: they record what happened to every job and no action
that models code depends on them (a worker's job is kept as its number in `popped`).
`newest` says which of status and result was written last: both keys live for 86400 s from
their last SET, so the other one expires first.

**RedisClient.** One client, one thread: `Call` enters `exec_command`; `Refuse`, `Write`,
`IOError`, `EndOfStream` and `Receive` are `redisvCommand`; `Disconnect`, `Reconnect` and
`ReconnectFails` are `reconnect()`; `GiveUp` is the return of nullptr. `Execute` is the
server, `Close`, `Reset`, `ServerStops` and `ServerStarts` the world.

`GET /auth/submissions` asks for the same keys in the same order and differs where there is
nothing: an id in the user's list (`Listed`) is shown as PENDING, not as missing.

**Sandbox.** `pc[t]` follows the parent through `Sandbox::run` (`job[t] = "test"`) or
`run_compile_process` (`"compile"`); `child[t]` its child through fork, exec, exit and
reaping; `holders[t]` is the set of processes that have the write end of the run's pipe
open. `Poll` is the waitpid of line 174, `Drain` lines 177-186, `Reap` the wait4 of line 196
and the verdict. `ReadCompiler` is the read to the end of the stream (`compiler.cpp`
42-49), `WaitForCompiler` the loop with the deadline after it, `CollectCompiler` the wait
after the kill. A child that exits is `"closed"` first (its files are closed, so readers see
the end) and `"zombie"` after (wait finds it): between the two a waitpid looks in vain.

**Evaluator.** Each step is one stage of `evaluate_submission`; `binary[s]` says whether
the file `main` is in the directory of `s`. `ProcessDies` is an exception in an evaluation, or
a signal, between any two stages: the threads are gone, the files stay, and the pool starts
again. `CompileFails` may leave `main` too: a compiler that has written it can still fail or
be killed. `litter` is history: the submissions whose `main` nobody is going to remove.

**Accounts.** A step of a request is one Redis command of `register_user` (`Check`, `Create`)
or `login` (`Login`, `StartSession`), each with the ways `exec_command` ends. `Arrive` is the
route and the checks that cost no command. `pc[r]` ends as the answer: `"in"` (201 or 200),
`"exists"`, `"failed"`, `"half"` (500: registered, not logged in), `"denied"` (401),
`"invalid"`. `Me` is `GET /auth/me` with the token. `created`, `blind` and `overlap` are
history: whose SET ran, whose check had no answer, and who was between check and SET when a
SET ran.

**SharedConnection.** A step is one access of `redisvCommand` to the context: append to the
output buffer, look for a reply that is there, write the buffer, read. A command is known
by its thread, whose user it asks for.

**Page.** The user's clicks (`ShowProblems`, `ShowEditor`, `ShowHistory`, `ViewSubmission`,
`SubmitCode`), the callbacks (`Submitted` and `SubmitFails` after the await of `submitCode`,
`Tick`, `Answer` and `FetchFails` of the interval) and the API (`Serve`, `Refuse`). A callback
runs up to its await in one step. A timer that was cleared keeps its name in `pollTimer`, as
in the code. `straggled` is history.

Operators with the comment "Mutant" are plausible bugs in the definition that follows them
(a dropped check, a wrong command, a missing step). No specification uses them; each
property is known to fail when its mutant takes the place of the definition
(`PROJECT.json`, "mutants"), which shows that the property can tell.

## Runs

| Run | What is checked | What it shows |
|---|---|---|
| `pipeline` | `RoutedInOrder`, `ExclusiveWorkDir`, `AcceptedIsFound`, `StopLosesNothing`, `HistoryBounded`, `FinalIsFinal`, `ImplementsJudge`, `EventuallyJudged`, `StopTerminates` | while Redis answers, every accepted submission is judged unless its own evaluation or that of every worker hangs, and its verdict stays, also if the worker overtakes the handler; a stop loses no job and ends every thread whose evaluation does not hang |
| `pipeline_faults` | `JobsConserved`, `JobInHand`, `AnswersMatchQueue`, `QueuedAtMostTwice`, `ImplementsQueue` | what survives I/O errors, cuts, crashes, exceptions and restarts: the queue delivers each job at most once, the oldest first, and a job whose reply or holder is lost stays lost. Not liveness: jobs do get lost, and the model says exactly when |
| `pipeline_expiry` | `OneVerdict` | expiring keys and a dying pool never show a client two verdicts |
| `pipeline_isolation` | `FailureIsContained` | violated, see findings |
| `redis_client` | `AtMostTwice`, `KeepsContract`, `EveryCallReturns` | the contract is what the code does |
| `sandbox` | `NoChildLeft`, `KillsOwnChild`, `JudgedByOutput`, `CompilerIsBelieved`, `EveryRunReturns` | tests and compilations that share pipe ends by inheritance read all output and reap every child; a run ends, killing its child at the latest at its deadline, unless a compiler that never ends holds its pipe |
| `sandbox_crash` | `CrashIsReported` | violated, see findings |
| `evaluator` | `OwnBinary`, `NoLeftovers`, `ResultIsFinal`, `RightIsAccepted` | evaluations in their own directories do not disturb each other and return final, right verdicts; a binary is left only by a failed compilation or the death of the process |
| `evaluator_accepted` | `AcceptedMeansAllPassed` | violated, see findings |
| `accounts` | `SessionsAreEarned`, `LockedOutOnlyByRace`, `AnswersMatchAccounts` | a session takes a password the name was registered with; a 201 can be made worthless by an overlapping or a blind registration, and by nothing else; the other answers are true |
| `shared_connection` | `IdentityKept` | violated, see findings |
| `page` | `OneTimer`, `QuietElsewhere`, `RightUnlessStraggled`, `PollingEnds` | no click and no late answer leaves a timer behind that nothing stops; polling ends unless the submission is never judged; and a page that stopped polling shows the right verdict unless a straggler came |

Every module with state of its own, `SharedConnection` apart, also has its type invariant
`TypeOK` in its passing run. The properties are stated, with the behaviour they are about,
at the end of each module.

`CHECK_DEADLOCK FALSE` is set where the system may rest: the pipeline after a stop, or when
everything was submitted, refused and lost; `accounts` when every request is answered and no
session is left to ask with; `sandbox` when compilers that never end hold up every thread.
`RedisClient`, `Evaluator` and `Page` are checked for deadlock.

## Bounds

Nothing is cut off by a state constraint: all instances are finite because a submission or
a registration is made once, and timers and fetches are a fixed number.

- `pipeline`: 2 submissions of one user, 2 workers, `HistoryCap = 1`. Two submissions let a
  job wait behind another and a history overflow; two workers race for a job and hold two.
  272,109 states.
- `pipeline_faults`: 1 submission, 2 workers (symmetric, which is sound: no liveness is
  checked, and `JobQueue` does not tell holders apart), every event but expiry. One submission is enough for the worst case of the retry: the
  same submission twice on the queue, taken by two workers. The order of different submissions is that
  of `RoutedInOrder` in `pipeline`. 2,882,107 states.
- `pipeline_expiry`, `pipeline_isolation`: 2 submissions, 2 workers. `pipeline_expiry` has
  crashes and restarts as well; 630,194 states.
- `redis_client`: one thread, which is all a client of a worker has. Any number of calls.
- `sandbox`: 2 threads, each with any number of runs, pipes of one piece of output, programs
  with up to two pieces: a child can block on a full pipe, and can hold the pipe of the other
  run. The programs answer right, crash after a right answer, cannot be started, or never
  end; the compilers succeed, complain, or never end. 146,620 states.
- `evaluator`: 2 workers, one compiled and one interpreted submission, `MaxTests = 2`, so
  that the last test is not the only one; 0 tests included. The process may die at any step.
  57,303 states.
- `accounts`: 3 requests for one name, two of them with the same password: a user can log in
  to what he registered, race another for it, repeat a registration that failed, and be
  overtaken by both. Names do not interact, so one is enough. 2.5 million states.
- `shared_connection`: 2 threads, any number of requests.
- `page`: 2 submissions, which are opened again and again; 2 timers, one to be cleared and
  one to be set; 2 fetches under way, so that answers can overtake each other. `Fetches`
  bounds how many polls overlap. 39,501 states.

The theorems hold for any number of submissions, users, requests and workers.

## Fairness

- `SubmissionPipeline!FairSpec`: weak fairness of every started request session and every
  worker thread: the operating system runs them, and a client with a 202 goes on polling
  (`setInterval` in `web/app.js`, the loop in `load_test.py`). No fairness for the first
  step of a request, for a stop, or for any failure. It is used only in `pipeline`, where
  Redis answers. The disjunction inside the fairness of a worker is no loss: one of its
  steps is enabled at a time. The fairness of a worker leaves out the step `evaluate`, because
  nothing makes `evaluate_submission` return: `run_compile_process` reads its compiler's
  output to the end and only then looks at its deadline (`compiler.cpp` 42-49). What such an
  evaluation may cost is part of the two properties. `EventuallyJudged`: the submission it is
  about, and any other only when every worker hangs. `StopTerminates`: its own thread, so
  `join()` returns unless some evaluation hangs.
- `RedisClient!FairSpec`: the thread runs, and a server with a request in its socket
  executes it. Without that, `redisvCommand` waits for ever: no command timeout is set.
- `Sandbox!FairSpec`: threads and children are scheduled and time passes.
- `Page!FairSpec`: the interval ticks, callbacks run, the API does not refuse every poll (strong fairness of `Serve`), and not
  every answer with a verdict is lost on its way. The last two are what "retry" in the catch
  clause of `app.js` counts on; nothing is assumed of the user, nor of the judge: a timer for
  a submission that is never judged may run for ever, and `PollingEnds` exempts it.

## Proofs

`tlapm` checks all of it with SMT, Zenon and LS4. The assumptions are the named `ASSUME`s
about the constants, each in the module that declares them, and nothing else: sessions,
threads and the missing value are different things, every submission has an owner and a
language, evaluations end with final verdicts, the history bound and a pipe's capacity are
positive, programs have the shape of `Program`, the events are those of `RedisCall`.

`SubmissionPipelineProofs`:

| Theorem | Says |
|---|---|
| `TypeCorrect` | `Spec => []TypeOK` |
| `Routing` | `Spec => []RoutedInOrder` |
| `Conservation` | `Spec => []JobsConserved` |
| `Processes` | `Spec => []JobInHand` |
| `Answers` | `Spec => []AnswersMatchQueue` |
| `DeliversAtMostOnce` | `Spec => ImplementsQueue` |
| `TurnsEnd` | `Spec => EveryTurnEnds`, see [liveness](#the-safety-half-of-liveness) |
| `WorkDirs` | `Spec => []ExclusiveWorkDir`, if there are no I/O errors |

The first four are one induction over `IInv == TypeOK /\ JobInHand /\ JobsConserved /\
RoutedInOrder`; none of `JobsConserved`, `JobInHand` and `TypeOK` is inductive alone. A BRPOP
must not overwrite a job in hand: `JobInHand` says there is none at that step. The submission
of a job, `popped[job[w]]`, is a submission only because `JobsConserved` puts `job[w]` among
the popped ones. What `StoreResult` stores is final only because `JobInHand` says so of the
verdict. `Answers` is an induction of its own over `IInv`: a session moves on only by its own
steps (`RequestSteps`), and only `Enqueue` of that session pushes its job.
`DeliversAtMostOnce` maps the history to `JobQueue`: what was put in is `pushed`, what was
taken is what is no longer on the list, a hand is the job of a busy worker. Each step is one
of the queue's or none: LPUSH puts, a BRPOP takes or, when its reply is lost, misses,
publishing finishes, the death of the pool drops all hands; that `BRPOP` returns the oldest is
`RoutedInOrder`. It holds of every instance, retries included: what a retry may do is put the
same submission in twice. `WorkDirs` strengthens `IInv` by `QueuedOnce`: nobody is ever at a
second attempt, a session that has yet to enqueue is not queued, and no submission is queued
twice. Two workers with one submission would then hold one job, against `JobsConserved`. The
assumption is necessary: with `"io"` the retry queues a submission twice and
`ExclusiveWorkDir` fails.

`OutcomeProofs`, about the same module:

| Theorem | Says | Where |
|---|---|---|
| `QueuedTwice` | `Spec => []QueuedAtMostTwice` | always |
| `NothingLost` | `Spec => []StopLosesNothing` | `Calm`, and nothing kills the pool |
| `DamageIsBounded` | `Spec => []LossesWithin` | `Calm`, finitely many workers, nothing kills the pool but output that cannot be stored |
| `AloneIsContained` | `Spec => []FailureIsContained` | the same, and one worker |
| `Unanimous` | `Spec => OneVerdict` | no I/O errors |
| `Found` | `Spec => []AcceptedIsFound` | `Calm`, no key expires |
| `LastWord` | `Spec => FinalIsFinal` | `Calm`, no key expires |
| `Promise` | `Spec => ImplementsJudge` | `Calm`, no key expires |
| `History` | `Spec => []HistoryBounded` | `Calm`, finitely many submissions |

`Calm` is that no connection breaks (`"io"` and `"cut"` are not among the `Events`); the pool
may crash, be stopped and be restarted, and programs may kill it by what they print.
`QueuedTwice` counts by attempt (`Attempts`): at its first one a handler has queued nothing,
at its second one thing at most. `Settled` says that the result, the status, what the client
saw and what a worker is about to publish agree wherever they are final, and that a final one
takes an evaluation that is over; a second one would need a second job of the submission,
against `QueuedOnce`. This is `Unanimous`. It needs only that no command is repeated: a
connection may be cut at any command, executed or not, because a write that is missing takes
no final value back and the one that is there has the only verdict there is. Under `Calm`
everybody who issues a command is connected (`Connected`), so that `CalmHandler` and
`CalmWorker` can say once and for all what each step does when its command is answered. `Kept`
adds what is true as long as nothing expires: whoever goes by a result finds it. Then
`Promise` is a case for each write: a status in progress begins to judge an unknown submission
or changes nothing, a result decides a submission that is being judged, publishing it is a
stutter. The assumptions are needed: a lost `PENDING` makes an accepted submission unknown, an
unstored result lets `PENDING` replace a published verdict, and an expired key takes an answer
back.

`LossesWithin` counts: each job whose output cannot be stored (`Fatal`) takes with it at most
one job per worker, its own included. With one worker that is itself, so
`FailureIsContained`, which fails in `pipeline_isolation`, holds of a process per worker:
`AloneIsContained` says what the finding is about.

`RedisClientProofs`: `TypeCorrect`, `RunsAtMostTwice` (`Spec => []AtMostTwice`),
`ContractKept` (`Spec => KeepsContract`), and `CallsAdvance` and `NothingSticks` about
[liveness](#the-safety-half-of-liveness). The invariant adds to the types what is under way on
the socket at each step (`Underway`: nothing before a command is written, a request only
before it ran) and what the context at the end of an attempt says about its beginning
(`Attempted`).

`AccountsProofs`: `TypeCorrect`, `Sessions` (`SessionsAreEarned`), `Ownership`
(`LockedOutOnlyByRace`) and `Answering` (`AnswersMatchAccounts`), from the named assumptions
about the constants of `Accounts` (every request has a name and a password, and neither is
the missing value). They are one induction: `Registered` says by where a request is whether
it has created its account; `Owned` that every stored password is that of somebody who
created the name, so that `Earned` holds when `Login` compares and later when the token is
stored, though the account may have changed hands; `Guarded` that a registration which may
still write a name that somebody has created was between check and SET then, or is blind.
`LockedOutOnlyByRace` alone is not inductive: it says nothing of a registration that has yet
to write.

`SandboxProofs`:

| Theorem | Says |
|---|---|
| `TypeCorrect` | `Spec => []TypeOK` |
| `Reaped` | `Spec => []NoChildLeft` |
| `KillsItsOwn` | `Spec => []KillsOwnChild` |
| `Judging` | `Spec => []JudgedByOutput` |
| `Compiling` | `Spec => []CompilerIsBelieved` |
| `JudgedInOneStep` | `Spec => []StatusIsNeverSeen` |
| `NeverAtRuntime` | `Spec => []VerdictsInUse` |
| `NoCircularWait` | `Spec => []WaitsForTheLiving` |

One induction over `TypeOK` and four facts about each thread: `Life` (where the child is, by
where its parent is), `Held` (whoever can still write holds the pipe), `Complete` (a child
that was not killed has written everything, and it is read before it is judged) and `Judged`.
`Held` is what makes an end of file mean anything: the parent sees it only when nobody holds
the write end, and a living child does. The steps of one thread touch another only through
the pipe ends its child inherits and gives back, so `OthersSound` takes care of all other
threads at once. `StatusIsNeverSeen` gives the verdict of a test as a function of the
deadline and the output; exit status and usage do not occur in it, so no program is ever
judged RUNTIME_ERROR or MEMORY_LIMIT_EXCEEDED (`VerdictsInUse`), whatever it does: that is
the whole of the finding `sandbox_crash`, where the run shows one case. `RunVerdict` is an
IF chain in the order of the returns of lines 198-260: several of their conditions may be
true at once and the first one wins.

`EvaluatorProofs`: `TypeCorrect`, `Finality` (`ResultIsFinal`), `LeavesNothing`
(`NoLeftovers`), `VerdictOfTheLast` (`LastTestDecides`), and where `Exclusive` holds,
`BinaryIsThere` (`OwnBinary`) and `RightAccepted` (`RightIsAccepted`). `Tested` follows a
result from the tests it is summed up from; `Removed` says that a binary is litter or whoever
will remove it is on the way. Both survive two workers with one submission, so the first four theorems need
no exclusivity. `Apart` and `AllRight` do. `LastTestDecides` says what a verdict is, and so
what ACCEPTED means and does not: the last test was run and passed. It is the finding
`evaluator_accepted` for any number of tests. That a submission is in one worker's hands is
`ExclusiveWorkDir` of `SubmissionPipeline`, the theorem `WorkDirs` above: together they say
that without I/O errors right programs are accepted.

`SharedConnectionProofs`: `LockSuffices` (`Spec /\ []Serial => []IdentityKept`) and
`OneThreadSuffices` (the same where all threads are one). `IdentityKept` fails in
`shared_connection`; if no two threads are inside `exec_command` together, it holds, for any
number of threads. Nothing in the API server ensures `Serial`. A worker thread has a client
of its own, so the taking of every command for itself in `SubmissionPipeline` is justified
on its side.

`PageProofs`: `TypeCorrect`, `OneTimerRuns` (`OneTimer`), `Quiet` (`QuietElsewhere`) and
`ShowsTheVerdict` (`RightUnlessStraggled`). The last one needs `Fresh`, a poll under way that
is no straggler belongs to the timer that runs, and `Truthful`, an answer with a verdict
is still true when it arrives, because `JudgeService` never takes a verdict back.

### The safety half of liveness

Only model-checked: liveness (`EventuallyJudged`, `StopTerminates`, `EveryCallReturns`,
`EveryRunReturns`, `PollingEnds`), since fairness and ENABLED are out of the prover's reach.
What these properties rest on besides scheduling is proved:

- `TurnsEnd`: `StepsLeft(a)` is at most 12, every step of a request session or a worker makes
  it smaller, except the one that begins a new turn (a poll of the client, a look at the
  queue of a running pool), and nothing anybody else does makes it larger, except a
  restart. An evaluation is one step here. So no request, no job and no thread of a stopped
  pool goes on for ever, under any failure of the model, unless that step is never taken (an
  evaluation that hangs); `EventuallyJudged` adds that jobs are dequeued, in the order of
  `ImplementsQueue`.
- `CallsAdvance` and `NothingSticks`: a call has at most seven steps of its thread, nothing
  the server or the network does sets it back, and when it waits there is a reply, a broken
  connection, or a server that has the request.
- `NoCircularWait`: whoever reads to the end of a pipe waits for children that live, whose
  own parents are at their loop, or read what their compiler writes; never for the worker itself, for
  somebody in the drain, or for a dead process. It takes an invariant of its own, `Open`,
  because `Held` says who may write and not who else may hold an end.

Every invariant and every action property that a passing run checks is a theorem, and so
are the refinements; `FailureIsContained` and `IdentityKept`, which runs show to fail, are
proved under the condition that is missing.

## Findings

1. **ACCEPTED with failed tests** (`evaluator_accepted`). `evaluator.cpp:84` takes the verdict
   of the last test when not all passed. If the last one passed, the submission is ACCEPTED.
2. **Crashes are not reported** (`sandbox_crash`). `sandbox.cpp:174` reaps the child, so the
   `wait4` of line 196 fails and leaves `status` and `usage` zero. Every program that ends
   in time is judged by its output, with 0 ms and 0 KB, against README.md lines 103-104. The same
   holds of a program that RLIMIT_CPU ends with SIGXCPU: line 218, which would call that
   TIME_LIMIT_EXCEEDED, never sees the signal. And it holds of a program that was never
   started: `execv("python3")` does not search PATH, so Python submissions are judged by
   their empty output.
3. **One output ends the pool** (`pipeline_isolation`). Output that is not UTF-8 makes `dump()`
   throw in `worker_loop`, `std::terminate` follows, and the jobs of all workers are lost.
4. **Another user's reply** (`shared_connection`). The request threads of the API use one
   hiredis context without a lock. Two threads append their commands, the one that reads
   first gets the first reply, which may be the other's, and `GET /auth/me` answers with
   another user; `require_auth` goes by the same reply. Without a lock this takes one switch
   of threads inside `redisvCommand`.

What the passing runs show of the code's weak points, stated in the properties as what is
*not* promised:

- A name can be taken over by a registration that overlaps with its first one, or one whose
  check got no reply (`LockedOutOnlyByRace`). "Failed to create user" may be wrong.
- A poll of the page that was under way when another submission was opened shows the old
  submission's verdict and stops the new one's timer; one that was under way when the verdict
  came puts PENDING over it for good (`RightUnlessStraggled`).
- The deadline of a compilation starts when the compiler's output ends: a compiler that never
  ends is never killed, and holds up other threads' runs through the pipes it inherited
  (`HeldUp` in `EveryRunReturns`). In the pipeline that is a worker less, a submission that is
  never judged, and a stop that does not return (`Hangs`, `HangsOn`); when every worker
  hangs, nobody is judged any more.
- A compilation that fails after its compiler has written `main`, or a process that dies
  between the compilation and line 91, leaves an executable in the work directory (`litter` in
  `NoLeftovers`).
- A login may get a token for a name that changes hands before the token is stored.
- The handler's PENDING may overwrite the final status. The result hides that, which is why
  `FinalIsFinal` holds in `pipeline`, until it expires: then the API answers PENDING for a
  judged submission. The history, whose list never expires, does so for all of them after a
  day.
- Jobs are lost with the worker that holds them (`lost` in `JobsConserved`).

## Assumptions and what is left out

- In `SubmissionPipeline` and `Accounts` a command of one request thread is not disturbed by
  another's; `SharedConnection` shows that it may be. There, two threads do not race inside
  one access to the context, and no reconnect frees it: both are undefined behaviour.
- A reply of type error is not modelled apart from a reply (Redis gives none to these
  commands on keys of the right type).
- A request that is under way on a connection that breaks is lost, or was executed before
  it broke. Redis keeps its data (`--appendonly yes`).
- Ids and tokens are distinct: the static generator of `problem_loader.cpp:89` is shared
  between request threads without a lock, which is undefined behaviour and not modelled.
- Salt and hash: a stored password matches itself only. Tokens outlive the behaviours of
  `Accounts`.
- Redis answers a command it has received: `connect` sets a timeout for the connection only,
  and a caller without an answer waits for ever. (Evaluations are *not* assumed to return, see
  [fairness](#fairness).)
- Programs leave no process behind that keeps the pipes open (nothing stops them from
  forking, and the drain of lines 177-186 would wait for the offspring); a child reaches its
  `setpgid` before its deadline; pids are not reused between `waitpid` and `kill`.
- Both pipes of a run are one; the descriptor leak when only the second fails is left out.
- Expected outputs are not blank (a program that prints nothing would match).
- The client of `SubmissionPipeline` polls after the previous answer, as `load_test.py` does.
  The overlapping polls of `web/app.js` are those of `Page`, which takes a user who is signed
  in, in one tab.

**Not modelled**, and why: field-by-field JSON, HTTP routing, CORS, the static tables of
languages and environment variables, problem lists and statistics (they keep no state that a
property could be about); the scan of the test directory (files that nothing in the system
writes); deployment files and test data; the load test's statistics; `start` with a signal
before it, which is forgotten.

## Plan

In this order; the first three groups are done.

1. Core: `RedisCall`, `RedisClient`, `JudgeService`, `SubmissionPipeline`, `Sandbox`,
   `Evaluator`, and their theorems.
2. `SharedConnection`, `Accounts` and its theorems, compilation in `Sandbox`, `Page`,
   exceptions and the history in `SubmissionPipeline`.
3. Proofs of everything the runs check except liveness; the refinement of `JobQueue`; the
   variants behind liveness; and for each finding the theorem that says exactly what holds
   instead (`VerdictOfTheLast`, `JudgedInOneStep`, `DamageIsBounded`, `LockSuffices`).
4. Small gaps: `start` with a signal before it; several tabs with one token; the two pipes of
   a run apart.
