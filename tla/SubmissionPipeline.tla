------------------------- MODULE SubmissionPipeline -------------------------
(***************************************************************************)
(* The path of a submission through OCPE: a client's requests to the API   *)
(* server (POST /submit, then GET /submissions/:id until it has a final    *)
(* verdict), the keys and lists the system keeps in Redis, and the threads *)
(* of the worker pool that dequeue, evaluate and publish.                  *)
(*                                                                         *)
(* One step is one Redis command or one local decision, so every           *)
(* interleaving of the handlers with the workers is a behaviour, and every *)
(* command can end in each of the ways exec_command ends (RedisCall).      *)
(*                                                                         *)
(* Two things are kept elsewhere: what an evaluation computes (here any    *)
(* verdict of Outcomes), and the sharing of the API's single hiredis       *)
(* context by its request threads (here a command is not disturbed by      *)
(* another thread's).                                                      *)
(***************************************************************************)
EXTENDS Naturals, Sequences, FiniteSets, Verdicts

CONSTANTS
  Subs,         \* submissions; each is a client's session and names its id
  Workers,      \* the threads of the worker pool
  Api,          \* the RedisClient of the API server
  Users,        \* registered users
  Owner,        \* the user who makes a submission
  Outcomes,     \* the verdicts an evaluation may end with
  Unprintable,  \* submissions whose program writes invalid UTF-8
  HistoryCap,   \* entries record_submission keeps of a user's list
  Events        \* what may go wrong, see RedisCall

ASSUME ActorsAssumption == Subs \cap Workers = {} /\ Api \notin Workers
ASSUME OwnerAssumption == Owner \in [Subs -> Users]
ASSUME OutcomesAssumption == Outcomes \subseteq Final
ASSUME HistoryCapAssumption == HistoryCap \in Nat \ {0}
ASSUME UnprintableAssumption == Unprintable \subseteq Subs

VARIABLES
  \* Redis
  queue,    \* ocpe:submission_queue, head first
  status,   \* ocpe:status:<id>
  result,   \* ocpe:result:<id>, of which the verdict is kept
  newest,   \* which of these two was SET last, and so expires last
  hist,     \* ocpe:user_subs:<username>, head first
  \* the processes
  pc,       \* the next step of every request session and worker thread
  ctx,      \* the connection of every RedisClient
  retry,    \* callers at the second attempt of their command
  job,      \* the job a worker holds, as its number in popped, or 0
  verdict,  \* result.verdict in a worker's hands
  running,  \* WorkerPool::running_
  seen,     \* the verdict a client was last shown
  \* history
  pushed,   \* the jobs in the order Redis put them on the list
  popped,   \* the jobs in the order Redis took them off
  finished, \* numbers of the popped jobs whose evaluation was published
  lost      \* numbers of the popped jobs no worker holds any more

store == <<queue, status, result, newest, hist, pushed, popped>>
conn  == <<ctx, retry>>
pool  == <<job, verdict, running, finished, lost>>
vars  == <<store, conn, pool, pc, seen>>

Actors  == Subs \cup Workers
Clients == Workers \cup {Api}
ClientOf(a) == IF a \in Workers THEN a ELSE Api

INSTANCE RedisCall

ASSUME EventsAssumption == Events \subseteq AllEvents

HandlerSteps == {"new", "rejected", "enqueue", "refused", "pending", "record",
                 "trim", "accepted", "getStatus"}
WorkerSteps  == {"connect", "check", "pop", "compiling", "run", "evaluate",
                 "store", "publish", "exited", "down"}

Goto(a, step) == pc' = [pc EXCEPT ![a] = step]

(***************************************************************************)
(* The Redis commands the system issues.                                   *)
(***************************************************************************)
NoEffect == UNCHANGED store

\* Mutant: RPUSH, so that BRPOP takes the newest job.
RPush(list, value) == Append(list, value)

LPush(list, value) == <<value>> \o list

LPushJob(s) ==
  /\ queue' = LPush(queue, s)
  /\ pushed' = Append(pushed, s)
  /\ UNCHANGED <<status, result, newest, hist, popped>>

\* Mutant: BRPOPLPUSH back onto the same list, as if a job had to be acknowledged.
BRPopKeeping ==
  /\ queue # <<>>
  /\ queue' = <<queue[Len(queue)]>> \o SubSeq(queue, 1, Len(queue) - 1)
  /\ popped' = Append(popped, queue[Len(queue)])
  /\ UNCHANGED <<status, result, newest, hist, pushed>>

BRPop ==
  /\ queue # <<>>
  /\ queue' = SubSeq(queue, 1, Len(queue) - 1)
  /\ popped' = Append(popped, queue[Len(queue)])
  /\ UNCHANGED <<status, result, newest, hist, pushed>>

SetStatus(s, v) ==
  /\ status' = [status EXCEPT ![s] = v]
  /\ newest' = [newest EXCEPT ![s] = "status"]
  /\ UNCHANGED <<queue, result, hist, pushed, popped>>

SetResult(s, v) ==
  /\ result' = [result EXCEPT ![s] = v]
  /\ newest' = [newest EXCEPT ![s] = "result"]
  /\ UNCHANGED <<queue, status, hist, pushed, popped>>

\* Mutant: LTRIM 0 100 instead of 0 99.
LTrimOneMore(list, size) ==
  SubSeq(list, 1, IF Len(list) < size + 1 THEN Len(list) ELSE size + 1)

LTrim(list, size) == SubSeq(list, 1, IF Len(list) < size THEN Len(list) ELSE size)

LPushHistory(s) ==
  /\ hist' = [hist EXCEPT ![Owner[s]] = LPush(@, s)]
  /\ UNCHANGED <<queue, status, result, newest, pushed, popped>>

LTrimHistory(s) ==
  /\ hist' = [hist EXCEPT ![Owner[s]] = LTrim(@, HistoryCap)]
  /\ UNCHANGED <<queue, status, result, newest, pushed, popped>>

(***************************************************************************)
(* Caller a issues the command with effect Eff: with a reply it goes on to *)
(* step ok, without one it stays for the second attempt or goes on to step *)
(* fail, and Redis may have executed the command in both cases.            *)
(***************************************************************************)
Command(a, Eff, ok, fail) ==
  \/ Answered(a) /\ Eff /\ Goto(a, ok)
  \/ \E ran \in BOOLEAN :
       /\ IF ran THEN Eff ELSE NoEffect
       /\ \/ Retried(a, ran) /\ UNCHANGED pc
          \/ Failed(a, ran) /\ Goto(a, fail)

-----------------------------------------------------------------------------
(***************************************************************************)
(* The API server.  POST /submit first validates the token with a GET and  *)
(* then the body; every early return leaves the stored state alone.        *)
(***************************************************************************)
Authorize(s) ==
  /\ pc[s] = "new"
  /\ \E next \in {"enqueue", "rejected"} : Command(s, NoEffect, next, "rejected")
  /\ UNCHANGED <<pool, seen>>

\* Mutant: the handler ignores what enqueue_job returns.
EnqueueUnchecked(s) ==
  /\ pc[s] = "enqueue"
  /\ Command(s, LPushJob(s), "pending", "pending")
  /\ UNCHANGED <<pool, seen>>

Enqueue(s) ==
  /\ pc[s] = "enqueue"
  /\ Command(s, LPushJob(s), "pending", "refused")
  /\ UNCHANGED <<pool, seen>>

\* Mutant: POST /submit leaves the status to the worker.
MarkNothing(s) ==
  /\ pc[s] = "pending"
  /\ Goto(s, "record")
  /\ UNCHANGED <<store, conn, pool, seen>>

(***************************************************************************)
(* From here on the handler ignores what its commands return.              *)
(***************************************************************************)
MarkPending(s) ==
  /\ pc[s] = "pending"
  /\ Command(s, SetStatus(s, "PENDING"), "record", "record")
  /\ UNCHANGED <<pool, seen>>

Record(s) ==
  /\ pc[s] = "record"
  /\ Command(s, LPushHistory(s), "trim", "accepted")
  /\ UNCHANGED <<pool, seen>>

(***************************************************************************)
(* Then the answer 202 (its queue_position is a read nothing depends on).  *)
(***************************************************************************)
Trim(s) ==
  /\ pc[s] = "trim"
  /\ Command(s, LTrimHistory(s), "accepted", "accepted")
  /\ UNCHANGED <<pool, seen>>

\* Mutant: the result is fetched with GETDEL.
TakeResult(s) ==
  /\ pc[s] = "accepted"
  /\ Command(s, SetResult(s, Absent),
             IF result[s] = Absent THEN "getStatus" ELSE "accepted", "getStatus")
  /\ seen' = IF pc'[s] = "accepted" /\ s \notin retry'
             THEN [seen EXCEPT ![s] = result[s]] ELSE seen
  /\ UNCHANGED pool

(***************************************************************************)
(* GET /submissions/:id of a client that waits for the answer before it    *)
(* asks again: the result, and the status only when there is no result.    *)
(* (The token is read first, as in Authorize; when that fails the client   *)
(* gets a 401 instead of the 404 it gets here.)                            *)
(***************************************************************************)
GetResult(s) ==
  /\ pc[s] = "accepted"
  /\ Command(s, NoEffect,
             IF result[s] = Absent THEN "getStatus" ELSE "accepted", "getStatus")
  /\ seen' = IF pc'[s] = "accepted" /\ s \notin retry'
             THEN [seen EXCEPT ![s] = result[s]] ELSE seen
  /\ UNCHANGED pool

(***************************************************************************)
(* GET /auth/submissions reads the same two keys for every id on the       *)
(* user's list, and has another answer when it finds neither: PENDING.     *)
(***************************************************************************)
Listed(s) == \E i \in DOMAIN hist[Owner[s]] : hist[Owner[s]][i] = s

NotFound(s) == {Absent} \cup (IF Listed(s) THEN {"PENDING"} ELSE {})

GetStatus(s) ==
  /\ pc[s] = "getStatus"
  /\ Command(s, NoEffect, "accepted", "accepted")
  /\ IF pc'[s] = "getStatus"
     THEN UNCHANGED seen
     ELSE \E v \in IF ctx'[Api] = "ok" /\ status[s] # Absent THEN {status[s]}
                                                          ELSE NotFound(s) :
            seen' = [seen EXCEPT ![s] = v]
  /\ UNCHANGED pool

Request(s) == \/ Authorize(s) \/ Enqueue(s) \/ MarkPending(s) \/ Record(s)
              \/ Trim(s) \/ GetResult(s) \/ GetStatus(s)

-----------------------------------------------------------------------------
(***************************************************************************)
(* WorkerPool::worker_loop.  Sub(w) is the submission of the job in hand.  *)
(***************************************************************************)
Busy(w) == job[w] # 0
Sub(w) == popped[job[w]]

Connect(w) ==
  /\ pc[w] = "connect"
  /\ ctx' = [ctx EXCEPT ![w] = "ok"]
  /\ Goto(w, "check")
  /\ UNCHANGED <<store, retry, pool, seen>>

(***************************************************************************)
(* connect() failed and the pool was stopped meanwhile.                    *)
(***************************************************************************)
GiveUp(w) ==
  /\ "cut" \in Events
  /\ pc[w] = "connect"
  /\ ~running
  /\ Goto(w, "exited")
  /\ UNCHANGED <<store, conn, pool, seen>>

\* Mutant: while (true) instead of while (running_).
NeverStop(w) ==
  /\ pc[w] = "check"
  /\ Goto(w, "pop")
  /\ UNCHANGED <<store, conn, pool, seen>>

CheckRunning(w) ==
  /\ pc[w] = "check"
  /\ Goto(w, IF running THEN "pop" ELSE "exited")
  /\ UNCHANGED <<store, conn, pool, seen>>

\* Mutant: if (!job) break instead of continue.
DequeueOrExit(w) ==
  /\ pc[w] = "pop"
  /\ IF queue = <<>> THEN Command(w, NoEffect, "exited", "exited")
                     ELSE Command(w, BRPop, "compiling", "exited")
  /\ job' = IF pc'[w] = "compiling" THEN [job EXCEPT ![w] = Len(popped')] ELSE job
  /\ lost' = IF Len(popped') # Len(popped) /\ pc'[w] # "compiling"
             THEN lost \cup {Len(popped')} ELSE lost
  /\ UNCHANGED <<verdict, running, finished, seen>>

\* Mutant: if (!job || !running_) continue.
DequeueWhileRunning(w) ==
  /\ pc[w] = "pop"
  /\ IF queue = <<>>
     THEN Command(w, NoEffect, "check", "check")
     ELSE Command(w, BRPop, IF running THEN "compiling" ELSE "check", "check")
  /\ job' = IF pc'[w] = "compiling" THEN [job EXCEPT ![w] = Len(popped')] ELSE job
  /\ lost' = IF Len(popped') # Len(popped) /\ pc'[w] # "compiling"
             THEN lost \cup {Len(popped')} ELSE lost
  /\ UNCHANGED <<verdict, running, finished, seen>>

(***************************************************************************)
(* BRPOP with a timeout of 5 seconds.  A job Redis took off the list for a *)
(* reply that never arrived is lost: nothing else remembers it.            *)
(***************************************************************************)
Dequeue(w) ==
  /\ pc[w] = "pop"
  /\ IF queue = <<>> THEN Command(w, NoEffect, "check", "check")
                     ELSE Command(w, BRPop, "compiling", "check")
  /\ job' = IF pc'[w] = "compiling" THEN [job EXCEPT ![w] = Len(popped')] ELSE job
  /\ lost' = IF Len(popped') # Len(popped) /\ pc'[w] # "compiling"
             THEN lost \cup {Len(popped')} ELSE lost
  /\ UNCHANGED <<verdict, running, finished, seen>>

\* Mutant: if (!set_status(...)) continue.
MarkCompilingOrDrop(w) ==
  /\ pc[w] = "compiling"
  /\ Command(w, SetStatus(Sub(w), "COMPILING"), "run", "check")
  /\ UNCHANGED <<pool, seen>>

MarkCompiling(w) ==
  /\ pc[w] = "compiling"
  /\ Command(w, SetStatus(Sub(w), "COMPILING"), "run", "run")
  /\ UNCHANGED <<pool, seen>>

\* Mutant: the result is stored before the evaluation has filled it in.
MarkRunningAndStore(w) ==
  /\ pc[w] = "run"
  /\ Command(w, SetStatus(Sub(w), "RUNNING"), "store", "store")
  /\ UNCHANGED <<pool, seen>>

MarkRunning(w) ==
  /\ pc[w] = "run"
  /\ Command(w, SetStatus(Sub(w), "RUNNING"), "evaluate", "evaluate")
  /\ UNCHANGED <<pool, seen>>

Evaluate(w) ==
  /\ pc[w] = "evaluate"
  /\ \E v \in Outcomes : verdict' = [verdict EXCEPT ![w] = v]
  /\ Goto(w, "store")
  /\ UNCHANGED <<store, conn, job, running, finished, lost, seen>>

\* Mutant: only the status is published.
StoreNothing(w) ==
  /\ pc[w] = "store"
  /\ Sub(w) \notin Unprintable
  /\ Goto(w, "publish")
  /\ UNCHANGED <<store, conn, pool, seen>>

\* Mutant: if (!set_result(result)) continue.
StoreResultOrDrop(w) ==
  /\ pc[w] = "store"
  /\ Sub(w) \notin Unprintable
  /\ Command(w, SetResult(Sub(w), verdict[w]), "publish", "check")
  /\ UNCHANGED <<pool, seen>>

StoreResult(w) ==
  /\ pc[w] = "store"
  /\ Sub(w) \notin Unprintable
  /\ Command(w, SetResult(Sub(w), verdict[w]), "publish", "publish")
  /\ UNCHANGED <<pool, seen>>

Publish(w) ==
  /\ pc[w] = "publish"
  /\ Command(w, SetStatus(Sub(w), verdict[w]), "check", "check")
  /\ IF pc'[w] = "check"
     THEN /\ finished' = finished \cup {job[w]}
          /\ job' = [job EXCEPT ![w] = 0]
          /\ verdict' = [verdict EXCEPT ![w] = "PENDING"]
     ELSE UNCHANGED <<finished, job, verdict>>
  /\ UNCHANGED <<running, lost, seen>>

WorkerStep(w) ==
  \/ Connect(w) \/ GiveUp(w) \/ CheckRunning(w) \/ Dequeue(w) \/ MarkCompiling(w)
  \/ MarkRunning(w) \/ Evaluate(w) \/ StoreResult(w) \/ Publish(w)

-----------------------------------------------------------------------------
\* Mutant: a supervisor puts a job of the dead process back on the queue.
PoolDiesRequeueing ==
  /\ pc' = [a \in Actors |-> IF a \in Workers THEN "down" ELSE pc[a]]
  /\ ctx' = [c \in Clients |-> IF c \in Workers THEN "dead" ELSE ctx[c]]
  /\ retry' = retry \ Workers
  /\ job' = [w \in Workers |-> 0]
  /\ verdict' = [w \in Workers |-> "PENDING"]
  /\ lost' = lost \cup {job[w] : w \in {x \in Workers : Busy(x)}}
  /\ \E w \in Workers : Busy(w) /\ LPushJob(Sub(w))
  /\ UNCHANGED <<running, finished, seen>>

(***************************************************************************)
(* The pool is one process: when it dies, every thread's job dies with it. *)
(***************************************************************************)
PoolDies ==
  /\ pc' = [a \in Actors |-> IF a \in Workers THEN "down" ELSE pc[a]]
  /\ ctx' = [c \in Clients |-> IF c \in Workers THEN "dead" ELSE ctx[c]]
  /\ retry' = retry \ Workers
  /\ job' = [w \in Workers |-> 0]
  /\ verdict' = [w \in Workers |-> "PENDING"]
  /\ lost' = lost \cup {job[w] : w \in {x \in Workers : Busy(x)}}
  /\ UNCHANGED <<store, running, finished, seen>>

(***************************************************************************)
(* Nothing in a worker thread catches an exception, and std::terminate     *)
(* ends the process: submission_result_to_json throws on invalid UTF-8     *)
(* (nlohmann's dump), evaluate_submission when the file system fails it or *)
(* a meta.json is malformed.                                               *)
(***************************************************************************)
Terminate(w) ==
  /\ \/ pc[w] = "store" /\ Sub(w) \in Unprintable
     \/ pc[w] = "evaluate" /\ "throw" \in Events
  /\ PoolDies

Crash ==
  /\ "crash" \in Events
  /\ \E w \in Workers : pc[w] \notin {"down", "exited"}
  /\ PoolDies

(***************************************************************************)
(* An operator starts the pool again, after a death or a stop:             *)
(* WorkerPool::start.  What ctx holds of the old RedisClients is read by   *)
(* nobody before Connect sets it.                                          *)
(***************************************************************************)
Restart ==
  /\ "restart" \in Events
  /\ \A w \in Workers : pc[w] \in {"down", "exited"}
  /\ running' = TRUE
  /\ pc' = [a \in Actors |-> IF a \in Workers THEN "connect" ELSE pc[a]]
  /\ UNCHANGED <<store, conn, job, verdict, finished, lost, seen>>

(***************************************************************************)
(* SIGINT or SIGTERM: the handler calls WorkerPool::stop.                  *)
(***************************************************************************)
Stop ==
  /\ "stop" \in Events
  /\ running
  /\ running' = FALSE
  /\ UNCHANGED <<store, conn, pc, job, verdict, finished, lost, seen>>

(***************************************************************************)
(* Status and result live for 86400 seconds from their last SET, longer    *)
(* than any handler or evaluation takes: the older one goes first.         *)
(***************************************************************************)
Expire(s) ==
  /\ "expire" \in Events
  /\ pc[s] = "accepted"
  /\ \A w \in Workers : Busy(w) => Sub(w) # s
  /\ \/ /\ result[s] # Absent
        /\ newest[s] = "status" \/ status[s] = Absent
        /\ result' = [result EXCEPT ![s] = Absent]
        /\ UNCHANGED status
     \/ /\ status[s] # Absent
        /\ newest[s] = "result" \/ result[s] = Absent
        /\ status' = [status EXCEPT ![s] = Absent]
        /\ UNCHANGED result
  /\ UNCHANGED <<queue, newest, hist, pushed, popped, conn, pool, pc, seen>>

-----------------------------------------------------------------------------
Init ==
  /\ queue = <<>>
  /\ status = [s \in Subs |-> Absent]
  /\ result = [s \in Subs |-> Absent]
  /\ newest = [s \in Subs |-> "status"]
  /\ hist = [u \in Users |-> <<>>]
  /\ pc = [a \in Actors |-> IF a \in Workers THEN "connect" ELSE "new"]
  /\ ctx = [c \in Clients |-> IF c \in Workers THEN "dead" ELSE "ok"]
  /\ retry = {}
  /\ job = [w \in Workers |-> 0]
  /\ verdict = [w \in Workers |-> "PENDING"]
  /\ running = TRUE
  /\ seen = [s \in Subs |-> Absent]
  /\ pushed = <<>>
  /\ popped = <<>>
  /\ finished = {}
  /\ lost = {}

Next ==
  \/ \E s \in Subs : Request(s) \/ Expire(s)
  \/ \E w \in Workers : WorkerStep(w) \/ Terminate(w)
  \/ Crash \/ Restart \/ Stop

Spec == Init /\ [][Next]_vars

(***************************************************************************)
(* The operating system schedules every thread of both processes, a client *)
(* that got a 202 keeps polling, and Redis answers; nobody has to make a   *)
(* request, and no event has to happen.  Nor does an evaluation have to    *)
(* return: run_compile_process reads its compiler's output to the end and  *)
(* has no deadline.                                                        *)
(***************************************************************************)
FairSpec ==
  /\ Spec
  /\ \A s \in Subs : WF_vars(pc[s] # "new" /\ Request(s))
  /\ \A w \in Workers : WF_vars(pc[w] # "evaluate" /\ (WorkerStep(w) \/ Terminate(w)))

-----------------------------------------------------------------------------
(***************************************************************************)
(* Type invariant.                                                         *)
(***************************************************************************)
StoreTypeOK ==
  /\ queue \in Seq(Subs)
  /\ status \in [Subs -> Verdict \cup {Absent}]
  /\ result \in [Subs -> Final \cup {Absent}]
  /\ newest \in [Subs -> {"status", "result"}]
  /\ hist \in [Users -> Seq(Subs)]
  /\ pushed \in Seq(Subs)
  /\ popped \in Seq(Subs)

ProcessTypeOK ==
  /\ pc \in [Actors -> HandlerSteps \cup WorkerSteps]
  /\ \A s \in Subs : pc[s] \in HandlerSteps
  /\ \A w \in Workers : pc[w] \in WorkerSteps
  /\ ctx \in [Clients -> {"ok", "io", "dead"}]
  /\ retry \subseteq Actors
  /\ job \in [Workers -> Nat]
  /\ verdict \in [Workers -> Verdict]
  /\ running \in BOOLEAN
  /\ seen \in [Subs -> Verdict \cup {Absent}]
  /\ finished \subseteq Nat
  /\ lost \subseteq Nat

TypeOK == StoreTypeOK /\ ProcessTypeOK

(***************************************************************************)
(* LPUSH at one end and BRPOP at the other make a first-in first-out       *)
(* queue, whatever the handlers and workers do and whichever of their      *)
(* calls are retried: the jobs taken off are exactly the first ones put    *)
(* on, and the list holds the others, newest first.                        *)
(***************************************************************************)
RoutedInOrder ==
  /\ Len(pushed) = Len(popped) + Len(queue)
  /\ \A i \in 1 .. Len(popped) : popped[i] = pushed[i]
  /\ \A i \in 1 .. Len(queue) : queue[i] = pushed[Len(pushed) + 1 - i]

(***************************************************************************)
(* No job is evaluated by two threads and none disappears unaccounted for: *)
(* a job taken off the queue is in the hands of one worker, or published,  *)
(* or lost, and never two of these.  (BRPOP is destructive and nothing     *)
(* acknowledges a job, so "lost" is all that is left of it.)               *)
(***************************************************************************)
Held == {job[w] : w \in {x \in Workers : Busy(x)}}

JobsConserved ==
  /\ Held \cup finished \cup lost = 1 .. Len(popped)
  /\ Held \cap finished = {}
  /\ (Held \cup finished) \cap lost = {}
  /\ \A w, x \in Workers : Busy(w) /\ job[w] = job[x] => w = x

(***************************************************************************)
(* A worker holds a job exactly while it processes one, so the next BRPOP  *)
(* overwrites no job, and what it is about to publish is a final verdict.  *)
(***************************************************************************)
Processing == {"compiling", "run", "evaluate", "store", "publish"}

JobInHand ==
  \A w \in Workers :
    /\ Busy(w) <=> pc[w] \in Processing
    /\ pc[w] \in {"store", "publish"} => verdict[w] \in Final

(***************************************************************************)
(* evaluate_submission works in the directory named after the submission,  *)
(* so two workers must never hold the same submission at the same time.    *)
(* It holds as long as no LPUSH is retried.                                *)
(***************************************************************************)
ExclusiveWorkDir ==
  \A w, x \in Workers : Busy(w) /\ Busy(x) /\ Sub(w) = Sub(x) => w = x

(***************************************************************************)
(* Every 202 and every later answer stands for a job Redis really queued,  *)
(* and a 4xx of POST /submit for none, under any failure.  (Not so a 503:  *)
(* its job may have been queued by the attempt whose reply was lost.)      *)
(***************************************************************************)
Queued(s) == \E n \in DOMAIN pushed : pushed[n] = s

AnswersMatchQueue ==
  \A s \in Subs :
    /\ pc[s] \in {"pending", "record", "trim", "accepted", "getStatus"} => Queued(s)
    /\ pc[s] \in {"new", "rejected"} => ~Queued(s)

(***************************************************************************)
(* exec_command's retry may queue a submission twice, never three times,   *)
(* and without an I/O error not even twice.                                *)
(***************************************************************************)
QueuedAtMostTwice ==
  \A s \in Subs : Cardinality({n \in DOMAIN pushed : pushed[n] = s}) <=
                    (IF "io" \in Events THEN 2 ELSE 1)

(***************************************************************************)
(* While Redis answers and no key expires, a client that got its 202 is    *)
(* never told that its submission does not exist, although the worker and  *)
(* the handler write the status in any order and the answer is put         *)
(* together from two reads.                                                *)
(***************************************************************************)
AcceptedIsFound ==
  \A s \in Subs : pc[s] \in {"accepted", "getStatus"} => status[s] # Absent

(***************************************************************************)
(* A stop lets every worker finish and publish the job in its hands, also  *)
(* one that BRPOP hands over after running_ was cleared.                   *)
(***************************************************************************)
StopLosesNothing == lost = {}

(***************************************************************************)
(* record_submission keeps a user's list at HistoryCap entries although    *)
(* its LPUSH and LTRIM are two commands: it is longer only by the requests *)
(* that are between the two.                                               *)
(***************************************************************************)
HistoryBounded ==
  \A u \in Users :
    Len(hist[u]) <= HistoryCap +
                      Cardinality({s \in Subs : Owner[s] = u /\ pc[s] = "trim"})

(***************************************************************************)
(* A client that was shown a final verdict, where the pollers of           *)
(* web/app.js and scripts/load_test.py stop asking, is never shown an      *)
(* in-progress one afterwards, although POST /submit may write PENDING     *)
(* after the worker has finished.                                          *)
(***************************************************************************)
FinalIsFinal == [][\A s \in Subs : seen[s] \in Final => seen'[s] \notin InProgress]_seen

(***************************************************************************)
(* Nor is it ever shown another final verdict, also when keys expire and   *)
(* workers die: it takes a second evaluation of the submission to change   *)
(* its verdict, and without an I/O error there is none.                    *)
(***************************************************************************)
OneVerdict ==
  [][\A s \in Subs : seen[s] \in Final /\ seen'[s] \in Final => seen'[s] = seen[s]]_seen

(***************************************************************************)
(* A worker that dies of one submission's output takes down no other       *)
(* submission's job: README.md promises isolated evaluations.              *)
(***************************************************************************)
FailureIsContained == \A n \in lost : popped[n] \in Unprintable

(***************************************************************************)
(* The answers the API can give implement the judge's promise.             *)
(***************************************************************************)
View == [s \in Subs |-> IF result[s] # Absent THEN result[s]
                        ELSE IF status[s] = Absent THEN "unknown"
                        ELSE IF status[s] \in InProgress THEN "judging"
                        ELSE status[s]]

Judge == INSTANCE JudgeService WITH view <- View

ImplementsJudge == Judge!Spec

(***************************************************************************)
(* List, workers and Redis commands together are a queue that delivers     *)
(* every job once at most, the oldest first, to one worker that works on   *)
(* the submission that was queued and never lets go of it but by           *)
(* publishing it or by dying, whatever fails and is retried.               *)
(***************************************************************************)
Fifo == INSTANCE JobQueue WITH
  Items   <- Subs,
  Holders <- Workers,
  put     <- pushed,
  taken   <- Len(pushed) - Len(queue),
  hand    <- [w \in Workers |-> IF Busy(w) THEN <<job[w], Sub(w)>> ELSE <<>>],
  done    <- finished,
  gone    <- lost

ImplementsQueue == Fifo!Spec

(***************************************************************************)
(* A client with a 202 is eventually shown a final verdict, unless the     *)
(* pool is stopped.  An evaluation that hangs costs its own submission and *)
(* its worker; everybody else's is judged until the last worker hangs.     *)
(***************************************************************************)
Hangs(w) == <>[](pc[w] = "evaluate")

HangsOn(s) == \E w \in Workers : <>[](pc[w] = "evaluate" /\ Sub(w) = s)

EventuallyJudged ==
  \A s \in Subs :
    \/ HangsOn(s)
    \/ \A w \in Workers : Hangs(w)
    \/ (pc[s] = "accepted") ~> (seen[s] \in Final \/ ~running)

(***************************************************************************)
(* After a stop every thread of the pool returns whose evaluation does, so *)
(* join() returns unless an evaluation hangs.                              *)
(***************************************************************************)
StopTerminates ==
  \A w \in Workers : Hangs(w) \/ (~running ~> pc[w] \in {"exited", "down"})

=============================================================================
