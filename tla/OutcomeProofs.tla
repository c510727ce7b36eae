--------------------------- MODULE OutcomeProofs ----------------------------
(***************************************************************************)
(* More proofs about SubmissionPipeline, for any number of submissions,    *)
(* workers and users.  How often a submission is queued is bounded under   *)
(* every failure the model has, and a submission has one verdict at most   *)
(* under every one but I/O errors.  While Redis answers (Calm; the pool    *)
(* may still die, be stopped and restarted) histories are bounded, what is *)
(* lost is bounded by what can kill a worker, and if no key expires        *)
(* either, an accepted submission is found, a final verdict is final, and  *)
(* the answers keep the promise of JudgeService.                           *)
(***************************************************************************)
EXTENDS SubmissionPipelineProofs, FiniteSetTheorems

Positions(s) == {n \in DOMAIN pushed : pushed[n] = s}

(***************************************************************************)
(* How often a submission was queued, by the attempt its LPUSH is at.      *)
(***************************************************************************)
Attempts ==
  \A s \in Subs :
    /\ Cardinality(Positions(s)) <= (IF "io" \in Events THEN 2 ELSE 1)
    /\ pc[s] = "enqueue" =>
         Cardinality(Positions(s)) <= (IF s \in retry THEN 1 ELSE 0)
    /\ s \in retry => "io" \in Events

-----------------------------------------------------------------------------
(***************************************************************************)
(* A submission has finitely many places on the list, and LPUSH adds one.  *)
(***************************************************************************)
LEMMA PositionsCount ==
  ASSUME StoreTypeOK, NEW s \in Subs
  PROVE  /\ IsFiniteSet(Positions(s))
         /\ Cardinality(Positions(s)) \in Nat
         /\ ~Queued(s) => Cardinality(Positions(s)) = 0
<1>1. Len(pushed) \in Nat /\ DOMAIN pushed = 1 .. Len(pushed)
  BY LenProperties DEF StoreTypeOK
<1>2. IsFiniteSet(1 .. Len(pushed))
  BY <1>1, FS_Interval
<1>3. Positions(s) \in SUBSET (1 .. Len(pushed))
  BY <1>1 DEF Positions
<1>4. IsFiniteSet(Positions(s))
  BY <1>2, <1>3, FS_Subset
<1>5. ~Queued(s) => Positions(s) = {}
  BY DEF Queued, Positions
<1> QED
  BY <1>4, <1>5, FS_CardinalityType, FS_EmptySet

(***************************************************************************)
(* LPUSH adds a place for its own submission and for no other.             *)
(***************************************************************************)
LEMMA PositionsGrow ==
  ASSUME StoreTypeOK, NEW s \in Subs, NEW x \in Subs, LPushJob(x)
  PROVE  Cardinality(Positions(s))' =
           (IF s = x THEN Cardinality(Positions(s)) + 1 ELSE Cardinality(Positions(s)))
<1>1. /\ Len(pushed) \in Nat
      /\ DOMAIN pushed = 1 .. Len(pushed)
      /\ DOMAIN pushed' = 1 .. Len(pushed) + 1
      /\ pushed'[Len(pushed) + 1] = x
      /\ \A i \in 1 .. Len(pushed) : pushed'[i] = pushed[i]
  BY QueuedGrows
<1>2. 1 .. Len(pushed) + 1 = (1 .. Len(pushed)) \cup {Len(pushed) + 1}
  BY <1>1
<1>3. CASE s = x
  <2>1. Positions(s)' = Positions(s) \cup {Len(pushed) + 1}
    BY <1>1, <1>2, <1>3 DEF Positions
  <2>2. Len(pushed) + 1 \notin Positions(s)
    BY <1>1 DEF Positions
  <2> QED
    BY <1>3, <2>1, <2>2, PositionsCount, FS_AddElement
<1>4. CASE s # x
  <2>1. Positions(s)' = Positions(s)
    BY <1>1, <1>2, <1>4 DEF Positions
  <2> QED
    BY <1>4, <2>1
<1> QED
  BY <1>3, <1>4

(***************************************************************************)
(* A handler that stays at its LPUSH stays at its second attempt, and only *)
(* I/O errors lead there.                                                  *)
(***************************************************************************)
LEMMA AttemptSteps ==
  ASSUME TypeOK, [Next]_vars, NEW s \in Subs
  PROVE  /\ s \in retry' => s \in retry \/ "io" \in Events
         /\ pc[s] = "enqueue" /\ pc'[s] = "enqueue" /\ s \in retry => s \in retry'
<1> DEFINE P == /\ s \in retry' => s \in retry \/ "io" \in Events
                /\ pc[s] = "enqueue" /\ pc'[s] = "enqueue" /\ s \in retry => s \in retry'
<1>1. ASSUME NEW a \in Actors, NEW ran \in BOOLEAN,
             Answered(a) \/ Retried(a, ran) \/ Failed(a, ran)
      PROVE  /\ s \in retry' => s \in retry \/ "io" \in Events
             /\ a # s => (s \in retry' <=> s \in retry)
  BY <1>1 DEF Answered, Retried, Failed
<1>2. ASSUME NEW x \in Subs, Request(x) PROVE P
  <2>1. \E ran \in BOOLEAN : Answered(x) \/ Retried(x, ran) \/ Failed(x, ran)
    BY <1>2 DEF Request, Authorize, Enqueue, MarkPending, Record, Trim, GetResult,
                GetStatus, Command
  <2>2. CASE x # s
    BY <1>1, <2>1, <2>2 DEF Actors
  <2>3. CASE x = s
    <3>1. \A step : Goto(s, step) => pc'[s] = step
      BY DEF Goto, TypeOK, ProcessTypeOK, Actors
    <3>2. Enqueue(s) /\ pc'[s] = "enqueue" => \E ran \in BOOLEAN : Retried(s, ran)
      BY <3>1 DEF Enqueue, Command
    <3>3. pc[s] = "enqueue" => Enqueue(s)
      BY <1>2, <2>3 DEF Request, Authorize, MarkPending, Record, Trim, GetResult, GetStatus
    <3>4. s \in retry' => s \in retry \/ "io" \in Events
      BY <1>1, <2>1, <2>3 DEF Actors
    <3> QED
      BY <3>2, <3>3, <3>4 DEF Retried
  <2> QED
    BY <2>2, <2>3
<1>3. ASSUME NEW w \in Workers, WorkerStep(w) PROVE P
  <2>1. w # s
    BY ActorsAssumption
  <2>2. \/ retry' = retry
        \/ \E ran \in BOOLEAN : Answered(w) \/ Retried(w, ran) \/ Failed(w, ran)
    BY <1>3 DEF WorkerStep, Connect, GiveUp, CheckRunning, Dequeue, MarkCompiling,
                MarkRunning, Evaluate, StoreResult, Publish, Command, conn
  <2> QED
    BY <1>1, <2>1, <2>2 DEF Actors
<1>4. ASSUME PoolDies \/ Restart \/ Stop \/ UNCHANGED vars \/ \E x \in Subs : Expire(x)
      PROVE  P
  BY <1>4, ActorsAssumption DEF PoolDies, Restart, Stop, Expire, vars, conn
<1> QED
  <2>1. P
    BY <1>2, <1>3, <1>4 DEF Next, Terminate, Crash
  <2> QED
    BY <2>1

(***************************************************************************)
(* Every attempt queues a submission once at most.                         *)
(***************************************************************************)
LEMMA AttemptsStep ==
  ASSUME TypeOK, AnswersMatchQueue, Attempts, [Next]_vars
  PROVE  Attempts'
<1> DEFINE count(s) == Cardinality(Positions(s))
<1> SUFFICES ASSUME NEW s \in Subs
             PROVE  /\ count(s)' <= (IF "io" \in Events THEN 2 ELSE 1)
                    /\ pc'[s] = "enqueue" => count(s)' <= (IF s \in retry' THEN 1 ELSE 0)
                    /\ s \in retry' => "io" \in Events
  BY DEF Attempts
<1>1. /\ count(s) \in Nat
      /\ ~Queued(s) => count(s) = 0
      /\ count(s) <= (IF "io" \in Events THEN 2 ELSE 1)
      /\ pc[s] = "enqueue" => count(s) <= (IF s \in retry THEN 1 ELSE 0)
      /\ s \in retry => "io" \in Events
  BY PositionsCount DEF Attempts, TypeOK
<1>2. s \in retry' => "io" \in Events
  BY <1>1, AttemptSteps
<1>3. ASSUME count(s)' = count(s)
      PROVE  /\ count(s)' <= (IF "io" \in Events THEN 2 ELSE 1)
             /\ pc'[s] = "enqueue" => count(s)' <= (IF s \in retry' THEN 1 ELSE 0)
  <2>1. ASSUME pc'[s] = "enqueue" PROVE count(s) <= (IF s \in retry' THEN 1 ELSE 0)
    <3>1. pc[s] \in {"new", "enqueue"}
      BY <2>1, RequestSteps DEF AfterEnqueue
    <3>2. CASE pc[s] = "new"
      <4>1. count(s) = 0
        BY <1>1, <3>2 DEF AnswersMatchQueue
      <4> QED
        BY <4>1
    <3>3. CASE pc[s] = "enqueue"
      <4>1. s \in retry => s \in retry'
        BY <2>1, <3>3, AttemptSteps
      <4> HIDE DEF count
      <4> QED
        BY <1>1, <3>3, <4>1
    <3> QED
      BY <3>1, <3>2, <3>3
  <2> QED
    BY <1>1, <1>3, <2>1
<1>4. CASE UNCHANGED pushed
  <2>1. count(s)' = count(s)
    BY <1>4 DEF Positions
  <2> QED
    BY <1>2, <1>3, <2>1
<1>5. ASSUME NEW x \in Subs, Enqueue(x), LPushJob(x), x # s
      PROVE  count(s)' = count(s)
  BY <1>5, PositionsGrow DEF TypeOK
<1>6. CASE Enqueue(s) /\ LPushJob(s)
  <2>1. count(s)' = count(s) + 1
    BY <1>6, PositionsGrow DEF TypeOK
  <2>2. pc[s] = "enqueue"
    BY <1>6 DEF Enqueue
  <2>3. pc'[s] = "enqueue" => s \notin retry /\ s \in retry'
    <3>1. \A step : Goto(s, step) => pc'[s] = step
      BY DEF Goto, TypeOK, ProcessTypeOK, Actors
    <3>2. pc'[s] = "enqueue" => \E ran \in BOOLEAN : Retried(s, ran)
      BY <1>6, <3>1 DEF Enqueue, Command
    <3> QED
      BY <3>2 DEF Retried
  <2> HIDE DEF count
  <2> QED
    BY <1>1, <1>2, <2>1, <2>2, <2>3
<1> QED
  BY <1>2, <1>3, <1>4, <1>5, <1>6, QueueSteps DEF BRPop

(***************************************************************************)
(* No submission is queued more than twice, whatever fails, and none more  *)
(* than once without an I/O error.                                         *)
(***************************************************************************)
THEOREM QueuedTwice == Spec => []QueuedAtMostTwice
<1>1. Init => Attempts
  <2> SUFFICES ASSUME Init, NEW s \in Subs
               PROVE  Cardinality(Positions(s)) = 0 /\ retry = {}
    BY DEF Attempts
  <2>1. Positions(s) = {} /\ retry = {}
    BY DEF Init, Positions
  <2> QED
    BY <2>1, FS_EmptySet
<1>2. IInv /\ AnswersMatchQueue /\ Attempts /\ [Next]_vars => Attempts'
  BY AttemptsStep DEF IInv
<1>3. Attempts => QueuedAtMostTwice
  BY DEF Attempts, QueuedAtMostTwice, Positions
<1> QED
  BY <1>1, <1>2, <1>3, Invariance, Answers, PTL DEF Spec

-----------------------------------------------------------------------------
(***************************************************************************)
(* From here on every command is answered, as no connection ever breaks.   *)
(***************************************************************************)
Calm == "io" \notin Events /\ "cut" \notin Events

Connected ==
  /\ retry = {}
  /\ ctx[Api] = "ok"
  /\ \A w \in Workers : pc[w] \notin {"connect", "down"} => ctx[w] = "ok"

(***************************************************************************)
(* What a handler does then, and what the client sees of it.               *)
(***************************************************************************)
Shows(s, v) == seen' = [seen EXCEPT ![s] = v]

Answers202(s) ==
  \/ /\ pc[s] = "new" /\ pc'[s] \in {"enqueue", "rejected"} /\ UNCHANGED store
  \/ /\ pc[s] = "enqueue" /\ pc'[s] = "pending" /\ LPushJob(s)
  \/ /\ pc[s] = "pending" /\ pc'[s] = "record" /\ SetStatus(s, "PENDING")
  \/ /\ pc[s] = "record" /\ pc'[s] = "trim" /\ LPushHistory(s)
  \/ /\ pc[s] = "trim" /\ pc'[s] = "accepted" /\ LTrimHistory(s)

AnswersPoll(s) ==
  \/ pc[s] = "accepted" /\ pc'[s] = "getStatus" /\ result[s] = Absent /\ UNCHANGED seen
  \/ pc[s] = "accepted" /\ pc'[s] = "accepted" /\ result[s] # Absent /\ Shows(s, result[s])
  \/ /\ pc[s] = "getStatus" /\ pc'[s] = "accepted"
     /\ \E v : Shows(s, v) /\ (v \in Final => v = status[s])

Handles(s) ==
  /\ \A x \in Actors \ {s} : pc'[x] = pc[x]
  /\ UNCHANGED <<conn, pool>>
  /\ \/ Answers202(s) /\ UNCHANGED seen
     \/ AnswersPoll(s) /\ UNCHANGED store

(***************************************************************************)
(* And what a worker does.                                                 *)
(***************************************************************************)
Takes(w) ==
  /\ pc[w] = "pop" /\ pc'[w] = "compiling"
  /\ BRPop
  /\ job' = [job EXCEPT ![w] = Len(popped')]
  /\ UNCHANGED verdict

Marks(w) ==
  /\ \/ pc[w] = "compiling" /\ pc'[w] = "run" /\ SetStatus(Sub(w), "COMPILING")
     \/ pc[w] = "run" /\ pc'[w] = "evaluate" /\ SetStatus(Sub(w), "RUNNING")
  /\ UNCHANGED <<job, verdict>>

Stores(w) ==
  /\ pc[w] = "store" /\ pc'[w] = "publish"
  /\ SetResult(Sub(w), verdict[w])
  /\ UNCHANGED <<job, verdict>>

Publishes(w) ==
  /\ pc[w] = "publish" /\ pc'[w] = "check"
  /\ SetStatus(Sub(w), verdict[w])
  /\ job' = [job EXCEPT ![w] = 0]
  /\ verdict' = [verdict EXCEPT ![w] = "PENDING"]

Works(w) ==
  /\ \A x \in Actors \ {w} : pc'[x] = pc[x]
  /\ UNCHANGED <<retry, seen, running, lost>>
  /\ \/ /\ pc[w] \in {"connect", "check", "pop"}
        /\ pc'[w] \in {"check", "pop", "exited"}
        /\ UNCHANGED <<store, job, verdict>>
     \/ Takes(w) \/ Marks(w) \/ Evaluate(w) \/ Stores(w) \/ Publishes(w)

-----------------------------------------------------------------------------
(***************************************************************************)
(* A connected caller gets its reply.                                      *)
(***************************************************************************)
LEMMA NeverFails ==
  ASSUME Calm, Connected, NEW a \in Actors,
         a \in Workers => pc[a] \notin {"connect", "down"}
  PROVE  /\ Answered(a) => UNCHANGED conn
         /\ \A ran \in BOOLEAN : ~Retried(a, ran) /\ ~Failed(a, ran)
<1>1. ctx[ClientOf(a)] = "ok" /\ retry = {}
  BY DEF Connected, ClientOf
<1> QED
  BY <1>1 DEF Calm, Answered, Retried, Failed, conn

(***************************************************************************)
(* A step moves its own process only.                                      *)
(***************************************************************************)
LEMMA GotoMoves ==
  ASSUME TypeOK, NEW a \in Actors, NEW step, Goto(a, step)
  PROVE  pc'[a] = step /\ \A x \in Actors \ {a} : pc'[x] = pc[x]
  BY DEF Goto, TypeOK, ProcessTypeOK

(***************************************************************************)
(* A handler's step, with a reply to its command.                          *)
(***************************************************************************)
LEMMA CalmHandler ==
  ASSUME Calm, TypeOK, Connected, NEW s \in Subs, Request(s)
  PROVE  Handles(s)
<1>1. s \in Actors /\ s \notin Workers
  BY ActorsAssumption DEF Actors
<1>2. \A ran \in BOOLEAN : ~Retried(s, ran) /\ ~Failed(s, ran)
  BY <1>1, NeverFails
<1>3. Answered(s) => UNCHANGED conn
  BY <1>1, NeverFails
<1>4. CASE Authorize(s)
  BY <1>1, <1>2, <1>3, <1>4, GotoMoves
     DEF Authorize, Command, NoEffect, Handles, Answers202
<1>5. CASE Enqueue(s)
  BY <1>1, <1>2, <1>3, <1>5, GotoMoves DEF Enqueue, Command, Handles, Answers202
<1>6. CASE MarkPending(s)
  BY <1>1, <1>2, <1>3, <1>6, GotoMoves DEF MarkPending, Command, Handles, Answers202
<1>7. CASE Record(s)
  BY <1>1, <1>2, <1>3, <1>7, GotoMoves DEF Record, Command, Handles, Answers202
<1>8. CASE Trim(s)
  BY <1>1, <1>2, <1>3, <1>8, GotoMoves DEF Trim, Command, Handles, Answers202
<1>9. CASE GetResult(s)
  <2>1. /\ pc[s] = "accepted" /\ Answered(s) /\ NoEffect /\ UNCHANGED pool
        /\ Goto(s, IF result[s] = Absent THEN "getStatus" ELSE "accepted")
        /\ seen' = IF pc'[s] = "accepted" /\ s \notin retry'
                   THEN [seen EXCEPT ![s] = result[s]] ELSE seen
    BY <1>2, <1>9 DEF GetResult, Command
  <2>2. retry' = {}
    BY <2>1, <1>3 DEF conn, Connected
  <2>3. /\ pc'[s] = IF result[s] = Absent THEN "getStatus" ELSE "accepted"
        /\ \A x \in Actors \ {s} : pc'[x] = pc[x]
    BY <1>1, <2>1, GotoMoves
  <2> QED
    BY <1>3, <2>1, <2>2, <2>3 DEF NoEffect, Handles, AnswersPoll, Shows
<1>10. CASE GetStatus(s)
  <2>1. /\ pc[s] = "getStatus" /\ Answered(s) /\ NoEffect /\ UNCHANGED pool
        /\ Goto(s, "accepted")
    BY <1>2, <1>10 DEF GetStatus, Command
  <2>2. pc'[s] = "accepted" /\ \A x \in Actors \ {s} : pc'[x] = pc[x]
    BY <1>1, <2>1, GotoMoves
  <2>3. ctx'[Api] = "ok"
    BY <1>3, <2>1 DEF conn, Connected
  <2>4. \A v \in NotFound(s) : v \notin Final
    BY DEF NotFound, Absent, Final
  <2>5. \E v : Shows(s, v) /\ (v \in Final => v = status[s])
    BY <1>10, <2>2, <2>3, <2>4 DEF GetStatus, Shows
  <2> QED
    BY <1>3, <2>1, <2>2, <2>5 DEF NoEffect, Handles, AnswersPoll
<1> QED
  BY <1>4, <1>5, <1>6, <1>7, <1>8, <1>9, <1>10 DEF Request

(***************************************************************************)
(* A worker's step; Connect alone touches the connection.                  *)
(***************************************************************************)
LEMMA CalmWorker ==
  ASSUME Calm, TypeOK, Connected, NEW w \in Workers, WorkerStep(w)
  PROVE  /\ Works(w)
         /\ ctx' = IF pc[w] = "connect" THEN [ctx EXCEPT ![w] = "ok"] ELSE ctx
<1>1. w \in Actors
  BY DEF Actors
<1>2. ASSUME pc[w] \notin {"connect", "down"}
      PROVE  /\ \A ran \in BOOLEAN : ~Retried(w, ran) /\ ~Failed(w, ran)
             /\ Answered(w) => UNCHANGED conn
  BY <1>1, <1>2, NeverFails
<1>3. CASE Connect(w) \/ CheckRunning(w)
  BY <1>1, <1>3, GotoMoves DEF Connect, CheckRunning, Works, pool, conn
<1>4. CASE Dequeue(w)
  <2>1. pc[w] = "pop" /\ Answered(w) /\ UNCHANGED conn
    BY <1>2, <1>4 DEF Dequeue, Command
  <2>2. CASE queue = <<>>
    <3>1. NoEffect /\ Goto(w, "check")
      BY <1>2, <1>4, <2>1, <2>2 DEF Dequeue, Command
    <3>2. pc'[w] = "check" /\ \A x \in Actors \ {w} : pc'[x] = pc[x]
      BY <1>1, <3>1, GotoMoves
    <3>3. popped' = popped
      BY <3>1 DEF NoEffect, store
    <3> QED
      BY <1>4, <2>1, <3>1, <3>2, <3>3 DEF Dequeue, Works, NoEffect, conn
  <2>3. CASE queue # <<>>
    <3>1. BRPop /\ Goto(w, "compiling")
      BY <1>2, <1>4, <2>1, <2>3 DEF Dequeue, Command
    <3>2. pc'[w] = "compiling" /\ \A x \in Actors \ {w} : pc'[x] = pc[x]
      BY <1>1, <3>1, GotoMoves
    <3> QED
      BY <1>4, <2>1, <3>1, <3>2 DEF Dequeue, Works, Takes, conn
  <2> QED
    BY <2>2, <2>3
<1>5. CASE MarkCompiling(w)
  BY <1>1, <1>2, <1>5, GotoMoves DEF MarkCompiling, Command, Works, Marks, pool, conn
<1>6. CASE MarkRunning(w)
  BY <1>1, <1>2, <1>6, GotoMoves DEF MarkRunning, Command, Works, Marks, pool, conn
<1>7. CASE Evaluate(w)
  BY <1>1, <1>7, GotoMoves DEF Evaluate, Works, conn
<1>8. CASE StoreResult(w)
  BY <1>1, <1>2, <1>8, GotoMoves DEF StoreResult, Command, Works, Stores, pool, conn
<1>9. CASE Publish(w)
  BY <1>1, <1>2, <1>9, GotoMoves DEF Publish, Command, Works, Publishes, conn
<1>10. ~GiveUp(w)
  BY DEF Calm, GiveUp
<1> QED
  BY <1>3, <1>4, <1>5, <1>6, <1>7, <1>8, <1>9, <1>10 DEF WorkerStep

-----------------------------------------------------------------------------
(***************************************************************************)
(* The connections stay as they are, unless the pool dies and starts anew. *)
(***************************************************************************)
LEMMA ConnectedStep ==
  ASSUME Calm, TypeOK, Connected, [Next]_vars
  PROVE  Connected'
<1> USE DEF Connected
<1>1. Api \notin Workers
  BY ActorsAssumption
<1>2. ASSUME NEW s \in Subs, Request(s) PROVE Connected'
  <2>1. UNCHANGED conn /\ \A x \in Actors \ {s} : pc'[x] = pc[x]
    BY <1>2, CalmHandler DEF Handles
  <2> QED
    BY <2>1, ActorsAssumption DEF conn, Actors
<1>3. ASSUME NEW w \in Workers, WorkerStep(w) PROVE Connected'
  <2>1. /\ retry' = retry
        /\ \A x \in Actors \ {w} : pc'[x] = pc[x]
        /\ pc[w] # "down"
        /\ ctx' = IF pc[w] = "connect" THEN [ctx EXCEPT ![w] = "ok"] ELSE ctx
    BY <1>3, CalmWorker DEF Works, Takes, Marks, Evaluate, Stores, Publishes
  <2> QED
    BY <1>1, <2>1 DEF TypeOK, ProcessTypeOK, Actors, Clients
<1>4. CASE PoolDies
  BY <1>1, <1>4 DEF PoolDies, Clients, Actors
<1>5. CASE Restart
  BY <1>5 DEF Restart, conn, Actors
<1>6. CASE Stop \/ UNCHANGED vars \/ \E s \in Subs : Expire(s)
  BY <1>6 DEF Stop, Expire, vars, conn
<1> QED
  BY <1>2, <1>3, <1>4, <1>5, <1>6 DEF Next, Terminate, Crash

(***************************************************************************)
(* So all callers are connected in every state.                            *)
(***************************************************************************)
LEMMA AllConnected ==
  ASSUME Calm
  PROVE  Spec => []Connected
<1>1. Init => Connected
  BY ActorsAssumption DEF Init, Connected, Actors, Clients
<1>2. IInv /\ Connected /\ [Next]_vars => Connected'
  BY ConnectedStep DEF IInv
<1> QED
  BY <1>1, <1>2, Invariance, PTL DEF Spec

(***************************************************************************)
(* A pool that is stopped, and not killed, loses no job: only its death    *)
(* takes one out of a worker's hands.                                      *)
(***************************************************************************)
THEOREM NothingLost ==
  ASSUME Calm, "crash" \notin Events, "throw" \notin Events, Unprintable = {}
  PROVE  Spec => []StopLosesNothing
<1>1. Init => StopLosesNothing
  BY DEF Init, StopLosesNothing
<1>2. ASSUME TypeOK, Connected, StopLosesNothing, [Next]_vars PROVE StopLosesNothing'
  <2>1. ~Crash /\ \A w \in Workers : ~Terminate(w)
    BY DEF Crash, Terminate
  <2>2. ASSUME NEW s \in Subs, Request(s) PROVE UNCHANGED lost
    BY <1>2, <2>2, CalmHandler DEF Handles, pool
  <2>3. ASSUME NEW w \in Workers, WorkerStep(w) PROVE UNCHANGED lost
    BY <1>2, <2>3, CalmWorker DEF Works
  <2>4. UNCHANGED lost
    BY <1>2, <2>1, <2>2, <2>3 DEF Next, Restart, Stop, Expire, vars, pool
  <2> QED
    BY <1>2, <2>4 DEF StopLosesNothing
<1> QED
  BY <1>1, <1>2, Invariance, AllConnected, PTL DEF Spec, IInv

-----------------------------------------------------------------------------
(***************************************************************************)
(* Nothing catches an exception in a worker thread, so one submission      *)
(* whose output cannot be stored takes the jobs of all workers with it.    *)
(* What is lost is bounded all the same: per such submission, a job of     *)
(* every worker.                                                           *)
(***************************************************************************)
Fatal == {n \in lost : popped[n] \in Unprintable}

LossesWithin ==
  /\ IsFiniteSet(lost)
  /\ Cardinality(lost) <= Cardinality(Workers) * Cardinality(Fatal)

(***************************************************************************)
(* Where nothing else kills the pool, a job is lost only when a worker is  *)
(* about to store an output it cannot store.                               *)
(***************************************************************************)
LEMMA LossSteps ==
  ASSUME Calm, "crash" \notin Events, "throw" \notin Events, TypeOK, Connected, [Next]_vars
  PROVE  \/ UNCHANGED lost
         \/ \E w \in Workers : /\ pc[w] = "store" /\ Sub(w) \in Unprintable
                               /\ lost' = lost \cup Held /\ UNCHANGED popped
<1>1. ASSUME NEW s \in Subs, Request(s) PROVE UNCHANGED lost
  BY <1>1, CalmHandler DEF Handles, pool
<1>2. ASSUME NEW w \in Workers, WorkerStep(w) PROVE UNCHANGED lost
  BY <1>2, CalmWorker DEF Works
<1>3. ASSUME NEW w \in Workers, Terminate(w)
      PROVE  /\ pc[w] = "store" /\ Sub(w) \in Unprintable
             /\ lost' = lost \cup Held /\ UNCHANGED popped
  BY <1>3 DEF Terminate, PoolDies, store, Held
<1>4. ~Crash
  BY DEF Crash
<1> QED
  BY <1>1, <1>2, <1>3, <1>4 DEF Next, Restart, Stop, Expire, vars, pool

(***************************************************************************)
(* The workers hold no more jobs than there are workers.                   *)
(***************************************************************************)
LEMMA HeldCount ==
  ASSUME IsFiniteSet(Workers)
  PROVE  IsFiniteSet(Held) /\ Cardinality(Held) <= Cardinality(Workers)
<1> DEFINE busy == {x \in Workers : Busy(x)}
           held == [w \in busy |-> job[w]]
<1>1. held \in Surjection(busy, Held)
  BY DEF Held, Surjection
<1>2. busy \in SUBSET Workers
  OBVIOUS
<1>3. IsFiniteSet(busy) /\ Cardinality(busy) <= Cardinality(Workers)
  BY <1>2, FS_Subset
<1>4. IsFiniteSet(Held) /\ Cardinality(Held) <= Cardinality(busy)
  BY <1>1, <1>3, FS_Surjection
<1> QED
  BY <1>3, <1>4, FS_CardinalityType

(***************************************************************************)
(* A death adds the job that caused it to the fatal ones, and at most one  *)
(* job of every worker to the lost ones.                                   *)
(***************************************************************************)
LEMMA LossCount ==
  ASSUME IInv, IsFiniteSet(Workers), LossesWithin, NEW w \in Workers,
         pc[w] = "store", Sub(w) \in Unprintable, lost' = lost \cup Held, UNCHANGED popped
  PROVE  LossesWithin'
<1> DEFINE size == Cardinality(Workers)
<1>1. /\ IsFiniteSet(Held) /\ Cardinality(Held) \in Nat /\ size \in Nat
      /\ Cardinality(Held) <= size
  BY HeldCount, FS_CardinalityType
<1>2. IsFiniteSet(lost) /\ Cardinality(lost) \in Nat /\ Cardinality(lost \cap Held) \in Nat
  BY FS_CardinalityType, FS_Intersection DEF LossesWithin
<1>3. IsFiniteSet(lost') /\ Cardinality(lost') <= Cardinality(lost) + size
  <2>1. Cardinality(lost') = Cardinality(lost) + Cardinality(Held) - Cardinality(lost \cap Held)
    BY <1>1, <1>2, FS_Union
  <2> QED
    BY <1>1, <1>2, <2>1, FS_Union
<1>4. job[w] \in Held /\ job[w] \notin lost /\ popped[job[w]] \in Unprintable
  BY DEF IInv, JobInHand, Processing, Held, JobsConserved, Sub
<1>5. Fatal \cup {job[w]} \in SUBSET Fatal'
  BY <1>4 DEF Fatal
<1>6. IsFiniteSet(Fatal) /\ IsFiniteSet(Fatal')
  <2>1. Fatal \in SUBSET lost /\ Fatal' \in SUBSET lost'
    BY DEF Fatal
  <2> QED
    BY <1>2, <1>3, <2>1, FS_Subset
<1>7. Cardinality(Fatal \cup {job[w]}) = Cardinality(Fatal) + 1
  BY <1>4, <1>6, FS_AddElement DEF Fatal
<1>8. Cardinality(Fatal) \in Nat /\ Cardinality(Fatal') \in Nat
  BY <1>6, FS_CardinalityType
<1>9. Cardinality(Fatal) + 1 <= Cardinality(Fatal')
  BY <1>5, <1>6, <1>7, FS_Subset
<1>10. \A c, m, f, g \in Nat : c <= m * f /\ f + 1 <= g => c + m <= m * g
  <2> SUFFICES ASSUME NEW c \in Nat, NEW m \in Nat, NEW f \in Nat, NEW g \in Nat,
                      c <= m * f, f + 1 <= g
               PROVE  c + m <= m * g
    OBVIOUS
  <2>1. PICK d \in Nat : g = f + 1 + d
    <3>1. g - (f + 1) \in Nat /\ g = f + 1 + (g - (f + 1))
      OBVIOUS
    <3> QED
      BY <3>1
  <2>2. m * g = m * f + m + m * d
    BY <2>1
  <2>3. m * d \in Nat /\ m * f \in Nat
    OBVIOUS
  <2> QED
    BY <2>2, <2>3
<1>11. Cardinality(lost) + size <= size * Cardinality(Fatal')
  BY <1>1, <1>2, <1>8, <1>9, <1>10 DEF LossesWithin
<1>12. Cardinality(lost') \in Nat /\ size * Cardinality(Fatal') \in Nat
  BY <1>1, <1>3, <1>8, FS_CardinalityType
<1>13. Cardinality(lost') <= size * Cardinality(Fatal')
  BY <1>1, <1>2, <1>3, <1>11, <1>12
<1> QED
  BY <1>3, <1>13 DEF LossesWithin

(***************************************************************************)
(* A submission with unprintable output takes at most as many jobs with it *)
(* as there are workers, its own included.                                 *)
(***************************************************************************)
THEOREM DamageIsBounded ==
  ASSUME Calm, "crash" \notin Events, "throw" \notin Events, IsFiniteSet(Workers)
  PROVE  Spec => []LossesWithin
<1>1. Init => LossesWithin
  <2> SUFFICES ASSUME Init PROVE LossesWithin
    OBVIOUS
  <2>1. lost = {} /\ Fatal = {}
    BY DEF Init, Fatal
  <2>2. IsFiniteSet(lost) /\ Cardinality(lost) = 0 /\ Cardinality(Fatal) = 0
    BY <2>1, FS_EmptySet
  <2>3. Cardinality(Workers) * 0 = 0
    BY FS_CardinalityType
  <2> QED
    BY <2>2, <2>3 DEF LossesWithin
<1>2. ASSUME IInv, Connected, LossesWithin, [Next]_vars PROVE LossesWithin'
  <2>1. CASE UNCHANGED lost
    <3>1. \A n \in lost : popped'[n] = popped[n]
      BY <1>2, JobsStay DEF IInv, JobsConserved
    <3>2. Fatal' = Fatal
      BY <2>1, <3>1 DEF Fatal
    <3> QED
      BY <1>2, <2>1, <3>2 DEF LossesWithin
  <2>2. ASSUME NEW w \in Workers, pc[w] = "store", Sub(w) \in Unprintable,
               lost' = lost \cup Held, UNCHANGED popped
        PROVE  LossesWithin'
    BY <1>2, <2>2, LossCount
  <2> QED
    BY <1>2, <2>1, <2>2, LossSteps DEF IInv
<1> QED
  BY <1>1, <1>2, Invariance, AllConnected, PTL DEF Spec

(***************************************************************************)
(* With one worker a failure is contained: it is the sharing of a process  *)
(* by several workers that spreads it.                                     *)
(***************************************************************************)
THEOREM AloneIsContained ==
  ASSUME Calm, "crash" \notin Events, "throw" \notin Events,
         \A w, x \in Workers : w = x
  PROVE  Spec => []FailureIsContained
<1>1. Init => FailureIsContained
  BY DEF Init, FailureIsContained
<1>2. ASSUME IInv, Connected, FailureIsContained, [Next]_vars PROVE FailureIsContained'
  <2>1. CASE UNCHANGED lost
    BY <1>2, <2>1, JobsStay DEF IInv, JobsConserved, FailureIsContained
  <2>2. ASSUME NEW w \in Workers, pc[w] = "store", Sub(w) \in Unprintable,
               lost' = lost \cup Held, UNCHANGED popped
        PROVE  FailureIsContained'
    <3>1. Held \subseteq {job[w]}
      BY DEF Held
    <3> QED
      BY <1>2, <2>2, <3>1 DEF FailureIsContained, Sub
  <2> QED
    BY <1>2, <2>1, <2>2, LossSteps DEF IInv
<1> QED
  BY <1>1, <1>2, Invariance, AllConnected, PTL DEF Spec

-----------------------------------------------------------------------------
(***************************************************************************)
(* The verdict of a submission.  Connections may be cut here: a command    *)
(* without a reply may have run or not, but none is issued again.          *)
(*                                                                         *)
(* What a request does to the statuses, and shows of the verdicts.         *)
(***************************************************************************)
HandlerSays(s) ==
  /\ \A w \in Workers : pc'[w] = pc[w]
  /\ UNCHANGED <<job, verdict, result, popped>>
  /\ UNCHANGED status \/ SetStatus(s, "PENDING")
  /\ \A x \in Subs : seen'[x] \in Final => seen'[x] \in {seen[x], result[x], status[x]}

(***************************************************************************)
(* And what a worker does to a verdict: prepare one, store it, publish it. *)
(***************************************************************************)
Prepares(w) ==
  /\ pc[w] # "publish" /\ pc'[w] # "publish"
  /\ UNCHANGED result
  /\ UNCHANGED status \/ \E v \in InProgress : SetStatus(Sub(w), v)
  /\ job'[w] = job[w] \/ (BRPop /\ job'[w] = Len(popped'))

Saves(w) ==
  /\ pc[w] = "store" /\ pc'[w] = "publish"
  /\ UNCHANGED <<status, popped, job, verdict>>
  /\ UNCHANGED result \/ SetResult(Sub(w), verdict[w])

Reports(w) ==
  /\ pc[w] = "publish" /\ pc'[w] = "check" /\ job'[w] = 0
  /\ UNCHANGED <<result, popped>>
  /\ UNCHANGED status \/ SetStatus(Sub(w), verdict[w])

WorkerSays(w) ==
  /\ UNCHANGED seen
  /\ \A x \in Workers \ {w} :
       pc'[x] = pc[x] /\ job'[x] = job[x] /\ verdict'[x] = verdict[x]
  /\ Prepares(w) \/ Saves(w) \/ Reports(w)

(***************************************************************************)
(* Every step of a request is such a step.                                 *)
(***************************************************************************)
LEMMA RequestSays ==
  ASSUME "io" \notin Events, TypeOK, NEW s \in Subs, Request(s)
  PROVE  HandlerSays(s)
<1>1. s \in Actors /\ s \notin Workers
  BY ActorsAssumption DEF Actors
<1>2. UNCHANGED <<job, verdict>>
  BY DEF Request, Authorize, Enqueue, MarkPending, Record, Trim, GetResult, GetStatus, pool
<1>3. \A w \in Workers : pc'[w] = pc[w]
  <2>1. pc' = pc \/ \E step : Goto(s, step)
    BY DEF Request, Authorize, Enqueue, MarkPending, Record, Trim, GetResult, GetStatus,
           Command
  <2> QED
    BY <1>1, <2>1, GotoMoves DEF Actors
<1>4. /\ UNCHANGED <<result, popped>>
      /\ UNCHANGED status \/ SetStatus(s, "PENDING")
  BY DEF Request, Authorize, Enqueue, MarkPending, Record, Trim, GetResult, GetStatus,
         Command, NoEffect, store, LPushJob, SetStatus, LPushHistory, LTrimHistory
<1>5. ASSUME NEW x \in Subs, seen'[x] \in Final
      PROVE  seen'[x] \in {seen[x], result[x], status[x]}
  <2>1. \A v \in NotFound(s) : v \notin Final
    BY DEF NotFound, Absent, Final
  <2>2. \/ seen' = seen
        \/ \E v : seen' = [seen EXCEPT ![s] = v]
                  /\ (v \in Final => v = result[s] \/ v = status[s])
    BY <2>1 DEF Request, Authorize, Enqueue, MarkPending, Record, Trim, GetResult, GetStatus
  <2> QED
    BY <1>5, <2>2 DEF TypeOK, ProcessTypeOK
<1> QED
  BY <1>2, <1>3, <1>4, <1>5 DEF HandlerSays

(***************************************************************************)
(* And every step of a worker.                                             *)
(***************************************************************************)
LEMMA WorkSays ==
  ASSUME "io" \notin Events, TypeOK, NEW w \in Workers, WorkerStep(w)
  PROVE  WorkerSays(w)
<1>1. w \in Actors /\ Workers \subseteq Actors
  BY DEF Actors
<1>2. UNCHANGED seen
  BY DEF WorkerStep, Connect, GiveUp, CheckRunning, Dequeue, MarkCompiling, MarkRunning,
         Evaluate, StoreResult, Publish
<1>3. CASE Connect(w) \/ GiveUp(w) \/ CheckRunning(w)
  BY <1>1, <1>2, <1>3, GotoMoves
     DEF Connect, GiveUp, CheckRunning, store, pool, WorkerSays, Prepares
<1>4. CASE Dequeue(w)
  <2>1. /\ NoEffect \/ BRPop
        /\ pc'[w] \in {"check", "compiling"}
        /\ \A x \in Actors \ {w} : pc'[x] = pc[x]
    BY <1>1, <1>4, GotoMoves DEF Dequeue, Command, Retried
  <2>2. pc'[w] = "compiling" => BRPop
    BY <1>1, <1>4, GotoMoves DEF Dequeue, Command, Retried
  <2>3. /\ pc[w] = "pop" /\ UNCHANGED verdict
        /\ job' = IF pc'[w] = "compiling" THEN [job EXCEPT ![w] = Len(popped')] ELSE job
    BY <1>4 DEF Dequeue
  <2>4. /\ job'[w] = job[w] \/ (BRPop /\ job'[w] = Len(popped'))
        /\ \A x \in Workers \ {w} : job'[x] = job[x]
    BY <2>2, <2>3 DEF TypeOK, ProcessTypeOK
  <2>5. UNCHANGED <<status, result>>
    BY <2>1 DEF NoEffect, store, BRPop
  <2> QED
    BY <1>1, <1>2, <2>1, <2>3, <2>4, <2>5 DEF WorkerSays, Prepares
<1>5. CASE MarkCompiling(w) \/ MarkRunning(w)
  <2>1. /\ pc[w] \in {"compiling", "run"} /\ UNCHANGED <<job, verdict>>
        /\ \A x \in Actors \ {w} : pc'[x] = pc[x]
        /\ pc'[w] \in {"run", "evaluate"}
    BY <1>1, <1>5, GotoMoves DEF MarkCompiling, MarkRunning, Command, Retried, pool
  <2>2. UNCHANGED result /\ (UNCHANGED status \/ \E v \in InProgress : SetStatus(Sub(w), v))
    BY <1>5 DEF MarkCompiling, MarkRunning, Command, NoEffect, store, SetStatus, InProgress
  <2> QED
    BY <1>1, <1>2, <2>1, <2>2 DEF WorkerSays, Prepares
<1>6. CASE Evaluate(w)
  <2>1. /\ pc[w] = "evaluate" /\ pc'[w] = "store"
        /\ \A x \in Actors \ {w} : pc'[x] = pc[x]
        /\ UNCHANGED <<job, status, result>>
        /\ \A x \in Workers \ {w} : verdict'[x] = verdict[x]
    BY <1>1, <1>6, GotoMoves DEF Evaluate, store, TypeOK, ProcessTypeOK
  <2> QED
    BY <1>1, <1>2, <2>1 DEF WorkerSays, Prepares
<1>7. CASE StoreResult(w)
  <2>1. /\ pc[w] = "store" /\ pc'[w] = "publish" /\ UNCHANGED <<job, verdict>>
        /\ \A x \in Actors \ {w} : pc'[x] = pc[x]
    BY <1>1, <1>7, GotoMoves DEF StoreResult, Command, Retried, pool
  <2>2. UNCHANGED <<status, popped>> /\ (UNCHANGED result \/ SetResult(Sub(w), verdict[w]))
    BY <1>7 DEF StoreResult, Command, NoEffect, store, SetResult
  <2> QED
    BY <1>1, <1>2, <2>1, <2>2 DEF WorkerSays, Saves
<1>8. CASE Publish(w)
  <2>1. /\ pc[w] = "publish" /\ pc'[w] = "check"
        /\ \A x \in Actors \ {w} : pc'[x] = pc[x]
    BY <1>1, <1>8, GotoMoves DEF Publish, Command, Retried
  <2>2. /\ job' = [job EXCEPT ![w] = 0]
        /\ verdict' = [verdict EXCEPT ![w] = "PENDING"]
    BY <1>8, <2>1 DEF Publish
  <2>3. UNCHANGED <<result, popped>> /\ (UNCHANGED status \/ SetStatus(Sub(w), verdict[w]))
    BY <1>8 DEF Publish, Command, NoEffect, store, SetStatus
  <2> QED
    BY <1>1, <1>2, <2>1, <2>2, <2>3 DEF WorkerSays, Reports, TypeOK, ProcessTypeOK
<1> QED
  BY <1>3, <1>4, <1>5, <1>6, <1>7, <1>8 DEF WorkerStep

-----------------------------------------------------------------------------
(***************************************************************************)
(* Who says a final verdict about a submission: its keys, its client, and  *)
(* a worker that is about to publish it.  It takes an evaluation.          *)
(***************************************************************************)
Says(s, v) ==
  /\ v \in Final
  /\ \/ v = result[s] \/ v = status[s] \/ v = seen[s]
     \/ \E w \in Workers : pc[w] = "publish" /\ Sub(w) = s /\ verdict[w] = v

Evaluated(s) ==
  \E n \in 1 .. Len(popped) :
    popped[n] = s /\ \A w \in Workers : job[w] = n => pc[w] = "publish"

Settled ==
  \A s \in Subs : \A v : Says(s, v) =>
    Evaluated(s) /\ \A u : Says(s, u) => u = v

(***************************************************************************)
(* Who publishes a job goes on to publish it, or lets go of it; nobody     *)
(* takes up an old one.                                                    *)
(***************************************************************************)
LEMMA EvaluatedStays ==
  ASSUME "io" \notin Events, IInv, [Next]_vars, NEW s \in Subs, Evaluated(s)
  PROVE  Evaluated(s)'
<1> USE DEF IInv
<1>1. PICK n \in 1 .. Len(popped) :
        popped[n] = s /\ \A w \in Workers : job[w] = n => pc[w] = "publish"
  BY DEF Evaluated
<1>2. n \in 1 .. Len(popped') /\ popped'[n] = s
  BY <1>1, JobsStay
<1>3. SUFFICES ASSUME NEW x \in Workers, job'[x] = n PROVE pc'[x] = "publish"
  BY <1>2 DEF Evaluated
<1>4. Len(popped) \in Nat /\ n # 0 /\ x \in Actors
  BY JobsStay DEF Actors
<1>5. CASE job[x] = n /\ pc'[x] = pc[x]
  BY <1>1, <1>5
<1>6. ASSUME NEW r \in Subs, Request(r) PROVE pc'[x] = "publish"
  BY <1>3, <1>5, <1>6, RequestSays DEF HandlerSays
<1>7. ASSUME NEW w \in Workers, WorkerStep(w) PROVE pc'[x] = "publish"
  <2>1. WorkerSays(w)
    BY <1>7, WorkSays
  <2>2. CASE x # w
    BY <1>3, <1>5, <2>1, <2>2 DEF WorkerSays
  <2>3. CASE x = w /\ Prepares(w)
    <3>1. CASE job'[x] = job[x]
      BY <1>1, <1>3, <2>3, <3>1 DEF Prepares
    <3>2. CASE BRPop /\ job'[x] = Len(popped')
      <4>1. Len(popped') = Len(popped) + 1
        BY <3>2, BRPopLength DEF TypeOK
      <4> QED
        BY <1>3, <1>4, <3>2, <4>1
    <3> QED
      BY <2>3, <3>1, <3>2 DEF Prepares
  <2>4. CASE x = w /\ Saves(w)
    BY <2>4 DEF Saves
  <2>5. CASE x = w /\ Reports(w)
    BY <1>3, <1>4, <2>5 DEF Reports
  <2> QED
    BY <2>1, <2>2, <2>3, <2>4, <2>5 DEF WorkerSays
<1>8. CASE PoolDies
  BY <1>3, <1>4, <1>8 DEF PoolDies
<1>9. CASE Restart
  <2>1. pc[x] \in {"down", "exited"} /\ job'[x] = job[x]
    BY <1>9 DEF Restart
  <2> QED
    BY <1>1, <1>3, <2>1
<1>10. CASE Stop \/ UNCHANGED vars \/ \E r \in Subs : Expire(r)
  <2>1. UNCHANGED <<job, pc>>
    BY <1>10 DEF Stop, Expire, vars, pool
  <2> QED
    BY <1>3, <1>5, <2>1
<1> QED
  BY <1>6, <1>7, <1>8, <1>9, <1>10 DEF Next, Terminate, Crash

(***************************************************************************)
(* SET changes the status of its submission.                               *)
(***************************************************************************)
LEMMA StatusSteps ==
  ASSUME TypeOK, NEW x, NEW u, SetStatus(x, u), NEW s \in Subs
  PROVE  status'[s] = status[s] \/ (status'[s] = u /\ s = x)
  BY DEF SetStatus, TypeOK, StoreTypeOK

(***************************************************************************)
(* Only StoreResult says something new about a submission.                 *)
(***************************************************************************)
LEMMA SaysSteps ==
  ASSUME "io" \notin Events, IInv, [Next]_vars, NEW s \in Subs, NEW v, Says(s, v)'
  PROVE  \/ Says(s, v)
         \/ \E w \in Workers : WorkerSays(w) /\ Saves(w) /\ Sub(w) = s /\ verdict[w] = v
<1> USE DEF IInv
<1>1. v \in Final /\ v # Absent /\ v \notin InProgress
  BY DEF Says, Final, Absent, InProgress
<1>2. \A x \in Workers : pc[x] = "publish" => popped'[job[x]] = Sub(x)
  BY JobsStay, SubOfJob DEF JobInHand, Processing, Sub
<1>3. ASSUME NEW r \in Subs, Request(r) PROVE Says(s, v)
  <2>1. HandlerSays(r)
    BY <1>3, RequestSays
  <2>2. \A x \in Workers : pc'[x] = "publish" => pc[x] = "publish" /\ Sub(x)' = Sub(x)
    BY <1>2, <2>1 DEF HandlerSays, Sub
  <2>3. v = status'[s] => v = status[s]
    BY <1>1, <2>1, StatusSteps DEF HandlerSays, InProgress
  <2>4. v = seen'[s] => v = seen[s] \/ v = result[s] \/ v = status[s]
    BY <1>1, <2>1 DEF HandlerSays
  <2> QED
    BY <2>1, <2>2, <2>3, <2>4 DEF HandlerSays, Says
<1>4. ASSUME NEW w \in Workers, WorkerStep(w), ~Says(s, v)
      PROVE  WorkerSays(w) /\ Saves(w) /\ Sub(w) = s /\ verdict[w] = v
  <2>1. WorkerSays(w)
    BY <1>4, WorkSays
  <2>2. \A x \in Workers \ {w} : pc'[x] = "publish" => pc[x] = "publish" /\ Sub(x)' = Sub(x)
    BY <1>2, <2>1 DEF WorkerSays, Sub
  <2>3. CASE Saves(w)
    <3>1. /\ result' = result \/ result' = [result EXCEPT ![Sub(w)] = verdict[w]]
          /\ UNCHANGED <<status, popped, job, verdict, seen>>
      BY <2>1, <2>3 DEF Saves, SetResult, WorkerSays
    <3>2. Sub(w)' = Sub(w)
      BY <3>1 DEF Sub
    <3> QED
      BY <1>4, <2>1, <2>2, <2>3, <3>1, <3>2 DEF Says, WorkerSays, TypeOK, StoreTypeOK
  <2>4. CASE Prepares(w)
    <3>1. v = status'[s] => v = status[s]
      BY <1>1, <2>4, StatusSteps DEF Prepares
    <3>2. UNCHANGED <<result, seen>> /\ pc'[w] # "publish"
      BY <2>1, <2>4 DEF Prepares, WorkerSays
    <3> QED
      BY <1>4, <2>1, <2>2, <3>1, <3>2 DEF Says, WorkerSays
  <2>5. CASE Reports(w)
    <3>1. v = status'[s] => v = status[s] \/ (v = verdict[w] /\ s = Sub(w))
      BY <2>5, StatusSteps DEF Reports
    <3>2. UNCHANGED <<result, seen>> /\ pc[w] = "publish" /\ pc'[w] # "publish"
      BY <2>1, <2>5 DEF Reports, WorkerSays
    <3> QED
      BY <1>1, <1>4, <2>1, <2>2, <3>1, <3>2 DEF Says, WorkerSays
  <2> QED
    BY <2>1, <2>3, <2>4, <2>5 DEF WorkerSays
<1>5. CASE PoolDies
  BY <1>5 DEF PoolDies, store, Says, Actors
<1>6. CASE Restart
  BY <1>6 DEF Restart, store, Says, Actors
<1>7. CASE Stop \/ UNCHANGED vars
  BY <1>7 DEF Stop, vars, store, pool, Says, Sub
<1>8. ASSUME NEW r \in Subs, Expire(r) PROVE Says(s, v)
  <2>1. /\ UNCHANGED <<pc, seen, job, verdict, popped>>
        /\ v = result'[s] => v = result[s]
        /\ v = status'[s] => v = status[s]
    BY <1>1, <1>8 DEF Expire, pool, TypeOK, StoreTypeOK
  <2> QED
    BY <2>1 DEF Says, Sub
<1> QED
  BY <1>3, <1>4, <1>5, <1>6, <1>7, <1>8 DEF Next, Terminate, Crash

(***************************************************************************)
(* No submission is evaluated again: a verdict is stored when there is     *)
(* none, and by the one worker that ever has the submission.               *)
(***************************************************************************)
LEMMA StoresFirst ==
  ASSUME IInv, QueuedOnce, Settled, NEW w \in Workers, pc[w] = "store"
  PROVE  \A v : ~Says(Sub(w), v)
<1> USE DEF IInv
<1>1. Busy(w)
  BY DEF JobInHand, Processing
<1>2. job[w] \in 1 .. Len(popped) /\ Sub(w) \in Subs
  BY <1>1, SubOfJob
<1>3. SUFFICES ASSUME Evaluated(Sub(w)) PROVE FALSE
  BY <1>2 DEF Settled
<1>4. PICK n \in 1 .. Len(popped) :
        popped[n] = Sub(w) /\ \A x \in Workers : job[x] = n => pc[x] = "publish"
  BY <1>3 DEF Evaluated
<1>5. /\ Len(popped) \in Nat /\ Len(pushed) \in Nat /\ Len(queue) \in Nat
      /\ DOMAIN pushed = 1 .. Len(pushed)
  BY LenProperties DEF TypeOK, StoreTypeOK
<1>6. job[w] \in DOMAIN pushed /\ n \in DOMAIN pushed /\ pushed[job[w]] = pushed[n]
  BY <1>2, <1>4, <1>5 DEF RoutedInOrder, Sub
<1>7. job[w] = n
  BY <1>6 DEF QueuedOnce
<1> QED
  BY <1>1, <1>4, <1>7

(***************************************************************************)
(* So all who say a verdict about a submission say the same.               *)
(***************************************************************************)
LEMMA SettledStep ==
  ASSUME "io" \notin Events, IInv, QueuedOnce, Settled, [Next]_vars
  PROVE  Settled'
<1> USE DEF IInv
<1>1. SUFFICES ASSUME NEW s \in Subs, NEW v, Says(s, v)'
               PROVE  Evaluated(s)' /\ \A u : Says(s, u)' => u = v
  BY DEF Settled
<1> DEFINE Verdicted(w) == WorkerSays(w) /\ Saves(w) /\ Sub(w) = s
<1>2. CASE \E w \in Workers : Verdicted(w)
  <2>1. PICK w \in Workers : Verdicted(w)
    BY <1>2
  <2>2. \A u : Says(s, u)' => \E x \in Workers : Verdicted(x) /\ verdict[x] = u
    <3>1. \A u : ~Says(s, u)
      BY <2>1, StoresFirst DEF Saves
    <3> QED
      BY <3>1, SaysSteps
  <2>3. \A x \in Workers : Saves(x) => x = w
    <3> SUFFICES ASSUME NEW x \in Workers, Saves(x), x # w PROVE FALSE
      OBVIOUS
    <3>1. pc'[x] = "publish" /\ pc[x] = "store" /\ pc'[x] = pc[x]
      BY <2>1 DEF WorkerSays, Saves
    <3> QED
      BY <3>1
  <2>4. Busy(w) /\ UNCHANGED <<job, popped>> /\ pc'[w] = "publish"
    BY <2>1 DEF Saves, JobInHand, Processing
  <2>5. job[w] \in 1 .. Len(popped) /\ popped[job[w]] = s
    BY <2>1, <2>4, SubOfJob DEF Sub
  <2>6. \A x \in Workers : job'[x] = job[w] => pc'[x] = "publish"
    BY <2>4 DEF JobsConserved, Busy
  <2>7. Evaluated(s)'
    BY <2>4, <2>5, <2>6 DEF Evaluated
  <2> QED
    BY <1>1, <2>2, <2>3, <2>7
<1>3. CASE ~\E w \in Workers : Verdicted(w)
  <2>1. \A u : Says(s, u)' => Says(s, u)
    BY <1>3, SaysSteps
  <2> QED
    BY <1>1, <2>1, EvaluatedStays DEF Settled
<1> QED
  BY <1>2, <1>3

(***************************************************************************)
(* In every state.                                                         *)
(***************************************************************************)
LEMMA AllSettled ==
  ASSUME "io" \notin Events
  PROVE  Spec => []Settled
<1>1. Init => Settled
  <2> SUFFICES ASSUME Init, NEW s \in Subs, NEW v PROVE ~Says(s, v)
    BY DEF Settled
  <2> QED
    BY ActorsAssumption DEF Init, Says, Absent, Final, Actors
<1>2. IInv /\ QueuedOnce /\ Settled /\ [Next]_vars => Settled'
  BY SettledStep
<1> QED
  BY <1>1, <1>2, Invariance, Once, PTL DEF Spec

(***************************************************************************)
(* A client is shown what somebody says.                                   *)
(***************************************************************************)
LEMMA SeenSteps ==
  ASSUME "io" \notin Events, TypeOK, [Next]_vars, NEW s \in Subs, seen'[s] \in Final
  PROVE  Says(s, seen'[s])
<1>1. ASSUME NEW r \in Subs, Request(r) PROVE Says(s, seen'[s])
  BY <1>1, RequestSays DEF HandlerSays, Says
<1>2. ASSUME NEW w \in Workers, WorkerStep(w) PROVE Says(s, seen'[s])
  BY <1>2, WorkSays DEF WorkerSays, Says
<1>3. ASSUME UNCHANGED seen PROVE Says(s, seen'[s])
  BY <1>3 DEF Says
<1> QED
  BY <1>1, <1>2, <1>3 DEF Next, Terminate, Crash, PoolDies, Restart, Stop, Expire, vars

(***************************************************************************)
(* No client is shown two verdicts of one submission, also when keys       *)
(* expire, the pool dies between storing and publishing, and connections   *)
(* are cut, so that any of the writes may be missing or unacknowledged.    *)
(***************************************************************************)
THEOREM Unanimous ==
  ASSUME "io" \notin Events
  PROVE  Spec => OneVerdict
<1>1. ASSUME IInv, Settled, [Next]_vars,
             NEW s \in Subs, seen[s] \in Final, seen'[s] \in Final
      PROVE  seen'[s] = seen[s]
  <2>1. Says(s, seen'[s])
    BY <1>1, SeenSteps DEF IInv
  <2>2. Says(s, seen[s])
    BY <1>1 DEF Says
  <2> QED
    BY <2>1, <2>2, <1>1 DEF Settled
<1>2. IInv /\ Settled /\ [Next]_vars =>
        [\A s \in Subs : seen[s] \in Final /\ seen'[s] \in Final => seen'[s] = seen[s]]_seen
  BY <1>1
<1> QED
  BY <1>2, Invariance, AllSettled, PTL DEF Spec, OneVerdict

-----------------------------------------------------------------------------
(***************************************************************************)
(* If no key expires, a result stays, and everybody who goes by it finds   *)
(* it: so does the status of a submission from its first SET on.           *)
(***************************************************************************)
Kept ==
  /\ \A s \in Subs :
       /\ result[s] \in Outcomes \cup {Absent}
       /\ status[s] \in Final => result[s] # Absent
       /\ seen[s] \in Final => pc[s] = "accepted" /\ result[s] # Absent
       /\ pc[s] \in {"record", "trim", "accepted", "getStatus"} => status[s] # Absent
  /\ \A w \in Workers :
       /\ pc[w] \in {"run", "evaluate", "store", "publish"} => status[Sub(w)] # Absent
       /\ pc[w] \in {"store", "publish"} => verdict[w] \in Outcomes
       /\ pc[w] = "publish" => result[Sub(w)] # Absent

(***************************************************************************)
(* A handler writes PENDING, and shows a result that is there.             *)
(***************************************************************************)
LEMMA HandlerKeeps ==
  ASSUME Calm, IInv, Connected, Kept, NEW r \in Subs, Handles(r)
  PROVE  Kept'
<1> USE DEF IInv
<1>1. UNCHANGED <<job, verdict, result, popped>>
  BY DEF Handles, Answers202, LPushJob, SetStatus, LPushHistory, LTrimHistory, store, pool
<1>2. \A w \in Workers : pc'[w] = pc[w] /\ Sub(w)' = Sub(w)
  BY <1>1, ActorsAssumption DEF Handles, Actors, Sub
<1>3. \A s \in Subs \ {r} : pc'[s] = pc[s] /\ seen'[s] = seen[s]
  BY DEF Handles, Actors, AnswersPoll, Shows, TypeOK, ProcessTypeOK
<1>4. \A s \in Subs :
        \/ status'[s] = status[s] /\ (s = r => pc[r] # "pending")
        \/ status'[s] = status[s] /\ s # r
        \/ status'[s] = "PENDING" /\ s = r
  BY DEF Handles, Answers202, LPushJob, SetStatus, LPushHistory, LTrimHistory, store,
         AnswersPoll, TypeOK, StoreTypeOK
<1>5. "PENDING" \notin Final /\ "PENDING" # Absent
  BY DEF Final, Absent
<1>6. \A w \in Workers : Busy(w) => Sub(w) \in Subs
  BY SubOfJob
<1>7. ASSUME NEW s \in Subs
      PROVE  /\ result'[s] \in Outcomes \cup {Absent}
             /\ status'[s] \in Final => result'[s] # Absent
             /\ seen'[s] \in Final => pc'[s] = "accepted" /\ result'[s] # Absent
             /\ pc'[s] \in {"record", "trim", "accepted", "getStatus"} => status'[s] # Absent
  <2>1. result'[s] \in Outcomes \cup {Absent} /\ (status'[s] \in Final => result'[s] # Absent)
    BY <1>1, <1>4, <1>5 DEF Kept
  <2>2. pc'[s] \in {"record", "trim", "accepted", "getStatus"} => status'[s] # Absent
    <3>1. CASE s # r
      BY <1>3, <1>4, <1>5, <3>1 DEF Kept
    <3>2. CASE s = r
      BY <1>4, <1>5, <3>2 DEF Kept, Handles, Answers202, AnswersPoll
    <3> QED
      BY <3>1, <3>2
  <2>3. seen'[s] \in Final => pc'[s] = "accepted" /\ result'[s] # Absent
    <3>1. CASE s # r
      BY <1>1, <1>3, <3>1 DEF Kept
    <3>2. CASE s = r /\ Answers202(r) /\ UNCHANGED seen
      <4>1. pc[s] # "accepted"
        BY <3>2 DEF Answers202
      <4> QED
        BY <3>2, <4>1 DEF Kept
    <3>3. CASE s = r /\ AnswersPoll(r)
      <4>1. \A v : Shows(r, v) => seen'[r] = v
        BY DEF Shows, TypeOK, ProcessTypeOK
      <4> QED
        BY <1>1, <3>3, <4>1 DEF AnswersPoll, Kept
    <3> QED
      BY <3>1, <3>2, <3>3 DEF Handles
  <2> QED
    BY <2>1, <2>2, <2>3
<1>8. ASSUME NEW w \in Workers
      PROVE  /\ pc'[w] \in {"run", "evaluate", "store", "publish"} => status'[Sub(w)'] # Absent
             /\ pc'[w] \in {"store", "publish"} => verdict'[w] \in Outcomes
             /\ pc'[w] = "publish" => result'[Sub(w)'] # Absent
  BY <1>1, <1>2, <1>4, <1>5, <1>6 DEF Kept, JobInHand, Processing
<1> QED
  BY <1>7, <1>8 DEF Kept

(***************************************************************************)
(* A worker writes the status of its submission before it evaluates, and   *)
(* the result before it publishes the verdict.                             *)
(***************************************************************************)
LEMMA WorkerKeeps ==
  ASSUME Calm, IInv, Connected, Kept, [Next]_vars, NEW w \in Workers, Works(w)
  PROVE  Kept'
<1> USE DEF IInv
<1>1. UNCHANGED seen /\ \A s \in Subs : pc'[s] = pc[s]
  BY ActorsAssumption DEF Works, Actors
<1>2. \A x \in Workers \ {w} :
        pc'[x] = pc[x] /\ job'[x] = job[x] /\ verdict'[x] = verdict[x]
  BY DEF Works, Takes, Marks, Evaluate, Stores, Publishes, Actors, TypeOK, ProcessTypeOK
<1>3. \A x \in Workers :
        Busy(x) => Sub(x) \in Subs /\ (job'[x] = job[x] => Sub(x)' = Sub(x))
  BY JobsStay, SubOfJob DEF Sub
<1>4. Absent \notin Verdict /\ InProgress \cap Final = {} /\ Absent \notin Outcomes
  BY OutcomesAssumption DEF Absent, Verdict, InProgress, Final
<1>5. /\ status \in [Subs -> Verdict \cup {Absent}]
      /\ result \in [Subs -> Final \cup {Absent}]
      /\ verdict \in [Workers -> Verdict]
  BY DEF TypeOK, StoreTypeOK, ProcessTypeOK
<1>6. \A s \in Subs : /\ status[s] # Absent => status'[s] # Absent
                      /\ result[s] # Absent => result'[s] # Absent
  <2>1. CASE Marks(w) \/ Publishes(w)
    BY <1>4, <1>5, <2>1, StatusSteps DEF Marks, Publishes, SetStatus, InProgress, Verdict
  <2>2. CASE Stores(w)
    <3>1. verdict[w] # Absent
      BY <1>4, <1>5
    <3> QED
      BY <1>5, <2>2, <3>1 DEF Stores, SetResult
  <2>3. CASE UNCHANGED <<status, result>>
    BY <2>3
  <2> QED
    BY <2>1, <2>2, <2>3 DEF Works, Takes, BRPop, Evaluate, store
<1>7. ASSUME NEW s \in Subs
      PROVE  /\ result'[s] \in Outcomes \cup {Absent}
             /\ status'[s] \in Final => result'[s] # Absent
  <2>1. CASE Marks(w)
    <3>1. UNCHANGED result /\ (status'[s] = status[s] \/ status'[s] \in InProgress)
      BY <2>1, StatusSteps DEF Marks, SetStatus, InProgress
    <3> QED
      BY <1>4, <3>1 DEF Kept
  <2>2. CASE Publishes(w)
    <3>1. UNCHANGED result /\ (status'[s] = status[s] \/ s = Sub(w))
      BY <2>2, StatusSteps DEF Publishes, SetStatus
    <3>2. result[Sub(w)] # Absent
      BY <2>2 DEF Publishes, Kept
    <3> QED
      BY <3>1, <3>2 DEF Kept
  <2>3. CASE Stores(w)
    <3>1. verdict[w] \in Outcomes
      BY <2>3 DEF Stores, Kept
    <3>2. UNCHANGED status /\ (result'[s] = result[s] \/ result'[s] = verdict[w])
      BY <1>5, <2>3 DEF Stores, SetResult
    <3> QED
      BY <1>4, <3>1, <3>2 DEF Kept
  <2>4. CASE UNCHANGED <<status, result>>
    BY <2>4 DEF Kept
  <2> QED
    BY <2>1, <2>2, <2>3, <2>4 DEF Works, Takes, BRPop, Evaluate, store
<1>8. ASSUME NEW s \in Subs
      PROVE  /\ seen'[s] \in Final => pc'[s] = "accepted" /\ result'[s] # Absent
             /\ pc'[s] \in {"record", "trim", "accepted", "getStatus"} => status'[s] # Absent
  BY <1>1, <1>6 DEF Kept
<1>9. ASSUME NEW x \in Workers
      PROVE  /\ pc'[x] \in {"run", "evaluate", "store", "publish"} => status'[Sub(x)'] # Absent
             /\ pc'[x] \in {"store", "publish"} => verdict'[x] \in Outcomes
             /\ pc'[x] = "publish" => result'[Sub(x)'] # Absent
  <2>1. CASE x # w
    BY <1>2, <1>3, <1>6, <2>1 DEF Kept, JobInHand, Processing
  <2>2. CASE x = w /\ Marks(w)
    <3>1. Busy(w) /\ pc'[w] \in {"run", "evaluate"} /\ UNCHANGED job
      BY <2>2 DEF Marks, JobInHand, Processing
    <3>2. status'[Sub(w)] \in InProgress
      BY <1>3, <1>5, <2>2, <3>1 DEF Marks, SetStatus, InProgress
    <3>3. Sub(w)' = Sub(w)
      BY <1>3, <3>1
    <3> QED
      BY <1>4, <2>2, <3>1, <3>2, <3>3 DEF Verdict
  <2>3. CASE x = w /\ Evaluate(w)
    <3>1. Busy(w) /\ pc[w] = "evaluate" /\ pc'[w] = "store" /\ UNCHANGED <<job, popped, status>>
      BY <2>3 DEF Evaluate, JobInHand, Processing, Goto, TypeOK, ProcessTypeOK, Actors, store
    <3>2. verdict'[w] \in Outcomes
      BY <1>5, <2>3 DEF Evaluate
    <3>3. Sub(w)' = Sub(w)
      BY <3>1 DEF Sub
    <3> QED
      BY <2>3, <3>1, <3>2, <3>3 DEF Kept
  <2>4. CASE x = w /\ Stores(w)
    <3>1. Busy(w) /\ pc[w] = "store" /\ UNCHANGED <<job, popped, status, verdict>>
      BY <2>4 DEF Stores, SetResult, JobInHand, Processing
    <3>2. Sub(w)' = Sub(w) /\ Sub(w) \in Subs
      BY <1>3, <3>1
    <3>3. verdict[w] \in Outcomes /\ verdict[w] # Absent
      BY <1>4, <3>1 DEF Kept
    <3>4. result'[Sub(w)] = verdict[w]
      BY <1>5, <2>4, <3>2 DEF Stores, SetResult
    <3> QED
      BY <2>4, <3>1, <3>2, <3>3, <3>4 DEF Kept
  <2>5. CASE x = w /\ ~Marks(w) /\ ~Evaluate(w) /\ ~Stores(w)
    <3>1. pc'[w] \in {"check", "pop", "exited", "compiling"}
      BY <2>5 DEF Works, Takes, Publishes
    <3> QED
      BY <2>5, <3>1
  <2> QED
    BY <2>1, <2>2, <2>3, <2>4, <2>5
<1> QED
  BY <1>7, <1>8, <1>9 DEF Kept

(***************************************************************************)
(* And the pool has nothing in hand when it dies or starts.                *)
(***************************************************************************)
LEMMA KeptStep ==
  ASSUME Calm, "expire" \notin Events, IInv, Connected, Kept, [Next]_vars
  PROVE  Kept'
<1> USE DEF IInv
<1>1. ASSUME NEW r \in Subs, Request(r) PROVE Kept'
  BY <1>1, CalmHandler, HandlerKeeps
<1>2. ASSUME NEW w \in Workers, WorkerStep(w) PROVE Kept'
  BY <1>2, CalmWorker, WorkerKeeps
<1>3. ASSUME PoolDies \/ Restart PROVE Kept'
  <2>1. /\ UNCHANGED <<status, result, seen>>
        /\ \A w \in Workers : pc'[w] \in {"down", "connect"}
        /\ \A s \in Subs : pc'[s] = pc[s]
    BY <1>3, ActorsAssumption DEF PoolDies, Restart, store, Actors
  <2> QED
    BY <2>1 DEF Kept
<1>4. ASSUME Stop \/ UNCHANGED vars PROVE Kept'
  <2>1. UNCHANGED <<status, result, seen, pc, job, popped, verdict>>
    BY <1>4 DEF Stop, vars, store, pool
  <2> QED
    BY <2>1 DEF Kept, Sub
<1>5. \A s \in Subs : ~Expire(s)
  BY DEF Expire
<1> QED
  BY <1>1, <1>2, <1>3, <1>4, <1>5 DEF Next, Terminate, Crash

(***************************************************************************)
(* In every state.                                                         *)
(***************************************************************************)
LEMMA AllKept ==
  ASSUME Calm, "expire" \notin Events
  PROVE  Spec => []Kept
<1>1. Init => Kept
  BY ActorsAssumption DEF Init, Kept, Absent, Final, Actors
<1>2. IInv /\ Connected /\ Kept /\ [Next]_vars => Kept'
  BY KeptStep
<1> QED
  BY <1>1, <1>2, Invariance, AllConnected, PTL DEF Spec

(***************************************************************************)
(* A client with a 202 is never told that there is no such submission.     *)
(***************************************************************************)
THEOREM Found ==
  ASSUME Calm, "expire" \notin Events
  PROVE  Spec => []AcceptedIsFound
<1>1. Kept => AcceptedIsFound
  BY DEF Kept, AcceptedIsFound
<1> QED
  BY <1>1, AllKept, PTL

(***************************************************************************)
(* A client that was shown a final verdict is not shown an earlier state   *)
(* afterwards.                                                             *)
(***************************************************************************)
THEOREM LastWord ==
  ASSUME Calm, "expire" \notin Events
  PROVE  Spec => FinalIsFinal
<1>1. ASSUME IInv, Connected, Kept, [Next]_vars, NEW s \in Subs, seen[s] \in Final
      PROVE  seen'[s] \notin InProgress
  <2>1. /\ pc[s] = "accepted" /\ result[s] # Absent /\ result[s] \in Final
        /\ Final \cap InProgress = {}
    BY <1>1 DEF Kept, IInv, TypeOK, StoreTypeOK, Final, InProgress
  <2>2. ASSUME NEW r \in Subs, Request(r) PROVE seen'[s] \in Final
    <3>1. seen'[s] = seen[s] \/ seen'[s] = result[s]
      BY <1>1, <2>1, <2>2, CalmHandler
         DEF Handles, AnswersPoll, Shows, IInv, TypeOK, ProcessTypeOK
    <3> QED
      BY <1>1, <2>1, <3>1
  <2>3. ASSUME NEW w \in Workers, WorkerStep(w) PROVE seen'[s] \in Final
    BY <1>1, <2>3, CalmWorker DEF Works, IInv
  <2>4. CASE UNCHANGED seen
    BY <1>1, <2>1, <2>4
  <2> QED
    BY <1>1, <2>1, <2>2, <2>3, <2>4
       DEF Next, Terminate, Crash, PoolDies, Restart, Stop, Expire, vars
<1>2. IInv /\ Connected /\ Kept /\ [Next]_vars =>
        [\A s \in Subs : seen[s] \in Final => seen'[s] \notin InProgress]_seen
  BY <1>1
<1> QED
  BY <1>2, Invariance, AllConnected, AllKept, PTL DEF Spec, FinalIsFinal

-----------------------------------------------------------------------------
(***************************************************************************)
(* What JudgeService sees of one submission.                               *)
(***************************************************************************)
ViewOf(s) == IF result[s] # Absent THEN result[s]
             ELSE IF status[s] = Absent THEN "unknown"
             ELSE IF status[s] \in InProgress THEN "judging"
             ELSE status[s]

(***************************************************************************)
(* A step that leaves the other submissions alone changes one answer.      *)
(***************************************************************************)
LEMMA ViewSteps ==
  ASSUME NEW s \in Subs,
         \A x \in Subs \ {s} : status'[x] = status[x] /\ result'[x] = result[x]
  PROVE  View' = [View EXCEPT ![s] = ViewOf(s)'] /\ View[s] = ViewOf(s)
  BY DEF View, ViewOf

(***************************************************************************)
(* SET of a status in progress begins to judge a submission; it changes    *)
(* nothing for one that is judged, or whose verdict is stored.             *)
(***************************************************************************)
LEMMA MarkingBegins ==
  ASSUME TypeOK, Kept, NEW s \in Subs, NEW v \in InProgress, SetStatus(s, v)
  PROVE  [Judge!Next]_View
<1>1. /\ \A x \in Subs \ {s} : status'[x] = status[x]
      /\ status'[s] = v /\ v # Absent /\ UNCHANGED result
  BY DEF SetStatus, TypeOK, StoreTypeOK, InProgress, Absent
<1>2. View' = [View EXCEPT ![s] = ViewOf(s)'] /\ View[s] = ViewOf(s)
  BY <1>1, ViewSteps
<1>3. status[s] \in InProgress \/ status[s] = Absent \/ result[s] # Absent
  BY DEF Kept, TypeOK, StoreTypeOK, Verdict
<1>4. CASE result[s] = Absent /\ status[s] = Absent
  <2>1. View[s] = "unknown" /\ ViewOf(s)' = "judging"
    BY <1>1, <1>2, <1>4 DEF ViewOf
  <2>2. Judge!Begin(s)
    BY <1>2, <2>1 DEF Judge!Begin
  <2> QED
    BY <2>2 DEF Judge!Next
<1>5. CASE result[s] # Absent \/ status[s] \in InProgress
  <2>1. ViewOf(s)' = ViewOf(s)
    BY <1>1, <1>5 DEF ViewOf, InProgress, Absent
  <2>2. View' = View
    BY <1>2, <2>1 DEF View
  <2> QED
    BY <2>2
<1> QED
  BY <1>3, <1>4, <1>5

(***************************************************************************)
(* Storing a result decides a submission that is being judged.             *)
(***************************************************************************)
LEMMA StoringDecides ==
  ASSUME IInv, QueuedOnce, Settled, Kept, NEW w \in Workers, Stores(w)
  PROVE  Judge!Next
<1> USE DEF IInv
<1>1. Busy(w) /\ pc[w] = "store"
  BY DEF Stores, JobInHand, Processing
<1>2. PICK s \in Subs : s = Sub(w)
  BY <1>1, SubOfJob
<1>3. status[s] # Absent /\ verdict[w] \in Outcomes
  BY <1>1, <1>2 DEF Kept
<1>4. result[s] = Absent /\ status[s] \in InProgress
  <2>1. ~Says(s, result[s]) /\ ~Says(s, status[s])
    BY <1>1, <1>2, StoresFirst
  <2>2. result[s] \notin Final /\ status[s] \notin Final
    BY <2>1 DEF Says
  <2> QED
    BY <1>3, <2>2 DEF TypeOK, StoreTypeOK, Verdict
<1>5. verdict[w] # Absent
  BY <1>3, OutcomesAssumption DEF Absent, Final
<1>6. /\ \A x \in Subs \ {s} : status'[x] = status[x] /\ result'[x] = result[x]
      /\ result'[s] = verdict[w]
  BY <1>2 DEF Stores, SetResult, TypeOK, StoreTypeOK
<1>7. View' = [View EXCEPT ![s] = ViewOf(s)'] /\ View[s] = ViewOf(s)
  BY <1>6, ViewSteps
<1>8. View[s] = "judging" /\ ViewOf(s)' = verdict[w]
  BY <1>3, <1>4, <1>5, <1>6, <1>7 DEF ViewOf
<1>9. Judge!Decide(s)
  BY <1>3, <1>7, <1>8 DEF Judge!Decide
<1> QED
  BY <1>9 DEF Judge!Next

(***************************************************************************)
(* Publishing a verdict changes nothing: its result is stored.             *)
(***************************************************************************)
LEMMA PublishingStutters ==
  ASSUME IInv, Kept, NEW w \in Workers, Publishes(w)
  PROVE  View' = View
<1>1. /\ pc[w] = "publish" /\ SetStatus(Sub(w), verdict[w])
  BY DEF Publishes
<1>2. result[Sub(w)] # Absent /\ UNCHANGED result
  BY <1>1 DEF Kept, SetStatus
<1>3. \A x \in Subs : x # Sub(w) => status'[x] = status[x]
  BY <1>1, StatusSteps DEF IInv
<1>4. \A x \in Subs : ViewOf(x)' = ViewOf(x)
  BY <1>2, <1>3 DEF ViewOf
<1>5. View = [x \in Subs |-> ViewOf(x)]
  BY DEF View, ViewOf
<1>6. View' = [x \in Subs |-> ViewOf(x)']
  BY DEF View, ViewOf
<1> QED
  BY <1>4, <1>5, <1>6

(***************************************************************************)
(* Every step of the system is one of the judge's, or none.                *)
(***************************************************************************)
LEMMA JudgeSteps ==
  ASSUME Calm, "expire" \notin Events, IInv, Connected, QueuedOnce, Settled, Kept,
         [Next]_vars
  PROVE  [Judge!Next]_View
<1> USE DEF IInv
<1>1. CASE UNCHANGED <<status, result>>
  BY <1>1 DEF View
<1>2. ASSUME NEW r \in Subs, Request(r) PROVE [Judge!Next]_View
  <2>1. UNCHANGED <<status, result>> \/ SetStatus(r, "PENDING")
    BY <1>2, CalmHandler
       DEF Handles, Answers202, LPushJob, LPushHistory, LTrimHistory, store
  <2> QED
    BY <1>1, <2>1, MarkingBegins DEF InProgress
<1>3. ASSUME NEW w \in Workers, WorkerStep(w) PROVE [Judge!Next]_View
  <2>1. Works(w)
    BY <1>3, CalmWorker
  <2>2. CASE Marks(w)
    <3>1. Sub(w) \in Subs
      BY <2>2, SubOfJob DEF Marks, JobInHand, Processing
    <3> QED
      BY <2>2, <3>1, MarkingBegins DEF Marks, InProgress
  <2>3. CASE Stores(w)
    BY <2>3, StoringDecides
  <2>4. CASE Publishes(w)
    BY <2>4, PublishingStutters
  <2>5. CASE UNCHANGED <<status, result>>
    BY <1>1, <2>5
  <2> QED
    BY <2>1, <2>2, <2>3, <2>4, <2>5 DEF Works, Takes, BRPop, Evaluate, store
<1>4. \A s \in Subs : ~Expire(s)
  BY DEF Expire
<1> QED
  BY <1>1, <1>2, <1>3, <1>4
     DEF Next, Terminate, Crash, PoolDies, Restart, Stop, vars, store

(***************************************************************************)
(* The answers the API can give keep the promise of JudgeService: unknown, *)
(* judging, one verdict for good, for any number of submissions and        *)
(* workers, also when the pool is stopped, dies and starts again.          *)
(***************************************************************************)
THEOREM Promise ==
  ASSUME Calm, "expire" \notin Events
  PROVE  Spec => ImplementsJudge
<1>1. Init => Judge!Init
  BY DEF Init, Judge!Init, View, Absent
<1>2. IInv /\ Connected /\ QueuedOnce /\ Settled /\ Kept /\ [Next]_vars => [Judge!Next]_View
  BY JudgeSteps
<1>3. Spec => []QueuedOnce /\ []Settled
  BY Once, AllSettled DEF Calm
<1> QED
  BY <1>1, <1>2, <1>3, Invariance, AllConnected, AllKept, PTL
     DEF Spec, ImplementsJudge, Judge!Spec

-----------------------------------------------------------------------------
(***************************************************************************)
(* A user's history is too long only by those between LPUSH and LTRIM.     *)
(***************************************************************************)
Between(u) == {s \in Subs : Owner[s] = u /\ pc[s] = "trim"}

HistoryWithin == \A u \in Users : Len(hist[u]) <= HistoryCap + Cardinality(Between(u))

(***************************************************************************)
(* A handler that adds an entry is between the two from then on, and trims *)
(* the list when it leaves.                                                *)
(***************************************************************************)
LEMMA HandlerTrims ==
  ASSUME Calm, TypeOK, IsFiniteSet(Subs), HistoryWithin, NEW r \in Subs, Handles(r)
  PROVE  HistoryWithin'
<1> SUFFICES ASSUME NEW u \in Users
             PROVE  Len(hist'[u]) <= HistoryCap + Cardinality(Between(u)')
  BY DEF HistoryWithin
<1>1. /\ Len(hist[u]) \in Nat /\ Owner[r] \in Users
      /\ hist \in [Users -> Seq(Subs)] /\ HistoryCap \in Nat
  BY LenProperties, OwnerAssumption, HistoryCapAssumption DEF TypeOK, StoreTypeOK
<1>2. \A s \in Subs \ {r} : pc'[s] = pc[s]
  BY DEF Handles, Actors
<1>3. IsFiniteSet(Between(u)) /\ Cardinality(Between(u)) \in Nat
  <2>1. Between(u) \in SUBSET Subs
    BY DEF Between
  <2> QED
    BY <2>1, FS_Subset, FS_CardinalityType
<1>4. Len(hist[u]) <= HistoryCap + Cardinality(Between(u))
  BY DEF HistoryWithin
<1>5. CASE pc[r] = "record" /\ pc'[r] = "trim" /\ LPushHistory(r)
  <2>1. CASE Owner[r] = u
    <3>1. Len(hist'[u]) = Len(hist[u]) + 1
      BY <1>1, <1>5, <2>1, LPushProperties DEF LPushHistory
    <3>2. Between(u)' = Between(u) \cup {r} /\ r \notin Between(u)
      BY <1>2, <1>5, <2>1 DEF Between
    <3>3. Cardinality(Between(u)') = Cardinality(Between(u)) + 1
      BY <1>3, <3>2, FS_AddElement
    <3> QED
      BY <1>1, <1>3, <1>4, <3>1, <3>3
  <2>2. CASE Owner[r] # u
    <3>1. hist'[u] = hist[u] /\ Between(u)' = Between(u)
      BY <1>1, <1>2, <1>5, <2>2 DEF LPushHistory, Between
    <3> QED
      BY <1>4, <3>1
  <2> QED
    BY <2>1, <2>2
<1>6. CASE pc[r] = "trim" /\ pc'[r] = "accepted" /\ LTrimHistory(r)
  <2>1. CASE Owner[r] = u
    <3>1. hist'[u] = LTrim(hist[u], HistoryCap)
      BY <1>1, <1>6, <2>1 DEF LTrimHistory
    <3>2. Len(hist'[u]) <= HistoryCap /\ Len(hist'[u]) \in Nat
      BY <1>1, <3>1, PrefixProperties DEF LTrim
    <3>3. Between(u)' = Between(u) \ {r}
      BY <1>2, <1>6, <2>1 DEF Between
    <3>4. Cardinality(Between(u)') \in Nat
      BY <1>3, <3>3, FS_RemoveElement, FS_CardinalityType
    <3> QED
      BY <1>1, <3>2, <3>4
  <2>2. CASE Owner[r] # u
    <3>1. hist'[u] = hist[u] /\ Between(u)' = Between(u)
      BY <1>1, <1>2, <1>6, <2>2 DEF LTrimHistory, Between
    <3> QED
      BY <1>4, <3>1
  <2> QED
    BY <2>1, <2>2
<1>7. CASE UNCHANGED hist /\ pc[r] # "trim" /\ pc'[r] # "trim"
  <2>1. Between(u)' = Between(u)
    BY <1>2, <1>7 DEF Between
  <2> QED
    BY <1>4, <1>7, <2>1
<1> QED
  BY <1>5, <1>6, <1>7 DEF Handles, Answers202, AnswersPoll, LPushJob, SetStatus, store

(***************************************************************************)
(* A user's history never grows beyond its bound and the requests that are *)
(* about to trim it.                                                       *)
(***************************************************************************)
THEOREM History ==
  ASSUME Calm, IsFiniteSet(Subs)
  PROVE  Spec => []HistoryBounded
<1>1. Init => HistoryWithin
  <2> SUFFICES ASSUME Init, NEW u \in Users
               PROVE  Len(hist[u]) <= HistoryCap + Cardinality(Between(u))
    BY DEF HistoryWithin
  <2>1. Between(u) = {} /\ hist[u] = <<>>
    BY ActorsAssumption DEF Init, Between, Actors
  <2>2. Len(hist[u]) = 0 /\ Cardinality(Between(u)) = 0
    BY <2>1, FS_EmptySet
  <2> QED
    BY <2>2, HistoryCapAssumption
<1>2. ASSUME TypeOK, Connected, HistoryWithin, [Next]_vars PROVE HistoryWithin'
  <2>1. ASSUME NEW r \in Subs, Request(r) PROVE HistoryWithin'
    BY <1>2, <2>1, CalmHandler, HandlerTrims
  <2>2. CASE UNCHANGED hist /\ \A s \in Subs : pc'[s] = pc[s]
    BY <1>2, <2>2 DEF HistoryWithin, Between
  <2>3. ASSUME NEW w \in Workers, WorkerStep(w)
        PROVE  UNCHANGED hist /\ \A s \in Subs : pc'[s] = pc[s]
    BY <1>2, <2>3, CalmWorker, ActorsAssumption
       DEF Works, Takes, BRPop, Marks, SetStatus, Evaluate, Stores, SetResult, Publishes,
           store, Actors
  <2>4. ASSUME PoolDies \/ Restart
        PROVE  UNCHANGED hist /\ \A s \in Subs : pc'[s] = pc[s]
    BY <2>4, ActorsAssumption DEF PoolDies, Restart, store, Actors
  <2>5. ASSUME Stop \/ UNCHANGED vars \/ \E s \in Subs : Expire(s)
        PROVE  UNCHANGED <<hist, pc>>
    BY <2>5 DEF Stop, Expire, vars, store
  <2> QED
    BY <1>2, <2>1, <2>2, <2>3, <2>4, <2>5 DEF Next, Terminate, Crash
<1>3. HistoryWithin => HistoryBounded
  BY DEF HistoryWithin, HistoryBounded, Between
<1> QED
  BY <1>1, <1>2, <1>3, Invariance, AllConnected, PTL DEF Spec, IInv

=============================================================================
