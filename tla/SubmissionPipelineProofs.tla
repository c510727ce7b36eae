---------------------- MODULE SubmissionPipelineProofs ----------------------
(***************************************************************************)
(* Proofs about SubmissionPipeline, for any number of submissions, workers *)
(* and users, any history bound and any of the Events.                     *)
(*                                                                         *)
(* Types, the order of the queue, the conservation of jobs and the jobs in *)
(* hand hold only together (IInv): that the next BRPOP overwrites no job   *)
(* needs JobInHand, that the submission of a job is one needs              *)
(* JobsConserved, and that a stored result is final needs JobInHand again. *)
(* On top of them come the refinement of JobQueue, what the answers say of *)
(* the queue (which needs only TypeOK besides), the exclusive work         *)
(* directories, which need that no submission is queued twice and that no  *)
(* job is held twice, and how far every process is from its rest.          *)
(***************************************************************************)
EXTENDS SubmissionPipeline, SequenceTheorems, TLAPS

IInv == TypeOK /\ JobInHand /\ JobsConserved /\ RoutedInOrder

-----------------------------------------------------------------------------
(***************************************************************************)
(* Lists.  LPUSH puts an element before the others.                        *)
(***************************************************************************)
LEMMA LPushProperties ==
  ASSUME NEW S, NEW q \in Seq(S), NEW e \in S
  PROVE  /\ LPush(q, e) \in Seq(S)
         /\ Len(LPush(q, e)) = Len(q) + 1
         /\ LPush(q, e)[1] = e
         /\ \A i \in 1 .. Len(q) : LPush(q, e)[i + 1] = q[i]
<1> DEFINE h == <<e>>
<1>1. h \in Seq(S) /\ Len(h) = 1 /\ h[1] = e
  OBVIOUS
<1> HIDE DEF h
<1>2. /\ h \o q \in Seq(S)
      /\ Len(h \o q) = Len(q) + 1
      /\ (h \o q)[1] = e
      /\ \A i \in 1 .. Len(q) : (h \o q)[i + 1] = q[i]
  BY <1>1, ConcatProperties, LenProperties
<1> QED
  BY <1>2 DEF h, LPush

(***************************************************************************)
(* A prefix, as LTRIM keeps one and BRPOP leaves one.                      *)
(***************************************************************************)
LEMMA PrefixProperties ==
  ASSUME NEW S, NEW q \in Seq(S), NEW n \in 0 .. Len(q)
  PROVE  /\ SubSeq(q, 1, n) \in Seq(S)
         /\ Len(SubSeq(q, 1, n)) = n
         /\ \A i \in 1 .. n : SubSeq(q, 1, n)[i] = q[i]
<1>1. Len(q) \in Nat /\ \A i \in 1 .. n : q[i] \in S
  BY LenProperties, ElementOfSeq
<1> QED
  BY <1>1, SubSeqProperties

(***************************************************************************)
(* What LTRIM leaves is a list of the same elements.                       *)
(***************************************************************************)
LEMMA LTrimType ==
  ASSUME NEW S, NEW q \in Seq(S)
  PROVE  LTrim(q, HistoryCap) \in Seq(S)
  BY PrefixProperties, LenProperties, HistoryCapAssumption DEF LTrim

-----------------------------------------------------------------------------
(***************************************************************************)
(* Commands keep the types of what is stored.                              *)
(***************************************************************************)
LEMMA NoEffectType ==
  ASSUME StoreTypeOK, NoEffect
  PROVE  StoreTypeOK'
  BY DEF StoreTypeOK, NoEffect, store

(***************************************************************************)
(* BRPOP moves a submission from the queue to the history of popped jobs.  *)
(***************************************************************************)
LEMMA BRPopType ==
  ASSUME StoreTypeOK, BRPop
  PROVE  StoreTypeOK'
<1>1. Len(queue) \in Nat \ {0}
  BY EmptySeq DEF StoreTypeOK, BRPop
<1>2. queue' \in Seq(Subs)
  BY <1>1, PrefixProperties DEF StoreTypeOK, BRPop
<1>3. popped' \in Seq(Subs)
  BY <1>1, ElementOfSeq DEF StoreTypeOK, BRPop
<1> QED
  BY <1>2, <1>3 DEF StoreTypeOK, BRPop

(***************************************************************************)
(* The commands that write store values of the right type: SET of a status *)
(* or of a final verdict, LPUSH of a job or of an entry of the history,    *)
(* LTRIM.                                                                  *)
(***************************************************************************)
LEMMA WriteType ==
  ASSUME StoreTypeOK, NEW s \in Subs
  PROVE  /\ LPushJob(s) => StoreTypeOK'
         /\ \A v \in Verdict : SetStatus(s, v) => StoreTypeOK'
         /\ \A v \in Final : SetResult(s, v) => StoreTypeOK'
         /\ LPushHistory(s) => StoreTypeOK'
         /\ LTrimHistory(s) => StoreTypeOK'
<1>2. ASSUME LPushJob(s) PROVE StoreTypeOK'
  <2>1. queue' \in Seq(Subs)
    BY <1>2, LPushProperties DEF StoreTypeOK, LPushJob
  <2>2. pushed' \in Seq(Subs)
    BY <1>2 DEF StoreTypeOK, LPushJob
  <2> QED
    BY <1>2, <2>1, <2>2 DEF StoreTypeOK, LPushJob
<1>4. ASSUME NEW v \in Verdict, SetStatus(s, v) PROVE StoreTypeOK'
  BY <1>4 DEF StoreTypeOK, SetStatus
<1>5. ASSUME NEW v \in Final, SetResult(s, v) PROVE StoreTypeOK'
  BY <1>5 DEF StoreTypeOK, SetResult
<1>6. Owner[s] \in Users
  BY OwnerAssumption
<1>7. ASSUME LPushHistory(s) PROVE StoreTypeOK'
  <2>1. LPush(hist[Owner[s]], s) \in Seq(Subs)
    BY <1>6, LPushProperties DEF StoreTypeOK
  <2> QED
    BY <1>6, <1>7, <2>1 DEF StoreTypeOK, LPushHistory
<1>8. ASSUME LTrimHistory(s) PROVE StoreTypeOK'
  <2>1. LTrim(hist[Owner[s]], HistoryCap) \in Seq(Subs)
    BY <1>6, LTrimType DEF StoreTypeOK
  <2> QED
    BY <1>6, <1>8, <2>1 DEF StoreTypeOK, LTrimHistory
<1> QED
  BY <1>2, <1>4, <1>5, <1>7, <1>8

(***************************************************************************)
(* However a command ends, its connection keeps its type.                  *)
(***************************************************************************)
LEMMA CallType ==
  ASSUME ProcessTypeOK, NEW a \in Actors, NEW ran \in BOOLEAN,
         Answered(a) \/ Retried(a, ran) \/ Failed(a, ran)
  PROVE  /\ ctx' \in [Clients -> {"ok", "io", "dead"}]
         /\ retry' \subseteq Actors
  BY DEF ProcessTypeOK, Answered, Retried, Failed

(***************************************************************************)
(* A job in hand is one that was taken off the queue.                      *)
(***************************************************************************)
LEMMA SubOfJob ==
  ASSUME TypeOK, JobsConserved, NEW w \in Workers, Busy(w)
  PROVE  job[w] \in 1 .. Len(popped) /\ Sub(w) \in Subs
<1>1. job[w] \in 1 .. Len(popped)
  BY DEF JobsConserved, Held
<1> QED
  BY <1>1, ElementOfSeq DEF TypeOK, StoreTypeOK, Sub

-----------------------------------------------------------------------------
(***************************************************************************)
(* Every step keeps the types of what is stored in Redis.                  *)
(***************************************************************************)
LEMMA StoreType ==
  ASSUME TypeOK, JobInHand, JobsConserved, Next
  PROVE  StoreTypeOK'
<1> USE DEF TypeOK
<1>1. ASSUME NEW s \in Subs, Request(s) PROVE StoreTypeOK'
  <2>1. "PENDING" \in Verdict
    BY DEF Verdict, InProgress
  <2> QED
    BY <1>1, <2>1, NoEffectType, WriteType
       DEF Request, Authorize, Enqueue, MarkPending, Record, Trim, GetResult,
           GetStatus, Command
<1>2. ASSUME NEW w \in Workers, MarkCompiling(w) PROVE StoreTypeOK'
  BY <1>2, SubOfJob, NoEffectType, WriteType
     DEF MarkCompiling, Command, JobInHand, Processing, Verdict, InProgress
<1>3. ASSUME NEW w \in Workers, MarkRunning(w) PROVE StoreTypeOK'
  BY <1>3, SubOfJob, NoEffectType, WriteType
     DEF MarkRunning, Command, JobInHand, Processing, Verdict, InProgress
<1>4. ASSUME NEW w \in Workers, StoreResult(w) PROVE StoreTypeOK'
  BY <1>4, SubOfJob, NoEffectType, WriteType DEF StoreResult, Command, JobInHand, Processing
<1>5. ASSUME NEW w \in Workers, Publish(w) PROVE StoreTypeOK'
  BY <1>5, SubOfJob, NoEffectType, WriteType DEF Publish, Command, JobInHand, Processing, Verdict
<1>6. ASSUME NEW w \in Workers, Dequeue(w) PROVE StoreTypeOK'
  BY <1>6, NoEffectType, BRPopType DEF Dequeue, Command
<1>7. ASSUME NEW s \in Subs, Expire(s) PROVE StoreTypeOK'
  BY <1>7 DEF Expire, StoreTypeOK
<1>8. ASSUME UNCHANGED store PROVE StoreTypeOK'
  BY <1>8 DEF store, StoreTypeOK
<1> QED
  BY <1>1, <1>2, <1>3, <1>4, <1>5, <1>6, <1>7, <1>8
     DEF Next, WorkerStep, Connect, GiveUp, CheckRunning, Evaluate, Terminate,
         Crash, PoolDies, Restart, Stop

(***************************************************************************)
(* And those of the connections, step counters and hands of the processes. *)
(***************************************************************************)
LEMMA ConnType ==
  ASSUME TypeOK, Next
  PROVE  /\ ctx' \in [Clients -> {"ok", "io", "dead"}]
         /\ retry' \subseteq Actors
<1> USE DEF TypeOK
<1> DEFINE P == /\ ctx' \in [Clients -> {"ok", "io", "dead"}]
                /\ retry' \subseteq Actors
<1>1. ASSUME NEW s \in Subs, Request(s) PROVE P
  BY <1>1, CallType
     DEF Request, Authorize, Enqueue, MarkPending, Record, Trim, GetResult,
         GetStatus, Command, Actors
<1>2. ASSUME NEW w \in Workers,
             Dequeue(w) \/ MarkCompiling(w) \/ MarkRunning(w) \/ StoreResult(w) \/ Publish(w)
      PROVE  P
  BY <1>2, CallType
     DEF Dequeue, MarkCompiling, MarkRunning, StoreResult, Publish, Command, Actors
<1>3. ASSUME NEW w \in Workers, Connect(w) PROVE P
  BY <1>3 DEF Connect, ProcessTypeOK, Clients
<1>4. ASSUME PoolDies PROVE P
  BY <1>4 DEF PoolDies, ProcessTypeOK, Clients
<1>5. ASSUME UNCHANGED conn PROVE P
  BY <1>5 DEF conn, ProcessTypeOK
<1> QED
  BY <1>1, <1>2, <1>3, <1>4, <1>5
     DEF Next, WorkerStep, GiveUp, CheckRunning, Evaluate, Terminate, Crash,
         Restart, Stop, Expire

(***************************************************************************)
(* A step of one process leaves every process at a step of its own kind.   *)
(***************************************************************************)
LEMMA GotoType ==
  ASSUME ProcessTypeOK, NEW a \in Actors, NEW step,
         a \in Subs => step \in HandlerSteps,
         a \in Workers => step \in WorkerSteps,
         Goto(a, step)
  PROVE  /\ pc' \in [Actors -> HandlerSteps \cup WorkerSteps]
         /\ \A s \in Subs : pc'[s] \in HandlerSteps
         /\ \A w \in Workers : pc'[w] \in WorkerSteps
  BY ActorsAssumption DEF ProcessTypeOK, Goto, Actors

(***************************************************************************)
(* Handlers stay at handler steps and workers at worker steps.             *)
(***************************************************************************)
LEMMA PcType ==
  ASSUME TypeOK, Next
  PROVE  /\ pc' \in [Actors -> HandlerSteps \cup WorkerSteps]
         /\ \A s \in Subs : pc'[s] \in HandlerSteps
         /\ \A w \in Workers : pc'[w] \in WorkerSteps
<1> USE DEF TypeOK
<1> DEFINE P == /\ pc' \in [Actors -> HandlerSteps \cup WorkerSteps]
                /\ \A s \in Subs : pc'[s] \in HandlerSteps
                /\ \A w \in Workers : pc'[w] \in WorkerSteps
<1>1. ASSUME NEW s \in Subs, Request(s) PROVE P
  <2>1. pc' = pc \/ \E step \in HandlerSteps : Goto(s, step)
    BY <1>1 DEF Request, Authorize, Enqueue, MarkPending, Record, Trim, GetResult,
                GetStatus, Command, HandlerSteps
  <2>2. s \in Actors /\ s \notin Workers
    BY ActorsAssumption DEF Actors
  <2> QED
    BY <2>1, <2>2, GotoType DEF ProcessTypeOK
<1>2. ASSUME NEW w \in Workers, WorkerStep(w) PROVE P
  <2>1. pc' = pc \/ \E step \in WorkerSteps : Goto(w, step)
    BY <1>2 DEF WorkerStep, Connect, GiveUp, CheckRunning, Dequeue, MarkCompiling,
                MarkRunning, Evaluate, StoreResult, Publish, Command, WorkerSteps
  <2>2. w \in Actors /\ w \notin Subs
    BY ActorsAssumption DEF Actors
  <2> QED
    BY <2>1, <2>2, GotoType DEF ProcessTypeOK
<1>3. ASSUME PoolDies \/ Restart PROVE P
  <2>1. PICK step \in {"down", "connect"} :
          pc' = [a \in Actors |-> IF a \in Workers THEN step ELSE pc[a]]
    BY <1>3 DEF PoolDies, Restart
  <2>2. step \in WorkerSteps
    BY DEF WorkerSteps
  <2>3. /\ \A s \in Subs : pc'[s] = pc[s]
        /\ \A w \in Workers : pc'[w] = step
    BY <2>1, ActorsAssumption DEF Actors
  <2>4. pc' \in [Actors -> HandlerSteps \cup WorkerSteps]
    BY <2>1, <2>2 DEF ProcessTypeOK
  <2> QED
    BY <2>2, <2>3, <2>4 DEF ProcessTypeOK
<1>4. ASSUME UNCHANGED pc PROVE P
  BY <1>4 DEF ProcessTypeOK
<1> QED
  BY <1>1, <1>2, <1>3, <1>4 DEF Next, Terminate, Crash, Stop, Expire

(***************************************************************************)
(* What the workers hold keeps its type.                                   *)
(***************************************************************************)
LEMMA PoolType ==
  ASSUME TypeOK, JobInHand, JobsConserved, Next
  PROVE  /\ job' \in [Workers -> Nat]
         /\ verdict' \in [Workers -> Verdict]
         /\ running' \in BOOLEAN
         /\ finished' \subseteq Nat
         /\ lost' \subseteq Nat
<1> USE DEF TypeOK
<1> DEFINE P == /\ job' \in [Workers -> Nat]
                /\ verdict' \in [Workers -> Verdict]
                /\ running' \in BOOLEAN
                /\ finished' \subseteq Nat
                /\ lost' \subseteq Nat
<1>1. ASSUME NEW w \in Workers, Dequeue(w) PROVE P
  <2>1. Len(popped') \in Nat
    BY StoreType, <1>1, LenProperties DEF StoreTypeOK, Next, WorkerStep
  <2> QED
    BY <1>1, <2>1 DEF Dequeue, ProcessTypeOK
<1>2. ASSUME NEW w \in Workers, Evaluate(w) PROVE P
  BY <1>2, OutcomesAssumption DEF Evaluate, ProcessTypeOK, Verdict
<1>3. ASSUME NEW w \in Workers, Publish(w) PROVE P
  <2>1. job[w] \in Nat
    BY DEF ProcessTypeOK
  <2>2. CASE pc'[w] = "check"
    <3>1. finished' \subseteq Nat
      BY <1>3, <2>1, <2>2 DEF Publish, ProcessTypeOK
    <3>2. job' \in [Workers -> Nat]
      BY <1>3, <2>2 DEF Publish, ProcessTypeOK
    <3> QED
      BY <1>3, <2>2, <3>1, <3>2 DEF Publish, ProcessTypeOK, Verdict, InProgress
  <2>3. CASE pc'[w] # "check"
    BY <1>3, <2>3 DEF Publish, ProcessTypeOK
  <2> QED
    BY <2>2, <2>3
<1>4. ASSUME PoolDies PROVE P
  <2>1. \A w \in Workers : job[w] \in Nat
    BY DEF ProcessTypeOK
  <2>2. lost' \subseteq Nat
    BY <1>4, <2>1 DEF PoolDies, ProcessTypeOK
  <2> QED
    BY <1>4, <2>2 DEF PoolDies, ProcessTypeOK, Verdict, InProgress
<1>5. ASSUME Restart \/ Stop PROVE P
  BY <1>5 DEF Restart, Stop, ProcessTypeOK
<1>6. ASSUME UNCHANGED pool PROVE P
  BY <1>6 DEF pool, ProcessTypeOK
<1> QED
  BY <1>1, <1>2, <1>3, <1>4, <1>5, <1>6
     DEF Next, Request, Authorize, Enqueue, MarkPending, Record, Trim, GetResult,
         GetStatus, WorkerStep, Connect, GiveUp, CheckRunning, MarkCompiling,
         MarkRunning, StoreResult, Terminate, Crash, Expire

(***************************************************************************)
(* A client is only shown verdicts, or nothing.                            *)
(***************************************************************************)
LEMMA SeenType ==
  ASSUME TypeOK, Next
  PROVE  seen' \in [Subs -> Verdict \cup {Absent}]
<1> USE DEF TypeOK
<1>1. ASSUME NEW s \in Subs, GetResult(s) \/ GetStatus(s)
      PROVE  seen' \in [Subs -> Verdict \cup {Absent}]
  <2>1. NotFound(s) \subseteq Verdict \cup {Absent}
    BY DEF NotFound, Verdict, InProgress
  <2>2. \/ UNCHANGED seen
        \/ \E v \in {result[s], status[s]} \cup NotFound(s) :
             seen' = [seen EXCEPT ![s] = v]
    BY <1>1 DEF GetResult, GetStatus
  <2> QED
    BY <2>1, <2>2 DEF StoreTypeOK, ProcessTypeOK, Verdict
<1>2. ASSUME UNCHANGED seen
      PROVE  seen' \in [Subs -> Verdict \cup {Absent}]
  BY <1>2 DEF ProcessTypeOK
<1> QED
  BY <1>1, <1>2
     DEF Next, Request, Authorize, Enqueue, MarkPending, Record, Trim, WorkerStep,
         Connect, GiveUp, CheckRunning, Dequeue, MarkCompiling, MarkRunning,
         Evaluate, StoreResult, Publish, Terminate, Crash, PoolDies, Restart,
         Stop, Expire

(***************************************************************************)
(* Together: every step keeps the types.                                   *)
(***************************************************************************)
LEMMA TypeStep ==
  ASSUME TypeOK, JobInHand, JobsConserved, [Next]_vars
  PROVE  TypeOK'
<1>1. CASE Next
  BY <1>1, StoreType, ConnType, PcType, PoolType, SeenType DEF TypeOK, ProcessTypeOK
<1>2. CASE UNCHANGED vars
  BY <1>2 DEF vars, store, conn, pool, TypeOK, StoreTypeOK, ProcessTypeOK
<1> QED
  BY <1>1, <1>2

-----------------------------------------------------------------------------
(***************************************************************************)
(* The queue keeps its order: only LPUSH and BRPOP touch it.               *)
(***************************************************************************)
LEMMA LPushJobRoutes ==
  ASSUME StoreTypeOK, RoutedInOrder, NEW s \in Subs, LPushJob(s)
  PROVE  RoutedInOrder'
<1>1. /\ Len(queue) \in Nat /\ Len(pushed) \in Nat /\ Len(popped) \in Nat
  BY LenProperties DEF StoreTypeOK
<1>2. /\ Len(pushed') = Len(pushed) + 1
      /\ pushed'[Len(pushed) + 1] = s
      /\ \A i \in 1 .. Len(pushed) : pushed'[i] = pushed[i]
  BY <1>1 DEF StoreTypeOK, LPushJob
<1>3. /\ Len(queue') = Len(queue) + 1
      /\ queue'[1] = s
      /\ \A i \in 1 .. Len(queue) : queue'[i + 1] = queue[i]
  <2>1. queue \in Seq(Subs) /\ queue' = LPush(queue, s)
    BY DEF StoreTypeOK, LPushJob
  <2> QED
    BY <2>1, LPushProperties
<1>4. popped' = popped
  BY DEF LPushJob
<1>5. \A i \in 1 .. Len(popped') : popped'[i] = pushed'[i]
  BY <1>1, <1>2, <1>4 DEF RoutedInOrder
<1>6. ASSUME NEW i \in 1 .. Len(queue')
      PROVE  queue'[i] = pushed'[Len(pushed') + 1 - i]
  <2>1. CASE i = 1
    BY <1>1, <1>2, <1>3, <2>1
  <2>2. CASE i # 1
    <3>1. i - 1 \in 1 .. Len(queue) /\ i = (i - 1) + 1
      BY <1>1, <1>3, <2>2
    <3>2. queue'[i] = queue[i - 1]
      BY <1>3, <3>1
    <3>3. queue[i - 1] = pushed[Len(pushed) + 1 - (i - 1)]
      BY <3>1 DEF RoutedInOrder
    <3>4. Len(pushed) + 1 - (i - 1) \in 1 .. Len(pushed)
      BY <1>1, <3>1 DEF RoutedInOrder
    <3>5. Len(pushed') + 1 - i = Len(pushed) + 1 - (i - 1)
      BY <1>1, <1>2, <3>1
    <3> QED
      BY <1>2, <3>2, <3>3, <3>4, <3>5
  <2> QED
    BY <2>1, <2>2
<1>7. Len(pushed') = Len(popped') + Len(queue')
  BY <1>1, <1>2, <1>3, <1>4 DEF RoutedInOrder
<1> QED
  BY <1>5, <1>6, <1>7 DEF RoutedInOrder

(***************************************************************************)
(* BRPOP takes the oldest job, and the others keep their order.            *)
(***************************************************************************)
LEMMA BRPopRoutes ==
  ASSUME StoreTypeOK, RoutedInOrder, BRPop
  PROVE  RoutedInOrder'
<1>1. /\ Len(queue) \in Nat \ {0} /\ Len(pushed) \in Nat /\ Len(popped) \in Nat
  BY LenProperties, EmptySeq DEF StoreTypeOK, BRPop
<1>2. /\ Len(queue') = Len(queue) - 1
      /\ \A i \in 1 .. Len(queue) - 1 : queue'[i] = queue[i]
  <2>1. queue \in Seq(Subs) /\ queue' = SubSeq(queue, 1, Len(queue) - 1)
    BY DEF StoreTypeOK, BRPop
  <2>2. Len(queue) - 1 \in 0 .. Len(queue)
    BY <1>1
  <2> QED
    BY <2>1, <2>2, PrefixProperties
<1>3. queue[Len(queue)] \in Subs
  BY <1>1, ElementOfSeq DEF StoreTypeOK
<1>4. /\ Len(popped') = Len(popped) + 1
      /\ popped'[Len(popped) + 1] = queue[Len(queue)]
      /\ \A i \in 1 .. Len(popped) : popped'[i] = popped[i]
  BY <1>1, <1>3 DEF StoreTypeOK, BRPop
<1>5. pushed' = pushed
  BY DEF BRPop
<1>6. queue[Len(queue)] = pushed[Len(popped) + 1]
  <2>1. Len(queue) \in 1 .. Len(queue)
    BY <1>1
  <2>2. queue[Len(queue)] = pushed[Len(pushed) + 1 - Len(queue)]
    BY <2>1 DEF RoutedInOrder
  <2>3. Len(pushed) + 1 - Len(queue) = Len(popped) + 1
    BY <1>1 DEF RoutedInOrder
  <2> QED
    BY <2>2, <2>3
<1>7. \A i \in 1 .. Len(popped') : popped'[i] = pushed'[i]
  BY <1>1, <1>4, <1>5, <1>6 DEF RoutedInOrder
<1>8. ASSUME NEW i \in 1 .. Len(queue')
      PROVE  queue'[i] = pushed'[Len(pushed') + 1 - i]
  <2>1. i \in 1 .. Len(queue) - 1 /\ i \in 1 .. Len(queue)
    BY <1>1, <1>2
  <2>2. queue'[i] = queue[i]
    BY <1>2, <2>1
  <2>3. queue[i] = pushed[Len(pushed) + 1 - i]
    BY <2>1 DEF RoutedInOrder
  <2> QED
    BY <1>5, <2>2, <2>3
<1>9. Len(pushed') = Len(popped') + Len(queue')
  BY <1>1, <1>2, <1>4, <1>5 DEF RoutedInOrder
<1> QED
  BY <1>7, <1>8, <1>9 DEF RoutedInOrder

(***************************************************************************)
(* No other step touches queue, pushed and popped.                         *)
(***************************************************************************)
LEMMA QueueSteps ==
  ASSUME [Next]_vars
  PROVE  \/ UNCHANGED <<queue, pushed, popped>>
         \/ \E s \in Subs : Enqueue(s) /\ LPushJob(s)
         \/ \E w \in Workers : Dequeue(w) /\ BRPop
<1>1. ASSUME NEW s \in Subs, Enqueue(s)
      PROVE  UNCHANGED <<queue, pushed, popped>> \/ LPushJob(s)
  BY <1>1 DEF Enqueue, Command, NoEffect, store
<1>2. ASSUME NEW w \in Workers, Dequeue(w)
      PROVE  UNCHANGED <<queue, pushed, popped>> \/ BRPop
  BY <1>2 DEF Dequeue, Command, NoEffect, store
<1>3. ASSUME NEW s \in Subs,
             \/ Authorize(s) \/ MarkPending(s) \/ Record(s) \/ Trim(s)
             \/ GetResult(s) \/ GetStatus(s) \/ Expire(s)
      PROVE  UNCHANGED <<queue, pushed, popped>>
  BY <1>3 DEF Authorize, MarkPending, Record, Trim, GetResult, GetStatus, Expire,
              Command, NoEffect, store, SetStatus, LPushHistory, LTrimHistory
<1>4. ASSUME NEW w \in Workers,
             \/ Connect(w) \/ GiveUp(w) \/ CheckRunning(w) \/ MarkCompiling(w)
             \/ MarkRunning(w) \/ Evaluate(w) \/ StoreResult(w) \/ Publish(w)
      PROVE  UNCHANGED <<queue, pushed, popped>>
  BY <1>4 DEF Connect, GiveUp, CheckRunning, MarkCompiling, MarkRunning, Evaluate,
              StoreResult, Publish, Command, NoEffect, store, SetStatus, SetResult
<1>5. ASSUME PoolDies \/ Restart \/ Stop \/ UNCHANGED vars
      PROVE  UNCHANGED <<queue, pushed, popped>>
  BY <1>5 DEF PoolDies, Restart, Stop, vars, store
<1> QED
  BY <1>1, <1>2, <1>3, <1>4, <1>5 DEF Next, Request, WorkerStep, Terminate, Crash

(***************************************************************************)
(* So every step keeps the queue in order.                                 *)
(***************************************************************************)
LEMMA RoutingStep ==
  ASSUME TypeOK, RoutedInOrder, [Next]_vars
  PROVE  RoutedInOrder'
<1>1. ASSUME UNCHANGED <<queue, pushed, popped>> PROVE RoutedInOrder'
  BY <1>1 DEF RoutedInOrder
<1> QED
  BY <1>1, QueueSteps, LPushJobRoutes, BRPopRoutes DEF TypeOK

-----------------------------------------------------------------------------
(***************************************************************************)
(* A worker holds a job exactly while it processes one.                    *)
(***************************************************************************)
LEMMA JobInHandStep ==
  ASSUME TypeOK, JobInHand, JobsConserved, [Next]_vars
  PROVE  JobInHand'
<1> USE DEF JobInHand, Busy, Processing
<1>1. ASSUME UNCHANGED <<job, verdict>>, \A w \in Workers : pc'[w] = pc[w]
      PROVE  JobInHand'
  BY <1>1
<1>2. ASSUME NEW s \in Subs, Request(s) PROVE JobInHand'
  <2>1. UNCHANGED <<job, verdict>>
    BY <1>2 DEF Request, Authorize, Enqueue, MarkPending, Record, Trim, GetResult,
                GetStatus, pool
  <2>2. pc' = pc \/ \E step : Goto(s, step)
    BY <1>2 DEF Request, Authorize, Enqueue, MarkPending, Record, Trim, GetResult,
                GetStatus, Command
  <2>3. \A w \in Workers : w # s
    BY ActorsAssumption
  <2>4. \A w \in Workers : pc'[w] = pc[w]
    BY <2>2, <2>3 DEF Goto, TypeOK, ProcessTypeOK, Actors
  <2> QED
    BY <1>1, <2>1, <2>4
<1>3. ASSUME NEW w \in Workers, WorkerStep(w) PROVE JobInHand'
  <2>1. pc' = pc \/ \E step : Goto(w, step)
    BY <1>3 DEF WorkerStep, Connect, GiveUp, CheckRunning, Dequeue, MarkCompiling,
                MarkRunning, Evaluate, StoreResult, Publish, Command
  <2>2. \A x \in Workers \ {w} : pc'[x] = pc[x]
    BY <2>1 DEF Goto, TypeOK, ProcessTypeOK, Actors
  <2>3. \A step : Goto(w, step) => pc'[w] = step
    BY DEF Goto, TypeOK, ProcessTypeOK, Actors
  <2>4. CASE Connect(w) \/ GiveUp(w) \/ CheckRunning(w)
    <3>1. UNCHANGED <<job, verdict>> /\ pc[w] \notin Processing
      BY <2>4 DEF Connect, GiveUp, CheckRunning, pool
    <3>2. pc'[w] \in {"check", "exited", "pop"}
      BY <2>3, <2>4 DEF Connect, GiveUp, CheckRunning
    <3> QED
      BY <2>2, <3>1, <3>2
  <2>5. CASE Dequeue(w)
    <3>1. pc[w] = "pop" /\ verdict' = verdict
      BY <2>5 DEF Dequeue
    <3>2. pc'[w] \in {"pop", "check", "compiling"}
      BY <2>3, <2>5, <3>1 DEF Dequeue, Command
    <3>3. CASE pc'[w] = "compiling"
      <4>1. BRPop
        BY <2>3, <2>5, <3>1, <3>3 DEF Dequeue, Command
      <4>2. Len(popped) \in Nat /\ Len(popped') = Len(popped) + 1
        <5>1. Len(queue) \in Nat \ {0}
          BY <4>1, EmptySeq DEF BRPop, TypeOK, StoreTypeOK
        <5>2. queue[Len(queue)] \in Subs
          BY <5>1, ElementOfSeq DEF TypeOK, StoreTypeOK
        <5>3. popped \in Seq(Subs) /\ popped' = Append(popped, queue[Len(queue)])
          BY <4>1 DEF BRPop, TypeOK, StoreTypeOK
        <5> QED
          BY <5>2, <5>3, AppendProperties, LenProperties
      <4>3. job' = [job EXCEPT ![w] = Len(popped')]
        BY <2>5, <3>3 DEF Dequeue
      <4>4. job'[w] # 0 /\ \A x \in Workers \ {w} : job'[x] = job[x]
        BY <4>2, <4>3 DEF TypeOK, ProcessTypeOK
      <4> QED
        BY <2>2, <3>1, <3>3, <4>4
    <3>4. CASE pc'[w] # "compiling"
      <4>1. job' = job
        BY <2>5, <3>4 DEF Dequeue
      <4> QED
        BY <2>2, <3>1, <3>2, <3>4, <4>1
    <3> QED
      BY <3>3, <3>4
  <2>6. CASE MarkCompiling(w) \/ MarkRunning(w)
    <3>1. UNCHANGED <<job, verdict>> /\ pc[w] \in {"compiling", "run"}
      BY <2>6 DEF MarkCompiling, MarkRunning, pool
    <3>2. pc'[w] \in {"compiling", "run", "evaluate"}
      BY <2>3, <2>6 DEF MarkCompiling, MarkRunning, Command
    <3> QED
      BY <2>2, <3>1, <3>2
  <2>7. CASE Evaluate(w)
    <3>1. pc[w] = "evaluate" /\ pc'[w] = "store" /\ job' = job
      BY <2>3, <2>7 DEF Evaluate
    <3>2. verdict'[w] \in Final /\ \A x \in Workers \ {w} : verdict'[x] = verdict[x]
      BY <2>7, OutcomesAssumption DEF Evaluate, TypeOK, ProcessTypeOK
    <3> QED
      BY <2>2, <3>1, <3>2
  <2>8. CASE StoreResult(w)
    <3>1. pc[w] = "store" /\ UNCHANGED <<job, verdict>>
      BY <2>8 DEF StoreResult, pool
    <3>2. pc'[w] \in {"store", "publish"}
      BY <2>3, <2>8, <3>1 DEF StoreResult, Command
    <3> QED
      BY <2>2, <3>1, <3>2
  <2>9. CASE Publish(w)
    <3>1. pc[w] = "publish" /\ pc'[w] \in {"publish", "check"}
      BY <2>3, <2>9 DEF Publish, Command
    <3>2. CASE pc'[w] = "check"
      <4>1. /\ job'[w] = 0
            /\ \A x \in Workers \ {w} : job'[x] = job[x] /\ verdict'[x] = verdict[x]
        BY <2>9, <3>2 DEF Publish, TypeOK, ProcessTypeOK
      <4> QED
        BY <2>2, <3>2, <4>1
    <3>3. CASE pc'[w] = "publish"
      <4>1. UNCHANGED <<job, verdict>>
        BY <2>9, <3>3 DEF Publish
      <4> QED
        BY <2>2, <3>1, <3>3, <4>1
    <3> QED
      BY <3>1, <3>2, <3>3
  <2> QED
    BY <1>3, <2>4, <2>5, <2>6, <2>7, <2>8, <2>9 DEF WorkerStep
<1>4. ASSUME PoolDies PROVE JobInHand'
  <2>1. \A w \in Workers : pc'[w] = "down" /\ job'[w] = 0
    BY <1>4 DEF PoolDies, Actors
  <2> QED
    BY <2>1
<1>5. ASSUME Restart PROVE JobInHand'
  <2>1. \A w \in Workers : pc[w] \in {"down", "exited"} /\ pc'[w] = "connect"
    BY <1>5 DEF Restart, Actors
  <2>2. UNCHANGED <<job, verdict>>
    BY <1>5 DEF Restart
  <2> QED
    BY <2>1, <2>2
<1>6. ASSUME Stop \/ UNCHANGED vars \/ \E s \in Subs : Expire(s) PROVE JobInHand'
  BY <1>1, <1>6 DEF Stop, Expire, vars, pool
<1> QED
  BY <1>2, <1>3, <1>4, <1>5, <1>6 DEF Next, Terminate, Crash

-----------------------------------------------------------------------------
(***************************************************************************)
(* Jobs are conserved: BRPop hands a new one to a worker or loses it,      *)
(* Publish finishes one, and the death of the pool loses those in hand.    *)
(***************************************************************************)
LEMMA BRPopLength ==
  ASSUME StoreTypeOK, BRPop
  PROVE  Len(popped) \in Nat /\ Len(popped') = Len(popped) + 1
<1>1. Len(queue) \in Nat \ {0}
  BY EmptySeq DEF BRPop, StoreTypeOK
<1>2. queue[Len(queue)] \in Subs
  BY <1>1, ElementOfSeq DEF StoreTypeOK
<1>3. popped \in Seq(Subs) /\ popped' = Append(popped, queue[Len(queue)])
  BY DEF BRPop, StoreTypeOK
<1> QED
  BY <1>2, <1>3, AppendProperties, LenProperties

(***************************************************************************)
(* A job BRPOP took off is in the hands of the worker that asked for it,   *)
(* or is lost if the reply did not arrive.                                 *)
(***************************************************************************)
LEMMA DequeueConserves ==
  ASSUME TypeOK, JobInHand, JobsConserved, NEW w \in Workers, Dequeue(w)
  PROVE  JobsConserved'
<1>1. ~Busy(w) /\ finished' = finished
  BY DEF Dequeue, JobInHand, Processing
<1>2. \/ BRPop
      \/ UNCHANGED popped /\ pc'[w] # "compiling"
  BY DEF Dequeue, Command, NoEffect, store, Goto, TypeOK, ProcessTypeOK, Actors
<1>3. CASE BRPop /\ pc'[w] = "compiling"
  <2>1. Len(popped) \in Nat /\ Len(popped') = Len(popped) + 1
    BY <1>3, BRPopLength DEF TypeOK
  <2>2. lost' = lost /\ job' = [job EXCEPT ![w] = Len(popped')]
    BY <1>3 DEF Dequeue
  <2>3. job'[w] = Len(popped') /\ \A x \in Workers \ {w} : job'[x] = job[x]
    BY <2>2 DEF TypeOK, ProcessTypeOK
  <2>4. Held' = Held \cup {Len(popped')}
    BY <1>1, <2>1, <2>3 DEF Held, Busy
  <2>5. \A x \in Workers : Busy(x) => job[x] \in 1 .. Len(popped)
    BY SubOfJob
  <2>6. \A x, y \in Workers : Busy(x)' /\ job'[x] = job'[y] => x = y
    BY <1>1, <2>1, <2>3, <2>5 DEF JobsConserved, Busy
  <2>7. 1 .. Len(popped') = (1 .. Len(popped)) \cup {Len(popped')}
    BY <2>1
  <2>8. Len(popped') \notin Held \cup finished \cup lost
    BY <2>1 DEF JobsConserved
  <2> QED
    BY <1>1, <2>2, <2>4, <2>6, <2>7, <2>8 DEF JobsConserved
<1>4. CASE BRPop /\ pc'[w] # "compiling"
  <2>1. Len(popped) \in Nat /\ Len(popped') = Len(popped) + 1
    BY <1>4, BRPopLength DEF TypeOK
  <2>2. job' = job /\ lost' = lost \cup {Len(popped')}
    BY <1>4, <2>1 DEF Dequeue
  <2>3. Held' = Held
    BY <2>2 DEF Held, Busy
  <2>4. 1 .. Len(popped') = (1 .. Len(popped)) \cup {Len(popped')}
    BY <2>1
  <2>5. Len(popped') \notin Held \cup finished \cup lost
    BY <2>1 DEF JobsConserved
  <2> QED
    BY <1>1, <2>2, <2>3, <2>4, <2>5 DEF JobsConserved, Busy
<1>5. CASE UNCHANGED popped /\ pc'[w] # "compiling"
  BY <1>1, <1>5 DEF Dequeue, JobsConserved, Held, Busy
<1> QED
  BY <1>2, <1>3, <1>4, <1>5

(***************************************************************************)
(* Publishing moves a job from its worker's hands to the finished ones.    *)
(***************************************************************************)
LEMMA PublishConserves ==
  ASSUME TypeOK, JobInHand, JobsConserved, NEW w \in Workers, Publish(w)
  PROVE  JobsConserved'
<1>1. Busy(w) /\ lost' = lost /\ popped' = popped
  BY DEF Publish, JobInHand, Processing, Command, NoEffect, store, SetStatus
<1>2. CASE pc'[w] = "check"
  <2>1. finished' = finished \cup {job[w]} /\ job' = [job EXCEPT ![w] = 0]
    BY <1>2 DEF Publish
  <2>2. job'[w] = 0 /\ \A x \in Workers \ {w} : job'[x] = job[x]
    BY <2>1 DEF TypeOK, ProcessTypeOK
  <2>3. \A x \in Workers \ {w} : Busy(x) => job[x] # job[w]
    BY <1>1 DEF JobsConserved
  <2>4. Held = Held' \cup {job[w]} /\ job[w] \notin Held'
    BY <1>1, <2>2, <2>3 DEF Held, Busy
  <2> QED
    BY <1>1, <2>1, <2>2, <2>4 DEF JobsConserved, Busy
<1>3. CASE pc'[w] # "check"
  BY <1>1, <1>3 DEF Publish, JobsConserved, Held, Busy
<1> QED
  BY <1>2, <1>3

(***************************************************************************)
(* The death of the process makes every job in its hands a lost one.       *)
(***************************************************************************)
LEMMA PoolDiesConserves ==
  ASSUME TypeOK, JobsConserved, PoolDies
  PROVE  JobsConserved'
<1>1. \A w \in Workers : job'[w] = 0
  BY DEF PoolDies
<1>2. Held' = {} /\ \A w \in Workers : ~Busy(w)'
  BY <1>1 DEF Held, Busy
<1>3. lost' = lost \cup Held /\ finished' = finished /\ popped' = popped
  BY DEF PoolDies, Held, store
<1> QED
  BY <1>2, <1>3 DEF JobsConserved

(***************************************************************************)
(* So every step keeps the jobs accounted for.                             *)
(***************************************************************************)
LEMMA ConservationStep ==
  ASSUME TypeOK, JobInHand, JobsConserved, [Next]_vars
  PROVE  JobsConserved'
<1>1. ASSUME UNCHANGED <<job, finished, lost, popped>> PROVE JobsConserved'
  BY <1>1 DEF JobsConserved, Held, Busy
<1>2. ASSUME NEW s \in Subs, Request(s) \/ Expire(s)
      PROVE  UNCHANGED <<job, finished, lost, popped>>
  BY <1>2 DEF Request, Authorize, Enqueue, MarkPending, Record, Trim, GetResult,
              GetStatus, Expire, Command, NoEffect, store, LPushJob, SetStatus,
              LPushHistory, LTrimHistory, pool
<1>3. ASSUME NEW w \in Workers,
             \/ Connect(w) \/ GiveUp(w) \/ CheckRunning(w) \/ MarkCompiling(w)
             \/ MarkRunning(w) \/ Evaluate(w) \/ StoreResult(w)
      PROVE  UNCHANGED <<job, finished, lost, popped>>
  BY <1>3 DEF Connect, GiveUp, CheckRunning, MarkCompiling, MarkRunning, Evaluate,
              StoreResult, Command, NoEffect, store, SetStatus, SetResult, pool
<1>4. ASSUME Restart \/ Stop \/ UNCHANGED vars
      PROVE  UNCHANGED <<job, finished, lost, popped>>
  BY <1>4 DEF Restart, Stop, vars, store, pool
<1> QED
  BY <1>1, <1>2, <1>3, <1>4, DequeueConserves, PublishConserves, PoolDiesConserves
     DEF Next, WorkerStep, Terminate, Crash

-----------------------------------------------------------------------------
(***************************************************************************)
(* The invariant is inductive.                                             *)
(***************************************************************************)
LEMMA InitIInv == Init => IInv
<1> SUFFICES ASSUME Init PROVE IInv
  OBVIOUS
<1> USE DEF Init
<1>1. StoreTypeOK
  BY EmptySeq DEF StoreTypeOK
<1>2. ProcessTypeOK
  BY ActorsAssumption
     DEF ProcessTypeOK, Actors, Clients, HandlerSteps, WorkerSteps, Verdict, InProgress
<1>3. JobInHand
  BY ActorsAssumption DEF JobInHand, Busy, Processing, Actors
<1>4. Len(popped) = 0 /\ Len(queue) = 0 /\ Len(pushed) = 0
  BY EmptySeq
<1>5. JobsConserved
  BY <1>4 DEF JobsConserved, Held, Busy
<1>6. RoutedInOrder
  BY <1>4 DEF RoutedInOrder
<1> QED
  BY <1>1, <1>2, <1>3, <1>5, <1>6 DEF IInv, TypeOK

(***************************************************************************)
(* Every step keeps it: each part needs the parts named in its lemma.      *)
(***************************************************************************)
LEMMA NextIInv == IInv /\ [Next]_vars => IInv'
  BY TypeStep, JobInHandStep, ConservationStep, RoutingStep DEF IInv

(***************************************************************************)
(* Hence it holds in every reachable state.                                *)
(***************************************************************************)
LEMMA Invariance == Spec => []IInv
  BY InitIInv, NextIInv, PTL DEF Spec

(***************************************************************************)
(* Every variable keeps its type; in particular only final verdicts are    *)
(* ever stored as results.                                                 *)
(***************************************************************************)
THEOREM TypeCorrect == Spec => []TypeOK
<1>1. IInv => TypeOK
  BY DEF IInv
<1> QED
  BY <1>1, Invariance, PTL

(***************************************************************************)
(* First in, first out, whichever commands are retried or lost.            *)
(***************************************************************************)
THEOREM Routing == Spec => []RoutedInOrder
<1>1. IInv => RoutedInOrder
  BY DEF IInv
<1> QED
  BY <1>1, Invariance, PTL

(***************************************************************************)
(* A dequeued job is in one worker's hands, published or lost, whatever    *)
(* fails: no job is processed by two workers.                              *)
(***************************************************************************)
THEOREM Conservation == Spec => []JobsConserved
<1>1. IInv => JobsConserved
  BY DEF IInv
<1> QED
  BY <1>1, Invariance, PTL

(***************************************************************************)
(* A worker holds a job exactly while it processes one.                    *)
(***************************************************************************)
THEOREM Processes == Spec => []JobInHand
<1>1. IInv => JobInHand
  BY DEF IInv
<1> QED
  BY <1>1, Invariance, PTL

-----------------------------------------------------------------------------
(***************************************************************************)
(* The steps of JobQueue.  A job keeps its number, and so its submission.  *)
(***************************************************************************)
LEMMA JobsStay ==
  ASSUME TypeOK, [Next]_vars
  PROVE  /\ Len(popped) \in Nat /\ Len(popped') \in Nat
         /\ Len(popped) <= Len(popped')
         /\ \A n \in 1 .. Len(popped) : popped'[n] = popped[n]
<1>1. Len(popped) \in Nat
  BY LenProperties DEF TypeOK, StoreTypeOK
<1>2. CASE UNCHANGED popped
  BY <1>1, <1>2
<1>3. CASE BRPop
  <2>1. Len(queue) \in Nat \ {0}
    BY <1>3, EmptySeq DEF BRPop, TypeOK, StoreTypeOK
  <2>2. queue[Len(queue)] \in Subs
    BY <2>1, ElementOfSeq DEF TypeOK, StoreTypeOK
  <2>3. popped \in Seq(Subs) /\ popped' = Append(popped, queue[Len(queue)])
    BY <1>3 DEF BRPop, TypeOK, StoreTypeOK
  <2> QED
    BY <1>1, <2>2, <2>3, AppendProperties
<1> QED
  BY <1>2, <1>3, QueueSteps DEF LPushJob

(***************************************************************************)
(* What JobQueue sees in a worker's hand, and how many jobs are taken.     *)
(***************************************************************************)
Hand(w) == IF Busy(w) THEN <<job[w], Sub(w)>> ELSE <<>>

Hands == [w \in Workers |-> Hand(w)]

Taken == Len(pushed) - Len(queue)

(***************************************************************************)
(* Who keeps a job has the same in hand; a full hand is not an empty one.  *)
(***************************************************************************)
LEMMA HandStays ==
  ASSUME IInv, [Next]_vars, NEW w \in Workers
  PROVE  /\ job'[w] = job[w] => Hand(w)' = Hand(w)
         /\ Busy(w) => Hand(w) # <<>> /\ Hand(w)[1] = job[w]
         /\ Hand(w) # <<>> => Busy(w)
<1>1. ASSUME Busy(w), job'[w] = job[w] PROVE Sub(w)' = Sub(w)
  BY <1>1, JobsStay, SubOfJob DEF IInv, Sub
<1>2. \A m, n : <<m, n>> # <<>> /\ <<m, n>>[1] = m
  OBVIOUS
<1> QED
  BY <1>1, <1>2 DEF Hand, Busy

(***************************************************************************)
(* The mapping, and what it says of the number of jobs taken.              *)
(***************************************************************************)
LEMMA Mapping ==
  ASSUME IInv
  PROVE  /\ Len(pushed) \in Nat /\ Len(queue) \in Nat /\ Len(popped) \in Nat
         /\ Taken = Len(popped)
         /\ Taken < Len(pushed) <=> queue # <<>>
<1>1. Len(pushed) \in Nat /\ Len(queue) \in Nat /\ Len(popped) \in Nat
  BY LenProperties DEF IInv, TypeOK, StoreTypeOK
<1>2. queue = <<>> <=> Len(queue) = 0
  BY EmptySeq DEF IInv, TypeOK, StoreTypeOK
<1> QED
  BY <1>1, <1>2 DEF IInv, RoutedInOrder, Taken

(***************************************************************************)
(* LPUSH puts a job in.                                                    *)
(***************************************************************************)
LEMMA EnqueuePuts ==
  ASSUME IInv, NEW s \in Subs, LPushJob(s), UNCHANGED pool
  PROVE  Fifo!Put(s)
<1>1. Len(pushed') = Len(pushed) + 1 /\ Len(queue') = Len(queue) + 1
  BY LPushProperties, AppendProperties DEF LPushJob, IInv, TypeOK, StoreTypeOK
<1>2. pushed' = Append(pushed, s) /\ Len(pushed') - Len(queue') = Len(pushed) - Len(queue)
  BY <1>1, Mapping DEF LPushJob
<1>3. UNCHANGED <<job, popped, finished, lost>>
  BY DEF LPushJob, pool
<1>4. [w \in Workers |-> IF Busy(w) THEN <<job[w], Sub(w)>> ELSE <<>>]'
      = [w \in Workers |-> IF Busy(w) THEN <<job[w], Sub(w)>> ELSE <<>>]
  BY <1>3 DEF Busy, Sub
<1> QED
  BY <1>2, <1>3, <1>4 DEF Fifo!Put

(***************************************************************************)
(* BRPOP takes the oldest job for its worker, or misses it.                *)
(***************************************************************************)
LEMMA DequeueTakes ==
  ASSUME IInv, NEW w \in Workers, Dequeue(w), BRPop
  PROVE  Fifo!Take(w) \/ Fifo!Miss
<1> USE DEF IInv
<1>1. [Next]_vars /\ UNCHANGED <<pushed, finished>> /\ queue # <<>>
  BY DEF Next, WorkerStep, Dequeue, BRPop
<1>2. IInv' /\ Len(popped') = Len(popped) + 1
  BY <1>1, BRPopLength, NextIInv DEF TypeOK
<1>3. /\ Taken < Len(pushed) /\ Taken + 1 = Len(popped') /\ Taken' = Taken + 1
      /\ Len(popped') \in 1 .. Len(popped')
  <2>1. Len(queue') \in Nat
    BY <1>2, LenProperties DEF TypeOK, StoreTypeOK
  <2>2. Len(pushed') = Len(popped') + Len(queue')
    BY <1>2 DEF RoutedInOrder
  <2> QED
    BY <1>1, <1>2, <2>1, <2>2, Mapping DEF Taken
<1>4. ~Busy(w)
  BY DEF Dequeue, JobInHand, Processing
<1>5. CASE pc'[w] = "compiling"
  <2>1. /\ job'[w] = Len(popped') /\ lost' = lost
        /\ \A x \in Workers \ {w} : job'[x] = job[x]
    BY <1>2, <1>5 DEF Dequeue, TypeOK, ProcessTypeOK
  <2>2. Hand(w)' = <<Taken + 1, pushed[Taken + 1]>>
    <3>1. popped'[Len(popped')] = pushed[Len(popped')]
      BY <1>1, <1>2, <1>3 DEF RoutedInOrder
    <3>2. Busy(w)' /\ Sub(w)' = popped'[Len(popped')]
      BY <1>3, <2>1 DEF Busy, Sub
    <3>3. Hand(w)' = <<Len(popped'), popped'[Len(popped')]>>
      BY <2>1, <3>2 DEF Hand
    <3> QED
      BY <1>3, <3>1, <3>3
  <2>3. \A x \in Workers \ {w} : Hand(x)' = Hand(x)
    BY <1>1, <2>1, HandStays
  <2>4. Hands' = [Hands EXCEPT ![w] = <<Taken + 1, pushed[Taken + 1]>>]
    BY <2>2, <2>3 DEF Hands
  <2>5. Hands[w] = <<>>
    BY <1>4 DEF Hands, Hand
  <2> QED
    BY <1>1, <1>3, <2>1, <2>4, <2>5
       DEF Fifo!Take, Fifo!Holding, Fifo!Nothing, Fifo!Oldest, Hands, Hand, Taken
<1>6. CASE pc'[w] # "compiling"
  <2>1. job' = job /\ lost' = lost \cup {Len(popped')}
    BY <1>2, <1>6, Mapping DEF Dequeue
  <2>2. Hands' = Hands
    BY <1>1, <2>1, HandStays DEF Hands
  <2> QED
    BY <1>1, <1>3, <2>1, <2>2 DEF Fifo!Miss, Fifo!Oldest, Hands, Hand, Taken
<1> QED
  BY <1>5, <1>6

(***************************************************************************)
(* The last SET of a job finishes it.                                      *)
(***************************************************************************)
LEMMA PublishFinishes ==
  ASSUME IInv, NEW w \in Workers, Publish(w), pc'[w] = "check"
  PROVE  Fifo!Finish(w)
<1> USE DEF IInv
<1>1. [Next]_vars /\ Busy(w)
  BY DEF Next, WorkerStep, Publish, JobInHand, Processing
<1>2. UNCHANGED <<queue, pushed, popped, lost>>
  BY DEF Publish, Command, NoEffect, store, SetStatus
<1>3. /\ finished' = finished \cup {job[w]} /\ job'[w] = 0
      /\ \A x \in Workers \ {w} : job'[x] = job[x]
  BY DEF Publish, TypeOK, ProcessTypeOK
<1>4. Hand(w)' = <<>> /\ \A x \in Workers \ {w} : Hand(x)' = Hand(x)
  BY <1>1, <1>3, HandStays DEF Hand, Busy
<1>5. Hands' = [Hands EXCEPT ![w] = <<>>]
  BY <1>4 DEF Hands
<1>6. Hands[w] # <<>> /\ Hands[w][1] = job[w]
  BY <1>1, HandStays DEF Hands
<1> QED
  BY <1>2, <1>3, <1>5, <1>6 DEF Fifo!Finish, Fifo!Holding, Fifo!Nothing, Hands, Hand

(***************************************************************************)
(* The death of the pool is a collapse.                                    *)
(***************************************************************************)
LEMMA PoolDiesCollapses ==
  ASSUME IInv, PoolDies, [Next]_vars
  PROVE  Fifo!Collapse
<1>1. UNCHANGED <<queue, pushed, finished>>
  BY DEF PoolDies, store
<1>2. \A w \in Workers : job'[w] = 0
  BY DEF PoolDies
<1>3. Hands' = [w \in Workers |-> <<>>]
  BY <1>2 DEF Hands, Hand, Busy
<1>4. {Hands[w][1] : w \in {x \in Workers : Hands[x] # <<>>}}
      = {job[w] : w \in {x \in Workers : Busy(x)}}
  BY HandStays DEF Hands
<1>5. lost' = lost \cup {Hands[w][1] : w \in {x \in Workers : Hands[x] # <<>>}}
  BY <1>4 DEF PoolDies
<1> QED
  BY <1>1, <1>3, <1>5 DEF Fifo!Collapse, Fifo!Holding, Fifo!Nothing, Hands, Hand

(***************************************************************************)
(* Every step is one of the abstract queue's, or none of its business.     *)
(***************************************************************************)
LEMMA FifoSteps ==
  ASSUME IInv, [Next]_vars
  PROVE  \/ Fifo!Next
         \/ UNCHANGED <<pushed, Taken, Hands, finished, lost>>
<1> DEFINE Hidden == UNCHANGED <<pushed, Taken, Hands, finished, lost>>
<1>1. ASSUME UNCHANGED <<queue, pushed, job, finished, lost>> PROVE Hidden
  <2>1. Hands' = Hands
    BY <1>1, HandStays DEF Hands
  <2> QED
    BY <1>1, <2>1 DEF Taken
<1>2. ASSUME NEW s \in Subs, Request(s) \/ Expire(s) PROVE Fifo!Next \/ Hidden
  <2>1. UNCHANGED pool
    BY <1>2 DEF Request, Authorize, Enqueue, MarkPending, Record, Trim, GetResult,
                GetStatus, Expire
  <2>2. LPushJob(s) \/ UNCHANGED <<queue, pushed>>
    BY <1>2 DEF Request, Authorize, Enqueue, MarkPending, Record, Trim, GetResult,
                GetStatus, Expire, Command, NoEffect, store, SetStatus,
                LPushHistory, LTrimHistory
  <2>3. CASE LPushJob(s)
    BY <2>1, <2>3, EnqueuePuts DEF Fifo!Next
  <2>4. CASE UNCHANGED <<queue, pushed>>
    BY <1>1, <2>1, <2>4 DEF pool
  <2> QED
    BY <2>2, <2>3, <2>4
<1>3. ASSUME NEW w \in Workers, Dequeue(w) PROVE Fifo!Next \/ Hidden
  <2>1. CASE BRPop
    BY <1>3, <2>1, DequeueTakes DEF Fifo!Next
  <2>2. CASE ~BRPop
    <3>1. NoEffect /\ pc'[w] # "compiling"
      BY <1>3, <2>2 DEF Dequeue, Command, Goto, IInv, TypeOK, ProcessTypeOK, Actors
    <3> QED
      BY <1>1, <1>3, <3>1 DEF Dequeue, NoEffect, store
  <2> QED
    BY <2>1, <2>2
<1>4. ASSUME NEW w \in Workers, Publish(w) PROVE Fifo!Next \/ Hidden
  <2>1. CASE pc'[w] = "check"
    BY <1>4, <2>1, PublishFinishes DEF Fifo!Next
  <2>2. CASE pc'[w] # "check"
    BY <1>1, <1>4, <2>2 DEF Publish, Command, NoEffect, store, SetStatus
  <2> QED
    BY <2>1, <2>2
<1>5. ASSUME NEW w \in Workers,
             \/ Connect(w) \/ GiveUp(w) \/ CheckRunning(w) \/ MarkCompiling(w)
             \/ MarkRunning(w) \/ Evaluate(w) \/ StoreResult(w)
      PROVE  Hidden
  BY <1>1, <1>5 DEF Connect, GiveUp, CheckRunning, MarkCompiling, MarkRunning, Evaluate,
              StoreResult, Command, NoEffect, store, SetStatus, SetResult, pool
<1>6. CASE PoolDies
  BY <1>6, PoolDiesCollapses DEF Fifo!Next
<1>7. CASE Restart \/ Stop \/ UNCHANGED vars
  BY <1>1, <1>7 DEF Restart, Stop, vars, store, pool
<1> QED
  BY <1>2, <1>3, <1>4, <1>5, <1>6, <1>7 DEF Next, WorkerStep, Terminate, Crash

(***************************************************************************)
(* The list in Redis and the workers implement JobQueue: in order, once at *)
(* most, one at a time, nothing put back, under every failure there is.    *)
(***************************************************************************)
THEOREM DeliversAtMostOnce == Spec => ImplementsQueue
<1>1. Init => Fifo!Init
  <2> SUFFICES ASSUME Init PROVE Fifo!Init
    OBVIOUS
  <2>1. pushed = <<>> /\ Len(pushed) - Len(queue) = 0 /\ finished = {} /\ lost = {}
    BY EmptySeq DEF Init
  <2>2. \A w \in Workers : ~Busy(w)
    BY DEF Init, Busy
  <2> QED
    BY <2>1, <2>2 DEF Fifo!Init, Fifo!Nothing
<1>2. IInv /\ [Next]_vars =>
        [Fifo!Next]_<<pushed, Len(pushed) - Len(queue),
                      [w \in Workers |-> IF Busy(w) THEN <<job[w], Sub(w)>> ELSE <<>>],
                      finished, lost>>
  BY FifoSteps DEF Taken, Hands, Hand
<1> QED
  BY <1>1, <1>2, Invariance, PTL DEF Spec, ImplementsQueue, Fifo!Spec

-----------------------------------------------------------------------------
(***************************************************************************)
(* What the client was told, and what is on the queue.                     *)
(***************************************************************************)
AfterEnqueue == {"pending", "record", "trim", "accepted", "getStatus"}

(***************************************************************************)
(* LPUSH adds one job to the end of the history of pushed jobs.            *)
(***************************************************************************)
LEMMA QueuedGrows ==
  ASSUME StoreTypeOK, NEW s \in Subs, LPushJob(s)
  PROVE  /\ Len(pushed) \in Nat
         /\ DOMAIN pushed = 1 .. Len(pushed)
         /\ DOMAIN pushed' = 1 .. Len(pushed) + 1
         /\ pushed'[Len(pushed) + 1] = s
         /\ \A i \in 1 .. Len(pushed) : pushed'[i] = pushed[i]
         /\ \A x \in Subs : Queued(x)' <=> Queued(x) \/ x = s
<1>1. pushed \in Seq(Subs) /\ pushed' = Append(pushed, s)
  BY DEF StoreTypeOK, LPushJob
<1>2. /\ Len(pushed) \in Nat
      /\ DOMAIN pushed = 1 .. Len(pushed)
      /\ pushed' \in Seq(Subs) /\ Len(pushed') = Len(pushed) + 1
      /\ pushed'[Len(pushed) + 1] = s
      /\ \A i \in 1 .. Len(pushed) : pushed'[i] = pushed[i]
  BY <1>1, AppendProperties, LenProperties
<1>3. DOMAIN pushed' = 1 .. Len(pushed) + 1
  BY <1>2, LenProperties
<1>4. 1 .. Len(pushed) + 1 = (1 .. Len(pushed)) \cup {Len(pushed) + 1}
  BY <1>2
<1>5. \A x \in Subs : Queued(x)' <=> Queued(x) \/ x = s
  BY <1>2, <1>3, <1>4 DEF Queued
<1> QED
  BY <1>2, <1>3, <1>5

(***************************************************************************)
(* Only its own handler moves a request on.                                *)
(***************************************************************************)
LEMMA RequestSteps ==
  ASSUME TypeOK, [Next]_vars, NEW s \in Subs
  PROVE  \/ pc'[s] = pc[s]
         \/ pc[s] = "new" /\ pc'[s] \in {"rejected", "enqueue"}
         \/ pc[s] = "enqueue" /\ pc'[s] = "pending" /\ LPushJob(s)
         \/ pc[s] = "enqueue" /\ pc'[s] = "refused"
         \/ pc[s] \in AfterEnqueue /\ pc'[s] \in AfterEnqueue
<1> USE DEF TypeOK, ProcessTypeOK, Actors, AfterEnqueue
<1>1. \A a \in Actors : \A step : Goto(a, step) =>
        pc'[a] = step /\ \A x \in Actors \ {a} : pc'[x] = pc[x]
  BY DEF Goto
<1>2. ASSUME NEW x \in Subs, Request(x), x # s PROVE pc'[s] = pc[s]
  BY <1>1, <1>2 DEF Request, Authorize, Enqueue, MarkPending, Record, Trim,
                    GetResult, GetStatus, Command
<1>3. CASE Authorize(s)
  BY <1>1, <1>3 DEF Authorize, Command
<1>4. CASE Enqueue(s)
  BY <1>1, <1>4 DEF Enqueue, Command
<1>5. CASE MarkPending(s) \/ Record(s) \/ Trim(s) \/ GetResult(s) \/ GetStatus(s)
  BY <1>1, <1>5 DEF MarkPending, Record, Trim, GetResult, GetStatus, Command
<1>6. ASSUME NEW w \in Workers, WorkerStep(w) PROVE pc'[s] = pc[s]
  <2>1. w # s
    BY ActorsAssumption
  <2> QED
    BY <1>1, <1>6, <2>1
       DEF WorkerStep, Connect, GiveUp, CheckRunning, Dequeue, MarkCompiling,
           MarkRunning, Evaluate, StoreResult, Publish, Command
<1>7. ASSUME PoolDies \/ Restart PROVE pc'[s] = pc[s]
  BY <1>7, ActorsAssumption DEF PoolDies, Restart
<1>8. ASSUME Stop \/ UNCHANGED vars \/ \E x \in Subs : Expire(x) PROVE pc'[s] = pc[s]
  BY <1>8 DEF Stop, Expire, vars
<1> QED
  BY <1>2, <1>3, <1>4, <1>5, <1>6, <1>7, <1>8 DEF Next, Request, Terminate, Crash

(***************************************************************************)
(* A handler goes on with a queued job only after its LPUSH, and answers   *)
(* 4xx only before it.                                                     *)
(***************************************************************************)
LEMMA AnswersStep ==
  ASSUME TypeOK, AnswersMatchQueue, [Next]_vars
  PROVE  AnswersMatchQueue'
<1> SUFFICES ASSUME NEW s \in Subs
             PROVE  /\ pc'[s] \in AfterEnqueue => Queued(s)'
                    /\ pc'[s] \in {"new", "rejected"} => ~Queued(s)'
  BY DEF AnswersMatchQueue, AfterEnqueue
<1>1. /\ pc[s] \in AfterEnqueue => Queued(s)
      /\ pc[s] \in {"new", "rejected"} => ~Queued(s)
  BY DEF AnswersMatchQueue, AfterEnqueue
<1>2. CASE UNCHANGED pushed
  <2>1. Queued(s)' <=> Queued(s)
    BY <1>2 DEF Queued
  <2>2. ~(pc[s] = "enqueue" /\ pc'[s] = "pending")
    <3> SUFFICES ASSUME LPushJob(s) PROVE FALSE
      BY RequestSteps DEF AfterEnqueue
    <3> QED
      BY <1>2, QueuedGrows DEF TypeOK
  <2> QED
    BY <1>1, <2>1, <2>2, RequestSteps DEF AfterEnqueue
<1>3. ASSUME NEW x \in Subs, Enqueue(x), LPushJob(x)
      PROVE  /\ pc'[s] \in AfterEnqueue => Queued(s)'
             /\ pc'[s] \in {"new", "rejected"} => ~Queued(s)'
  <2>1. Queued(s)' <=> Queued(s) \/ s = x
    BY <1>3, QueuedGrows DEF TypeOK
  <2>2. pc[x] = "enqueue"
    BY <1>3 DEF Enqueue
  <2>3. LPushJob(s) => s = x
    BY <1>3, QueuedGrows DEF TypeOK
  <2> QED
    BY <1>1, <2>1, <2>2, <2>3, RequestSteps DEF AfterEnqueue
<1> QED
  BY <1>2, <1>3, QueueSteps DEF BRPop

(***************************************************************************)
(* Every 202 stands for a queued job and every 4xx for none, whatever      *)
(* fails.                                                                  *)
(***************************************************************************)
THEOREM Answers == Spec => []AnswersMatchQueue
<1>1. Init => AnswersMatchQueue
  BY ActorsAssumption DEF Init, AnswersMatchQueue, Queued, Actors
<1>2. IInv /\ AnswersMatchQueue /\ [Next]_vars => AnswersMatchQueue'
  BY AnswersStep DEF IInv
<1> QED
  BY <1>1, <1>2, Invariance, PTL DEF Spec

-----------------------------------------------------------------------------
(***************************************************************************)
(* Without I/O errors no command is retried, so every submission is queued *)
(* once at most, and no two workers ever work in the same directory.       *)
(***************************************************************************)
QueuedOnce ==
  /\ retry = {}
  /\ \A s \in Subs : pc[s] = "enqueue" => ~Queued(s)
  /\ \A i, j \in DOMAIN pushed : pushed[i] = pushed[j] => i = j

(***************************************************************************)
(* Without I/O errors no caller is ever at a second attempt.               *)
(***************************************************************************)
LEMMA NoRetry ==
  ASSUME "io" \notin Events, retry = {}, [Next]_vars
  PROVE  retry' = {}
<1>1. \A a : \A ran \in BOOLEAN :
        Answered(a) \/ Retried(a, ran) \/ Failed(a, ran) => retry' = {}
  BY DEF Answered, Retried, Failed
<1>2. ASSUME NEW s \in Subs, Request(s) PROVE retry' = {}
  BY <1>1, <1>2 DEF Request, Authorize, Enqueue, MarkPending, Record, Trim,
                    GetResult, GetStatus, Command
<1>3. ASSUME NEW w \in Workers, WorkerStep(w) PROVE retry' = {}
  BY <1>1, <1>3 DEF WorkerStep, Connect, GiveUp, CheckRunning, Dequeue,
                    MarkCompiling, MarkRunning, Evaluate, StoreResult, Publish,
                    Command, conn
<1>4. ASSUME PoolDies \/ Restart \/ Stop \/ UNCHANGED vars \/ \E s \in Subs : Expire(s)
      PROVE  retry' = {}
  BY <1>4 DEF PoolDies, Restart, Stop, Expire, vars, conn
<1> QED
  BY <1>2, <1>3, <1>4 DEF Next, Terminate, Crash

(***************************************************************************)
(* And a handler leaves the enqueue step after one LPUSH.                  *)
(***************************************************************************)
LEMMA EnqueuesOnce ==
  ASSUME "io" \notin Events, TypeOK, NEW s \in Subs, Enqueue(s)
  PROVE  pc'[s] # "enqueue"
  BY DEF Enqueue, Command, Retried, Goto, TypeOK, ProcessTypeOK, Actors

(***************************************************************************)
(* So no step queues a submission a second time.                           *)
(***************************************************************************)
LEMMA QueuedOnceStep ==
  ASSUME "io" \notin Events, TypeOK, AnswersMatchQueue, QueuedOnce, [Next]_vars
  PROVE  QueuedOnce'
<1>1. retry' = {}
  BY NoRetry DEF QueuedOnce
<1>2. CASE UNCHANGED pushed
  <2>1. \A s \in Subs : Queued(s)' <=> Queued(s)
    BY <1>2 DEF Queued
  <2>2. ASSUME NEW s \in Subs, pc'[s] = "enqueue" PROVE ~Queued(s)'
    <3>1. pc[s] \in {"new", "enqueue"}
      BY <2>2, RequestSteps DEF AfterEnqueue
    <3> QED
      BY <2>1, <3>1 DEF QueuedOnce, AnswersMatchQueue
  <2> QED
    BY <1>1, <1>2, <2>2 DEF QueuedOnce
<1>3. ASSUME NEW x \in Subs, Enqueue(x), LPushJob(x) PROVE QueuedOnce'
  <2>1. ~Queued(x) /\ pc'[x] # "enqueue"
    BY <1>3, EnqueuesOnce DEF QueuedOnce, Enqueue
  <2>2. ASSUME NEW s \in Subs, pc'[s] = "enqueue" PROVE ~Queued(s)'
    <3>1. s # x
      BY <2>1, <2>2
    <3>2. Queued(s)' <=> Queued(s)
      BY <1>3, <3>1, QueuedGrows DEF TypeOK
    <3>3. pc[s] \in {"new", "enqueue"}
      BY <2>2, RequestSteps DEF AfterEnqueue
    <3> QED
      BY <3>2, <3>3 DEF QueuedOnce, AnswersMatchQueue
  <2>3. \A i \in 1 .. Len(pushed) : pushed[i] # x
    BY <1>3, <2>1, QueuedGrows DEF Queued, TypeOK
  <2>4. /\ Len(pushed) \in Nat
        /\ DOMAIN pushed = 1 .. Len(pushed)
        /\ DOMAIN pushed' = 1 .. Len(pushed) + 1
        /\ pushed'[Len(pushed) + 1] = x
        /\ \A i \in 1 .. Len(pushed) : pushed'[i] = pushed[i]
    BY <1>3, QueuedGrows DEF TypeOK
  <2>5. \A i, j \in 1 .. Len(pushed) : pushed[i] = pushed[j] => i = j
    BY <2>4 DEF QueuedOnce
  <2>6. ASSUME NEW i \in DOMAIN pushed', NEW j \in DOMAIN pushed', pushed'[i] = pushed'[j]
        PROVE  i = j
    <3>1. /\ i \in 1 .. Len(pushed) \/ i = Len(pushed) + 1
          /\ j \in 1 .. Len(pushed) \/ j = Len(pushed) + 1
      BY <2>4
    <3> QED
      BY <2>3, <2>4, <2>5, <2>6, <3>1
  <2> QED
    BY <1>1, <2>2, <2>6 DEF QueuedOnce
<1> QED
  BY <1>2, <1>3, QueueSteps DEF BRPop

(***************************************************************************)
(* With one job per submission, two workers that hold the same submission  *)
(* would hold the same job.                                                *)
(***************************************************************************)
LEMMA OneJobOneDirectory ==
  ASSUME IInv, QueuedOnce
  PROVE  ExclusiveWorkDir
<1> SUFFICES ASSUME NEW w \in Workers, NEW x \in Workers, Busy(w), Busy(x), Sub(w) = Sub(x)
             PROVE  w = x
  BY DEF ExclusiveWorkDir
<1>1. job[w] \in 1 .. Len(popped) /\ job[x] \in 1 .. Len(popped)
  BY SubOfJob DEF IInv
<1>2. /\ Len(popped) \in Nat /\ Len(pushed) \in Nat /\ Len(queue) \in Nat
      /\ DOMAIN pushed = 1 .. Len(pushed)
  BY LenProperties DEF IInv, TypeOK, StoreTypeOK
<1>3. job[w] \in DOMAIN pushed /\ job[x] \in DOMAIN pushed
  BY <1>1, <1>2 DEF IInv, RoutedInOrder
<1>4. pushed[job[w]] = pushed[job[x]]
  BY <1>1 DEF IInv, RoutedInOrder, Sub
<1>5. job[w] = job[x]
  BY <1>3, <1>4 DEF QueuedOnce
<1> QED
  BY <1>5 DEF IInv, JobsConserved

(***************************************************************************)
(* Without I/O errors every submission is queued once at most.             *)
(***************************************************************************)
LEMMA Once ==
  ASSUME "io" \notin Events
  PROVE  Spec => []QueuedOnce
<1>1. Init => QueuedOnce
  BY ActorsAssumption DEF Init, QueuedOnce, Actors
<1>2. IInv /\ AnswersMatchQueue /\ QueuedOnce /\ [Next]_vars => QueuedOnce'
  BY QueuedOnceStep DEF IInv
<1> QED
  BY <1>1, <1>2, Invariance, Answers, PTL DEF Spec

(***************************************************************************)
(* No two workers evaluate in the same directory, however many there are,  *)
(* and also when connections are cut, the pool dies or keys expire.        *)
(***************************************************************************)
THEOREM WorkDirs ==
  ASSUME "io" \notin Events
  PROVE  Spec => []ExclusiveWorkDir
<1>1. IInv /\ QueuedOnce => ExclusiveWorkDir
  BY OneJobOneDirectory
<1> QED
  BY <1>1, Invariance, Once, PTL

-----------------------------------------------------------------------------
(***************************************************************************)
(* How many steps of its own a session or a worker thread is away from a   *)
(* place where it rests: an answer, or the end of the thread.  A command   *)
(* takes two at most, one for each attempt.                                *)
(***************************************************************************)
CommandSteps == {"new", "enqueue", "pending", "record", "trim", "getStatus",
                 "pop", "compiling", "run", "store", "publish"}

Stage == [rejected |-> 0, refused |-> 0, accepted |-> 0, getStatus |-> 1, trim |-> 1,
          record |-> 3, pending |-> 5, enqueue |-> 7, new |-> 9,
          exited |-> 0, down |-> 0, check |-> 1, connect |-> 2, publish |-> 2,
          store |-> 4, evaluate |-> 6, run |-> 7, compiling |-> 9, pop |-> 11]

StepsLeft(a) == Stage[pc[a]] + IF pc[a] \in CommandSteps /\ a \notin retry THEN 1 ELSE 0

Moves(a) == \/ a \in Subs /\ Request(a)
            \/ a \in Workers /\ (WorkerStep(a) \/ Terminate(a))

(***************************************************************************)
(* A client asks again, and a thread of a pool that runs takes a turn.     *)
(***************************************************************************)
Begins(a) == pc[a] = "accepted" \/ (pc[a] = "check" /\ running)

(***************************************************************************)
(* Every step of a session or a thread brings it nearer to its rest, and   *)
(* nothing anybody else does sets it back, unless an operator starts the   *)
(* pool again: so a request is answered, a job in hand published or lost,  *)
(* and the thread of a stopped pool ended after at most twelve steps of    *)
(* its own, whatever fails and whatever the others do.  StopTerminates is  *)
(* this and that the operating system schedules every thread whose         *)
(* evaluation, which is one step here, does not hang.                      *)
(***************************************************************************)
EveryTurnEnds ==
  [][ ~Restart => \A a \in Actors :
        /\ StepsLeft(a) \in 0 .. 12
        /\ Moves(a) /\ ~Begins(a) => StepsLeft(a)' < StepsLeft(a)
        /\ ~Moves(a) => StepsLeft(a)' <= StepsLeft(a) ]_vars

(***************************************************************************)
(* What a command does to its caller, by where it may go on.               *)
(***************************************************************************)
Called(a, steps) ==
  \/ pc' = pc /\ a \notin retry /\ retry' = retry \cup {a}
  \/ retry' = retry \ {a} /\ \E step \in steps : Goto(a, step)

Below(step) ==
  {x \in DOMAIN Stage : IF x \in CommandSteps THEN Stage[x] + 1 < Stage[step]
                                              ELSE Stage[x] < Stage[step]}

(***************************************************************************)
(* The numbers.                                                            *)
(***************************************************************************)
LEMMA Stages ==
  /\ DOMAIN Stage = HandlerSteps \cup WorkerSteps
  /\ \A x \in DOMAIN Stage : Stage[x] \in 0 .. 11
  BY DEF Stage, HandlerSteps, WorkerSteps

LEMMA StepsLeftType == TypeOK => \A a \in Actors : StepsLeft(a) \in 0 .. 12
  BY Stages DEF TypeOK, ProcessTypeOK, StepsLeft

(***************************************************************************)
(* A command that is done leads the caller on, and touches nobody else.    *)
(***************************************************************************)
LEMMA CalledAdvances ==
  ASSUME TypeOK, TypeOK', NEW a \in Actors, pc[a] \in CommandSteps, Called(a, Below(pc[a]))
  PROVE  /\ StepsLeft(a)' < StepsLeft(a)
         /\ \A x \in Actors \ {a} : StepsLeft(x)' = StepsLeft(x)
<1> USE DEF TypeOK, ProcessTypeOK, StepsLeft
<1>1. CASE pc' = pc /\ a \notin retry /\ retry' = retry \cup {a}
  BY <1>1, Stages
<1>2. CASE retry' = retry \ {a} /\ \E step \in Below(pc[a]) : Goto(a, step)
  <2>1. PICK step \in Below(pc[a]) : Goto(a, step)
    BY <1>2
  <2>2. pc'[a] = step /\ \A x \in Actors \ {a} : pc'[x] = pc[x]
    BY <2>1 DEF Goto
  <2>3. /\ Stage[step] \in Nat /\ Stage[pc[a]] \in Nat
        /\ \/ Stage[step] + 1 < Stage[pc[a]]
           \/ step \notin CommandSteps /\ Stage[step] < Stage[pc[a]]
    BY <2>1, Stages DEF Below
  <2> QED
    BY <1>2, <2>2, <2>3
<1> QED
  BY <1>1, <1>2 DEF Called

(***************************************************************************)
(* So every command of a handler or a worker does.                         *)
(***************************************************************************)
LEMMA Goes ==
  /\ \A a : \A ran \in BOOLEAN :
       /\ Answered(a) \/ Failed(a, ran) => retry' = retry \ {a}
       /\ Retried(a, ran) => a \notin retry /\ retry' = retry \cup {a}
  BY DEF Answered, Failed, Retried

LEMMA Order ==
  /\ {"rejected", "enqueue"} \subseteq Below("new")
  /\ {"pending", "refused"} \subseteq Below("enqueue")
  /\ {"record"} \subseteq Below("pending")
  /\ {"trim", "accepted"} \subseteq Below("record")
  /\ {"accepted"} \subseteq Below("trim")
  /\ {"accepted"} \subseteq Below("getStatus")
  /\ {"compiling", "check"} \subseteq Below("pop")
  /\ {"run"} \subseteq Below("compiling")
  /\ {"evaluate"} \subseteq Below("run")
  /\ {"publish"} \subseteq Below("store")
  /\ {"check"} \subseteq Below("publish")
  BY DEF Below, Stage, CommandSteps

LEMMA Onward ==
  ASSUME NEW a, NEW few, NEW many, few \subseteq many, Called(a, few)
  PROVE  Called(a, many)
  BY DEF Called

LEMMA RequestCalls ==
  ASSUME NEW s \in Subs, Request(s), pc[s] # "accepted"
  PROVE  pc[s] \in CommandSteps /\ Called(s, Below(pc[s]))
<1>1. CASE Authorize(s)
  <2>1. pc[s] = "new" /\ Called(s, {"rejected", "enqueue"})
    BY <1>1, Goes DEF Authorize, Command, Called
  <2> QED
    BY <2>1, Order, Onward DEF CommandSteps
<1>2. CASE Enqueue(s)
  <2>1. pc[s] = "enqueue" /\ Called(s, {"pending", "refused"})
    BY <1>2, Goes DEF Enqueue, Command, Called
  <2> QED
    BY <2>1, Order, Onward DEF CommandSteps
<1>3. CASE MarkPending(s)
  <2>1. pc[s] = "pending" /\ Called(s, {"record"})
    BY <1>3, Goes DEF MarkPending, Command, Called
  <2> QED
    BY <2>1, Order, Onward DEF CommandSteps
<1>4. CASE Record(s)
  <2>1. pc[s] = "record" /\ Called(s, {"trim", "accepted"})
    BY <1>4, Goes DEF Record, Command, Called
  <2> QED
    BY <2>1, Order, Onward DEF CommandSteps
<1>5. CASE Trim(s)
  <2>1. pc[s] = "trim" /\ Called(s, {"accepted"})
    BY <1>5, Goes DEF Trim, Command, Called
  <2> QED
    BY <2>1, Order, Onward DEF CommandSteps
<1>6. CASE GetStatus(s)
  <2>1. pc[s] = "getStatus" /\ Called(s, {"accepted"})
    BY <1>6, Goes DEF GetStatus, Command, Called
  <2> QED
    BY <2>1, Order, Onward DEF CommandSteps
<1> QED
  BY <1>1, <1>2, <1>3, <1>4, <1>5, <1>6 DEF Request, GetResult

LEMMA WorkerCalls ==
  ASSUME NEW w \in Workers,
         Dequeue(w) \/ MarkCompiling(w) \/ MarkRunning(w) \/ StoreResult(w) \/ Publish(w)
  PROVE  pc[w] \in CommandSteps /\ Called(w, Below(pc[w]))
<1>1. CASE Dequeue(w)
  <2>1. pc[w] = "pop" /\ Called(w, {"compiling", "check"})
    BY <1>1, Goes DEF Dequeue, Command, Called
  <2> QED
    BY <2>1, Order, Onward DEF CommandSteps
<1>2. CASE MarkCompiling(w)
  <2>1. pc[w] = "compiling" /\ Called(w, {"run"})
    BY <1>2, Goes DEF MarkCompiling, Command, Called
  <2> QED
    BY <2>1, Order, Onward DEF CommandSteps
<1>3. CASE MarkRunning(w)
  <2>1. pc[w] = "run" /\ Called(w, {"evaluate"})
    BY <1>3, Goes DEF MarkRunning, Command, Called
  <2> QED
    BY <2>1, Order, Onward DEF CommandSteps
<1>4. CASE StoreResult(w)
  <2>1. pc[w] = "store" /\ Called(w, {"publish"})
    BY <1>4, Goes DEF StoreResult, Command, Called
  <2> QED
    BY <2>1, Order, Onward DEF CommandSteps
<1>5. CASE Publish(w)
  <2>1. pc[w] = "publish" /\ Called(w, {"check"})
    BY <1>5, Goes DEF Publish, Command, Called
  <2> QED
    BY <2>1, Order, Onward DEF CommandSteps
<1> QED
  BY <1>1, <1>2, <1>3, <1>4, <1>5

(***************************************************************************)
(* The steps of a thread without a command.                                *)
(***************************************************************************)
LEMMA WorkerGoes ==
  ASSUME TypeOK, NEW w \in Workers,
         Connect(w) \/ GiveUp(w) \/ CheckRunning(w) \/ Evaluate(w)
  PROVE  /\ ~Begins(w) => StepsLeft(w)' < StepsLeft(w)
         /\ \A x \in Actors \ {w} : StepsLeft(x)' = StepsLeft(x)
<1> USE DEF TypeOK, ProcessTypeOK, StepsLeft, Actors, Begins
<1>1. \A step : Goto(w, step) => pc'[w] = step /\ \A x \in Actors \ {w} : pc'[x] = pc[x]
  BY DEF Goto
<1>2. retry' = retry
  BY DEF Connect, GiveUp, CheckRunning, Evaluate, conn
<1>3. \A x \in Actors \ {w} : StepsLeft(x)' = StepsLeft(x)
  BY <1>1, <1>2 DEF Connect, GiveUp, CheckRunning, Evaluate
<1>4. ~Begins(w) => \/ pc[w] = "connect" /\ pc'[w] \in {"check", "exited"}
                    \/ pc[w] = "check" /\ pc'[w] = "exited"
                    \/ pc[w] = "evaluate" /\ pc'[w] = "store"
  BY <1>1 DEF Connect, GiveUp, CheckRunning, Evaluate
<1>5. ~Begins(w) => StepsLeft(w)' < StepsLeft(w)
  BY <1>4 DEF Stage, CommandSteps
<1> QED
  BY <1>3, <1>5

(***************************************************************************)
(* When the process dies its threads are at rest.                          *)
(***************************************************************************)
LEMMA PoolDiesRests ==
  ASSUME TypeOK, PoolDies
  PROVE  /\ \A w \in Workers : StepsLeft(w)' = 0
         /\ \A s \in Subs : StepsLeft(s)' = StepsLeft(s)
<1>1. /\ \A w \in Workers : pc'[w] = "down"
      /\ \A s \in Subs : pc'[s] = pc[s] /\ (s \in retry' <=> s \in retry)
  BY ActorsAssumption DEF PoolDies, Actors
<1>2. \A w \in Workers : StepsLeft(w)' = 0
  BY <1>1 DEF StepsLeft, Stage, CommandSteps
<1> QED
  BY <1>1, <1>2 DEF StepsLeft

LEMMA TurnSteps ==
  ASSUME TypeOK, TypeOK', [Next]_vars, ~Restart, NEW a \in Actors
  PROVE  /\ Moves(a) /\ ~Begins(a) => StepsLeft(a)' < StepsLeft(a)
         /\ ~Moves(a) => StepsLeft(a)' <= StepsLeft(a)
<1>0. /\ StepsLeft(a) \in 0 .. 12 /\ StepsLeft(a)' \in 0 .. 12
      /\ a \in Subs <=> a \notin Workers
  <2>1. \A x \in Actors : StepsLeft(x) \in 0 .. 12
    BY StepsLeftType
  <2>2. \A x \in Actors : StepsLeft(x)' \in 0 .. 12
    BY Stages DEF TypeOK, ProcessTypeOK, StepsLeft
  <2> QED
    BY <2>1, <2>2, ActorsAssumption DEF Actors
<1>1. ASSUME NEW s \in Subs, Request(s), pc[s] # "accepted"
      PROVE  /\ StepsLeft(s)' < StepsLeft(s)
             /\ \A x \in Actors \ {s} : StepsLeft(x)' = StepsLeft(x)
  BY <1>1, RequestCalls, CalledAdvances DEF Actors
<1>2. ASSUME NEW s \in Subs, Request(s), pc[s] = "accepted"
      PROVE  \A x \in Actors \ {s} : StepsLeft(x)' = StepsLeft(x)
  <2>1. \A step : Goto(s, step) => \A x \in Actors \ {s} : pc'[x] = pc[x]
    BY DEF Goto, TypeOK, ProcessTypeOK
  <2>2. GetResult(s)
    BY <1>2 DEF Request, Authorize, Enqueue, MarkPending, Record, Trim, GetStatus
  <2>3. \A x \in Actors \ {s} : pc'[x] = pc[x] /\ (x \in retry' <=> x \in retry)
    BY <2>1, <2>2, Goes DEF GetResult, Command
  <2> QED
    BY <2>3 DEF StepsLeft
<1>3. ASSUME NEW w \in Workers, WorkerStep(w)
      PROVE  /\ ~Begins(w) => StepsLeft(w)' < StepsLeft(w)
             /\ \A x \in Actors \ {w} : StepsLeft(x)' = StepsLeft(x)
  BY <1>3, WorkerCalls, WorkerGoes, CalledAdvances DEF WorkerStep, Actors
<1>4. ASSUME NEW w \in Workers, Terminate(w)
      PROVE  StepsLeft(w)' < StepsLeft(w)
  <2>1. StepsLeft(w)' = 0
    BY <1>4, PoolDiesRests DEF Terminate
  <2>2. pc[w] \in {"store", "evaluate"}
    BY <1>4 DEF Terminate
  <2>3. StepsLeft(w) # 0
    BY <2>2 DEF StepsLeft, Stage, CommandSteps
  <2> QED
    BY <2>1, <2>3, StepsLeftType DEF Actors
<1>5. ASSUME PoolDies PROVE StepsLeft(a)' <= StepsLeft(a)
  BY <1>0, <1>5, PoolDiesRests DEF Actors
<1>6. ASSUME Stop \/ UNCHANGED vars \/ \E s \in Subs : Expire(s)
      PROVE  StepsLeft(a)' = StepsLeft(a)
  <2>1. UNCHANGED <<pc, retry>>
    BY <1>6 DEF Stop, Expire, vars, conn
  <2> QED
    BY <2>1 DEF StepsLeft
<1>7. Moves(a) /\ ~Begins(a) => StepsLeft(a)' < StepsLeft(a)
  BY <1>1, <1>3, <1>4 DEF Moves, Begins
<1>8. ASSUME ~Moves(a) PROVE StepsLeft(a)' <= StepsLeft(a)
  <2>1. CASE \E s \in Subs : Request(s)
    <3>1. PICK s \in Subs : Request(s)
      BY <2>1
    <3>2. a \in Actors \ {s}
      BY <1>8, <3>1 DEF Moves
    <3>3. StepsLeft(a)' = StepsLeft(a)
      BY <1>1, <1>2, <3>1, <3>2
    <3> QED
      BY <1>0, <3>3
  <2>2. CASE \E w \in Workers : WorkerStep(w)
    <3>1. PICK w \in Workers : WorkerStep(w)
      BY <2>2
    <3>2. a \in Actors \ {w}
      BY <1>8, <3>1 DEF Moves
    <3>3. StepsLeft(a)' = StepsLeft(a)
      BY <1>3, <3>1, <3>2
    <3> QED
      BY <1>0, <3>3
  <2>3. CASE PoolDies
    BY <1>5, <2>3
  <2>4. CASE Stop \/ UNCHANGED vars \/ \E s \in Subs : Expire(s)
    BY <1>0, <1>6, <2>4
  <2> QED
    BY <2>1, <2>2, <2>3, <2>4 DEF Next, Terminate, Crash
<1> QED
  BY <1>7, <1>8

(***************************************************************************)
(* Nobody in the pipeline goes round for ever within one request or one    *)
(* job, whatever fails.                                                    *)
(***************************************************************************)
THEOREM TurnsEnd == Spec => EveryTurnEnds
<1>1. TypeOK /\ TypeOK' /\ [Next]_vars =>
        [ ~Restart => \A a \in Actors :
            /\ StepsLeft(a) \in 0 .. 12
            /\ Moves(a) /\ ~Begins(a) => StepsLeft(a)' < StepsLeft(a)
            /\ ~Moves(a) => StepsLeft(a)' <= StepsLeft(a) ]_vars
  BY StepsLeftType, TurnSteps
<1> QED
  BY <1>1, TypeCorrect, PTL DEF Spec, EveryTurnEnds

=============================================================================
