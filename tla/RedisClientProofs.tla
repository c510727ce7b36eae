------------------------- MODULE RedisClientProofs --------------------------
(***************************************************************************)
(* Proofs about RedisClient: a command runs at most twice, exec_command    *)
(* keeps the contract the other modules are built on, and a call takes at  *)
(* most seven steps and never waits for what cannot come.                  *)
(***************************************************************************)
EXTENDS RedisClient, TLAPS

(***************************************************************************)
(* Where a command is: nothing is under way before it is written, one      *)
(* attempt is executed at most once, and what ctx_ says at the end of an   *)
(* attempt follows from what it said at the beginning.                     *)
(***************************************************************************)
Underway ==
  /\ step # "wait" => wire = "empty"
  /\ step \in {"write", "reconnect"} \/ wire = "request" => now = 0
  /\ wire = "request" => link = "open"
  /\ wire = "reply" => Ran /\ link \in {"open", "closed"}
  /\ step # "idle" => answer = "none"
  /\ attempt = 2 /\ now = 0 => runs <= 1

Attempted ==
  /\ step = "write" => before = Health(ctx)
  /\ step = "wait" => ctx = "ok" /\ before = "ok"
  /\ step = "reconnect" => ctx = "null" /\ before = "ok" /\ attempt = 2
  /\ step = "check" => /\ ctx # "ok"
                       /\ ctx = "io" => before \in {"ok", "io"}
                       /\ ctx = "null" => before = "dead"
                       /\ ctx = "eof" => before \in {"ok", "dead"}
                       /\ Ran => before = "ok"

IInv == TypeOK /\ AtMostTwice /\ Underway /\ Attempted

(***************************************************************************)
(* The invariant holds of a client that has not connected yet.             *)
(***************************************************************************)
LEMMA InitIInv == Init => IInv
  BY DEF Init, IInv, TypeOK, AtMostTwice, Underway, Attempted, Steps, Ran

(***************************************************************************)
(* Every step of the client, the server and the network keeps it.          *)
(***************************************************************************)
LEMMA NextIInv == IInv /\ [Next]_vars => IInv'
<1> SUFFICES ASSUME IInv, [Next]_vars PROVE IInv'
  OBVIOUS
<1> USE DEF IInv, TypeOK, AtMostTwice, Underway, Attempted, Health, Steps, Ran
<1>1. CASE Call
  BY <1>1 DEF Call
<1>2. CASE Start
  BY <1>2 DEF Start, Connected
<1>3. CASE Refuse \/ Write \/ IOError \/ EndOfStream \/ Receive
  BY <1>3 DEF Refuse, Write, IOError, EndOfStream, Receive
<1>4. CASE GiveUp
  BY <1>4 DEF GiveUp, MayRetry
<1>9. CASE Disconnect
  BY <1>9 DEF Disconnect, MayRetry
<1>5. CASE Reconnect \/ ReconnectFails
  BY <1>5 DEF Reconnect, ReconnectFails, Connected
<1>6. CASE Execute
  BY <1>6 DEF Execute
<1>7. CASE Network
  BY <1>7 DEF Network, Close, Reset, ServerStops, ServerStarts, Broken
<1>8. CASE UNCHANGED vars
  BY <1>8 DEF vars
<1> QED
  BY <1>1, <1>2, <1>3, <1>4, <1>5, <1>6, <1>7, <1>8, <1>9 DEF Next, Client

(***************************************************************************)
(* Hence it holds in every reachable state.                                *)
(***************************************************************************)
LEMMA Invariance == Spec => []IInv
  BY InitIInv, NextIInv, PTL DEF Spec

(***************************************************************************)
(* Every variable keeps its type: a command is at its first or second      *)
(* attempt, whatever the network does.                                     *)
(***************************************************************************)
THEOREM TypeCorrect == Spec => []TypeOK
<1>1. IInv => TypeOK
  BY DEF IInv
<1> QED
  BY <1>1, Invariance, PTL

(***************************************************************************)
(* One command runs at most twice, however the connection breaks.          *)
(***************************************************************************)
THEOREM RunsAtMostTwice == Spec => []AtMostTwice
<1>1. IInv => AtMostTwice
  BY DEF IInv
<1> QED
  BY <1>1, Invariance, PTL

(***************************************************************************)
(* Every step of a call is allowed by the contract in RedisCall.           *)
(***************************************************************************)
LEMMA StepKeepsContract ==
  ASSUME IInv, [Next]_vars
  PROVE  /\ Returns => \/ answer' = "reply" /\ Ran /\ Contract!Answered(Me)
                       \/ answer' = "nullptr" /\ Contract!Failed(Me, Ran)
         /\ ~Returns /\ step # "start" =>
              \/ Contract!Retried(Me, Ran)
              \/ AbstractCtx' = AbstractCtx /\ AbstractRetry' = AbstractRetry
<1> USE DEF IInv, TypeOK, AtMostTwice, Underway, Attempted, Health, Steps, Ran,
            Returns, AbstractCtx, AbstractRetry, Self
<1>1. CASE Call \/ Start
  BY <1>1 DEF Call, Start
<1>2. CASE Refuse \/ Write \/ IOError \/ EndOfStream \/ Reconnect
  BY <1>2 DEF Refuse, Write, IOError, EndOfStream, Reconnect
<1>3. CASE Receive
  BY <1>3 DEF Receive, Contract!Answered
<1>4. CASE GiveUp
  BY <1>4 DEF GiveUp, MayRetry, Contract!Failed
<1>5. CASE Disconnect
  BY <1>5 DEF Disconnect, MayRetry, Contract!Retried
<1>6. CASE ReconnectFails
  BY <1>6 DEF ReconnectFails, Contract!Failed
<1>7. CASE Execute \/ Network \/ UNCHANGED vars
  BY <1>7 DEF Execute, Network, Close, Reset, ServerStops, ServerStarts, vars
<1> QED
  BY <1>1, <1>2, <1>3, <1>4, <1>5, <1>6, <1>7 DEF Next, Client

(***************************************************************************)
(* So exec_command implements its contract.                                *)
(***************************************************************************)
THEOREM ContractKept == Spec => KeepsContract
<1>1. IInv /\ [Next]_vars =>
        [ /\ Returns => \/ answer' = "reply" /\ Ran /\ Contract!Answered(Me)
                        \/ answer' = "nullptr" /\ Contract!Failed(Me, Ran)
          /\ ~Returns /\ step # "start" =>
               \/ Contract!Retried(Me, Ran)
               \/ AbstractCtx' = AbstractCtx /\ AbstractRetry' = AbstractRetry ]_vars
  BY StepKeepsContract
<1> QED
  BY <1>1, Invariance, PTL DEF Spec, KeepsContract

-----------------------------------------------------------------------------
(***************************************************************************)
(* How many steps of the thread a call still takes: three for an attempt,  *)
(* and one for the reconnection between the two.                           *)
(***************************************************************************)
StepsLeft ==
  IF step \in {"start", "idle"} THEN 0
  ELSE [check |-> 1, wait |-> 2, write |-> 3, reconnect |-> 4][step]
       + IF attempt = 1 THEN 4 ELSE 0

(***************************************************************************)
(* Every step of the thread brings a call nearer to its end, and nothing   *)
(* the server or the network does sets it back: what is left of            *)
(* EveryCallReturns is that the thread and the server run.                 *)
(***************************************************************************)
CallAdvances ==
  [][ step \notin {"start", "idle"} =>
        /\ Client => StepsLeft' < StepsLeft
        /\ ~Client => StepsLeft' = StepsLeft ]_vars

LEMMA StepAdvances ==
  ASSUME IInv, [Next]_vars, step \notin {"start", "idle"}
  PROVE  /\ Client => StepsLeft' < StepsLeft
         /\ ~Client => StepsLeft' = StepsLeft
<1> USE DEF IInv, TypeOK, Attempted, Steps, StepsLeft
<1>1. CASE Refuse \/ Write \/ IOError \/ EndOfStream \/ Receive
  BY <1>1 DEF Refuse, Write, IOError, EndOfStream, Receive, Client
<1>2. CASE GiveUp \/ Disconnect
  BY <1>2 DEF GiveUp, Disconnect, MayRetry, Client
<1>3. CASE Reconnect \/ ReconnectFails
  BY <1>3 DEF Reconnect, ReconnectFails, Client
<1>4. CASE ~Client
  BY <1>4 DEF Next, Call, Execute, Network, Close, Reset, ServerStops, ServerStarts, vars
<1> QED
  BY <1>1, <1>2, <1>3, <1>4 DEF Client, Start

(***************************************************************************)
(* A call takes seven steps of its thread at most, retry included.         *)
(***************************************************************************)
THEOREM CallsAdvance == Spec => CallAdvances
<1>1. IInv /\ [Next]_vars =>
        [ step \notin {"start", "idle"} =>
            /\ Client => StepsLeft' < StepsLeft
            /\ ~Client => StepsLeft' = StepsLeft ]_vars
  BY StepAdvances
<1> QED
  BY <1>1, Invariance, PTL DEF Spec, CallAdvances

(***************************************************************************)
(* And the thread is never stuck: it writes to a context it has, and when  *)
(* it waits, a reply is there, or the connection has ended, or a server    *)
(* that is up has its request and will answer it.                          *)
(***************************************************************************)
NeverStuck ==
  /\ StepsLeft <= 7
  /\ step = "write" => ctx \in {"io", "eof"} \/ (ctx = "ok" /\ link # "none")
  /\ step = "wait" => \/ wire = "reply"
                      \/ link \in {"closed", "reset"}
                      \/ wire = "request" /\ link = "open" /\ server

(***************************************************************************)
(* An open connection has a server, and a context without an error has a   *)
(* connection on which the request is, unless the stream has ended.        *)
(***************************************************************************)
Wired ==
  /\ link = "open" => server
  /\ ctx = "ok" => link # "none"
  /\ step = "wait" /\ link = "open" => wire # "empty"
  /\ step = "write" => ctx # "null"

LEMMA WiredHolds == Spec => []Wired
<1>1. Init => Wired
  BY DEF Init, Wired
<1>2. IInv /\ Wired /\ [Next]_vars => Wired'
  <2> SUFFICES ASSUME IInv, Wired, [Next]_vars PROVE Wired'
    OBVIOUS
  <2> USE DEF IInv, TypeOK, Attempted, Steps, Wired
  <2>1. CASE Call
    BY <2>1 DEF Call
  <2>2. CASE Start \/ Reconnect \/ ReconnectFails
    BY <2>2 DEF Start, Reconnect, ReconnectFails, Connected
  <2>3. CASE Refuse \/ Write \/ IOError \/ EndOfStream \/ Receive
    BY <2>3 DEF Refuse, Write, IOError, EndOfStream, Receive
  <2>4. CASE GiveUp \/ Disconnect
    BY <2>4 DEF GiveUp, Disconnect
  <2>5. CASE Execute
    BY <2>5 DEF Execute
  <2>6. CASE Network
    BY <2>6 DEF Network, Close, Reset, ServerStops, ServerStarts, Broken
  <2>7. CASE UNCHANGED vars
    BY <2>7 DEF vars
  <2> QED
    BY <2>1, <2>2, <2>3, <2>4, <2>5, <2>6, <2>7 DEF Next, Client
<1> QED
  BY <1>1, <1>2, Invariance, PTL DEF Spec

(***************************************************************************)
(* No order of breaks and restarts of the server leaves a call where it    *)
(* cannot go on.                                                           *)
(***************************************************************************)
THEOREM NothingSticks == Spec => []NeverStuck
<1>1. IInv /\ Wired => NeverStuck
  BY DEF IInv, TypeOK, Attempted, Wired, NeverStuck, StepsLeft, Steps
<1> QED
  BY <1>1, Invariance, WiredHolds, PTL

=============================================================================
