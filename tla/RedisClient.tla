---------------------------- MODULE RedisClient -----------------------------
(***************************************************************************)
(* One RedisClient object, used by one thread, step by step: what happens  *)
(* inside exec_command, in hiredis, on the connection and in the server    *)
(* while a command is under way.  The modules above see only the contract  *)
(* in RedisCall, which this module is shown to keep.                       *)
(*                                                                         *)
(* The kernel and hiredis are modelled from what exec_command depends on:  *)
(* a context with an error refuses every command; reading at the end of    *)
(* the stream records REDIS_ERR_EOF, any other failure REDIS_ERR_IO, and a *)
(* connection that breaks takes along the request that is still under way. *)
(* A server that is up and connected answers in the end: hiredis would     *)
(* wait for it for ever, since no command timeout is set.                  *)
(***************************************************************************)
EXTENDS Naturals

CONSTANT Me  \* the thread that uses the client

VARIABLES
  ctx,      \* ctx_: "null", or the error recorded on it ("ok", "io", "eof")
  link,     \* its socket: "none", "open", "closed" (end of stream), "reset"
  server,   \* the Redis process runs
  wire,     \* what is under way on the socket
  step,     \* the next step of the client
  attempt,  \* the attempt of the current or last command
  answer,   \* what the last exec_command returned
  runs,     \* history: how often the server ran the current command
  now,      \* history: and how often it did in the current attempt
  before    \* history: the state of the context the current attempt began with

vars == <<ctx, link, server, wire, step, attempt, answer, runs, now, before>>

Self(a) == Me

Steps == {"start", "idle", "write", "wait", "check", "reconnect"}

Ran == now = 1

Health(c) == IF c \in {"ok", "io"} THEN c ELSE "dead"

-----------------------------------------------------------------------------
(***************************************************************************)
(* connect() replaces the context; it needs a server and may fail anyway.  *)
(***************************************************************************)
Connected ==
  /\ server
  /\ ctx' = "ok"
  /\ link' = "open"
  /\ wire' = "empty"

(***************************************************************************)
(* Both programs repeat connect() before they go on, and give up on it     *)
(* without having issued a command.                                        *)
(***************************************************************************)
Start ==
  /\ step = "start"
  /\ Connected
  /\ step' = "idle"
  /\ UNCHANGED <<server, attempt, answer, runs, now, before>>

Call ==
  /\ step = "idle"
  /\ step' = IF ctx = "null" THEN "check" ELSE "write"
  /\ attempt' = 1
  /\ answer' = "none"
  /\ runs' = 0
  /\ now' = 0
  /\ before' = Health(ctx)
  /\ UNCHANGED <<ctx, link, server, wire>>

(***************************************************************************)
(* redisvCommand sends the request and waits.  Into a stream that has      *)
(* ended one can still write, but nobody reads it.                         *)
(***************************************************************************)
Refuse ==
  /\ step = "write"
  /\ ctx \in {"io", "eof"}
  /\ step' = "check"
  /\ UNCHANGED <<ctx, link, server, wire, attempt, answer, runs, now, before>>

Write ==
  /\ step = "write"
  /\ ctx = "ok"
  /\ link # "reset"
  /\ wire' = IF link = "open" THEN "request" ELSE "empty"
  /\ step' = "wait"
  /\ UNCHANGED <<ctx, link, server, attempt, answer, runs, now, before>>

IOError ==
  /\ step \in {"write", "wait"}
  /\ ctx = "ok"
  /\ link = "reset"
  /\ ctx' = "io"
  /\ step' = "check"
  /\ UNCHANGED <<link, server, wire, attempt, answer, runs, now, before>>

EndOfStream ==
  /\ step = "wait"
  /\ link = "closed"
  /\ wire # "reply"
  /\ ctx' = "eof"
  /\ step' = "check"
  /\ UNCHANGED <<link, server, wire, attempt, answer, runs, now, before>>

Receive ==
  /\ step = "wait"
  /\ wire = "reply"
  /\ wire' = "empty"
  /\ answer' = "reply"
  /\ step' = "idle"
  /\ UNCHANGED <<ctx, link, server, attempt, runs, now, before>>

\* Mutant: the retry is a loop.
MayRetryAgain == ctx = "io"

\* Mutant: a connection the server closed is retried too.
MayRetryAfterEOF == attempt = 1 /\ ctx \in {"io", "eof"}

(***************************************************************************)
(* No reply: only a first attempt that ended in REDIS_ERR_IO is repeated.  *)
(* reconnect() frees the context before it tries to get a new one.         *)
(***************************************************************************)
MayRetry == attempt = 1 /\ ctx = "io"

GiveUp ==
  /\ step = "check"
  /\ ~MayRetry
  /\ answer' = "nullptr"
  /\ step' = "idle"
  /\ UNCHANGED <<ctx, link, server, wire, attempt, runs, now, before>>

Disconnect ==
  /\ step = "check"
  /\ MayRetry
  /\ ctx' = "null"
  /\ link' = "none"
  /\ wire' = "empty"
  /\ step' = "reconnect"
  /\ attempt' = 2
  /\ now' = 0
  /\ before' = "ok"
  /\ UNCHANGED <<server, answer, runs>>

Reconnect ==
  /\ step = "reconnect"
  /\ Connected
  /\ step' = "write"
  /\ UNCHANGED <<server, attempt, answer, runs, now, before>>

\* Mutant: reconnect() is repeated until it succeeds.
ReconnectFailsAndRepeats ==
  /\ step = "reconnect"
  /\ UNCHANGED vars

ReconnectFails ==
  /\ step = "reconnect"
  /\ answer' = "nullptr"
  /\ step' = "idle"
  /\ UNCHANGED <<ctx, link, server, wire, attempt, runs, now, before>>

Client ==
  \/ Start \/ Refuse \/ Write \/ IOError \/ EndOfStream \/ Receive
  \/ GiveUp \/ Disconnect \/ Reconnect \/ ReconnectFails

-----------------------------------------------------------------------------
(***************************************************************************)
(* The server and the network.                                             *)
(***************************************************************************)
Execute ==
  /\ server
  /\ link = "open"
  /\ wire = "request"
  /\ wire' = "reply"
  /\ runs' = runs + 1
  /\ now' = now + 1
  /\ UNCHANGED <<ctx, link, server, step, attempt, answer, before>>

(***************************************************************************)
(* A reply that was sent before the stream ended can still be read; after  *)
(* a reset nothing can.                                                    *)
(***************************************************************************)
Broken(how) ==
  /\ link' = how
  /\ wire' = IF how = "closed" /\ wire = "reply" THEN "reply" ELSE "empty"

Close ==
  /\ link = "open"
  /\ Broken("closed")
  /\ UNCHANGED <<ctx, server, step, attempt, answer, runs, now, before>>

Reset ==
  /\ link \in {"open", "closed"}
  /\ Broken("reset")
  /\ UNCHANGED <<ctx, server, step, attempt, answer, runs, now, before>>

ServerStops ==
  /\ server
  /\ server' = FALSE
  /\ IF link = "open" THEN Broken("closed") \/ Broken("reset")
                      ELSE UNCHANGED <<link, wire>>
  /\ UNCHANGED <<ctx, step, attempt, answer, runs, now, before>>

ServerStarts ==
  /\ ~server
  /\ server' = TRUE
  /\ UNCHANGED <<ctx, link, wire, step, attempt, answer, runs, now, before>>

Network == Close \/ Reset \/ ServerStops \/ ServerStarts

-----------------------------------------------------------------------------
Init ==
  /\ ctx = "null"
  /\ link = "none"
  /\ server \in BOOLEAN
  /\ wire = "empty"
  /\ step = "start"
  /\ attempt = 1
  /\ answer = "none"
  /\ runs = 0
  /\ now = 0
  /\ before = "dead"

Next == Call \/ Client \/ Execute \/ Network

Spec == Init /\ [][Next]_vars

(***************************************************************************)
(* The thread runs and a server with a request executes it.  Breaking and  *)
(* restarting are left to chance.                                          *)
(***************************************************************************)
FairSpec == Spec /\ WF_vars(Client) /\ WF_vars(Execute)

-----------------------------------------------------------------------------
(***************************************************************************)
(* Type invariant.                                                         *)
(***************************************************************************)
TypeOK ==
  /\ ctx \in {"null", "ok", "io", "eof"}
  /\ link \in {"none", "open", "closed", "reset"}
  /\ server \in BOOLEAN
  /\ wire \in {"empty", "request", "reply"}
  /\ step \in Steps
  /\ attempt \in {1, 2}
  /\ answer \in {"none", "reply", "nullptr"}
  /\ runs \in 0 .. 2
  /\ now \in 0 .. 1
  /\ before \in {"ok", "io", "dead"}

(***************************************************************************)
(* However the connection breaks and the server restarts, one command runs *)
(* at most once per attempt, so at most twice, and a command that is       *)
(* answered ran in the attempt that is answered.                           *)
(***************************************************************************)
AtMostTwice ==
  /\ runs <= attempt
  /\ attempt = 1 => now = runs
  /\ answer = "reply" => Ran

(***************************************************************************)
(* The refinement mapping to RedisCall: an attempt counts as a whole when  *)
(* it ends.                                                                *)
(***************************************************************************)
AbstractCtx ==
  IF step \in {"start", "idle"} THEN Health(ctx) ELSE before

AbstractRetry ==
  IF step \notin {"start", "idle"} /\ attempt = 2 THEN {Me} ELSE {}

Contract == INSTANCE RedisCall WITH
  ClientOf <- Self,
  Events   <- {"io", "cut"},
  ctx      <- [c \in {Me} |-> AbstractCtx],
  retry    <- AbstractRetry

Returns == step \notin {"start", "idle"} /\ step' = "idle"

(***************************************************************************)
(* exec_command keeps the contract the models of its callers are built on: *)
(* it returns a reply only for a command that ran in the attempt that was  *)
(* answered, it retries only on a fresh connection, a failure may or may   *)
(* not have run the command, and a dead client stays dead.                 *)
(***************************************************************************)
KeepsContract ==
  [][ /\ Returns => \/ answer' = "reply" /\ Ran /\ Contract!Answered(Me)
                    \/ answer' = "nullptr" /\ Contract!Failed(Me, Ran)
      /\ ~Returns /\ step # "start" =>
           \/ Contract!Retried(Me, Ran)
           \/ AbstractCtx' = AbstractCtx /\ AbstractRetry' = AbstractRetry ]_vars

(***************************************************************************)
(* Every call returns, also when the server is gone: the retry is not      *)
(* repeated.                                                               *)
(***************************************************************************)
EveryCallReturns == step \notin {"start", "idle"} ~> step = "idle"

=============================================================================
