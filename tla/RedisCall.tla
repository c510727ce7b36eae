----------------------------- MODULE RedisCall ------------------------------
(***************************************************************************)
(* What RedisClient::exec_command promises its callers about one command,  *)
(* as the modules above it use it (module RedisClient has the steps inside *)
(* a call and is checked to keep this contract).                           *)
(*                                                                         *)
(* A client is one RedisClient object.  Its context ctx is                 *)
(*   "ok"    connected, without an error;                                  *)
(*   "io"    hiredis recorded REDIS_ERR_IO on it: the next command fails   *)
(*           at once and is retried on a new connection;                   *)
(*   "dead"  null (never connected, or a reconnect failed), or closed by   *)
(*           the server (REDIS_ERR_EOF): no later command reaches Redis.   *)
(* A caller is in retry while its command is at its second attempt.        *)
(*                                                                         *)
(* ran says whether Redis executed the command on the failed attempt.      *)
(***************************************************************************)
EXTENDS Naturals

CONSTANTS
  ClientOf(_),  \* the RedisClient a caller issues its commands on
  Events        \* what may happen to the system, a subset of the names below

VARIABLES ctx, retry

AllEvents == {"io", "cut", "crash", "restart", "stop", "expire", "throw"}

(***************************************************************************)
(* The command runs once more and its reply reaches the caller.            *)
(***************************************************************************)
Answered(a) ==
  /\ ctx[ClientOf(a)] = "ok"
  /\ retry' = retry \ {a}
  /\ UNCHANGED ctx

\* Mutant: a command is repeated for as long as it ends in REDIS_ERR_IO.
RetriedAgain(a, ran) ==
  /\ "io" \in Events
  /\ ctx[ClientOf(a)] \in (IF ran THEN {"ok"} ELSE {"ok", "io"})
  /\ retry' = retry \cup {a}
  /\ ctx' = [ctx EXCEPT ![ClientOf(a)] = "ok"]

(***************************************************************************)
(* The first attempt ends in REDIS_ERR_IO and exec_command prepares the    *)
(* second one.  Redis may have executed the command all the same.          *)
(***************************************************************************)
Retried(a, ran) ==
  /\ "io" \in Events
  /\ a \notin retry
  /\ ctx[ClientOf(a)] \in (IF ran THEN {"ok"} ELSE {"ok", "io"})
  /\ retry' = retry \cup {a}
  /\ ctx' = [ctx EXCEPT ![ClientOf(a)] = "ok"]

(***************************************************************************)
(* exec_command returns nullptr: the client is dead, or it dies now (the   *)
(* server closed the connection, or the reconnect before the second        *)
(* attempt failed), or the second attempt ends in REDIS_ERR_IO as well.    *)
(***************************************************************************)
Failed(a, ran) ==
  /\ ran => ctx[ClientOf(a)] = "ok"
  /\ retry' = retry \ {a}
  /\ \/ /\ ctx[ClientOf(a)] = "dead"
        /\ UNCHANGED ctx
     \/ /\ "cut" \in Events
        /\ ctx[ClientOf(a)] = "ok"
        /\ ctx' = [ctx EXCEPT ![ClientOf(a)] = "dead"]
     \/ /\ a \in retry
        /\ ctx[ClientOf(a)] # "dead"
        /\ ctx' = [ctx EXCEPT ![ClientOf(a)] = "io"]

=============================================================================
