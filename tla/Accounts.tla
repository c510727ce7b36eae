------------------------------ MODULE Accounts -------------------------------
(***************************************************************************)
(* Accounts and sessions: POST /auth/register, POST /auth/login and        *)
(* GET /auth/me over the keys ocpe:user:<name> and ocpe:token:<token>.     *)
(*                                                                         *)
(* A registration is a GET and a SET that nothing holds together, then a   *)
(* login of its own; every command may end in each of the ways             *)
(* exec_command ends (RedisCall), also without the handler knowing whether *)
(* it ran.                                                                 *)
(*                                                                         *)
(* Salt and hash are left out: a stored password matches the same password *)
(* and no other.  Every login draws a token of its own, which outlives the *)
(* behaviours of the model (its TTL is seven days).                        *)
(***************************************************************************)
EXTENDS Naturals, FiniteSets, Verdicts

CONSTANTS
  Requests,   \* requests to register or to log in
  Api,        \* the RedisClient of the API server
  Names,
  Passwords,
  Name,       \* the name in a request
  Password,   \* the password in it
  Events      \* what may go wrong, see RedisCall

ASSUME NameAssumption == Name \in [Requests -> Names]
ASSUME PasswordAssumption == Password \in [Requests -> Passwords] /\ Absent \notin Passwords
ASSUME NamesAssumption == Absent \notin Names

VARIABLES
  \* Redis
  user,         \* the password behind ocpe:user:<name>
  token,        \* the name behind ocpe:token:<the token of the request>
  \* the API server
  pc,           \* the next step of a request, or its answer
  ctx,          \* the connection of the API's RedisClient
  retry,        \* requests at the second attempt of their command
  registering,  \* the requests that came to POST /auth/register
  shown,        \* what GET /auth/me last said about the token
  \* history
  created,      \* the requests whose SET of the account was executed
  blind,        \* registrations whose check of the name had no answer
  overlap       \* registrations that were between check and SET when it was

ClientOf(r) == Api

INSTANCE RedisCall

store == <<user, token, created, overlap>>
conn  == <<ctx, retry>>
vars  == <<store, conn, pc, registering, shown, blind>>

Answers == {"invalid", "exists", "failed", "half", "denied", "in"}
Steps   == {"new", "check", "create", "login", "token"} \cup Answers

Goto(r, step) == pc' = [pc EXCEPT ![r] = step]

-----------------------------------------------------------------------------
(***************************************************************************)
(* The commands.                                                           *)
(***************************************************************************)
NoEffect == UNCHANGED store

SetUser(r) ==
  /\ user' = [user EXCEPT ![Name[r]] = Password[r]]
  /\ created' = created \cup {r}
  /\ overlap' = [overlap EXCEPT ![r] =
       @ \cup {q \in Requests \ {r} : pc[q] = "create" /\ Name[q] = Name[r]}]
  /\ UNCHANGED token

SetToken(r) ==
  /\ token' = [token EXCEPT ![r] = Name[r]]
  /\ UNCHANGED <<user, created, overlap>>

Command(r, Eff, ok, fail) ==
  \/ Answered(r) /\ Eff /\ Goto(r, ok)
  \/ \E ran \in BOOLEAN :
       /\ IF ran THEN Eff ELSE NoEffect
       /\ \/ Retried(r, ran) /\ UNCHANGED pc
          \/ Failed(r, ran) /\ Goto(r, fail)

-----------------------------------------------------------------------------
\* Mutant: both routes call register_user.
ArriveRegistering(r) ==
  /\ pc[r] = "new"
  /\ \/ Goto(r, "invalid") /\ UNCHANGED registering
     \/ Goto(r, "check") /\ UNCHANGED registering
     \/ Goto(r, "check") /\ registering' = registering \cup {r}
  /\ UNCHANGED <<store, conn, shown, blind>>

(***************************************************************************)
(* A request arrives: a body that is not JSON, or a name or password that  *)
(* register_user refuses, costs no command.                                *)
(***************************************************************************)
Arrive(r) ==
  /\ pc[r] = "new"
  /\ \/ Goto(r, "invalid") /\ UNCHANGED registering
     \/ Goto(r, "login") /\ UNCHANGED registering
     \/ Goto(r, "check") /\ registering' = registering \cup {r}
  /\ UNCHANGED <<store, conn, shown, blind>>

\* Mutant: the name is not looked up.
CheckNothing(r) ==
  /\ pc[r] = "check"
  /\ Goto(r, "create")
  /\ UNCHANGED <<store, conn, registering, shown, blind>>

(***************************************************************************)
(* register_user: a check without an answer counts as a free name.         *)
(***************************************************************************)
Check(r) ==
  /\ pc[r] = "check"
  /\ \/ /\ Answered(r)
        /\ Goto(r, IF user[Name[r]] # Absent THEN "exists" ELSE "create")
        /\ UNCHANGED blind
     \/ /\ Retried(r, FALSE)
        /\ UNCHANGED <<pc, blind>>
     \/ /\ Failed(r, FALSE)
        /\ Goto(r, "create")
        /\ blind' = blind \cup {r}
  /\ UNCHANGED <<store, registering, shown>>

Create(r) ==
  /\ pc[r] = "create"
  /\ Command(r, SetUser(r), "login", "failed")
  /\ UNCHANGED <<registering, shown, blind>>

(***************************************************************************)
(* login: without a session POST /auth/register answers 500, the account   *)
(* being created, and POST /auth/login 401.                                *)
(***************************************************************************)
NoSession(r) == IF r \in registering THEN "half" ELSE "denied"

\* Mutant: any stored password will do.
MatchesAny(r) == user[Name[r]] # Absent

Matches(r) == user[Name[r]] = Password[r]

Login(r) ==
  /\ pc[r] = "login"
  /\ Command(r, NoEffect, IF Matches(r) THEN "token" ELSE NoSession(r), NoSession(r))
  /\ UNCHANGED <<registering, shown, blind>>

\* Mutant: the session is returned whether or not its token was stored.
StartSessionUnchecked(r) ==
  /\ pc[r] = "token"
  /\ Command(r, SetToken(r), "in", "in")
  /\ UNCHANGED <<registering, shown, blind>>

StartSession(r) ==
  /\ pc[r] = "token"
  /\ Command(r, SetToken(r), "in", NoSession(r))
  /\ UNCHANGED <<registering, shown, blind>>

(***************************************************************************)
(* GET /auth/me of a user with a session: require_auth cannot tell a lost  *)
(* answer from an unknown token (401).                                     *)
(***************************************************************************)
Me(r) ==
  /\ pc[r] = "in"
  /\ \/ Answered(r) /\ shown' = [shown EXCEPT ![r] = token[r]]
     \/ Retried(r, FALSE) /\ UNCHANGED shown
     \/ Failed(r, FALSE) /\ shown' = [shown EXCEPT ![r] = Absent]
  /\ UNCHANGED <<store, pc, registering, blind>>

Handler(r) == Check(r) \/ Create(r) \/ Login(r) \/ StartSession(r)

-----------------------------------------------------------------------------
Init ==
  /\ user = [n \in Names |-> Absent]
  /\ token = [r \in Requests |-> Absent]
  /\ pc = [r \in Requests |-> "new"]
  /\ ctx = [c \in {Api} |-> "ok"]
  /\ retry = {}
  /\ registering = {}
  /\ shown = [r \in Requests |-> Absent]
  /\ created = {}
  /\ blind = {}
  /\ overlap = [r \in Requests |-> {}]

Next == \E r \in Requests : Arrive(r) \/ Handler(r) \/ Me(r)

Spec == Init /\ [][Next]_vars

-----------------------------------------------------------------------------
(***************************************************************************)
(* Type invariant.                                                         *)
(***************************************************************************)
TypeOK ==
  /\ user \in [Names -> Passwords \cup {Absent}]
  /\ token \in [Requests -> Names \cup {Absent}]
  /\ pc \in [Requests -> Steps]
  /\ ctx \in [{Api} -> {"ok", "io", "dead"}]
  /\ retry \subseteq Requests
  /\ registering \subseteq Requests
  /\ shown \in [Requests -> Names \cup {Absent}]
  /\ created \subseteq registering
  /\ blind \subseteq registering
  /\ overlap \in [Requests -> SUBSET Requests]

(***************************************************************************)
(* A session is opened only for a password somebody registered the name    *)
(* with, also when the account changes hands between the GET and the SET   *)
(* of a login, and when answers are lost: whoever never knew a password of *)
(* the name has no token and is shown nobody's name.                       *)
(***************************************************************************)
SessionsAreEarned ==
  \A r \in Requests :
    token[r] # Absent \/ shown[r] # Absent =>
      \E q \in created : Name[q] = Name[r] /\ Password[q] = Password[r]

(***************************************************************************)
(* Who was told that the name is registered (201) owns it for good, unless *)
(* another registration of the name was between its check and its SET at   *)
(* that moment, or had no answer to its check: nobody who comes later with *)
(* a working connection takes a name over.                                 *)
(***************************************************************************)
Overwrites(q, r) ==
  /\ Name[q] = Name[r]
  /\ user[Name[r]] = Password[q]
  /\ q \in overlap[r] \cup blind

LockedOutOnlyByRace ==
  \A r \in registering :
    pc[r] = "in" /\ user[Name[r]] # Password[r] => \E q \in created : Overwrites(q, r)

(***************************************************************************)
(* The other answers are true as well, whichever replies are lost: a 201   *)
(* or 200 comes with a token that is stored, "already exists" stands for   *)
(* an account another request created, "succeeded but login failed" for an *)
(* account of its own, and a login or an early refusal has created none.   *)
(* (Not so "Failed to create user": the lost command may have run.)        *)
(***************************************************************************)
AnswersMatchAccounts ==
  \A r \in Requests :
    /\ pc[r] = "in" => token[r] = Name[r]
    /\ pc[r] = "exists" => \E q \in created \ {r} : Name[q] = Name[r]
    /\ pc[r] = "half" => r \in created
    /\ pc[r] \in {"invalid", "exists", "denied"} => r \notin created

=============================================================================
