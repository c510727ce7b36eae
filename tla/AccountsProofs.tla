--------------------------- MODULE AccountsProofs ---------------------------
(***************************************************************************)
(* Proofs about Accounts, for any number of requests, names and passwords  *)
(* and whichever replies are lost: sessions are earned, an account is lost *)
(* to a race or a blind registration only, and the answers are true.       *)
(***************************************************************************)
EXTENDS Accounts, TLAPS

USE NameAssumption, PasswordAssumption, NamesAssumption

(***************************************************************************)
(* Who has created what, by where a request is.                            *)
(***************************************************************************)
Registered ==
  \A r \in Requests :
    /\ pc[r] = "new" => r \notin registering
    /\ pc[r] \in {"check", "create", "half"} => r \in registering
    /\ pc[r] \in {"new", "check", "invalid", "exists"} => r \notin created
    /\ pc[r] = "denied" => r \notin registering
    /\ pc[r] \in {"login", "token", "half", "in"} /\ r \in registering => r \in created

(***************************************************************************)
(* Where a password has been compared, somebody had registered it.         *)
(***************************************************************************)
EarnedBy(r) == \E q \in created : Name[q] = Name[r] /\ Password[q] = Password[r]

Owned ==
  \A n \in Names :
    user[n] # Absent => \E q \in created : Name[q] = n /\ Password[q] = user[n]

Earned ==
  \A r \in Requests :
    /\ pc[r] \in {"token", "in"} => EarnedBy(r)
    /\ token[r] # Absent => EarnedBy(r)
    /\ shown[r] # Absent => EarnedBy(r)

(***************************************************************************)
(* A 201 or 200 has its token, and "already exists" another's account.     *)
(***************************************************************************)
Told ==
  \A r \in Requests :
    /\ pc[r] = "in" => token[r] = Name[r]
    /\ pc[r] = "exists" => \E q \in created \ {r} : Name[q] = Name[r]

(***************************************************************************)
(* An account that was created stays: a registration that may still write  *)
(* the name was between check and SET when it was created, or is blind,    *)
(* and what is stored is the creator's password or that of such a one.     *)
(***************************************************************************)
MayOverwrite(q, r) == q \in overlap[r] \cup blind

Guarded ==
  \A r \in created :
    /\ user[Name[r]] # Absent
    /\ \A q \in Requests \ {r} :
         pc[q] = "create" /\ Name[q] = Name[r] => MayOverwrite(q, r)
    /\ user[Name[r]] = Password[r] \/ \E q \in created : Overwrites(q, r)

IInv == TypeOK /\ Registered /\ Owned /\ Earned /\ Told /\ Guarded

-----------------------------------------------------------------------------
(***************************************************************************)
(* The connection keeps its type however a command ends.                   *)
(***************************************************************************)
LEMMA ConnType ==
  ASSUME NEW r \in Requests, NEW ran \in BOOLEAN, TypeOK,
         Answered(r) \/ Retried(r, ran) \/ Failed(r, ran)
  PROVE  ctx' \in [{Api} -> {"ok", "io", "dead"}] /\ retry' \subseteq Requests
  BY DEF TypeOK, Answered, Retried, Failed, ClientOf

(***************************************************************************)
(* At first there is nothing.                                              *)
(***************************************************************************)
LEMMA InitIInv == Init => IInv
  BY DEF Init, IInv, TypeOK, Steps, Answers, Registered, Owned, Earned, Told, Guarded

(***************************************************************************)
(* A request that arrives, and one that asks who it is.                    *)
(***************************************************************************)
LEMMA ArriveIInv == ASSUME IInv, NEW r \in Requests, Arrive(r) PROVE IInv'
<1> USE DEF IInv, Arrive, Goto, store, conn
<1>1. TypeOK'
  BY DEF TypeOK, Steps, Answers
<1>2. Registered'
  BY DEF TypeOK, Registered
<1>3. Owned' /\ Earned' /\ Told'
  BY DEF TypeOK, Owned, Earned, EarnedBy, Told
<1>4. Guarded'
  BY DEF TypeOK, Guarded, MayOverwrite, Overwrites
<1> QED
  BY <1>1, <1>2, <1>3, <1>4

LEMMA MeIInv == ASSUME IInv, NEW r \in Requests, Me(r) PROVE IInv'
<1> USE DEF IInv, Me, store
<1>1. TypeOK'
  BY ConnType DEF TypeOK
<1>2. Registered' /\ Owned' /\ Told'
  BY DEF Registered, Owned, Told
<1>3. Earned'
  BY DEF TypeOK, Earned, EarnedBy
<1>4. Guarded'
  BY DEF Guarded, MayOverwrite, Overwrites
<1> QED
  BY <1>1, <1>2, <1>3, <1>4

(***************************************************************************)
(* The check of a name, which may be blind.                                *)
(***************************************************************************)
LEMMA CheckIInv == ASSUME IInv, NEW r \in Requests, Check(r) PROVE IInv'
<1> USE DEF IInv, Check, Goto, store
<1>1. TypeOK'
  BY ConnType DEF TypeOK, Steps, Answers, Registered
<1>2. Registered'
  BY DEF TypeOK, Registered
<1>3. Owned' /\ Earned'
  BY DEF TypeOK, Owned, Earned, EarnedBy
<1>4. Told'
  <2>1. user[Name[r]] # Absent => \E q \in created \ {r} : Name[q] = Name[r]
    BY DEF Owned, Registered
  <2> QED
    BY <2>1 DEF TypeOK, Told
<1>5. Guarded'
  <2>1. CASE Failed(r, FALSE) /\ pc' = [pc EXCEPT ![r] = "create"] /\ blind' = blind \cup {r}
    BY <2>1 DEF TypeOK, Guarded, MayOverwrite, Overwrites
  <2>2. CASE UNCHANGED blind
    BY <2>2 DEF TypeOK, Guarded, MayOverwrite, Overwrites
  <2> QED
    BY <2>1, <2>2
<1> QED
  BY <1>1, <1>2, <1>3, <1>4, <1>5

(***************************************************************************)
(* The SET of an account: whoever created it before knows of this          *)
(* registration as one between check and SET, or it is blind.              *)
(***************************************************************************)
LEMMA CreateIInv == ASSUME IInv, NEW r \in Requests, Create(r) PROVE IInv'
<1> USE DEF IInv
<1>1. pc[r] = "create" /\ r \in registering /\ UNCHANGED <<registering, shown, blind>>
  BY DEF Create, Registered
<1>2. /\ SetUser(r) \/ UNCHANGED store
      /\ \/ UNCHANGED pc
         \/ pc' = [pc EXCEPT ![r] = "login"] /\ SetUser(r)
         \/ pc' = [pc EXCEPT ![r] = "failed"]
  BY DEF Create, Command, NoEffect, Goto
<1>3. UNCHANGED token /\ created \subseteq created' /\ created' \subseteq created \cup {r}
  BY <1>2 DEF SetUser, store
<1>4. TypeOK'
  <2>1. ctx' \in [{Api} -> {"ok", "io", "dead"}] /\ retry' \subseteq Requests
    BY ConnType DEF Create, Command
  <2> QED
    BY <1>1, <1>2, <2>1 DEF TypeOK, Steps, Answers, SetUser, store
<1>5. Registered'
  BY <1>1, <1>2, <1>3 DEF TypeOK, Registered, SetUser
<1>6. Owned'
  BY <1>2 DEF TypeOK, Owned, SetUser, store
<1>7. Earned' /\ Told'
  BY <1>1, <1>2, <1>3 DEF TypeOK, Earned, EarnedBy, Told
<1>8. Guarded'
  <2>1. CASE UNCHANGED store
    BY <1>1, <1>2, <2>1 DEF TypeOK, Guarded, MayOverwrite, Overwrites, store
  <2>2. CASE SetUser(r)
    <3>1. \A p \in created' \ {r} : p \in created /\ overlap'[p] = overlap[p]
      BY <1>3, <2>2 DEF TypeOK, SetUser
    <3>2. \A p \in created' \ {r} : Name[p] = Name[r] => MayOverwrite(r, p)
      BY <1>1, <3>1 DEF TypeOK, Guarded
    <3>3. \A q \in Requests \ {r} :
            pc[q] = "create" /\ Name[q] = Name[r] => q \in overlap'[r]
      BY <2>2 DEF TypeOK, SetUser
    <3> QED
      BY <1>1, <1>2, <2>2, <3>1, <3>2, <3>3
      DEF TypeOK, Guarded, MayOverwrite, Overwrites, SetUser
  <2> QED
    BY <1>2, <2>1, <2>2
<1> QED
  BY <1>4, <1>5, <1>6, <1>7, <1>8

(***************************************************************************)
(* A login: the password is compared, then the token stored.               *)
(***************************************************************************)
LEMMA LoginIInv ==
  ASSUME IInv, NEW r \in Requests, Login(r) \/ StartSession(r) PROVE IInv'
<1> USE DEF IInv
<1>1. /\ UNCHANGED <<registering, shown, blind, user, created, overlap>>
      /\ \/ token' = token
         \/ pc[r] = "token" /\ token' = [token EXCEPT ![r] = Name[r]]
      /\ \/ UNCHANGED pc
         \/ pc[r] = "login" /\ Matches(r) /\ pc' = [pc EXCEPT ![r] = "token"]
         \/ /\ pc[r] = "token" /\ pc' = [pc EXCEPT ![r] = "in"]
            /\ token' = [token EXCEPT ![r] = Name[r]]
         \/ pc[r] \in {"login", "token"} /\ pc' = [pc EXCEPT ![r] = NoSession(r)]
  BY DEF Login, StartSession, Command, NoEffect, SetToken, Goto, store
<1>2. NoSession(r) = IF r \in registering THEN "half" ELSE "denied"
  BY DEF NoSession
<1>3. Matches(r) => EarnedBy(r)
  BY DEF Matches, Owned, EarnedBy
<1>4. TypeOK'
  <2>1. ctx' \in [{Api} -> {"ok", "io", "dead"}] /\ retry' \subseteq Requests
    BY ConnType DEF Login, StartSession, Command
  <2> QED
    BY <1>1, <1>2, <2>1 DEF TypeOK, Steps, Answers
<1>5. Registered'
  BY <1>1, <1>2 DEF TypeOK, Registered
<1>6. Owned'
  BY <1>1 DEF Owned
<1>7. Earned'
  BY <1>1, <1>2, <1>3 DEF TypeOK, Earned, EarnedBy
<1>8. Told'
  BY <1>1, <1>2 DEF TypeOK, Told
<1>9. Guarded'
  BY <1>1, <1>2 DEF TypeOK, Guarded, MayOverwrite, Overwrites
<1> QED
  BY <1>4, <1>5, <1>6, <1>7, <1>8, <1>9

(***************************************************************************)
(* Hence the invariant holds in every reachable state.                     *)
(***************************************************************************)
LEMMA NextIInv == IInv /\ [Next]_vars => IInv'
<1> SUFFICES ASSUME IInv, [Next]_vars PROVE IInv'
  OBVIOUS
<1>1. CASE UNCHANGED vars
  BY <1>1 DEF vars, store, conn, IInv, TypeOK, Registered, Owned, Earned, EarnedBy, Told,
              Guarded, MayOverwrite, Overwrites
<1>2. CASE Next
  BY <1>2, ArriveIInv, MeIInv, CheckIInv, CreateIInv, LoginIInv DEF Next, Handler
<1> QED
  BY <1>1, <1>2

LEMMA Invariance == Spec => []IInv
  BY InitIInv, NextIInv, PTL DEF Spec

-----------------------------------------------------------------------------
(***************************************************************************)
(* Every variable keeps its type; in particular only registrations create  *)
(* accounts.                                                               *)
(***************************************************************************)
THEOREM TypeCorrect == Spec => []TypeOK
<1>1. IInv => TypeOK
  BY DEF IInv
<1> QED
  BY <1>1, Invariance, PTL

(***************************************************************************)
(* Whoever never knew a password of a name has no token for it.            *)
(***************************************************************************)
THEOREM Sessions == Spec => []SessionsAreEarned
<1>1. IInv => SessionsAreEarned
  BY DEF IInv, Earned, EarnedBy, SessionsAreEarned
<1> QED
  BY <1>1, Invariance, PTL

(***************************************************************************)
(* A name is taken over only by a registration that overlaps with its      *)
(* owner's or whose check had no answer.                                   *)
(***************************************************************************)
THEOREM Ownership == Spec => []LockedOutOnlyByRace
<1>1. IInv => LockedOutOnlyByRace
  BY DEF IInv, TypeOK, Registered, Guarded, LockedOutOnlyByRace
<1> QED
  BY <1>1, Invariance, PTL

(***************************************************************************)
(* The answers of POST /auth/register and POST /auth/login are true.       *)
(***************************************************************************)
THEOREM Answering == Spec => []AnswersMatchAccounts
<1>1. IInv => AnswersMatchAccounts
  BY DEF IInv, TypeOK, Registered, Told, AnswersMatchAccounts
<1> QED
  BY <1>1, Invariance, PTL

=============================================================================
