----------------------------- MODULE PageProofs ------------------------------
(***************************************************************************)
(* Proofs about Page, for any number of submissions, timers and polls      *)
(* under way: no timer is left behind, nothing is polled on the list of    *)
(* problems and in the editor, and without stragglers the page is right.   *)
(***************************************************************************)
EXTENDS Page, TLAPS

USE PageOutcomesAssumption, PageSubsAssumption DEF Fetch

(***************************************************************************)
(* A poll under way that is no straggler is one of the timer that runs.    *)
(***************************************************************************)
Fresh ==
  \A f \in Fetches :
    flight[f].sub # Absent /\ ~flight[f].straggler =>
      pollTimer \in Timers /\ polls[pollTimer] = flight[f].sub

(***************************************************************************)
(* An answer on its way belongs to a poll, and one with a verdict is still *)
(* true when it arrives.                                                   *)
(***************************************************************************)
Truthful ==
  \A f \in Fetches :
    /\ flight[f].answer # Absent => flight[f].sub # Absent
    /\ flight[f].answer \in Final => view[flight[f].sub] = flight[f].answer

IInv == /\ TypeOK /\ OneTimer /\ QuietElsewhere
        /\ Fresh /\ Truthful /\ RightUnlessStraggled

-----------------------------------------------------------------------------
(***************************************************************************)
(* clearInterval leaves no timer, and everything under way comes late.     *)
(***************************************************************************)
LEMMA ClearedOff == ASSUME TypeOK, OneTimer PROVE Cleared = [t \in Timers |-> Absent]
  BY DEF TypeOK, OneTimer, Cleared

LEMMA AllLate ==
  ASSUME NEW fl \in [Fetches -> Fetch]
  PROVE  /\ Stragglers(fl) \in [Fetches -> Fetch]
         /\ \A f \in Fetches :
              /\ Stragglers(fl)[f].sub = fl[f].sub
              /\ fl[f].sub # Absent => /\ Stragglers(fl)[f].straggler
                                       /\ Stragglers(fl)[f].answer = fl[f].answer
              /\ fl[f].sub = Absent => Stragglers(fl)[f].answer = Absent
  BY DEF Stragglers, NoFetch

(***************************************************************************)
(* At first nothing is polled.                                             *)
(***************************************************************************)
LEMMA InitIInv == Init => IInv
<1> SUFFICES ASSUME Init PROVE IInv
  OBVIOUS
<1>1. flight \in [Fetches -> Fetch]
  BY DEF Init, NoFetch
<1>2. TypeOK
  BY <1>1 DEF Init, Judge!Init, TypeOK, Nothing
<1>3. OneTimer /\ QuietElsewhere /\ RightUnlessStraggled
  BY DEF Init, OneTimer, QuietElsewhere, RightUnlessStraggled
<1>4. Fresh /\ Truthful
  BY DEF Init, Fresh, Truthful, NoFetch, Final, Absent
<1> QED
  BY <1>2, <1>3, <1>4 DEF IInv

-----------------------------------------------------------------------------
(***************************************************************************)
(* A new timer replaces the old one.                                       *)
(***************************************************************************)
LEMMA PollIInv ==
  ASSUME IInv, NEW s \in Subs, PollSubmission(s), UNCHANGED view,
         posting' \in {posting, Absent}
  PROVE  IInv'
<1> USE DEF IInv
<1>1. PICK t \in Timers : pollTimer' = t /\ polls' = [Cleared EXCEPT ![t] = s]
  BY DEF PollSubmission
<1>2. /\ polls' = [u \in Timers |-> IF u = t THEN s ELSE Absent]
      /\ flight' = Stragglers(flight)
      /\ screen' = "result" /\ open' = s /\ straggled' = FALSE
      /\ shown' = [sub |-> s, verdict |-> "PENDING"]
  BY <1>1, ClearedOff DEF PollSubmission
<1>3. TypeOK'
  BY <1>1, <1>2, AllLate DEF TypeOK
<1>4. OneTimer' /\ QuietElsewhere' /\ RightUnlessStraggled'
  BY <1>1, <1>2 DEF OneTimer, QuietElsewhere, RightUnlessStraggled
<1>5. Fresh' /\ Truthful'
  BY <1>2, AllLate DEF TypeOK, Fresh, Truthful, Final, Absent
<1> QED
  BY <1>3, <1>4, <1>5

(***************************************************************************)
(* What else the user does either stops the timer or leaves it alone.      *)
(***************************************************************************)
LEMMA ClickIInv ==
  ASSUME IInv,
         \/ ShowProblems \/ ShowEditor \/ ShowHistory \/ SubmitFails
         \/ \E s \in Subs : SubmitCode(s)
  PROVE  IInv'
<1> USE DEF IInv
<1>1. CASE ShowProblems \/ ShowEditor
  <2>1. /\ screen' \in {"problems", "editor"}
        /\ polls' = [t \in Timers |-> Absent]
        /\ flight' = Stragglers(flight)
        /\ UNCHANGED <<view, posting, pollTimer, open, shown, straggled>>
    BY <1>1, ClearedOff DEF ShowProblems, ShowEditor
  <2>2. TypeOK'
    BY <2>1, AllLate DEF TypeOK
  <2>3. OneTimer' /\ QuietElsewhere' /\ RightUnlessStraggled'
    BY <2>1 DEF OneTimer, QuietElsewhere, RightUnlessStraggled
  <2>4. Fresh' /\ Truthful'
    BY <2>1, AllLate DEF TypeOK, Fresh, Truthful, Final, Absent
  <2> QED
    BY <2>2, <2>3, <2>4
<1>2. CASE ShowHistory
  BY <1>2 DEF ShowHistory, TypeOK, OneTimer, QuietElsewhere, Fresh, Truthful,
              RightUnlessStraggled
<1>3. CASE SubmitFails \/ \E s \in Subs : SubmitCode(s)
  BY <1>3 DEF SubmitFails, SubmitCode, TypeOK, OneTimer, QuietElsewhere, Fresh, Truthful,
              RightUnlessStraggled
<1> QED
  BY <1>1, <1>2, <1>3

(***************************************************************************)
(* A poll begins, is answered by the API, or fails.                        *)
(***************************************************************************)
LEMMA FetchIInv ==
  ASSUME IInv, NEW f \in Fetches,
         \/ \E t \in Timers : Tick(t, f)
         \/ Serve(f) \/ Refuse(f) \/ FetchFails(f)
  PROVE  IInv'
<1> USE DEF IInv
<1>1. UNCHANGED <<view, screen, posting, pollTimer, polls, open, shown, straggled>>
  BY DEF Tick, Serve, Refuse, FetchFails
<1>2. OneTimer' /\ QuietElsewhere' /\ RightUnlessStraggled'
  BY <1>1 DEF OneTimer, QuietElsewhere, RightUnlessStraggled
<1>3. CASE \E t \in Timers : Tick(t, f)
  <2>1. PICK t \in Timers :
          /\ polls[t] # Absent /\ flight[f] = NoFetch
          /\ flight' = [flight EXCEPT ![f].sub = polls[t]]
    BY <1>3 DEF Tick
  <2> DEFINE fetch == [NoFetch EXCEPT !.sub = polls[t]]
  <2>2. flight' = [flight EXCEPT ![f] = fetch]
    BY <2>1
  <2>3. /\ fetch.sub = polls[t] /\ fetch.answer = Absent
        /\ fetch \in Fetch
    <3>1. polls[t] \in Subs \cup {Absent}
      BY DEF TypeOK
    <3> QED
      BY <3>1 DEF NoFetch
  <2> HIDE DEF fetch
  <2>4. TypeOK'
    BY <1>1, <2>2, <2>3 DEF TypeOK
  <2>5. Fresh' /\ Truthful'
    BY <1>1, <2>1, <2>2, <2>3 DEF TypeOK, Fresh, Truthful, OneTimer, Final, Absent
  <2> QED
    BY <1>2, <2>4, <2>5
<1>4. CASE Serve(f)
  BY <1>1, <1>2, <1>4 DEF Serve, TypeOK, Fresh, Truthful, Final, Absent
<1>5. CASE Refuse(f)
  BY <1>1, <1>2, <1>5 DEF Refuse, TypeOK, Fresh, Truthful, Final, Absent
<1>6. CASE FetchFails(f)
  BY <1>1, <1>2, <1>6 DEF FetchFails, TypeOK, Fresh, Truthful, NoFetch, Final, Absent
<1> QED
  BY <1>3, <1>4, <1>5, <1>6

(***************************************************************************)
(* An answer reaches the page.  One with a verdict that is no straggler is *)
(* about the submission that is open, and true.                            *)
(***************************************************************************)
LEMMA AnswerIInv == ASSUME IInv, NEW f \in Fetches, Answer(f) PROVE IInv'
<1> USE DEF IInv
<1> DEFINE others == [flight EXCEPT ![f] = NoFetch]
<1>1. /\ flight[f].answer # Absent /\ flight[f].sub \in Subs
      /\ shown' = [sub |-> flight[f].sub, verdict |-> flight[f].answer]
      /\ straggled' = (straggled \/ flight[f].straggler)
      /\ UNCHANGED <<view, screen, posting, pollTimer, open>>
  BY DEF Answer, Truthful, TypeOK
<1>2. others \in [Fetches -> Fetch]
  BY DEF TypeOK, NoFetch
<1>3. ~flight[f].straggler => /\ \E t \in Timers : polls[t] # Absent
                              /\ flight[f].sub = open
  BY <1>1 DEF Fresh, OneTimer
<1>4. CASE flight[f].answer \in Final
  <2>1. polls' = [t \in Timers |-> Absent] /\ flight' = Stragglers(others)
    BY <1>4, ClearedOff DEF Answer
  <2>2. TypeOK'
    BY <1>1, <1>2, <2>1, AllLate DEF TypeOK
  <2>3. OneTimer' /\ QuietElsewhere'
    BY <1>1, <2>1 DEF OneTimer, QuietElsewhere
  <2>4. RightUnlessStraggled'
    <3>1. flight[f].answer \in Outcomes /\ view[flight[f].sub] = flight[f].answer
      BY <1>4 DEF TypeOK, Truthful, Final, Absent
    <3> QED
      BY <1>1, <1>3, <3>1 DEF TypeOK, RightUnlessStraggled
  <2>5. Fresh' /\ Truthful'
    <3>1. \A g \in Fetches : others[g] = IF g = f THEN NoFetch ELSE flight[g]
      BY DEF TypeOK
    <3>2. /\ \A g \in Fetches : flight'[g].sub # Absent => flight'[g].straggler
          /\ \A g \in Fetches : flight'[g].answer # Absent =>
               /\ g # f /\ flight'[g].sub = flight[g].sub
               /\ flight'[g].answer = flight[g].answer /\ flight[g].sub # Absent
      <4>1. \A g \in Fetches :
              /\ flight'[g].sub = others[g].sub
              /\ others[g].sub # Absent => /\ flight'[g].straggler
                                           /\ flight'[g].answer = others[g].answer
              /\ others[g].sub = Absent => flight'[g].answer = Absent
        <5> HIDE DEF others
        <5> QED
          BY <1>2, <2>1, AllLate
      <4> HIDE DEF others
      <4> QED
        BY <3>1, <4>1 DEF NoFetch
    <3> QED
      BY <1>1, <3>2 DEF Fresh, Truthful, Final, Absent
  <2> QED
    BY <2>2, <2>3, <2>4, <2>5
<1>5. CASE flight[f].answer \notin Final
  <2>1. UNCHANGED polls /\ flight' = others
    BY <1>5 DEF Answer
  <2>2. TypeOK'
    BY <1>1, <1>2, <2>1 DEF TypeOK
  <2>3. OneTimer' /\ QuietElsewhere'
    BY <1>1, <2>1 DEF OneTimer, QuietElsewhere
  <2>4. RightUnlessStraggled'
    BY <1>1, <1>3, <2>1 DEF RightUnlessStraggled, TypeOK
  <2>5. Fresh' /\ Truthful'
    BY <1>1, <2>1 DEF TypeOK, Fresh, Truthful, NoFetch, Final, Absent
  <2> QED
    BY <2>2, <2>3, <2>4, <2>5
<1> QED
  BY <1>4, <1>5

(***************************************************************************)
(* The judge takes a submission or decides: a verdict is for good.         *)
(***************************************************************************)
LEMMA JudgeIInv ==
  ASSUME IInv, NEW s \in Subs, Accept(s) \/ Decide(s) PROVE IInv'
<1> USE DEF IInv
<1>1. UNCHANGED <<screen, posting, pollTimer, polls, flight, open, shown, straggled>>
  BY DEF Accept, Decide, page
<1>2. /\ view[s] \in {"unknown", "judging"}
      /\ \E v \in Outcomes \cup {"judging"} : view' = [view EXCEPT ![s] = v]
  BY DEF Accept, Decide, Judge!Begin, Judge!Decide
<1>3. TypeOK' /\ OneTimer' /\ QuietElsewhere' /\ Fresh'
  BY <1>1, <1>2 DEF TypeOK, OneTimer, QuietElsewhere, Fresh
<1>4. Truthful' /\ RightUnlessStraggled'
  BY <1>1, <1>2 DEF TypeOK, Truthful, RightUnlessStraggled, Final, Absent
<1> QED
  BY <1>3, <1>4

(***************************************************************************)
(* Hence the invariant holds in every reachable state.                     *)
(***************************************************************************)
LEMMA NextIInv == IInv /\ [Next]_vars => IInv'
<1> SUFFICES ASSUME IInv, [Next]_vars PROVE IInv'
  OBVIOUS
<1>1. CASE UNCHANGED vars
  BY <1>1 DEF vars, IInv, TypeOK, OneTimer, QuietElsewhere, Fresh, Truthful,
              RightUnlessStraggled
<1>2. CASE Submitted
  <2>1. posting \in Subs
    BY <1>2 DEF Submitted, IInv, TypeOK
  <2> QED
    BY <1>2, <2>1, PollIInv DEF Submitted
<1>3. CASE \E s \in Subs : ViewSubmission(s)
  BY <1>3, PollIInv DEF ViewSubmission
<1>4. CASE \E s \in Subs : Accept(s) \/ Decide(s)
  BY <1>4, JudgeIInv
<1> QED
  BY <1>1, <1>2, <1>3, <1>4, ClickIInv, FetchIInv, AnswerIInv DEF Next

LEMMA Invariance == Spec => []IInv
  BY InitIInv, NextIInv, PTL DEF Spec

-----------------------------------------------------------------------------
(***************************************************************************)
(* Every variable keeps its type: the page shows verdicts and PENDING only.*)
(***************************************************************************)
THEOREM TypeCorrect == Spec => []TypeOK
<1>1. IInv => TypeOK
  BY DEF IInv
<1> QED
  BY <1>1, Invariance, PTL

(***************************************************************************)
(* At most one timer runs, the one the page can still stop.                *)
(***************************************************************************)
THEOREM OneTimerRuns == Spec => []OneTimer
<1>1. IInv => OneTimer
  BY DEF IInv
<1> QED
  BY <1>1, Invariance, PTL

(***************************************************************************)
(* Nothing is polled on the list of problems and in the editor.            *)
(***************************************************************************)
THEOREM Quiet == Spec => []QuietElsewhere
<1>1. IInv => QuietElsewhere
  BY DEF IInv
<1> QED
  BY <1>1, Invariance, PTL

(***************************************************************************)
(* A page that has stopped polling is right, unless a straggler has come.  *)
(***************************************************************************)
THEOREM ShowsTheVerdict == Spec => []RightUnlessStraggled
<1>1. IInv => RightUnlessStraggled
  BY DEF IInv
<1> QED
  BY <1>1, Invariance, PTL

=============================================================================
