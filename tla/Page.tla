-------------------------------- MODULE Page ---------------------------------
(***************************************************************************)
(* The web page of a user who submits, looks at earlier submissions and    *)
(* goes back to the problems while the page polls: one interval timer in a *)
(* global variable, and a fetch per tick whose answer comes when it comes, *)
(* in any order, or not at all.                                            *)
(*                                                                         *)
(* The callbacks of the page run one at a time, each up to its await.  The *)
(* API answers what the judge has to say at the moment it handles the      *)
(* request, and the judge is the abstract one that SubmissionPipeline is   *)
(* shown to implement.  The user is signed in all the time, in one tab.    *)
(***************************************************************************)
EXTENDS Verdicts

CONSTANTS
  Subs,      \* the user's submissions
  Outcomes,  \* the verdicts they may get
  Timers,    \* names of interval timers; one that nothing refers to is free
  Fetches    \* bounds the polls under way at the same time

ASSUME PageOutcomesAssumption == Outcomes \subseteq Final
ASSUME PageSubsAssumption == Absent \notin Subs

VARIABLES
  view,       \* what the judge says about each submission
  screen,     \* the section that is displayed
  posting,    \* the submission whose POST /submit is under way, or Absent
  pollTimer,  \* the timer the page remembers, or Absent
  polls,      \* what each timer polls, Absent when it is not running
  flight,     \* the fetches under way
  open,       \* the submission pollSubmission was last called for
  shown,      \* what the result section says about which submission
  \* history
  straggled   \* since then an answer has come that was under way when the
              \* timer was set or stopped

vars == <<view, screen, posting, pollTimer, polls, flight, open, shown, straggled>>

Judge == INSTANCE JudgeService

Nothing == [sub |-> Absent, verdict |-> Absent]

Fetch == [sub : Subs \cup {Absent}, answer : Outcomes \cup {"PENDING", Absent},
          straggler : BOOLEAN]

NoFetch == [sub |-> Absent, answer |-> Absent, straggler |-> FALSE]

(***************************************************************************)
(* What is under way when the timer is set or stopped comes late.          *)
(***************************************************************************)
Stragglers(flights) ==
  [f \in Fetches |-> IF flights[f].sub = Absent THEN NoFetch
                     ELSE [flights[f] EXCEPT !.straggler = TRUE]]

-----------------------------------------------------------------------------
(***************************************************************************)
(* clearInterval(pollTimer): the timer the page remembers now, which need  *)
(* not be the one whose callback runs.                                     *)
(***************************************************************************)
Cleared == [t \in Timers |-> IF t = pollTimer THEN Absent ELSE polls[t]]

\* Mutant: pollSubmission does not clear the timer there is.
PollWithoutClearing(s) ==
  /\ \E t \in Timers :
       /\ t # pollTimer /\ polls[t] = Absent
       /\ pollTimer' = t
       /\ polls' = [polls EXCEPT ![t] = s]
  /\ screen' = "result"
  /\ open' = s
  /\ shown' = [sub |-> s, verdict |-> "PENDING"]
  /\ straggled' = FALSE
  /\ flight' = Stragglers(flight)

(***************************************************************************)
(* showResult and pollSubmission(s): PENDING is shown until an answer      *)
(* comes, and setInterval returns a new timer.                             *)
(***************************************************************************)
PollSubmission(s) ==
  /\ \E t \in Timers :
       /\ t # pollTimer /\ polls[t] = Absent
       /\ pollTimer' = t
       /\ polls' = [Cleared EXCEPT ![t] = s]
  /\ screen' = "result"
  /\ open' = s
  /\ shown' = [sub |-> s, verdict |-> "PENDING"]
  /\ straggled' = FALSE
  /\ flight' = Stragglers(flight)

-----------------------------------------------------------------------------
(***************************************************************************)
(* What the user does.                                                     *)
(***************************************************************************)
\* Mutant: showProblems leaves the timer alone.
ShowProblemsPolling ==
  /\ screen' = "problems"
  /\ UNCHANGED <<view, posting, pollTimer, polls, flight, open, shown, straggled>>

(***************************************************************************)
(* Also logout.  pollTimer keeps the name of the cleared timer.            *)
(***************************************************************************)
ShowProblems ==
  /\ screen' = "problems"
  /\ polls' = Cleared
  /\ flight' = Stragglers(flight)
  /\ UNCHANGED <<view, posting, pollTimer, open, shown, straggled>>

(***************************************************************************)
(* The end of openProblem, whose fetch may answer on any screen.           *)
(***************************************************************************)
ShowEditor ==
  /\ screen' = "editor"
  /\ polls' = Cleared
  /\ flight' = Stragglers(flight)
  /\ UNCHANGED <<view, posting, pollTimer, open, shown, straggled>>

ShowHistory ==
  /\ screen' = "history"
  /\ UNCHANGED <<view, posting, pollTimer, polls, flight, open, shown, straggled>>

ViewSubmission(s) ==
  /\ screen = "history"
  /\ view[s] # "unknown"
  /\ PollSubmission(s)
  /\ UNCHANGED <<view, posting>>

(***************************************************************************)
(* submitCode disables its button until the answer is there, but not the   *)
(* rest of the page.                                                       *)
(***************************************************************************)
SubmitCode(s) ==
  /\ screen = "editor"
  /\ posting = Absent
  /\ view[s] = "unknown"
  /\ posting' = s
  /\ UNCHANGED <<view, screen, pollTimer, polls, flight, open, shown, straggled>>

Submitted ==
  /\ posting # Absent
  /\ view[posting] # "unknown"
  /\ PollSubmission(posting)
  /\ posting' = Absent
  /\ UNCHANGED view

SubmitFails ==
  /\ posting # Absent
  /\ posting' = Absent
  /\ UNCHANGED <<view, screen, pollTimer, polls, flight, open, shown, straggled>>

-----------------------------------------------------------------------------
(***************************************************************************)
(* The polls.                                                              *)
(***************************************************************************)
Tick(t, f) ==
  /\ polls[t] # Absent
  /\ flight[f] = NoFetch
  /\ flight' = [flight EXCEPT ![f].sub = polls[t]]
  /\ UNCHANGED <<view, screen, posting, pollTimer, polls, open, shown, straggled>>

Serve(f) ==
  /\ flight[f].sub # Absent
  /\ flight[f].answer = Absent
  /\ flight' = [flight EXCEPT ![f].answer =
       IF view[flight[f].sub] \in Outcomes THEN view[flight[f].sub] ELSE "PENDING"]
  /\ UNCHANGED <<view, screen, posting, pollTimer, polls, open, shown, straggled>>

\* Mutant: renderResult does without its || 'PENDING'.
RefuseUndefined(f) ==
  /\ flight[f].sub # Absent
  /\ flight[f].answer = Absent
  /\ flight' = [flight EXCEPT ![f].answer = "undefined"]
  /\ UNCHANGED <<view, screen, posting, pollTimer, polls, open, shown, straggled>>

(***************************************************************************)
(* The API lost its connection to Redis and answers 401 or 404 without a   *)
(* verdict; the page takes that for PENDING.                               *)
(***************************************************************************)
Refuse(f) ==
  /\ flight[f].sub # Absent
  /\ flight[f].answer = Absent
  /\ flight' = [flight EXCEPT ![f].answer = "PENDING"]
  /\ UNCHANGED <<view, screen, posting, pollTimer, polls, open, shown, straggled>>

\* Mutant: a verdict is shown but does not stop the timer.
AnswerWithoutStopping(f) ==
  /\ flight[f].answer # Absent
  /\ shown' = [sub |-> flight[f].sub, verdict |-> flight[f].answer]
  /\ straggled' = (straggled \/ flight[f].straggler)
  /\ flight' = [flight EXCEPT ![f] = NoFetch]
  /\ UNCHANGED <<view, screen, posting, pollTimer, polls, open>>

(***************************************************************************)
(* renderResult shows every answer, whatever submission is open, and a     *)
(* final one stops the timer the page remembers.                           *)
(***************************************************************************)
Answer(f) ==
  /\ flight[f].answer # Absent
  /\ shown' = [sub |-> flight[f].sub, verdict |-> flight[f].answer]
  /\ straggled' = (straggled \/ flight[f].straggler)
  /\ LET others == [flight EXCEPT ![f] = NoFetch]
     IN IF flight[f].answer \in Final
        THEN polls' = Cleared /\ flight' = Stragglers(others)
        ELSE UNCHANGED polls /\ flight' = others
  /\ UNCHANGED <<view, screen, posting, pollTimer, open>>

\* Mutant: the catch clause gives up polling.
FetchFailsAndStops(f) ==
  /\ flight[f].sub # Absent
  /\ polls' = Cleared
  /\ flight' = [flight EXCEPT ![f] = NoFetch]
  /\ UNCHANGED <<view, screen, posting, pollTimer, open, shown, straggled>>

FetchFails(f) ==
  /\ flight[f].sub # Absent
  /\ flight' = [flight EXCEPT ![f] = NoFetch]
  /\ UNCHANGED <<view, screen, posting, pollTimer, polls, open, shown, straggled>>

-----------------------------------------------------------------------------
(***************************************************************************)
(* The judge: the API takes the submission that is being posted, and the   *)
(* workers decide on it.                                                   *)
(***************************************************************************)
page == <<screen, posting, pollTimer, polls, flight, open, shown, straggled>>

Accept(s) == posting = s /\ Judge!Begin(s) /\ UNCHANGED page

Decide(s) == Judge!Decide(s) /\ UNCHANGED page

Init ==
  /\ Judge!Init
  /\ screen = "problems"
  /\ posting = Absent
  /\ pollTimer = Absent
  /\ polls = [t \in Timers |-> Absent]
  /\ flight = [f \in Fetches |-> NoFetch]
  /\ open = Absent
  /\ shown = Nothing
  /\ straggled = FALSE

Next ==
  \/ ShowProblems \/ ShowEditor \/ ShowHistory \/ Submitted \/ SubmitFails
  \/ \E s \in Subs : ViewSubmission(s) \/ SubmitCode(s) \/ Accept(s) \/ Decide(s)
  \/ \E f \in Fetches : \/ \E t \in Timers : Tick(t, f)
                        \/ Serve(f) \/ Refuse(f) \/ Answer(f) \/ FetchFails(f)

Spec == Init /\ [][Next]_vars

(***************************************************************************)
(* Timers tick, no poll is under way for ever, the API does not refuse     *)
(* every poll, and not every answer with a verdict gets lost.  The judge   *)
(* does not have to decide (an evaluation may hang), nor the user to do    *)
(* anything.                                                               *)
(***************************************************************************)
FairSpec ==
  /\ Spec
  /\ WF_vars(\E t \in Timers, f \in Fetches : Tick(t, f))
  /\ \A f \in Fetches : /\ WF_vars(Answer(f))
                        /\ SF_vars(Serve(f))
                        /\ SF_vars(flight[f].answer \in Final /\ Answer(f))

-----------------------------------------------------------------------------
(***************************************************************************)
(* Type invariant.                                                         *)
(***************************************************************************)
TypeOK ==
  /\ view \in [Subs -> {"unknown", "judging"} \cup Outcomes]
  /\ screen \in {"problems", "editor", "history", "result"}
  /\ posting \in Subs \cup {Absent}
  /\ pollTimer \in Timers \cup {Absent}
  /\ polls \in [Timers -> Subs \cup {Absent}]
  /\ flight \in [Fetches -> Fetch]
  /\ open \in Subs \cup {Absent}
  /\ shown \in [sub : Subs \cup {Absent}, verdict : Outcomes \cup {"PENDING", Absent}]
  /\ straggled \in BOOLEAN

(***************************************************************************)
(* Only the timer the page remembers runs, and for the submission that was *)
(* opened last, in whatever order clicks and answers come: no timer is     *)
(* left behind that nothing could stop any more.                           *)
(***************************************************************************)
OneTimer == \A t \in Timers : polls[t] # Absent => t = pollTimer /\ polls[t] = open

(***************************************************************************)
(* On the list of problems and in the editor nothing is polled, also when  *)
(* the answer to a submission comes after the user has left the editor.    *)
(***************************************************************************)
QuietElsewhere ==
  screen \in {"problems", "editor"} => \A t \in Timers : polls[t] = Absent

(***************************************************************************)
(* When the result section has stopped polling, it shows the verdict of    *)
(* the submission that was opened, unless a straggler has come: an answer  *)
(* that was under way when the timer was set or stopped.  (A straggler may *)
(* show another submission's verdict, stop the timer, or put PENDING over  *)
(* the verdict for good.)                                                  *)
(***************************************************************************)
RightUnlessStraggled ==
  screen = "result" /\ ~straggled /\ (\A t \in Timers : polls[t] = Absent) =>
    /\ shown = [sub |-> open, verdict |-> view[open]]
    /\ view[open] \in Outcomes

(***************************************************************************)
(* No timer polls for ever, unless its submission is never judged: the     *)
(* user goes elsewhere or a final verdict stops it, whatever the other     *)
(* submissions and the polls for them do.                                  *)
(***************************************************************************)
Undecided(t) == polls[t] \in Subs /\ view[polls[t]] \notin Outcomes

PollingEnds ==
  \A t \in Timers : <>[]Undecided(t) \/ (polls[t] # Absent ~> polls[t] = Absent)

=============================================================================
