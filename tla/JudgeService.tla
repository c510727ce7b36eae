---------------------------- MODULE JudgeService ----------------------------
(***************************************************************************)
(* What OCPE promises about a submission, without queue, workers or store: *)
(* it is unknown, then being judged, then it has a verdict, and a verdict  *)
(* is for good.                                                            *)
(***************************************************************************)
EXTENDS Verdicts

CONSTANTS
  Subs,     \* submissions
  Outcomes  \* the verdicts the judge can reach

VARIABLE view

Init == view = [s \in Subs |-> "unknown"]

Begin(s) ==
  /\ view[s] = "unknown"
  /\ view' = [view EXCEPT ![s] = "judging"]

Decide(s) ==
  /\ view[s] = "judging"
  /\ \E v \in Outcomes : view' = [view EXCEPT ![s] = v]

Next == \E s \in Subs : Begin(s) \/ Decide(s)

Spec == Init /\ [][Next]_view

=============================================================================
