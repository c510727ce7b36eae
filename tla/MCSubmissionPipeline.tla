------------------------ MODULE MCSubmissionPipeline ------------------------
(***************************************************************************)
(* Small instances of SubmissionPipeline for TLC: two submissions of one   *)
(* user are enough for a job that waits behind another, for two workers    *)
(* that race for one, and for a history list that overflows.               *)
(***************************************************************************)
EXTENDS SubmissionPipeline, TLC

CONSTANTS s1, s2, w1, w2, u1

MCOwner == [s \in Subs |-> u1]

WorkerSymmetry == Permutations(Workers)

=============================================================================
