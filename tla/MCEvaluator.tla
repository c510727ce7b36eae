---------------------------- MODULE MCEvaluator -----------------------------
(***************************************************************************)
(* Small instances of Evaluator for TLC: a compiled and an interpreted     *)
(* submission, and two tests so that the last is not the only one.         *)
(***************************************************************************)
EXTENDS Evaluator, TLC

CONSTANTS w1, w2, sc, sp

MCLanguage == [s \in Subs |-> IF s = sp THEN "python" ELSE "c"]

=============================================================================
