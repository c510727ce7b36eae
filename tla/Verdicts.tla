------------------------------ MODULE Verdicts ------------------------------
(***************************************************************************)
(* The verdicts of a submission (enum class Verdict) and the division the  *)
(* clients of the API make between those that are still in progress and    *)
(* those that are final: the pollers in web/app.js and scripts/load_test.py*)
(* stop at the first final one.                                            *)
(***************************************************************************)

InProgress == {"PENDING", "COMPILING", "RUNNING"}

Final == {"ACCEPTED", "WRONG_ANSWER", "TIME_LIMIT_EXCEEDED",
          "MEMORY_LIMIT_EXCEEDED", "RUNTIME_ERROR", "COMPILATION_ERROR",
          "INTERNAL_ERROR"}

Verdict == InProgress \cup Final

(***************************************************************************)
(* std::nullopt: a Redis key without a value, an answer "not found".       *)
(***************************************************************************)
Absent == "absent"

=============================================================================
