--------------------------- MODULE SandboxVerdict ---------------------------
(***************************************************************************)
(* How Sandbox::run turns what it knows of a finished child into a verdict.*)
(* Of the wait status it tells apart a zero and a non-zero exit and the    *)
(* signals below, of the resource usage how it compares with the limits.   *)
(***************************************************************************)
EXTENDS Verdicts

Endings == {"exit zero", "exit nonzero", "SIGXCPU", "SIGKILL", "SIGSEGV",
            "SIGABRT", "signal"}

Usage == [memory : {"low", "near", "over"}, time : {"within", "over"}]

(***************************************************************************)
(* status and usage keep these values when wait4 fails.                    *)
(***************************************************************************)
NoStatus == "exit zero"
NoUsage == [memory |-> "low", time |-> "within"]

OutputVerdict(right) == IF right THEN "ACCEPTED" ELSE "WRONG_ANSWER"

RunVerdict(timedOut, status, usage, right) ==
  IF timedOut \/ status \in {"SIGXCPU", "SIGKILL"}
    THEN "TIME_LIMIT_EXCEEDED"
  ELSE IF status \in {"SIGSEGV", "SIGABRT"} /\ usage.memory # "low"
    THEN "MEMORY_LIMIT_EXCEEDED"
  ELSE IF status # "exit zero"   THEN "RUNTIME_ERROR"
  ELSE IF usage.memory = "over" THEN "MEMORY_LIMIT_EXCEEDED"
  ELSE IF usage.time = "over"   THEN "TIME_LIMIT_EXCEEDED"
  ELSE OutputVerdict(right)

=============================================================================
