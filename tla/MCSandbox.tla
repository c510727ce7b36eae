----------------------------- MODULE MCSandbox ------------------------------
(***************************************************************************)
(* Small instances of Sandbox for TLC: two threads, so that a child can    *)
(* hold another run's pipe; a program that answers right and one that runs *)
(* for ever, one that crashes after it has answered right and one whose    *)
(* execv failed; and compilers that succeed, complain and hang.            *)
(***************************************************************************)
EXTENDS Sandbox, TLC

CONSTANTS t1, t2

Right   == [ends |-> "exit zero", usage |-> NoUsage, right |-> TRUE, pieces |-> 2]
Endless == [ends |-> "never", usage |-> NoUsage, right |-> FALSE, pieces |-> 1]
Crash   == [ends |-> "SIGSEGV", usage |-> NoUsage, right |-> TRUE, pieces |-> 1]
NoStart == [ends |-> "exit nonzero", usage |-> NoUsage, right |-> FALSE, pieces |-> 0]

MCPrograms == {Right, Endless, Crash, NoStart}

Compiles  == [ends |-> "exit zero", usage |-> NoUsage, right |-> FALSE, pieces |-> 0]
Complains == [ends |-> "exit nonzero", usage |-> NoUsage, right |-> FALSE, pieces |-> 2]
Hangs     == [ends |-> "never", usage |-> NoUsage, right |-> FALSE, pieces |-> 0]

MCCompilers == {Compiles, Complains, Hangs}

=============================================================================
