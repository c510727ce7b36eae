----------------------------- MODULE MCAccounts ------------------------------
(***************************************************************************)
(* A small instance of Accounts for TLC: three requests for one name, two  *)
(* of them with the same password, so that a user can log in to what he    *)
(* registered, race another for it, and repeat a registration that failed. *)
(***************************************************************************)
EXTENDS Accounts, TLC

CONSTANTS r1, r2, r3, n1, p1, p2

MCName == [r \in Requests |-> n1]

MCPassword == [r \in Requests |-> IF r = r2 THEN p2 ELSE p1]

=============================================================================
