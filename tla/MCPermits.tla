------------------------------ MODULE MCPermits ------------------------------
(* Permits for TLC. *)
EXTENDS Permits, TLC

CONSTANTS t1, t2, t3, alice, bob

(* Alice has two tasks, Bob has one. *)
Owner == [t \in Tasks |-> IF t = t3 THEN bob ELSE alice]
=============================================================================
