--------------------------- MODULE MCWrapFinality ---------------------------
(* Instances of WrapFinality for TLC. *)
EXTENDS WrapFinality, TLC

CONSTANTS d1, d2, s1

MCDayOf == [s \in Shoots |-> d1]

HistoryOps == ShootOps \cup {"wrap"}

ExecutionOps == {"start", "finish", "edit", "wrap"}

Symmetry == Permutations(Calls)
=============================================================================
