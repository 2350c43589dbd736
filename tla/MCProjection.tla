---------------------------- MODULE MCProjection ----------------------------
(* Projection with two partitions on one worker. *)
EXTENDS Projection, TLC

CONSTANTS p1, p2

MCMaxEvents == p1 :> 2 @@ p2 :> 1
=============================================================================
