----------------------------- MODULE MCApplyRun -----------------------------
(* ApplyRun for TLC: two requests, two outfits, one fault and one edit. *)
EXTENDS ApplyRun
=============================================================================
