----------------------------- MODULE MCReports -----------------------------
(* A small archive. *)
EXTENDS Reports

MCKinds == <<"dispo", "shoot-day">>
=============================================================================
