------------------------------ MODULE MCPhotos ------------------------------
(* Photos for TLC. *)
EXTENDS Photos
=============================================================================
