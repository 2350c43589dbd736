--------------------------- MODULE MCReservations ---------------------------
(* Reservations for TLC. *)
EXTENDS Reservations
=============================================================================
