-------------------------- MODULE MCAiImportQueue --------------------------
(* The AI import queue for TLC. *)
EXTENDS AiImportQueue
=============================================================================
