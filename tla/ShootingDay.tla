---------------------------- MODULE ShootingDay ----------------------------
(***************************************************************************)
(* The ShootingDay aggregate: the state its stream replays to, and how it  *)
(* answers a command.  A command is a record with an op and the version    *)
(* the client expects.  "edit" stands for rename, reschedule and reorder,  *)
(* which differ only in data no other command looks at.  The deletion of   *)
(* the development data reset is not modelled.                             *)
(***************************************************************************)
EXTENDS Naturals

DayOps == {"edit", "archive", "wrap"}

DayStates == [archived : BOOLEAN, wrapped : BOOLEAN, version : Nat]

CreatedDay == [archived |-> FALSE, wrapped |-> FALSE, version |-> 1]

(* The entity actor compares the expected version before the aggregate      *)
(* looks at the command, so a stale wrap of a wrapped day is rejected too.  *)
DayRejects(d, c) == \/ c.version # d.version
                    \/ c.op \in {"edit", "archive"} /\ d.archived

(* The command is accepted and emits no event. *)
DayIgnores(d, c) == c.op = "wrap" /\ d.wrapped

(* The state after the command's event. *)
DayApplied(d, c) == [archived |-> d.archived \/ c.op = "archive",
                     wrapped  |-> d.wrapped \/ c.op = "wrap",
                     version  |-> d.version + 1]

(* EnsureShootingDayOpen, the zero-event probe of the wrap-finality gate. *)
DayOpen(d) == ~d.wrapped
=============================================================================
