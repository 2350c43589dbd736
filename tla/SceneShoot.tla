----------------------------- MODULE SceneShoot -----------------------------
(***************************************************************************)
(* The SceneShoot aggregate: the state its stream replays to, and how it   *)
(* answers a command.  A command is a record with an op, the shooting day  *)
(* it addresses, the version the client expects and an item (a start time, *)
(* a note or a photo).  A sort key and a note body are represented by the  *)
(* version of the event that wrote them, 0 when there is none.             *)
(*                                                                         *)
(* Planning a new shoot is part of module Reservations; the deletion of    *)
(* the development data reset is not modelled.  The status "scheduled" is  *)
(* never assigned.                                                         *)
(***************************************************************************)
EXTENDS Naturals

CONSTANTS Times, Notes, Photos, None

(* Commands that change what happened on the day (Ist), frozen by a wrap.   *)
FrozenOps == {"start", "set_order", "finish", "skip",
              "add_note", "update_note", "remove_note"}

(* Commands of the plan (Soll) and of continuity, which a wrap leaves open. *)
OpenOps == {"replan", "link_photo", "unlink_photo"}

ShootOps == FrozenOps \cup OpenOps

Items(op) == CASE op = "start" -> Times
               [] op \in {"add_note", "update_note", "remove_note"} -> Notes
               [] op \in {"link_photo", "unlink_photo"} -> Photos
               [] OTHER -> {None}

TerminalStatuses == {"shot", "skipped"}

ShootStates == [planned : Nat, actual : Nat, start : Times \cup {None},
                status : {"planned", "in_progress"} \cup TerminalStatuses,
                notes : [Notes -> Nat], photos : SUBSET Photos, version : Nat]

PlannedShoot == [planned |-> 1, actual |-> 0, start |-> None, status |-> "planned",
                 notes |-> [n \in Notes |-> 0], photos |-> {}, version |-> 1]

HasExecutionData(s) == s.actual # 0 \/ s.start # None

(* Mutant: a terminal shoot is not checked for. *)
ShootRejectsTerminalMoves(s, day, c) ==
  \/ c.op \in FrozenOps /\ c.day # day
  \/ c.op # "add_note" /\ c.version # s.version
  \/ c.op = "replan" /\ HasExecutionData(s)
  \/ c.op = "start" /\ s.start \notin {None, c.item}
  \/ c.op = "finish" /\ s.status # "in_progress"
  \/ c.op \in {"update_note", "remove_note"} /\ s.notes[c.item] = 0
  \/ c.op = "link_photo" /\ c.item \in s.photos

(* Whether a shoot of the given day rejects the command. *)
ShootRejects(s, day, c) ==
  \/ s.status \in TerminalStatuses
  \/ c.op \in FrozenOps /\ c.day # day
  \/ c.op # "add_note" /\ c.version # s.version
  \/ c.op = "replan" /\ HasExecutionData(s)
  \/ c.op = "start" /\ s.start \notin {None, c.item}
  \/ c.op = "finish" /\ s.status # "in_progress"
  \/ c.op \in {"update_note", "remove_note"} /\ s.notes[c.item] = 0
  \/ c.op = "link_photo" /\ c.item \in s.photos

(* The command is accepted and emits no event: the same start again. *)
ShootIgnores(s, c) == c.op = "start" /\ s.start = c.item

(* The status once execution data is introduced. *)
TransitionOnExecution(s) == IF s.status = "planned" THEN "in_progress" ELSE s.status

(* The state after the command's event. *)
ShootApplied(s, c) ==
  LET t == [s EXCEPT !.version = @ + 1]
  IN CASE c.op = "replan"       -> [t EXCEPT !.planned = t.version]
       [] c.op = "start"        -> [t EXCEPT !.start = c.item,
                                             !.status = TransitionOnExecution(s)]
       [] c.op = "set_order"    -> [t EXCEPT !.actual = t.version,
                                             !.status = TransitionOnExecution(s)]
       [] c.op = "finish"       -> [t EXCEPT !.status = "shot"]
       [] c.op = "skip"         -> [t EXCEPT !.status = "skipped"]
       [] c.op = "add_note"     -> [t EXCEPT !.notes[c.item] = t.version]
       [] c.op = "update_note"  -> [t EXCEPT !.notes[c.item] = t.version]
       [] c.op = "remove_note"  -> [t EXCEPT !.notes[c.item] = 0]
       [] c.op = "link_photo"   -> [t EXCEPT !.photos = @ \cup {c.item}]
       [] c.op = "unlink_photo" -> [t EXCEPT !.photos = @ \ {c.item}]

(* What happened on the day: the Ist side of the report. *)
Execution(s) == [actual |-> s.actual, start |-> s.start, status |-> s.status,
                 notes |-> s.notes]
=============================================================================
