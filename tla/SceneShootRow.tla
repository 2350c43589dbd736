---------------------------- MODULE SceneShootRow ----------------------------
(***************************************************************************)
(* The read model of scene shoots, over the aggregate of module            *)
(* SceneShoot: adapter, projector and handlers.  Every statement of the    *)
(* projector but the deletion is guarded by the version.                   *)
(***************************************************************************)
EXTENDS Aggregate, SceneShoot

Unplanned == [PlannedShoot EXCEPT !.version = 0, !.planned = 0]

States == [created : BOOLEAN, deleted : BOOLEAN, version : Nat, shoot : ShootStates]

Blank == [created |-> FALSE, deleted |-> FALSE, version |-> 0, shoot |-> Unplanned]

Apply(s, e) ==
  CASE e.type = "deleted" -> [s EXCEPT !.deleted = TRUE, !.version = e.version]
    [] e.type = "planned" -> [s EXCEPT !.created = TRUE, !.version = e.version,
                                       !.shoot = PlannedShoot]
    [] OTHER              -> [s EXCEPT !.version = e.version,
                                       !.shoot = ShootApplied(@, [op |-> e.type, item |-> e.arg])]

Handle(s, c) ==
  CASE c.type = "plan"   -> Given(~s.deleted, Created("planned", None))
    [] c.type = "delete" -> Delete(s, "deleted")
    [] c.type \in ShootOps ->
         LET op == [op |-> c.type, day |-> s.created, version |-> c.version, item |-> c.arg]
         IN  Given(~s.deleted /\ ~ShootRejects(s.shoot, TRUE, op),
                   IF ShootIgnores(s.shoot, op) THEN NoOp ELSE Emit(s, c.type, c.arg))

(* Adding a note needs no version. *)
Expected(c, n) ==
  CASE c.type = "plan"                   -> ExpectEmpty(n)
    [] c.type \in {"delete", "add_note"} -> ExpectAny(n)
    [] OTHER                             -> ExpectExact(c, n)

(* An unchanged start is an error to the client: see map_version_only. *)
NoOpAnswers == {}

NoRow == [present |-> FALSE, version |-> 0, shoot |-> Unplanned]

(* Mutant: setting the order does not move a planned shoot into progress. *)
ProjectShootOrderOnly(shoot, e) ==
  IF e.type = "set_order" THEN [shoot EXCEPT !.actual = e.version, !.version = e.version]
  ELSE ShootApplied([shoot EXCEPT !.version = e.version - 1], [op |-> e.type, item |-> e.arg])

(* The columns an event's statement sets. *)
ProjectShoot(shoot, e) ==
  LET t == [shoot EXCEPT !.version = e.version]
  IN CASE e.type = "replan"       -> [t EXCEPT !.planned = e.version]
       [] e.type = "start"        -> [t EXCEPT !.start = e.arg, !.status = "in_progress"]
       [] e.type = "set_order"    -> [t EXCEPT !.actual = e.version,
                                       !.status = IF @ = "planned" THEN "in_progress" ELSE @]
       [] e.type = "finish"       -> [t EXCEPT !.status = "shot"]
       [] e.type = "skip"         -> [t EXCEPT !.status = "skipped"]
       [] e.type \in {"add_note", "update_note"} -> [t EXCEPT !.notes[e.arg] = e.version]
       [] e.type = "remove_note"  -> [t EXCEPT !.notes[e.arg] = 0]
       [] e.type = "link_photo"   -> [t EXCEPT !.photos = @ \cup {e.arg}]
       [] e.type = "unlink_photo" -> [t EXCEPT !.photos = @ \ {e.arg}]

Project(r, e) ==
  CASE e.type = "deleted" -> NoRow
    [] e.type = "planned" ->
         IF r.present THEN r
         ELSE [present |-> TRUE, version |-> e.version, shoot |-> PlannedShoot]
    [] OTHER -> IfNewer(r, e, [r EXCEPT !.shoot = ProjectShoot(@, e)])

View(s) ==
  IF ~s.created \/ s.deleted THEN NoRow
  ELSE [present |-> TRUE, version |-> s.version, shoot |-> s.shoot]

-----------------------------------------------------------------------------
(* Handlers: scene_shoot_context needs the row.  A day that is shown as     *)
(* wrapped stops them too, see WrapFinality.                                *)

PlanRequests == {Cmd("plan", 0, None)}

ExecutionRequests(r, v) ==
  Found(r, UNION {{Cmd(op, v, i) : i \in Items(op)} : op \in {"start", "set_order", "finish", "skip"}})

NoteRequests(r, v) ==
  Found(r, UNION {{Cmd(op, v, i) : i \in Items(op)} : op \in {"add_note", "update_note", "remove_note"}})

ReplanRequests(r, v) == Found(r, {Cmd("replan", v, None)})

(* These look at the day, not at the shoot. *)
PhotoRequests(v) == {Cmd(op, v, i) : op \in {"link_photo", "unlink_photo"}, i \in Photos}

Requests(r, v) ==
  PlanRequests \cup ExecutionRequests(r, v) \cup NoteRequests(r, v) \cup ReplanRequests(r, v)
  \cup PhotoRequests(v)

Deletions == {Cmd("delete", 0, None)}
=============================================================================
