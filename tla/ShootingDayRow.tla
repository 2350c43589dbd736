--------------------------- MODULE ShootingDayRow ---------------------------
(***************************************************************************)
(* The read model of shooting days, over the aggregate of module           *)
(* ShootingDay: adapter, projector and the plain handlers.  Wrapping a day *)
(* and the gate it closes are in module WrapFinality.                      *)
(***************************************************************************)
EXTENDS Aggregate, ShootingDay

States == [created : BOOLEAN, deleted : BOOLEAN, archived : BOOLEAN, wrapped : BOOLEAN,
           version : Nat]

Blank == [created |-> FALSE, deleted |-> FALSE, archived |-> FALSE, wrapped |-> FALSE,
          version |-> 0]

Apply(s, e) ==
  [(CASE e.type = "deleted" -> [s EXCEPT !.deleted = TRUE]
      [] e.type = "created" -> [s EXCEPT !.created = TRUE]
      [] e.type = "edit"    -> s
      [] e.type = "archive" -> [s EXCEPT !.archived = TRUE]
      [] e.type = "wrap"    -> [s EXCEPT !.wrapped = TRUE])
     EXCEPT !.version = e.version]

Handle(s, c) ==
  CASE c.type = "create" -> Given(~s.deleted, Created("created", "none"))
    [] c.type = "delete" -> Delete(s, "deleted")
    [] c.type \in DayOps ->
         LET day == [archived |-> s.archived, wrapped |-> s.wrapped, version |-> s.version]
             op == [op |-> c.type, version |-> c.version]
         IN  Given(~s.deleted /\ ~DayRejects(day, op),
                   IF DayIgnores(day, op) THEN NoOp ELSE Emit(s, c.type, "none"))

Expected(c, n) ==
  CASE c.type = "create" -> ExpectEmpty(n)
    [] c.type = "delete" -> ExpectAny(n)
    [] OTHER             -> ExpectExact(c, n)

(* Wrapping a wrapped day emits no event, and map_version_only makes that   *)
(* an error.                                                                *)
NoOpAnswers == {}

NoRow == [present |-> FALSE, archived |-> FALSE, wrapped |-> FALSE, version |-> 0]

(* The upsert of a creation leaves archived and wrapped_at alone. *)
Project(r, e) ==
  CASE e.type = "deleted" -> NoRow
    [] e.type = "created" -> Touch([r EXCEPT !.present = TRUE], e)
    [] e.type = "edit"    -> IfPresent(r, e, r)
    [] e.type = "archive" -> IfPresent(r, e, [r EXCEPT !.archived = TRUE])
    [] e.type = "wrap"    -> IfPresent(r, e, [r EXCEPT !.wrapped = TRUE])

View(s) ==
  IF ~s.created \/ s.deleted THEN NoRow
  ELSE [present |-> TRUE, archived |-> s.archived, wrapped |-> s.wrapped, version |-> s.version]

CreateDayRequests == {Cmd("create", 0, "none")}

(* One of order key, date and label of the request is applied. *)
UpdateDayRequests(r, v) == Found(r, {Cmd("edit", v, "none")})

ArchiveDayRequests(r, v) == Found(r, {Cmd("archive", v, "none")})

WrapDayRequests(r, v) == Found(r, {Cmd("wrap", v, "none")})

Requests(r, v) ==
  CreateDayRequests \cup UpdateDayRequests(r, v) \cup ArchiveDayRequests(r, v)
  \cup WrapDayRequests(r, v)

Deletions == {Cmd("delete", 0, "none")}
=============================================================================
