-------------------------------- MODULE Season --------------------------------
(***************************************************************************)
(* Seasons: aggregate, adapter, projector and handlers.  Which numbers are *)
(* taken is the business of module Reservations.                           *)
(***************************************************************************)
EXTENDS Aggregate

CONSTANTS Texts

States == [archived : BOOLEAN, version : Nat, title : Texts \cup {"blank"}]

Blank == [archived |-> FALSE, version |-> 0, title |-> "blank"]

Apply(s, e) ==
  CASE e.type = "SeasonCreated"  -> [s EXCEPT !.title = e.arg, !.version = e.version]
    [] e.type = "SeasonRenamed"  -> [s EXCEPT !.title = e.arg, !.version = e.version]
    [] e.type = "SeasonArchived" -> [s EXCEPT !.archived = TRUE, !.version = e.version]

CreateSeason(s, c) == Created("SeasonCreated", c.arg)

RenameSeason(s, c) ==
  Given(~s.archived /\ c.version = s.version /\ c.arg # s.title,
        Emit(s, "SeasonRenamed", c.arg))

ArchiveSeason(s, c) ==
  Given(c.version = s.version /\ ~s.archived, Emit(s, "SeasonArchived", "none"))

Handle(s, c) ==
  CASE c.type = "CreateSeason"  -> CreateSeason(s, c)
    [] c.type = "RenameSeason"  -> RenameSeason(s, c)
    [] c.type = "ArchiveSeason" -> ArchiveSeason(s, c)

Expected(c, n) == IF c.type = "CreateSeason" THEN ExpectEmpty(n) ELSE ExpectExact(c, n)

NoOpAnswers == {}

NoRow == [present |-> FALSE, archived |-> FALSE, version |-> 0, title |-> "blank"]

(* The upsert leaves the archived flag of an old row alone. *)
ProjectCreated(r, e) == Touch([r EXCEPT !.present = TRUE, !.title = e.arg], e)

Project(r, e) ==
  CASE e.type = "SeasonCreated"  -> ProjectCreated(r, e)
    [] e.type = "SeasonRenamed"  -> IfPresent(r, e, [r EXCEPT !.title = e.arg])
    [] e.type = "SeasonArchived" -> IfPresent(r, e, [r EXCEPT !.archived = TRUE])

View(s) ==
  IF s.version = 0 THEN NoRow
  ELSE [present |-> TRUE, archived |-> s.archived, version |-> s.version, title |-> s.title]

CreateSeasonRequests == {Cmd("CreateSeason", 0, t) : t \in Texts}

RenameSeasonRequests(r, v) == Found(r, {Cmd("RenameSeason", v, t) : t \in Texts})

ArchiveSeasonRequests(r, v) == Found(r, {Cmd("ArchiveSeason", v, "none")})

Requests(r, v) ==
  CreateSeasonRequests \cup RenameSeasonRequests(r, v) \cup ArchiveSeasonRequests(r, v)

Deletions == {}
=============================================================================
