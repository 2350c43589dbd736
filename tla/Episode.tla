------------------------------- MODULE Episode -------------------------------
(***************************************************************************)
(* Episodes: aggregate, adapter, projector and handlers.                   *)
(***************************************************************************)
EXTENDS Aggregate

CONSTANTS Texts

States == [created : BOOLEAN, deleted : BOOLEAN, version : Nat, name : Texts \cup {"blank"}]

Blank == [created |-> FALSE, deleted |-> FALSE, version |-> 0, name |-> "blank"]

Apply(s, e) ==
  [(CASE e.type = "EpisodeDeleted" -> [s EXCEPT !.deleted = TRUE]
      [] e.type = "EpisodeCreated" -> [s EXCEPT !.created = TRUE, !.name = e.arg]
      [] e.type = "EpisodeRenamed" -> [s EXCEPT !.name = e.arg])
     EXCEPT !.version = e.version]

CreateEpisode(s, c) == Given(~s.deleted, Created("EpisodeCreated", c.arg))

RenameEpisode(s, c) == Given(Fresh(s, c) /\ c.arg # s.name, Emit(s, "EpisodeRenamed", c.arg))

DeleteEpisode(s, c) == Delete(s, "EpisodeDeleted")

Handle(s, c) ==
  CASE c.type = "CreateEpisode" -> CreateEpisode(s, c)
    [] c.type = "RenameEpisode" -> RenameEpisode(s, c)
    [] c.type = "DeleteEpisode" -> DeleteEpisode(s, c)

Expected(c, n) ==
  CASE c.type = "CreateEpisode" -> ExpectEmpty(n)
    [] c.type = "DeleteEpisode" -> ExpectAny(n)
    [] OTHER                    -> ExpectExact(c, n)

NoOpAnswers == {}

NoRow == [present |-> FALSE, version |-> 0, name |-> "blank"]

Project(r, e) ==
  CASE e.type = "EpisodeDeleted" -> NoRow
    [] e.type = "EpisodeCreated" -> Touch([r EXCEPT !.present = TRUE, !.name = e.arg], e)
    [] e.type = "EpisodeRenamed" -> IfPresent(r, e, [r EXCEPT !.name = e.arg])

View(s) ==
  IF ~s.created \/ s.deleted THEN NoRow
  ELSE [present |-> TRUE, version |-> s.version, name |-> s.name]

CreateEpisodeRequests == {Cmd("CreateEpisode", 0, t) : t \in Texts}

RenameEpisodeRequests(r, v) == Found(r, {Cmd("RenameEpisode", v, t) : t \in Texts})

Requests(r, v) == CreateEpisodeRequests \cup RenameEpisodeRequests(r, v)

Deletions == {Cmd("DeleteEpisode", 0, "none")}
=============================================================================
