-------------------------------- MODULE Block --------------------------------
(***************************************************************************)
(* Blocks: aggregate, adapter, projector and handlers.  The two dates are  *)
(* one value, the span.                                                    *)
(***************************************************************************)
EXTENDS Aggregate

CONSTANTS Spans

States == [version : Nat, span : Spans \cup {"none"}]

Blank == [version |-> 0, span |-> "none"]

(* BlockCreated and BlockTimeSpanUpdated *)
Apply(s, e) == [version |-> e.version, span |-> e.arg]

CreateBlock(s, c) == Created("BlockCreated", c.arg)

UpdateBlockTimeSpan(s, c) ==
  Given(c.version = s.version, Emit(s, "BlockTimeSpanUpdated", c.arg))

Handle(s, c) ==
  CASE c.type = "CreateBlock"         -> CreateBlock(s, c)
    [] c.type = "UpdateBlockTimeSpan" -> UpdateBlockTimeSpan(s, c)

Expected(c, n) == IF c.type = "CreateBlock" THEN ExpectEmpty(n) ELSE ExpectExact(c, n)

NoOpAnswers == {}

NoRow == [present |-> FALSE, version |-> 0, span |-> "none"]

Project(r, e) ==
  CASE e.type = "BlockCreated"         -> Touch([r EXCEPT !.present = TRUE, !.span = e.arg], e)
    [] e.type = "BlockTimeSpanUpdated" -> IfPresent(r, e, [r EXCEPT !.span = e.arg])

View(s) ==
  IF s.version = 0 THEN NoRow ELSE [present |-> TRUE, version |-> s.version, span |-> s.span]

(* create_block goes on to bootstrap its owner: see module Membership. *)
CreateBlockRequests == {Cmd("CreateBlock", 0, t) : t \in Spans}

UpdateTimeSpanRequests(r, v) == Found(r, {Cmd("UpdateBlockTimeSpan", v, t) : t \in Spans})

Requests(r, v) == CreateBlockRequests \cup UpdateTimeSpanRequests(r, v)

Deletions == {}
=============================================================================
