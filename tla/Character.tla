------------------------------ MODULE Character ------------------------------
(***************************************************************************)
(* Characters: aggregate, adapter, projector and handlers.                 *)
(***************************************************************************)
EXTENDS Aggregate

CONSTANTS Texts

States == [created : BOOLEAN, deleted : BOOLEAN, version : Nat, category : Texts \cup {"blank"},
           measurements : Texts \cup {"blank"}, contact : Texts \cup {"blank"}]

Blank == [created |-> FALSE, deleted |-> FALSE, version |-> 0, category |-> "blank",
          measurements |-> "blank", contact |-> "blank"]

Apply(s, e) ==
  [(CASE e.type = "CharacterDeleted"    -> [s EXCEPT !.deleted = TRUE]
      [] e.type = "CharacterCreated"    -> [s EXCEPT !.created = TRUE, !.category = e.arg,
                                                     !.measurements = "blank", !.contact = "blank"]
      [] e.type = "MeasurementsUpdated" -> [s EXCEPT !.measurements = e.arg]
      [] e.type = "ContactInfoUpdated"  -> [s EXCEPT !.contact = e.arg]
      [] e.type = "CategoryChanged"     -> [s EXCEPT !.category = e.arg])
     EXCEPT !.version = e.version]

CreateCharacter(s, c) ==
  Given(~s.deleted /\ c.arg # "blank", Created("CharacterCreated", c.arg))

UpdateMeasurements(s, c) ==
  Given(Fresh(s, c) /\ c.arg # s.measurements, Emit(s, "MeasurementsUpdated", c.arg))

UpdateContactInfo(s, c) ==
  Given(Fresh(s, c) /\ c.arg # s.contact, Emit(s, "ContactInfoUpdated", c.arg))

UpdateCharacterCategory(s, c) ==
  Given(Fresh(s, c), IF c.arg = s.category THEN NoOp ELSE Emit(s, "CategoryChanged", c.arg))

Handle(s, c) ==
  CASE c.type = "CreateCharacter"         -> CreateCharacter(s, c)
    [] c.type = "UpdateMeasurements"      -> UpdateMeasurements(s, c)
    [] c.type = "UpdateContactInfo"       -> UpdateContactInfo(s, c)
    [] c.type = "UpdateCharacterCategory" -> UpdateCharacterCategory(s, c)
    [] c.type = "DeleteCharacter"         -> Delete(s, "CharacterDeleted")

Expected(c, n) ==
  CASE c.type = "CreateCharacter" -> ExpectEmpty(n)
    [] c.type = "DeleteCharacter" -> ExpectAny(n)
    [] OTHER                      -> ExpectExact(c, n)

(* map_version_only: a command without events is an error to the client. *)
NoOpAnswers == {}

NoRow == [present |-> FALSE, version |-> 0, category |-> "blank", measurements |-> "blank",
          contact |-> "blank"]

(* Upsert and updates go by the id alone. *)
Project(r, e) ==
  CASE e.type = "CharacterDeleted"    -> NoRow
    [] e.type = "CharacterCreated"    -> [NoRow EXCEPT !.present = TRUE, !.version = e.version,
                                                       !.category = e.arg]
    [] e.type = "MeasurementsUpdated" -> IfPresent(r, e, [r EXCEPT !.measurements = e.arg])
    [] e.type = "ContactInfoUpdated"  -> IfPresent(r, e, [r EXCEPT !.contact = e.arg])
    [] e.type = "CategoryChanged"     -> IfPresent(r, e, [r EXCEPT !.category = e.arg])

View(s) ==
  IF ~s.created \/ s.deleted THEN NoRow
  ELSE [present |-> TRUE, version |-> s.version, category |-> s.category,
        measurements |-> s.measurements, contact |-> s.contact]

(* create_character carries name and category in one value. *)
CreateRequests == {Cmd("CreateCharacter", 0, t) : t \in Texts \cup {"blank"}}

MeasurementsRequests(r, v) == Found(r, {Cmd("UpdateMeasurements", v, t) : t \in Texts})

ContactRequests(r, v) == Found(r, {Cmd("UpdateContactInfo", v, t) : t \in Texts})

CategoryRequests(r, v) == Found(r, {Cmd("UpdateCharacterCategory", v, t) : t \in Texts})

Requests(r, v) == CreateRequests \cup MeasurementsRequests(r, v) \cup ContactRequests(r, v)
                  \cup CategoryRequests(r, v)

Deletions == {Cmd("DeleteCharacter", 0, "none")}
=============================================================================
