-------------------------------- MODULE Scene --------------------------------
(***************************************************************************)
(* Scenes: the aggregate, its adapter, its projector and its HTTP          *)
(* handlers.  Outfit and note of a beat are one value, its look.           *)
(***************************************************************************)
EXTENDS Aggregate, FiniteSets, FiniteSetsExt

CONSTANTS Texts, Characters, Days, Looks

Beats == [character : Characters, order : Nat, look : Looks]

States == [created : BOOLEAN, deleted : BOOLEAN, version : Nat, details : Texts \cup {"none"},
           characters : SUBSET Characters, days : SUBSET Days, beats : SUBSET Beats]

Blank == [created |-> FALSE, deleted |-> FALSE, version |-> 0, details |-> "none",
          characters |-> {}, days |-> {}, beats |-> {}]

-----------------------------------------------------------------------------
(* Events *)

BeatsOf(s, k) == {b \in s.beats : b.character = k}

ApplyCast(s, e) ==
  CASE e.type = "SceneDeleted"         -> [s EXCEPT !.deleted = TRUE]
    [] e.type = "SceneCreated"         -> [s EXCEPT !.created = TRUE, !.details = e.arg,
                                                    !.characters = {}, !.days = {}]
    [] e.type = "SceneDetailsUpdated"  -> [s EXCEPT !.details = e.arg]
    [] e.type = "CharacterAssigned"    -> [s EXCEPT !.characters = @ \cup {e.arg}]
    [] e.type = "CharacterRemoved"     -> [s EXCEPT !.characters = @ \ {e.arg}]

ApplyRest(s, e) ==
  CASE e.type = "ShootingDayScheduled"   -> [s EXCEPT !.days = @ \cup {e.arg}]
    [] e.type = "ShootingDayUnscheduled" -> [s EXCEPT !.days = @ \ {e.arg}]
    [] e.type = "OutfitBeatAdded"        -> [s EXCEPT !.beats = @ \cup {e.arg}]
    [] e.type = "OutfitBeatUpdated"      ->
         [s EXCEPT !.beats = {b \in @ : b.character # e.arg.character
                                        \/ b.order # e.arg.order} \cup {e.arg}]
    [] e.type = "OutfitBeatRemoved"      ->
         [s EXCEPT !.beats = {b \in @ : b.character # e.arg.character
                                        \/ b.order # e.arg.order}]
    [] e.type = "OutfitBeatsCleared"     -> [s EXCEPT !.beats = @ \ BeatsOf(s, e.arg)]

CastEvents == {"SceneDeleted", "SceneCreated", "SceneDetailsUpdated",
               "CharacterAssigned", "CharacterRemoved"}

Apply(s, e) ==
  [(IF e.type \in CastEvents THEN ApplyCast(s, e) ELSE ApplyRest(s, e))
     EXCEPT !.version = e.version]

-----------------------------------------------------------------------------
(* Commands *)

CreateScene(s, c) == Given(~s.deleted, Created("SceneCreated", c.arg))

UpdateSceneDetails(s, c) ==
  Given(Fresh(s, c) /\ c.arg # s.details, Emit(s, "SceneDetailsUpdated", c.arg))

AssignCharacter(s, c) ==
  Given(Fresh(s, c) /\ c.arg \notin s.characters, Emit(s, "CharacterAssigned", c.arg))

(* Mutant: both events carry the next version. *)
RemoveCharacterOneVersion(s, c) ==
  Given(Fresh(s, c) /\ c.arg \in s.characters,
        IF BeatsOf(s, c.arg) = {} THEN Emit(s, "CharacterRemoved", c.arg)
        ELSE Accept(<<Event("OutfitBeatsCleared", c.arg, s.version + 1),
                      Event("CharacterRemoved", c.arg, s.version + 1)>>))

(* The character's beats are cleared first, by an event of their own. *)
RemoveCharacter(s, c) ==
  Given(Fresh(s, c) /\ c.arg \in s.characters,
        IF BeatsOf(s, c.arg) = {} THEN Emit(s, "CharacterRemoved", c.arg)
        ELSE Accept(<<Event("OutfitBeatsCleared", c.arg, s.version + 1),
                      Event("CharacterRemoved", c.arg, s.version + 2)>>))

(* is_state_idempotent, which the actor asks before it handles a command    *)
(* whose expected version holds.                                            *)
IsScheduled(s, c) == ~s.deleted /\ c.arg \in s.days

ScheduleScene(s, c) ==
  IF IsScheduled(s, c) THEN NoOp
  ELSE Given(Fresh(s, c), Emit(s, "ShootingDayScheduled", c.arg))

UnscheduleScene(s, c) ==
  Given(Fresh(s, c) /\ c.arg \in s.days, Emit(s, "ShootingDayUnscheduled", c.arg))

NextOrder(s, k) ==
  IF BeatsOf(s, k) = {} THEN 0 ELSE Max({b.order : b \in BeatsOf(s, k)}) + 1

AddOutfitBeat(s, c) ==
  LET k == c.arg.character
      repeats == \E b \in BeatsOf(s, k) : b.order + 1 = NextOrder(s, k)
                                          /\ b.look = c.arg.look
  IN  Given(Fresh(s, c) /\ k \in s.characters /\ ~repeats,
            Emit(s, "OutfitBeatAdded", [c.arg EXCEPT !.order = NextOrder(s, k)]))

HasBeat(s, b) == \E x \in BeatsOf(s, b.character) : x.order = b.order

UpdateOutfitBeat(s, c) ==
  Given(Fresh(s, c) /\ c.arg.character \in s.characters /\ HasBeat(s, c.arg),
        Emit(s, "OutfitBeatUpdated", c.arg))

RemoveOutfitBeat(s, c) ==
  Given(Fresh(s, c) /\ c.arg.character \in s.characters /\ HasBeat(s, c.arg),
        Emit(s, "OutfitBeatRemoved", c.arg))

(* RemoveOutfitBeat without an order. *)
ClearOutfitBeats(s, c) ==
  Given(Fresh(s, c) /\ c.arg \in s.characters /\ BeatsOf(s, c.arg) # {},
        Emit(s, "OutfitBeatsCleared", c.arg))

Handle(s, c) ==
  CASE c.type = "CreateScene"        -> CreateScene(s, c)
    [] c.type = "UpdateSceneDetails" -> UpdateSceneDetails(s, c)
    [] c.type = "AssignCharacter"    -> AssignCharacter(s, c)
    [] c.type = "RemoveCharacter"    -> RemoveCharacter(s, c)
    [] c.type = "ScheduleScene"      -> ScheduleScene(s, c)
    [] c.type = "UnscheduleScene"    -> UnscheduleScene(s, c)
    [] c.type = "AddOutfitBeat"      -> AddOutfitBeat(s, c)
    [] c.type = "UpdateOutfitBeat"   -> UpdateOutfitBeat(s, c)
    [] c.type = "RemoveOutfitBeat"   -> RemoveOutfitBeat(s, c)
    [] c.type = "ClearOutfitBeats"   -> ClearOutfitBeats(s, c)
    [] c.type = "DeleteScene"        -> Delete(s, "SceneDeleted")

(* SceneCommandsImpl; deleting is for the development reset. *)
Expected(c, n) ==
  CASE c.type = "CreateScene" -> ExpectEmpty(n)
    [] c.type = "DeleteScene" -> ExpectAny(n)
    [] OTHER                  -> ExpectExact(c, n)

(* The idempotent result of the actor; an empty one is a conflict to         *)
(* map_version_only.                                                        *)
NoOpAnswers == {"ScheduleScene"}

-----------------------------------------------------------------------------
(* Projector.  The tables of characters, days and beats hang off the row    *)
(* with ON DELETE CASCADE.                                                  *)

NoRow == [present |-> FALSE, version |-> 0, details |-> "none",
          characters |-> {}, days |-> {}, beats |-> {}]

(* Created is an upsert that leaves the children of an old row alone. *)
ProjectRow(r, e) ==
  CASE e.type = "SceneDeleted"        -> NoRow
    [] e.type = "SceneCreated"        -> Touch([r EXCEPT !.present = TRUE, !.details = e.arg], e)
    [] e.type = "SceneDetailsUpdated" -> IfPresent(r, e, [r EXCEPT !.details = e.arg])

(* Mutant: characters and days are guarded by the version, rows are not. *)
ProjectLinksIfNewer(r, e) ==
  CASE e.type = "CharacterAssigned" -> IfNewer(r, e, [r EXCEPT !.characters = @ \cup {e.arg}])
    [] e.type = "CharacterRemoved"  -> r
    [] e.type = "ShootingDayScheduled" -> IfNewer(r, e, [r EXCEPT !.days = @ \cup {e.arg}])
    [] e.type = "ShootingDayUnscheduled" -> IfNewer(r, e, [r EXCEPT !.days = @ \ {e.arg}])

ProjectLinks(r, e) ==
  CASE e.type = "CharacterAssigned"      -> IfPresent(r, e, [r EXCEPT !.characters = @ \cup {e.arg}])
    [] e.type = "CharacterRemoved"       -> IfPresent(r, e, [r EXCEPT !.characters = @ \ {e.arg}])
    [] e.type = "ShootingDayScheduled"   -> IfPresent(r, e, [r EXCEPT !.days = @ \cup {e.arg}])
    [] e.type = "ShootingDayUnscheduled" -> IfPresent(r, e, [r EXCEPT !.days = @ \ {e.arg}])

(* guard_parent: a beat changes only when the event is newer than the row. *)
ProjectBeats(r, e) ==
  IfNewer(r, e,
    CASE e.type = "OutfitBeatAdded" ->
           [r EXCEPT !.beats = {b \in @ : ~(b.character = e.arg.character
                                            /\ b.order = e.arg.order)} \cup {e.arg}]
      [] e.type = "OutfitBeatUpdated" ->
           [r EXCEPT !.beats = {IF b.character = e.arg.character /\ b.order = e.arg.order
                                THEN e.arg ELSE b : b \in @}]
      [] e.type = "OutfitBeatRemoved" ->
           [r EXCEPT !.beats = {b \in @ : ~(b.character = e.arg.character
                                            /\ b.order = e.arg.order)}]
      [] e.type = "OutfitBeatsCleared" ->
           [r EXCEPT !.beats = @ \ BeatsOf(r, e.arg)])

Project(r, e) ==
  CASE e.type \in {"SceneDeleted", "SceneCreated", "SceneDetailsUpdated"} -> ProjectRow(r, e)
    [] e.type \in {"CharacterAssigned", "CharacterRemoved",
                   "ShootingDayScheduled", "ShootingDayUnscheduled"} -> ProjectLinks(r, e)
    [] OTHER -> ProjectBeats(r, e)

(* What the read model owes a state. *)
View(s) ==
  IF ~s.created \/ s.deleted THEN NoRow
  ELSE [present |-> TRUE, version |-> s.version, details |-> s.details,
        characters |-> s.characters, days |-> s.days, beats |-> s.beats]

-----------------------------------------------------------------------------
(* Handlers: the commands a request with version v can send given row r.   *)
(* A beat of a request carries an order where the path has one.            *)

BeatBodies(orders) == [character : Characters, order : orders, look : Looks]

CreateSceneRequests == {Cmd("CreateScene", 0, d) : d \in Texts}

UpdateDetailsRequests(r, v) == Found(r, {Cmd("UpdateSceneDetails", v, d) : d \in Texts})

AssignCharacterRequests(r, v) == Found(r, {Cmd("AssignCharacter", v, k) : k \in Characters})

RemoveCharacterRequests(r, v) == Found(r, {Cmd("RemoveCharacter", v, k) : k \in Characters})

(* The project is looked up through the day: the scene's row may be absent. *)
ScheduleRequests(v) == {Cmd("ScheduleScene", v, d) : d \in Days}

UnscheduleRequests(v) == {Cmd("UnscheduleScene", v, d) : d \in Days}

AddBeatRequests(r, v) == Found(r, {Cmd("AddOutfitBeat", v, b) : b \in BeatBodies({0})})

UpdateBeatRequests(r, v) == Found(r, {Cmd("UpdateOutfitBeat", v, b) : b \in BeatBodies({0, 1})})

RemoveBeatRequests(r, v) ==
  Found(r, {Cmd("RemoveOutfitBeat", v, b) :
              b \in {x \in BeatBodies({0, 1}) : x.look = CHOOSE l \in Looks : TRUE}})

ClearBeatsRequests(r, v) == Found(r, {Cmd("ClearOutfitBeats", v, k) : k \in Characters})

Requests(r, v) ==
  CreateSceneRequests \cup UpdateDetailsRequests(r, v) \cup AssignCharacterRequests(r, v)
  \cup RemoveCharacterRequests(r, v) \cup ScheduleRequests(v) \cup UnscheduleRequests(v)
  \cup AddBeatRequests(r, v) \cup UpdateBeatRequests(r, v) \cup RemoveBeatRequests(r, v)
  \cup ClearBeatsRequests(r, v)

Deletions == {Cmd("DeleteScene", 0, "none")}
=============================================================================
