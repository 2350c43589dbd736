----------------------------- MODULE Catalogue -----------------------------
(***************************************************************************)
(* One entity of the catalogue, from the HTTP request to the read model:   *)
(* a client that reads the row and sends commands with the version it      *)
(* read, the adapter and the entity's actor that accept or reject them,    *)
(* the stream, and the projector that follows the stream with a lag and    *)
(* may be sent back to an earlier event (a restart from the checkpoint or  *)
(* a rebuild).  Other clients, sagas and the development reset act in      *)
(* single steps.  The kind of the entity is fixed at the start; what its   *)
(* commands and events do is in the module of the kind.                    *)
(***************************************************************************)
EXTENDS Aggregate

CONSTANTS
  EntityKinds,                                                    \* kinds of entities
  Texts, Characters, Days, Looks, Seasons, Categories, DetailIds, Photos, Pieces,
  Providers, Keys, Bodies, Capable, Curated,
  Users, Roles, OpsAdmins, Times, Notes, None,
  MaxLength,                                                \* bound: length of a stream, by kind
  MaxSteps                                                  \* bound: events and replays, by kind


VARIABLES
  kind,     \* the kind of the entity
  entity,   \* the state of its actor
  stream,   \* its events
  past,     \* history: past[i] is what its first i events add up to
  row,      \* its row in the read model
  cursor,   \* events the projector has handled
  high,     \* the furthest the projector has been
  client,   \* what the client holds, and its request
  rewinds

catalogueVars == <<kind, entity, stream, past, row, cursor, high, client, rewinds>>

S  == INSTANCE Scene
P  == INSTANCE Piece
O  == INSTANCE Outfit
C  == INSTANCE Character
Z  == INSTANCE Season
E  == INSTANCE Episode
B  == INSTANCE Block WITH Spans <- Texts
K  == INSTANCE CostumeCategory
T  == INSTANCE Settings
A  == INSTANCE AiConfig
M  == INSTANCE Membership
D  == INSTANCE ShootingDayRow
SH == INSTANCE SceneShootRow

AllKinds == {"scene", "piece", "outfit", "character", "season", "episode", "block",
             "category", "settings", "ai_config", "membership", "day", "shoot"}

ASSUME CatalogueConstants ==
  /\ EntityKinds \subseteq AllKinds
  /\ MaxLength \in [EntityKinds -> Nat] /\ MaxSteps \in [EntityKinds -> Nat]
  /\ Bodies \subseteq [A!Fields -> STRING]
  /\ "none" \notin Roles /\ "costume_assistant" \in Roles

(* The operators of a kind: by dispatch. *)
Handle(k, s, c) ==
  CASE k = "scene" -> S!Handle(s, c)        [] k = "piece" -> P!Handle(s, c)
    [] k = "outfit" -> O!Handle(s, c)       [] k = "character" -> C!Handle(s, c)
    [] k = "season" -> Z!Handle(s, c)       [] k = "episode" -> E!Handle(s, c)
    [] k = "block" -> B!Handle(s, c)        [] k = "category" -> K!Handle(s, c)
    [] k = "settings" -> T!Handle(s, c)     [] k = "ai_config" -> A!Handle(s, c)
    [] k = "membership" -> M!Handle(s, c)   [] k = "day" -> D!Handle(s, c)
    [] k = "shoot" -> SH!Handle(s, c)

Apply(k, s, e) ==
  CASE k = "scene" -> S!Apply(s, e)         [] k = "piece" -> P!Apply(s, e)
    [] k = "outfit" -> O!Apply(s, e)        [] k = "character" -> C!Apply(s, e)
    [] k = "season" -> Z!Apply(s, e)        [] k = "episode" -> E!Apply(s, e)
    [] k = "block" -> B!Apply(s, e)         [] k = "category" -> K!Apply(s, e)
    [] k = "settings" -> T!Apply(s, e)      [] k = "ai_config" -> A!Apply(s, e)
    [] k = "membership" -> M!Apply(s, e)    [] k = "day" -> D!Apply(s, e)
    [] k = "shoot" -> SH!Apply(s, e)

Expected(k, c, n) ==
  CASE k = "scene" -> S!Expected(c, n)      [] k = "piece" -> P!Expected(c, n)
    [] k = "outfit" -> O!Expected(c, n)     [] k = "character" -> C!Expected(c, n)
    [] k = "season" -> Z!Expected(c, n)     [] k = "episode" -> E!Expected(c, n)
    [] k = "block" -> B!Expected(c, n)      [] k = "category" -> K!Expected(c, n)
    [] k = "settings" -> T!Expected(c, n)   [] k = "ai_config" -> A!Expected(c, n)
    [] k = "membership" -> M!Expected(c, n) [] k = "day" -> D!Expected(c, n)
    [] k = "shoot" -> SH!Expected(c, n)

Project(k, r, e) ==
  CASE k = "scene" -> S!Project(r, e)       [] k = "piece" -> P!Project(r, e)
    [] k = "outfit" -> O!Project(r, e)      [] k = "character" -> C!Project(r, e)
    [] k = "season" -> Z!Project(r, e)      [] k = "episode" -> E!Project(r, e)
    [] k = "block" -> B!Project(r, e)       [] k = "category" -> K!Project(r, e)
    [] k = "settings" -> T!Project(r, e)    [] k = "ai_config" -> A!Project(r, e)
    [] k = "membership" -> M!Project(r, e)  [] k = "day" -> D!Project(r, e)
    [] k = "shoot" -> SH!Project(r, e)

View(k, s) ==
  CASE k = "scene" -> S!View(s)             [] k = "piece" -> P!View(s)
    [] k = "outfit" -> O!View(s)            [] k = "character" -> C!View(s)
    [] k = "season" -> Z!View(s)            [] k = "episode" -> E!View(s)
    [] k = "block" -> B!View(s)             [] k = "category" -> K!View(s)
    [] k = "settings" -> T!View(s)          [] k = "ai_config" -> A!View(s)
    [] k = "membership" -> M!View(s)        [] k = "day" -> D!View(s)
    [] k = "shoot" -> SH!View(s)

Requests(k, r, v) ==
  CASE k = "scene" -> S!Requests(r, v)      [] k = "piece" -> P!Requests(r, v)
    [] k = "outfit" -> O!Requests(r, v)     [] k = "character" -> C!Requests(r, v)
    [] k = "season" -> Z!Requests(r, v)     [] k = "episode" -> E!Requests(r, v)
    [] k = "block" -> B!Requests(r, v)      [] k = "category" -> K!Requests(r, v)
    [] k = "settings" -> T!Requests(r, v)   [] k = "ai_config" -> A!Requests(r, v)
    [] k = "membership" -> M!Requests(r, v) [] k = "day" -> D!Requests(r, v)
    [] k = "shoot" -> SH!Requests(r, v)

Deletions(k) ==
  CASE k = "scene" -> S!Deletions           [] k = "piece" -> P!Deletions
    [] k = "outfit" -> O!Deletions          [] k = "character" -> C!Deletions
    [] k = "episode" -> E!Deletions         [] k = "day" -> D!Deletions
    [] k = "shoot" -> SH!Deletions          [] OTHER -> {}

Blank(k) ==
  CASE k = "scene" -> S!Blank        [] k = "piece" -> P!Blank       [] k = "outfit" -> O!Blank
    [] k = "character" -> C!Blank    [] k = "season" -> Z!Blank      [] k = "episode" -> E!Blank
    [] k = "block" -> B!Blank        [] k = "category" -> K!Blank    [] k = "settings" -> T!Blank
    [] k = "ai_config" -> A!Blank    [] k = "membership" -> M!Blank  [] k = "day" -> D!Blank
    [] k = "shoot" -> SH!Blank

NoRow(k) ==
  CASE k = "scene" -> S!NoRow        [] k = "piece" -> P!NoRow       [] k = "outfit" -> O!NoRow
    [] k = "character" -> C!NoRow    [] k = "season" -> Z!NoRow      [] k = "episode" -> E!NoRow
    [] k = "block" -> B!NoRow        [] k = "category" -> K!NoRow    [] k = "settings" -> T!NoRow
    [] k = "ai_config" -> A!NoRow    [] k = "membership" -> M!NoRow  [] k = "day" -> D!NoRow
    [] k = "shoot" -> SH!NoRow

States(k) ==
  CASE k = "scene" -> S!States       [] k = "piece" -> P!States     [] k = "outfit" -> O!States
    [] k = "character" -> C!States   [] k = "season" -> Z!States    [] k = "episode" -> E!States
    [] k = "block" -> B!States       [] k = "category" -> K!States  [] k = "settings" -> T!States
    [] k = "ai_config" -> A!States   [] k = "membership" -> M!States [] k = "day" -> D!States
    [] k = "shoot" -> SH!States

NoOpAnswers(k) ==
  CASE k = "scene"  -> S!NoOpAnswers
    [] k = "piece"  -> P!NoOpAnswers
    [] k = "outfit" -> O!NoOpAnswers
    [] OTHER           -> {}

(* Members carry no version: their commands are accepted at any. *)
Versioned(k) == k # "membership"

-----------------------------------------------------------------------------
NoCmd == Cmd("none", 0, "none")

(* `whole' is whether the projector was at its furthest when the client     *)
(* read what it has seen, or knows it from its own command.                 *)
NewClient(k) == [phase |-> "idle", version |-> 0, seen |-> Blank(k), whole |-> FALSE,
                 cmd |-> NoCmd]

CatalogueInit ==
  /\ kind \in EntityKinds
  /\ entity = Blank(kind)
  /\ stream = << >> /\ past = [i \in {0} |-> entity]
  /\ row = NoRow(kind)
  /\ cursor = 0 /\ high = 0 /\ rewinds = 0
  /\ client = NewClient(kind)

(* EntityActor::execute: the expected version, then the aggregate. *)
Decide(c) == IF Expected(kind, c, Len(stream)) THEN Handle(kind, entity, c) ELSE Reject

(* The state after the first i events of a command; none emits three. *)
Replayed(s, events, i) ==
  CASE i = 0 -> s
    [] i = 1 -> Apply(kind, s, events[1])
    [] i = 2 -> Apply(kind, Apply(kind, s, events[1]), events[2])

Store(events) ==
  /\ Len(stream) + Len(events) <= MaxLength[kind]
  /\ Len(stream) + Len(events) + rewinds <= MaxSteps[kind]
  /\ stream' = stream \o events
  /\ entity' = Replayed(entity, events, Len(events))
  /\ past' = [i \in 0..Len(stream') |-> IF i <= Len(stream) THEN past[i]
                                        ELSE Replayed(entity, events, i - Len(stream))]

(* A GET of the entity, for its version. *)
ClientReads ==
  /\ client.phase = "idle" /\ Versioned(kind)
  /\ client' = [client EXCEPT !.version = row.version, !.seen = row,
                              !.whole = (cursor = high)]
  /\ UNCHANGED <<kind, entity, stream, past, row, cursor, high, rewinds>>

(* A handler looks at the row and hands the command to the actor.  The      *)
(* client works on what it has read: creations are for OthersAct.           *)
ClientSends ==
  /\ client.phase = "idle"
  /\ Versioned(kind) => client.version > 0
  /\ \E c \in {d \in Requests(kind, row, client.version) : Versioned(kind) => d.version > 0} :
       client' = [client EXCEPT !.phase = "sent", !.cmd = c]
  /\ UNCHANGED <<kind, entity, stream, past, row, cursor, high, rewinds>>

(* A command with events answers with the version of the last; one without  *)
(* is an error unless the adapter lets it pass.                             *)
ClientSucceeds ==
  LET d == Decide(client.cmd)
  IN  /\ client.phase = "sent"
      /\ d.ok /\ (d.events # << >> \/ client.cmd.type \in NoOpAnswers(kind))
      /\ Store(d.events)
      /\ client' = IF d.events = << >> \/ ~Versioned(kind)
                   THEN [client EXCEPT !.phase = "idle", !.cmd = NoCmd]
                   ELSE [phase |-> "idle", cmd |-> NoCmd, seen |-> View(kind, entity'), whole |-> TRUE,
                         version |-> Answered(Len(stream), d.events)]
      /\ UNCHANGED <<kind, row, cursor, high, rewinds>>

ClientFails ==
  LET d == Decide(client.cmd)
  IN  /\ client.phase = "sent"
      /\ ~d.ok \/ (d.events = << >> /\ client.cmd.type \notin NoOpAnswers(kind))
      /\ client' = [client EXCEPT !.phase = "idle", !.cmd = NoCmd]
      /\ UNCHANGED <<kind, entity, stream, past, row, cursor, high, rewinds>>

(* Somebody else who knows the current version, or the development reset. *)
OthersAct ==
  /\ \E c \in Requests(kind, row, Len(stream)) \cup Deletions(kind) :
       /\ Decide(c).events # << >>
       /\ Store(Decide(c).events)
  /\ UNCHANGED <<kind, row, cursor, high, client, rewinds>>

ProjectNext ==
  /\ cursor < Len(stream)
  /\ row' = Project(kind, row, stream[cursor + 1])
  /\ cursor' = cursor + 1
  /\ high' = IF cursor' > high THEN cursor' ELSE high
  /\ UNCHANGED <<kind, entity, stream, past, client, rewinds>>

(* The projector starts again from an earlier event, the row as it is. *)
Rewind ==
  /\ Len(stream) + rewinds < MaxSteps[kind]
  /\ \E n \in 0..(cursor - 1) : cursor' = n
  /\ rewinds' = rewinds + 1
  /\ UNCHANGED <<kind, entity, stream, past, row, high, client>>

CatalogueNext ==
  \/ ClientReads \/ ClientSends \/ ClientSucceeds \/ ClientFails
  \/ OthersAct \/ ProjectNext \/ Rewind

CatalogueSpec == CatalogueInit /\ [][CatalogueNext]_catalogueVars

-----------------------------------------------------------------------------
(* The actor's state is in the range of its fields, the projector somewhere *)
(* on the stream, and the client knows of no version the stream has not     *)
(* reached.                                                                 *)
CatalogueTypes ==
  /\ kind \in EntityKinds
  /\ entity \in States(kind)
  /\ cursor \in 0..high /\ high \in 0..Len(stream) /\ rewinds \in 0..MaxSteps[kind]
  /\ client.phase \in {"idle", "sent"} /\ client.version \in 0..Len(stream)

(* A projector that has caught up with where it has been shows exactly what *)
(* the events say, an outfit's pieces at the positions the events gave them *)
(* included, however often it was sent back and whatever it was in the      *)
(* middle of: no statement of it is lost to a version guard and none takes  *)
(* effect twice.                                                            *)
ReadModelFollows ==
  cursor = high => row = View(kind, past[cursor])

(* What the migration and the view say of the positions of an outfit:       *)
(* "`position` preserves the insertion order", so that sorting by it shows  *)
(* the pieces in the order they were added.                                 *)
PositionsKeepInsertionOrder ==
  LET held == past[cursor].pieces
  IN  kind = "outfit" /\ cursor = high /\ row.present
        => \A i, j \in DOMAIN held : i < j => row.positions[held[i]] < row.positions[held[j]]

(* Versions never skip, repeat or fall behind: the version an event carries *)
(* is its place in the stream, so the version a client is answered with or  *)
(* reads is one the actor will accept until something else happens.         *)
VersionsCount ==
  Versioned(kind) =>
    /\ entity.version = Len(stream)
    /\ \A i \in DOMAIN stream : stream[i].version = i

(* Optimistic concurrency: a command that asks for an exact version is only *)
(* accepted while the entity is what its sender was shown.                  *)
AcceptedOnWhatWasSeen ==
  [][ClientSucceeds /\ client.whole /\ ~Expected(kind, client.cmd, 0)
       => client.seen = View(kind, entity)]_catalogueVars
=============================================================================
