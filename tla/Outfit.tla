------------------------------- MODULE Outfit -------------------------------
(***************************************************************************)
(* Outfits: aggregate, adapter, projector and handlers.  `pieces' is in    *)
(* the order the pieces were added; `positions' is no field of the         *)
(* aggregate: it records the position the events gave each piece that is   *)
(* held, which is what the row is sorted by, and -1 for every other.       *)
(***************************************************************************)
EXTENDS Aggregate, SequencesExt

CONSTANTS Texts, Pieces, Photos

States == [created : BOOLEAN, deleted : BOOLEAN, version : Nat, name : Texts \cup {"blank"},
           variant : BOOLEAN, pieces : Seq(Pieces), positions : [Pieces -> Nat \cup {-1}],
           notes : Texts \cup {"blank"}, photos : SUBSET Photos]

Blank == [created |-> FALSE, deleted |-> FALSE, version |-> 0, name |-> "blank",
          variant |-> FALSE, pieces |-> << >>, positions |-> [k \in Pieces |-> -1],
          notes |-> "blank", photos |-> {}]

-----------------------------------------------------------------------------
(* retain, of a list without duplicates *)
Without(pieces, k) ==
  IF Contains(pieces, k) THEN RemoveAt(pieces, CHOOSE i \in DOMAIN pieces : pieces[i] = k)
  ELSE pieces

(* The pieces of a creation take their index as position. *)
PlaceOf(pieces, k) ==
  IF Contains(pieces, k) THEN (CHOOSE i \in DOMAIN pieces : pieces[i] = k) - 1 ELSE -1

Apply(s, e) ==
  [(CASE e.type = "OutfitDeleted"       -> [s EXCEPT !.deleted = TRUE]
      [] e.type \in {"OutfitCreated", "OutfitVariantCreated"} ->
           [s EXCEPT !.created = TRUE, !.name = e.arg.name, !.pieces = e.arg.pieces,
                     !.positions = [k \in Pieces |-> PlaceOf(e.arg.pieces, k)],
                     !.variant = (e.type = "OutfitVariantCreated"),
                     !.notes = e.arg.notes, !.photos = {}]
      [] e.type = "OutfitRenamed"       -> [s EXCEPT !.name = e.arg]
      [] e.type = "OutfitNotesUpdated"  -> [s EXCEPT !.notes = e.arg]
      [] e.type = "OutfitPieceAdded"    ->
           IF Contains(s.pieces, e.arg.piece) THEN s
           ELSE [s EXCEPT !.pieces = Append(@, e.arg.piece),
                          !.positions[e.arg.piece] = e.arg.position]
      [] e.type = "OutfitPieceRemoved"  ->
           [s EXCEPT !.pieces = Without(@, e.arg), !.positions[e.arg] = -1]
      [] e.type = "OutfitPhotoLinked"   -> [s EXCEPT !.photos = @ \cup {e.arg}]
      [] e.type = "OutfitPhotoUnlinked" -> [s EXCEPT !.photos = @ \ {e.arg}])
     EXCEPT !.version = e.version]

-----------------------------------------------------------------------------
CreateOutfit(s, c) ==
  Given(~s.deleted /\ c.arg.name # "blank", Created("OutfitCreated", c.arg))

CreateOutfitVariant(s, c) ==
  Given(~s.deleted /\ c.arg.name # "blank", Created("OutfitVariantCreated", c.arg))

RenameOutfit(s, c) ==
  Given(Fresh(s, c) /\ c.arg # "blank",
        IF c.arg = s.name THEN NoOp ELSE Emit(s, "OutfitRenamed", c.arg))

UpdateOutfitNotes(s, c) ==
  Given(Fresh(s, c) /\ c.arg # s.notes, Emit(s, "OutfitNotesUpdated", c.arg))

(* The position of a new piece is the number of pieces held; a removal      *)
(* leaves the positions of the others alone.                                *)
AddPieceToOutfit(s, c) ==
  Given(Fresh(s, c),
        IF Contains(s.pieces, c.arg) THEN NoOp
        ELSE Emit(s, "OutfitPieceAdded", [piece |-> c.arg, position |-> Len(s.pieces)]))

RemovePieceFromOutfit(s, c) ==
  Given(Fresh(s, c),
        IF Contains(s.pieces, c.arg) THEN Emit(s, "OutfitPieceRemoved", c.arg) ELSE NoOp)

LinkOutfitPhoto(s, c) ==
  Given(Fresh(s, c), IF c.arg \in s.photos THEN NoOp ELSE Emit(s, "OutfitPhotoLinked", c.arg))

UnlinkOutfitPhoto(s, c) ==
  Given(Fresh(s, c), IF c.arg \in s.photos THEN Emit(s, "OutfitPhotoUnlinked", c.arg) ELSE NoOp)

Handle(s, c) ==
  CASE c.type = "CreateOutfit"          -> CreateOutfit(s, c)
    [] c.type = "CreateOutfitVariant"   -> CreateOutfitVariant(s, c)
    [] c.type = "RenameOutfit"          -> RenameOutfit(s, c)
    [] c.type = "UpdateOutfitNotes"     -> UpdateOutfitNotes(s, c)
    [] c.type = "AddPieceToOutfit"      -> AddPieceToOutfit(s, c)
    [] c.type = "RemovePieceFromOutfit" -> RemovePieceFromOutfit(s, c)
    [] c.type = "LinkOutfitPhoto"       -> LinkOutfitPhoto(s, c)
    [] c.type = "UnlinkOutfitPhoto"     -> UnlinkOutfitPhoto(s, c)
    [] c.type = "DeleteOutfit"          -> Delete(s, "OutfitDeleted")

Expected(c, n) ==
  CASE c.type \in {"CreateOutfit", "CreateOutfitVariant"} -> ExpectEmpty(n)
    [] c.type = "DeleteOutfit"                            -> ExpectAny(n)
    [] OTHER                                              -> ExpectExact(c, n)

(* map_state_based_noop *)
NoOpAnswers == {"RenameOutfit", "AddPieceToOutfit", "RemovePieceFromOutfit",
                "LinkOutfitPhoto", "UnlinkOutfitPhoto"}

-----------------------------------------------------------------------------
(* Projector: positions[k] is the position of piece k, or -1. *)

NoRow == [present |-> FALSE, version |-> 0, name |-> "blank", variant |-> FALSE,
          positions |-> [k \in Pieces |-> -1], notes |-> "blank", photos |-> {}]

InsertPiece(positions, k, n) == IF positions[k] = -1 THEN [positions EXCEPT ![k] = n] ELSE positions

Upsert(r, e) ==
  LET values == [NoRow EXCEPT !.present = TRUE, !.version = e.version, !.name = e.arg.name,
                              !.variant = (e.type = "OutfitVariantCreated"),
                              !.notes = e.arg.notes]
  IN  IF Newer(r, e) \/ ~r.present THEN [values EXCEPT !.positions = r.positions,
                                                       !.photos = r.photos]
      ELSE r

ProjectCreated(r, e) ==
  [Upsert(r, e) EXCEPT !.positions =
     [k \in Pieces |-> IF @[k] = -1 THEN PlaceOf(e.arg.pieces, k) ELSE @[k]]]

ProjectColumns(r, e) ==
  IfNewer(r, e, IF e.type = "OutfitRenamed" THEN [r EXCEPT !.name = e.arg]
                ELSE [r EXCEPT !.notes = e.arg])

ProjectChildren(r, e) ==
  TouchIfNewer(r, e,
    CASE e.type = "OutfitPieceAdded"    ->
           [r EXCEPT !.positions = InsertPiece(@, e.arg.piece, e.arg.position)]
      [] e.type = "OutfitPieceRemoved"  -> [r EXCEPT !.positions[e.arg] = -1]
      [] e.type = "OutfitPhotoLinked"   -> [r EXCEPT !.photos = @ \cup {e.arg}]
      [] e.type = "OutfitPhotoUnlinked" -> [r EXCEPT !.photos = @ \ {e.arg}])

Project(r, e) ==
  CASE e.type = "OutfitDeleted" -> NoRow
    [] e.type \in {"OutfitCreated", "OutfitVariantCreated"} -> ProjectCreated(r, e)
    [] e.type \in {"OutfitRenamed", "OutfitNotesUpdated"} -> ProjectColumns(r, e)
    [] OTHER -> IF r.present THEN ProjectChildren(r, e) ELSE r

(* The query shows the pieces by position, ties by their ids. *)
View(s) ==
  IF ~s.created \/ s.deleted THEN NoRow
  ELSE [present |-> TRUE, version |-> s.version, name |-> s.name, variant |-> s.variant,
        positions |-> s.positions, notes |-> s.notes, photos |-> s.photos]

-----------------------------------------------------------------------------
(* Handlers: the row, the character's season and its role, the archived     *)
(* flag of the season; new pieces must have rows of their own.              *)

(* What dedup_pieces leaves of a list of at most two. *)
PieceLists == {<< >>} \cup {<<k>> : k \in Pieces} \cup {q \in Pieces \X Pieces : q[1] # q[2]}

OutfitBodies == [name : Texts \cup {"blank"}, pieces : PieceLists, notes : {"blank"}]

CreateOutfitRequests == {Cmd("CreateOutfit", 0, b) : b \in OutfitBodies}

VariantRequests == {Cmd("CreateOutfitVariant", 0, [b EXCEPT !.notes = t]) : b \in OutfitBodies, t \in Texts}

RenameRequests(r, v) == Found(r, {Cmd("RenameOutfit", v, t) : t \in Texts \cup {"blank"}})

NotesRequests(r, v) == Found(r, {Cmd("UpdateOutfitNotes", v, t) : t \in Texts})

AddPieceRequests(r, v) == Found(r, {Cmd("AddPieceToOutfit", v, k) : k \in Pieces})

RemovePieceRequests(r, v) == Found(r, {Cmd("RemovePieceFromOutfit", v, k) : k \in Pieces})

LinkPhotoRequests(r, v) == Found(r, {Cmd("LinkOutfitPhoto", v, p) : p \in Photos})

UnlinkPhotoRequests(r, v) == Found(r, {Cmd("UnlinkOutfitPhoto", v, p) : p \in Photos})

Requests(r, v) ==
  CreateOutfitRequests \cup VariantRequests \cup RenameRequests(r, v) \cup NotesRequests(r, v)
  \cup AddPieceRequests(r, v) \cup RemovePieceRequests(r, v)
  \cup LinkPhotoRequests(r, v) \cup UnlinkPhotoRequests(r, v)

Deletions == {Cmd("DeleteOutfit", 0, "none")}
=============================================================================
