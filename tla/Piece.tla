-------------------------------- MODULE Piece --------------------------------
(***************************************************************************)
(* Pieces of the wardrobe: aggregate, adapter, projector and handlers.     *)
(* A detail is [id, text]; the empty text stands for a blank name.         *)
(***************************************************************************)
EXTENDS Aggregate

CONSTANTS Texts, Seasons, Categories, DetailIds, Photos

Details == [id : DetailIds, text : Texts]

States == [created : BOOLEAN, deleted : BOOLEAN, version : Nat, name : Texts \cup {"blank"},
           category : Categories \cup {"none"}, seasons : SUBSET Seasons,
           notes : Texts \cup {"blank"}, details : SUBSET Details, photos : SUBSET Photos]

Blank == [created |-> FALSE, deleted |-> FALSE, version |-> 0, name |-> "blank",
          category |-> "none", seasons |-> {}, notes |-> "blank", details |-> {}, photos |-> {}]

-----------------------------------------------------------------------------
Others(details, id) == {d \in details : d.id # id}

(* A detail added twice under one id is two entries of the vector and one   *)
(* row; commands only ask which ids there are, so the last text stands for  *)
(* both.                                                                    *)
Apply(s, e) ==
  [(CASE e.type = "PieceDeleted"           -> [s EXCEPT !.deleted = TRUE]
      [] e.type = "PieceCreated"           ->
           [s EXCEPT !.created = TRUE, !.name = e.arg.name, !.category = e.arg.category,
                     !.seasons = e.arg.seasons, !.notes = "blank", !.details = {}, !.photos = {}]
      [] e.type = "PieceRenamed"           -> [s EXCEPT !.name = e.arg]
      [] e.type = "PieceNotesUpdated"      -> [s EXCEPT !.notes = e.arg]
      [] e.type = "PieceAddedToSeason"     -> [s EXCEPT !.seasons = @ \cup {e.arg}]
      [] e.type = "PieceRemovedFromSeason" -> [s EXCEPT !.seasons = @ \ {e.arg}]
      [] e.type = "PieceDetailAdded"       -> [s EXCEPT !.details = Others(@, e.arg.id) \cup {e.arg}]
      [] e.type = "PieceDetailUpdated"     -> [s EXCEPT !.details = Others(@, e.arg.id) \cup {e.arg}]
      [] e.type = "PieceDetailRemoved"     -> [s EXCEPT !.details = Others(@, e.arg)]
      [] e.type = "PieceCategorySet"       -> [s EXCEPT !.category = e.arg]
      [] e.type = "PiecePhotoLinked"       -> [s EXCEPT !.photos = @ \cup {e.arg}]
      [] e.type = "PiecePhotoUnlinked"     -> [s EXCEPT !.photos = @ \ {e.arg}])
     EXCEPT !.version = e.version]

-----------------------------------------------------------------------------
CreatePiece(s, c) ==
  Given(~s.deleted /\ c.arg.name # "blank", Created("PieceCreated", c.arg))

RenamePiece(s, c) ==
  Given(Fresh(s, c) /\ c.arg # "blank",
        IF c.arg = s.name THEN NoOp ELSE Emit(s, "PieceRenamed", c.arg))

UpdatePieceNotes(s, c) ==
  Given(Fresh(s, c) /\ c.arg # s.notes, Emit(s, "PieceNotesUpdated", c.arg))

AddPieceToSeason(s, c) ==
  Given(Fresh(s, c), IF c.arg \in s.seasons THEN NoOp ELSE Emit(s, "PieceAddedToSeason", c.arg))

RemovePieceFromSeason(s, c) ==
  Given(Fresh(s, c),
        IF c.arg \in s.seasons THEN Emit(s, "PieceRemovedFromSeason", c.arg) ELSE NoOp)

AddPieceDetail(s, c) == Given(Fresh(s, c), Emit(s, "PieceDetailAdded", c.arg))

HasDetail(s, id) == \E d \in s.details : d.id = id

UpdatePieceDetail(s, c) ==
  Given(Fresh(s, c) /\ HasDetail(s, c.arg.id), Emit(s, "PieceDetailUpdated", c.arg))

RemovePieceDetail(s, c) ==
  Given(Fresh(s, c) /\ HasDetail(s, c.arg), Emit(s, "PieceDetailRemoved", c.arg))

SetPieceCategory(s, c) ==
  Given(Fresh(s, c), IF c.arg = s.category THEN NoOp ELSE Emit(s, "PieceCategorySet", c.arg))

LinkPiecePhoto(s, c) ==
  Given(Fresh(s, c) /\ c.arg \notin s.photos, Emit(s, "PiecePhotoLinked", c.arg))

UnlinkPiecePhoto(s, c) ==
  Given(Fresh(s, c) /\ c.arg \in s.photos, Emit(s, "PiecePhotoUnlinked", c.arg))

Handle(s, c) ==
  CASE c.type = "CreatePiece"           -> CreatePiece(s, c)
    [] c.type = "RenamePiece"           -> RenamePiece(s, c)
    [] c.type = "UpdatePieceNotes"      -> UpdatePieceNotes(s, c)
    [] c.type = "AddPieceToSeason"      -> AddPieceToSeason(s, c)
    [] c.type = "RemovePieceFromSeason" -> RemovePieceFromSeason(s, c)
    [] c.type = "AddPieceDetail"        -> AddPieceDetail(s, c)
    [] c.type = "UpdatePieceDetail"     -> UpdatePieceDetail(s, c)
    [] c.type = "RemovePieceDetail"     -> RemovePieceDetail(s, c)
    [] c.type = "SetPieceCategory"      -> SetPieceCategory(s, c)
    [] c.type = "LinkPiecePhoto"        -> LinkPiecePhoto(s, c)
    [] c.type = "UnlinkPiecePhoto"      -> UnlinkPiecePhoto(s, c)
    [] c.type = "DeletePiece"           -> Delete(s, "PieceDeleted")

Expected(c, n) ==
  CASE c.type = "CreatePiece" -> ExpectEmpty(n)
    [] c.type = "DeletePiece" -> ExpectAny(n)
    [] OTHER                  -> ExpectExact(c, n)

(* The adapter answers these with the version it was given. *)
NoOpAnswers == {"RenamePiece", "AddPieceToSeason", "RemovePieceFromSeason", "SetPieceCategory"}

-----------------------------------------------------------------------------
(* Projector: seasons, details and photos are rows of tables that hang off  *)
(* the piece's row and change whatever its version.                         *)

NoRow == [present |-> FALSE, version |-> 0, name |-> "blank", category |-> "none",
          seasons |-> {}, notes |-> "blank", details |-> {}, photos |-> {}]

(* The upsert is for newer versions only, its children for any. *)
ProjectCreated(r, e) ==
  [(IF r.present THEN IfNewer(r, e, [r EXCEPT !.name = e.arg.name, !.category = e.arg.category,
                                              !.notes = "blank"])
    ELSE [NoRow EXCEPT !.present = TRUE, !.version = e.version, !.name = e.arg.name,
                       !.category = e.arg.category])
     EXCEPT !.seasons = @ \cup e.arg.seasons]

ProjectColumns(r, e) ==
  CASE e.type = "PieceRenamed"      -> IfNewer(r, e, [r EXCEPT !.name = e.arg])
    [] e.type = "PieceNotesUpdated" -> IfNewer(r, e, [r EXCEPT !.notes = e.arg])
    [] e.type = "PieceCategorySet"  -> IfNewer(r, e, [r EXCEPT !.category = e.arg])

ProjectChildren(r, e) ==
  TouchIfNewer(r, e,
    CASE e.type = "PieceAddedToSeason"     -> [r EXCEPT !.seasons = @ \cup {e.arg}]
      [] e.type = "PieceRemovedFromSeason" -> [r EXCEPT !.seasons = @ \ {e.arg}]
      [] e.type \in {"PieceDetailAdded", "PieceDetailUpdated"} ->
           [r EXCEPT !.details = Others(@, e.arg.id) \cup {e.arg}]
      [] e.type = "PieceDetailRemoved"     -> [r EXCEPT !.details = Others(@, e.arg)]
      [] e.type = "PiecePhotoLinked"       -> [r EXCEPT !.photos = @ \cup {e.arg}]
      [] e.type = "PiecePhotoUnlinked"     -> [r EXCEPT !.photos = @ \ {e.arg}])

Columns == {"PieceRenamed", "PieceNotesUpdated", "PieceCategorySet"}

Project(r, e) ==
  CASE e.type = "PieceDeleted" -> NoRow
    [] e.type = "PieceCreated" -> ProjectCreated(r, e)
    [] e.type \in Columns      -> ProjectColumns(r, e)
    [] OTHER                   -> IF r.present THEN ProjectChildren(r, e) ELSE r

View(s) ==
  IF ~s.created \/ s.deleted THEN NoRow
  ELSE [present |-> TRUE, version |-> s.version, name |-> s.name, category |-> s.category,
        seasons |-> s.seasons, notes |-> s.notes, details |-> s.details, photos |-> s.photos]

-----------------------------------------------------------------------------
(* Handlers.  Role checks answer 403 or go on.                          *)

(* create_piece: a category needs the season it belongs to, the active one *)
(* of the request.                                                          *)
CreatePieceRequests ==
  {Cmd("CreatePiece", 0, [name |-> t, category |-> k, seasons |-> z]) :
     t \in Texts \cup {"blank"}, k \in Categories \cup {"none"}, z \in {{s} : s \in Seasons}}
  \cup {Cmd("CreatePiece", 0, [name |-> t, category |-> "none", seasons |-> {}]) : t \in Texts}

(* The project lookup is best effort: these ask nothing of the read model. *)
NotesRequests(v) == {Cmd("UpdatePieceNotes", v, t) : t \in Texts}

RenameRequests(v) == {Cmd("RenamePiece", v, t) : t \in Texts \cup {"blank"}}

AddDetailRequests(v) == {Cmd("AddPieceDetail", v, d) : d \in Details}

(* These need the row, and a season to authorize the request against. *)
UpdateDetailRequests(r, v) ==
  IF r.seasons = {} THEN {} ELSE Found(r, {Cmd("UpdatePieceDetail", v, d) : d \in Details})

RemoveDetailRequests(r, v) ==
  IF r.seasons = {} THEN {} ELSE Found(r, {Cmd("RemovePieceDetail", v, d) : d \in DetailIds})

SetCategoryRequests(r, v) ==
  IF r.seasons = {} THEN {}
  ELSE Found(r, {Cmd("SetPieceCategory", v, k) : k \in Categories \cup {"none"}})

AddToSeasonRequests(r, v) ==
  IF r.seasons = {} THEN {} ELSE Found(r, {Cmd("AddPieceToSeason", v, z) : z \in Seasons})

(* This one looks at the season, not at the piece. *)
RemoveFromSeasonRequests(v) == {Cmd("RemovePieceFromSeason", v, z) : z \in Seasons}

LinkPhotoRequests(v) == {Cmd("LinkPiecePhoto", v, p) : p \in Photos}

UnlinkPhotoRequests(r, v) == Found(r, {Cmd("UnlinkPiecePhoto", v, p) : p \in Photos})

Requests(r, v) ==
  CreatePieceRequests \cup NotesRequests(v) \cup RenameRequests(v) \cup AddDetailRequests(v)
  \cup UpdateDetailRequests(r, v) \cup RemoveDetailRequests(r, v) \cup SetCategoryRequests(r, v)
  \cup AddToSeasonRequests(r, v) \cup RemoveFromSeasonRequests(v)
  \cup LinkPhotoRequests(v) \cup UnlinkPhotoRequests(r, v)

Deletions == {Cmd("DeletePiece", 0, "none")}
=============================================================================
