--------------------------- MODULE CostumeCategory ---------------------------
(***************************************************************************)
(* Costume categories: aggregate, adapter, projector and handlers.  The    *)
(* copies of a category's name in the rows of the pieces are not modelled. *)
(***************************************************************************)
EXTENDS Aggregate

CONSTANTS Texts

States == [archived : BOOLEAN, version : Nat, name : Texts \cup {"blank"}, order : Texts \cup {"blank"}]

Blank == [archived |-> FALSE, version |-> 0, name |-> "blank", order |-> "blank"]

Apply(s, e) ==
  [(CASE e.type = "CostumeCategoryCreated"   ->
           [s EXCEPT !.name = e.arg.name, !.order = e.arg.order, !.archived = FALSE]
      [] e.type = "CostumeCategoryRenamed"   -> [s EXCEPT !.name = e.arg]
      [] e.type = "CostumeCategoryReordered" -> [s EXCEPT !.order = e.arg]
      [] e.type = "CostumeCategoryArchived"  -> [s EXCEPT !.archived = TRUE])
     EXCEPT !.version = e.version]

CreateCostumeCategory(s, c) ==
  Given(c.arg.name # "blank", Created("CostumeCategoryCreated", c.arg))

RenameCostumeCategory(s, c) ==
  Given(~s.archived /\ c.version = s.version /\ c.arg # "blank",
        Emit(s, "CostumeCategoryRenamed", c.arg))

ReorderCostumeCategory(s, c) ==
  Given(~s.archived /\ c.version = s.version, Emit(s, "CostumeCategoryReordered", c.arg))

ArchiveCostumeCategory(s, c) ==
  Given(c.version = s.version /\ ~s.archived, Emit(s, "CostumeCategoryArchived", "none"))

Handle(s, c) ==
  CASE c.type = "CreateCostumeCategory"  -> CreateCostumeCategory(s, c)
    [] c.type = "RenameCostumeCategory"  -> RenameCostumeCategory(s, c)
    [] c.type = "ReorderCostumeCategory" -> ReorderCostumeCategory(s, c)
    [] c.type = "ArchiveCostumeCategory" -> ArchiveCostumeCategory(s, c)

Expected(c, n) ==
  IF c.type = "CreateCostumeCategory" THEN ExpectEmpty(n) ELSE ExpectExact(c, n)

NoOpAnswers == {}

NoRow == [present |-> FALSE, archived |-> FALSE, version |-> 0, name |-> "blank", order |-> "blank"]

(* As for a season, the upsert does not touch the archived flag. *)
ProjectCreated(r, e) ==
  Touch([r EXCEPT !.present = TRUE, !.name = e.arg.name, !.order = e.arg.order], e)

Project(r, e) ==
  CASE e.type = "CostumeCategoryCreated"   -> ProjectCreated(r, e)
    [] e.type = "CostumeCategoryRenamed"   -> IfPresent(r, e, [r EXCEPT !.name = e.arg])
    [] e.type = "CostumeCategoryReordered" -> IfPresent(r, e, [r EXCEPT !.order = e.arg])
    [] e.type = "CostumeCategoryArchived"  -> IfPresent(r, e, [r EXCEPT !.archived = TRUE])

View(s) ==
  IF s.version = 0 THEN NoRow
  ELSE [present |-> TRUE, archived |-> s.archived, version |-> s.version,
        name |-> s.name, order |-> s.order]

CreateCategoryRequests ==
  {Cmd("CreateCostumeCategory", 0, [name |-> t, order |-> o]) : t \in Texts \cup {"blank"}, o \in Texts}

RenameCategoryRequests(r, v) ==
  Found(r, {Cmd("RenameCostumeCategory", v, t) : t \in Texts \cup {"blank"}})

ReorderCategoryRequests(r, v) == Found(r, {Cmd("ReorderCostumeCategory", v, t) : t \in Texts})

ArchiveCategoryRequests(r, v) == Found(r, {Cmd("ArchiveCostumeCategory", v, "none")})

Requests(r, v) ==
  CreateCategoryRequests \cup RenameCategoryRequests(r, v) \cup ReorderCategoryRequests(r, v)
  \cup ArchiveCategoryRequests(r, v)

Deletions == {}
=============================================================================
