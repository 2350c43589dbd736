CONSTANTS
  EntityKinds = {"scene", "piece", "outfit", "character", "season", "episode", "block", "category", "settings", "ai_config", "membership", "day", "shoot"}
  Texts = {x, y}
  Characters = {"c1"}
  Days = {"d1"}
  Looks = {"l1"}
  Seasons = {"s1"}
  Categories = {"g1"}
  DetailIds = {"i1"}
  Photos = {"f1"}
  Pieces = {p1, p2}
  Providers = {"p", "q"}
  Keys = {"k1", "k2"}
  Bodies <- MCBodies
  Capable = {"p"}
  Curated <- MCCurated
  Users = {"u1", "u2"}
  Roles = {"ops_admin", "costume_assistant"}
  OpsAdmins = {"u1"}
  Times = {"t1"}
  Notes = {"n1"}
  None = "none"
  MaxLength <- MCLength
  MaxSteps <- MCSteps
SPECIFICATION CatalogueSpec
SYMMETRY Symmetry
CHECK_DEADLOCK FALSE
INVARIANTS CatalogueTypes ReadModelFollows VersionsCount
PROPERTIES AcceptedOnWhatWasSeen
