SPECIFICATION FairSpec
CONSTANTS
  d1 = d1  d2 = d2  s1 = s1
  Instances = {i1, i2}
  Calls = {c1}
  Days = {d1}
  Shoots = {s1}
  DayOf <- MCDayOf
  Times = {t1, t2}
  Notes = {n1}
  Photos = {}
  None = None
  Unloaded = Unloaded
  Ops <- HistoryOps
  ConflictRetries = 1
  MaxVersion = 3
  Faults = {"cancel", "lost_reply", "lost_session"}
  MaxFaults = 1
INVARIANTS ActorsReplayTheStream
PROPERTIES LocksAreReleased HistoryStands ClientSawTheState
CHECK_DEADLOCK FALSE
