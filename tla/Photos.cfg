SPECIFICATION FairSpec
CONSTANTS
  Photos = {p1}
  Shoots = {s1}
  Faults = {"cancel", "crash", "storage", "database", "lost_reply"}
  MaxFaults = 1
  MaxAttempts = 1
  BatchSize = 1
CHECK_DEADLOCK FALSE
INVARIANTS LinkedPhotoHasBytes
PROPERTIES BytesAreReclaimed LinkedPhotosSettle
