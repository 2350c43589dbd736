SPECIFICATION FairSpec
CONSTANTS
  p1 = p1  p2 = p2
  Partitions = {p1, p2}
  Kinds = {"good", "poison", "undecodable"}
  MaxAttempts = 2
  Faults = {"worker", "stream", "crash", "broken"}
  MaxFaults = 2
  MaxEvents <- MCMaxEvents
INVARIANTS TypeOK CheckpointIsHonest AppliedOnceInOrder
PROPERTIES EventsSettle
CHECK_DEADLOCK FALSE
