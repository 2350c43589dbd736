SPECIFICATION FairSpec
CONSTANTS
  Runs = {r1, r2}
  Outfits = 2
  Faults = {"outage", "cancel", "crash", "stall"}
  MaxFaults = 1
  Edited = {"scene"}
  MaxEdits = 1
CHECK_DEADLOCK FALSE
INVARIANTS ConfirmedIsReal BeatsAreNotRepeated DoneIsComplete
PROPERTIES EveryRequestIsServed
