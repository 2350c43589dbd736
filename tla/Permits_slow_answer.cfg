SPECIFICATION Spec
CONSTANTS
  t1 = t1
  t2 = t2
  t3 = t3
  alice = alice
  bob = bob
  Tasks = {t1, t2, t3}
  Users = {alice, bob}
  UserOf <- Owner
  MaxGlobal = 2
  MaxPerUser = 1
  Lease = 3
  Interval = 1
  ReclaimAttempts = 1
  MaxDelay = 1
  MaxFaults = 2
CHECK_DEADLOCK FALSE
INVARIANT CeilingIsNeverExceeded
