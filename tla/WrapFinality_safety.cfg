SPECIFICATION Spec
CONSTANTS
  d1 = d1  d2 = d2  s1 = s1
  Instances = {i1}
  Calls = {c1, c2}
  Days = {d1, d2}
  Shoots = {s1}
  DayOf <- MCDayOf
  Times = {t1}
  Notes = {n1}
  Photos = {p1}
  None = None
  Unloaded = Unloaded
  Ops <- ExecutionOps
  ConflictRetries = 1
  MaxVersion = 3
  Faults = {}
  MaxFaults = 0
SYMMETRY Symmetry
PROPERTIES WrapIsFinal
CHECK_DEADLOCK FALSE
