CONSTANTS
  Keys = {k1, k2}
  Aggregates = {a1, a2, r1}
  Calls = {p1, p2}
  None = None
  RetryBudget = 1
  ClaimTtl = 2
  MaxCreate = 1
  MaxStarts = 2
  MaxFaults = 1
  Rejected = {r1}
  LateRedrive = FALSE
SPECIFICATION FairSpec
INVARIANTS TypeOK UniqueKeys RealizedClaimIsHeld RowMirrorsStream
PROPERTIES ImplementsRegistry ConsumedIsFinal ClaimsAreResolved
