SPECIFICATION FairSpec
CONSTANTS
  Workers = {w1, w2}
  Documents = {d1}
  None = None
  MaxJobs = 1
  MaxRetries = 2
  RenewalsPerLease = 3
  BackoffCap = 2
  MaxFaults = 3
INVARIANTS FenceNamesTheClaim LiveFieldsAreCurrent RetryBudget OneBlipKeepsTheClaim
PROPERTIES TerminalIsFinal EveryJobSettles
