SPECIFICATION FairSpec
CONSTANTS
  AllKinds <- MCKinds
  Workers = {w1}
  MaxRetries = 2
  MaxData = 2
  MaxPresses = 1
  MaxFaults = 2
INVARIANTS RecordedReportExists
PROPERTIES OutcomeStands ReportsSettle
CHECK_DEADLOCK FALSE
