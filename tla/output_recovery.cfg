SPECIFICATION RecoverySpec
CONSTANTS
  Words = {"message", "evidence", "other", "x"}
  Findings <- MCFindings
  Summaries <- MCSummaries
  Extras <- MCExtras
  MaxFindings = 2
  Default = Default
INVARIANTS
  NothingInvented
  AllRecovered
  CompleteAccepted
CHECK_DEADLOCK FALSE
