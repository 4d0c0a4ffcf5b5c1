SPECIFICATION Spec
CONSTANTS
  c1 = c1
  c2 = c2
  j1 = j1
  j2 = j2
  k1 = k1
  k2 = k2
  Consumers <- MCConsumers
  Jobs <- MCJobs
  PartitionOf <- MCPartitionOf
  KeyOf <- OwnKeys
  Keys <- TwoKeys
  Codes <- LongAndShort
  MaxAttempts = 2
  Faults = {"kill", "raise", "docker", "slow", "cancel", "recancel", "late", "expire"}
  MaxRequests <- OneRequest
  MaxFaults = 2
INVARIANTS
  IssueHasCause
  PassIsEarned
  NoStrays
CHECK_DEADLOCK FALSE
