SPECIFICATION FairSpec
CONSTANTS
  c1 = c1
  c2 = c2
  j1 = j1
  j2 = j2
  k1 = k1
  k2 = k2
  Consumers <- OneConsumer
  Jobs <- OneJob
  PartitionOf <- MCPartitionOf
  KeyOf <- OneKeyOnly
  Keys <- OneKey
  Codes <- GoodOrBroken
  MaxAttempts = 2
  Faults = {"kill", "docker", "slow", "cancel", "recancel", "late", "expire"}
  MaxRequests <- TwoRequests
  MaxFaults = 3
INVARIANTS
  AttemptsBounded
PROPERTIES
  AllClosed
CHECK_DEADLOCK FALSE
