SPECIFICATION Spec
CONSTANTS
  w1 = w1
  w2 = w2
  oldHead = oldHead
  newHead = newHead
  mention = mention
  pr = pr
  NoWorker = NoWorker
  Invalid = Invalid
  Workers <- MCWorkers
  Jobs <- AllThree
  HeadOf <- MCHeadOf
  PrOf <- MCPrOf
  SkipSuperseded = TRUE
  Saves = TRUE
  Repeats = TRUE
  Faults <- AllFaults
  MaxLog = 2
  MaxFaults = 2
SYMMETRY WorkerSymmetry
INVARIANTS
  MutualExclusion
  CommitAfterHandling
  NoOrphanLock
  NoLostRequest
PROPERTIES
  OnlyNewerHeadSkips
  ImplementsLedger
CHECK_DEADLOCK FALSE
