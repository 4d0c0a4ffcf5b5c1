SPECIFICATION FairSpec
CONSTANTS
  w1 = w1
  w2 = w2
  oldHead = oldHead
  newHead = newHead
  mention = mention
  pr = pr
  NoWorker = NoWorker
  Invalid = Invalid
  Workers <- MCWorkers
  Jobs <- TwoHeads
  HeadOf <- MCHeadOf
  PrOf <- MCPrOf
  SkipSuperseded = TRUE
  Saves = TRUE
  Repeats = TRUE
  Faults = {"cancel", "recancel", "late", "kill"}
  MaxLog = 2
  MaxFaults = 2
PROPERTIES
  AllAnswered
CHECK_DEADLOCK FALSE
