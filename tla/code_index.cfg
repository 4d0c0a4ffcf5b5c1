SPECIFICATION Spec
CONSTANTS
  w1 = w1
  w2 = w2
  script = script
  ours = ours
  theirs = theirs
  main = main
  util = util
  v1 = v1
  v2 = v2
  v3 = v3
  NoWorker = NoWorker
  None = None
  Script = script
  Workers <- MCWorkers
  Repos <- MCRepos
  Paths <- MCPaths
  Contents <- MCContents
  NodesOf <- MCNodesOf
  Messages <- MCMessages
  Clones <- MCClones
  MinChars = 4
  Faults = {"kill", "raise", "late", "cancel", "rebalance"}
  MaxLog = 2
  MaxFaults = 2
SYMMETRY WorkerSymmetry
INVARIANTS
  OneVersion
  CommittedIsIndexed
CHECK_DEADLOCK FALSE
