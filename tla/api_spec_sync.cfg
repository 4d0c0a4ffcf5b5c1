SPECIFICATION FairSpec
CONSTANTS
  r1 = r1
  r2 = r2
  repoA = repoA
  repoB = repoB
  db = db
  Runs <- MCRuns
  Repos <- MCRepos
  Databases = {db}
  NoId = NoId
  NoLink = NoLink
  Tables <- MCTables
  Faults = {"query", "raise", "late", "kill"}
  MaxChanges = 1
  MaxFaults = 1
INVARIANTS
  SpecWhole
  OutageHarmless
PROPERTIES
  AllSynced
CHECK_DEADLOCK FALSE
