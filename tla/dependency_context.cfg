SPECIFICATION Spec
CONSTANTS
  a = a
  b = b
  None = None
  Missing = Missing
  Foreign = Foreign
  NpmNames = {a, b}
  MavenNames = {"org:lib"}
  Moved = {"org:lib"}
  Versions = {"1"}
  RepoOf <- MCRepoOf
  Published <- MCPublished
  MaxChecks = 2
  MaxPackages = 1
  MaxLines = 5
  MaxFlagged = 2
  MaxLookups = 2
  Gap = 2
SYMMETRY Symmetry
INVARIANTS
  FindingsSound
  NothingMissed
  ReleaseNotesTrue
CHECK_DEADLOCK FALSE
