SPECIFICATION Spec
CONSTANTS
  FileOf <- MCFileOf
  LowPriority = {}
  MaxFileChars = 20
  FirstChars = 0
  RestChars = 0
  FirstTokens = 0
  RestTokens = 0
  MaxBatches = 1
  HeaderChars = 2
  LineChars = 3
  MarkChars = 2
  Targets <- MCTargets
  PieceChars = {5, 11, 26}
  AuxChars = {0, 9}
  ContextFiles <- MCContextFiles
  Threads <- MCThreads
  HunkChars = {0, 6, 17, 30, 300}
  Budgets = {0, 1, 2, 3, 4, 5, 6, 7, 8, 10, 14, 20}
  Rates = {2, 3}
  FixedChars = 4
  TotalChars = 40
  ContextChars = 8
  NoteChars = 3
  MinDiffTokens = 3
INVARIANTS DiffLast NewestComments OverflowAtMinimum
CHECK_DEADLOCK FALSE
