SPECIFICATION Spec
CONSTANTS
  testPiece = testPiece
  bigPiece1 = bigPiece1
  bigPiece2 = bigPiece2
  smallPiece = smallPiece
  testFile = testFile
  bigFile = bigFile
  smallFile = smallFile
  Targets <- MCTargets
  FileOf <- MCFileOf
  LowPriority = {testFile}
  MaxFileChars = 32
  FirstChars = 40
  RestChars = 48
  FirstTokens = 2
  RestTokens = 3
  MaxBatches = 2
  HeaderChars = 1
  LineChars = 2
  MarkChars = 1
  CharSizes = {12, 24, 36}
  TokenSizes = {1}
  DiffLimits = {14, 30}
  RiskChars = 2
  Findings <- MCFindings
  Answers <- MCAnswers
  MaxShortened = 1
  MaxVerifyBatches = 1
  MinConfidence = 1
  MaxComments = 2
  MaxPerFile = 2
INVARIANTS
  FilesAccountedButRetried
  NotesTrue
  VerifiedOnItsPrompt
  CommentsBest
  CallsBounded
  FailureTrue
  SplitSound
CHECK_DEADLOCK FALSE
