SPECIFICATION PiecesSpec
CONSTANTS
  Reserve = 48
  Trees <- MCTrees
  FileLines = 6
  Radius = 1
  MaxChars = 230
  FileChars = 30
  MaxContext = 60
  SourceChars = 15
  NumberChars = 4
  MinHunkLimit = 100
  LineLengths = {39}
  Rests <- MCRests
  HeaderLengths = {48}
  Marked = {TRUE, FALSE}
  MaxLines = 4
INVARIANTS
  NumbersSurviveSplit
  VisibleExact
  AddedHasContext
  PiecesFit
CHECK_DEADLOCK FALSE
