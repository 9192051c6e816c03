SPECIFICATION Spec
CONSTANTS
  m1 = m1  m2 = m2  m3 = m3  m4 = m4  m5 = m5
  FileCap = 2  TotalCap = 3  ConfirmFiles = 1  ConfirmBytes = 2
  Unit = 953064000
  LinePoints = 3  AxisPoints = 2  EagerElems = 8
  ExactBytes = 18  Blocks = 3  BlockElems = 3  ItemSizes = {1, 2}
  Requests <- MCRequests  Sources <- MCDistinct  Priors <- MCPriors
  Queries <- MCQueries  Shapes <- MCShapes  Indices <- MCIndices  Lengths <- MCLengths
INVARIANTS  PreviewHolds RankingRight ArraysRight
CHECK_DEADLOCK FALSE
