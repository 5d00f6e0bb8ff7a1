SPECIFICATION Spec
CONSTANTS
  Gap = " "
  Separator = "|"
  NonTerminal = {"<start>", "<a>", "<b>", "<oops>"}
  Start = "<start>"
  Semicolon = ";"
  MaxDepth = 3
  EOF = EOF
  BufferLength = 4
  Strand <- MCStrand
  MaxRounds = 2
  PointList <- MCPointList
  Distances <- MCDistances
  Stars <- MCStars
  File <- MCFile
  Text <- MCText
  Delimiters = {",", "!"}
  Colon = ":"
  Blank = " "
  FeedsFile <- MCFeedsFile
INVARIANTS AlignmentScored MemoSound StarterOptimal Clumped GuessesComplete PrintedDerivable TokensFaithful
CHECK_DEADLOCK FALSE
