SPECIFICATION Spec
CONSTANTS
  Gap = " "
  Separator = "|"
  NonTerminal = {"<start>", "<a>", "<b>", "<oops>"}
  Start = "<start>"
  Semicolon = ";"
  MaxDepth = 3
  EOF = EOF
  BufferLength = 4
  Strand <- MCLongStrand
  MaxRounds = 1
  PointList = {}
  Distances = {}
  Stars = {}
  File = {}
  Text = {}
  Delimiters = {",", "!"}
  Colon = ":"
  Blank = " "
  FeedsFile = {}
INVARIANT OptimalScore
CHECK_DEADLOCK FALSE
