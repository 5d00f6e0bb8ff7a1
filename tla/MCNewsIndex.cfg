SPECIFICATION FairSpec
CONSTANTS
  Url <- MCUrl
  Title = {"t1", "t2", "t3", "file"}
  Word = {"x", "y", "yx", "a", "4", "4x"}
  FileUrl = {"file"}
  Empty = ""
  Answer <- MCAnswer
  FeedLine = {"feed1", "oldFeed", "gone", "file"}
  FileTitle <- MCFileTitle
  Prefix <- MCPrefix
  StopWord = {"a"}
  WellFormed = {"x", "y", "yx", "a"}
  Shorter <- MCShorter
  MaxFeeds = 3
  MaxQueries = 2
  MaxResponses = 2
  NumBuckets = 9
  Hash <- MCSeparating
CHECK_DEADLOCK FALSE
INVARIANTS TypeOK IndexFaithful AnswersRank
PROPERTIES ItemsRead ProgramEnds
