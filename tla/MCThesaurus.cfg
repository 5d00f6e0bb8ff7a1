SPECIFICATION FairSpec
CONSTANTS
  EOF = EOF
  Junk = Junk
  BufferLength = 3
  InitialAllocation = 1
  NumBuckets = 2
  MaxElements = 12
  Character <- MCCharacter
  Key <- MCKey
  Hash <- MCHash
  Source <- MCSource
  Typed <- MCTyped
  MaxTyped = 2
INVARIANTS AnswersFaithful StringsFreedOnce
PROPERTY QueriesEnd
CHECK_DEADLOCK FALSE
