SPECIFICATION Spec
CONSTANTS
  Junk = Junk
  Key = {1, 2, 3, 4, 5}
  Same <- MCSame
  Hash <- MCHash
  NumBuckets = 2
  MaxElements = 5
INVARIANTS CountsMembers LookupFindsLast
PROPERTY Refinement
