SPECIFICATION Spec
CONSTANTS
  Junk = Junk
  Key = {1, 2}
  MaxElements = 5
  InitialAllocation = 0
INVARIANTS TypeOK FreedOnce
PROPERTY Refinement
