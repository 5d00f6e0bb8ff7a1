SPECIFICATION Spec
CONSTANTS
  Worker = {w1, w2, w3}
  NumBranches = 2
  AccountsPerBranch = 2
  InitialBalance <- MCFailureBalance
  Workload <- MCTransferWorkload
  MaxCommands = 1
SYMMETRY MCSymmetry
INVARIANTS TypeOK NoDataRace LockOrder NoDeadlock BranchConsistent NoOverdraft FixedBankBalance
