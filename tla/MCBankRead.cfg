SPECIFICATION Spec
CONSTANTS
  Worker = {w1, w2}
  NumBranches = 1
  AccountsPerBranch = 2
  InitialBalance <- MCBalance
  Workload <- MCOneBranchWorkload
  MaxCommands = 1
INVARIANT BranchValidAtRead
