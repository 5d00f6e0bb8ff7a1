SPECIFICATION FairSpec
CONSTANTS
  Worker = {w1, w2}
  NumBranches = 2
  AccountsPerBranch = 1
  InitialBalance <- MCBalance
  Workload <- MCCrossWorkload
  MaxCommands = 2
PROPERTIES Refinement AllFinish
