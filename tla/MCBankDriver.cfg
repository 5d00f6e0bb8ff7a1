SPECIFICATION FairSpec
CONSTANTS
  NumBranches = 2
  AccountsPerBranch = 2
  InitialBalance <- MCBalance
  NumWorkers = 3
  MaxWorkers = 6
  NumCommands = 24
  Drawn <- MCDrawn
  ReportingAmount = 3
  MaxReports = 2
  MaxLogEntries = 3
INVARIANTS TypeOK NoSeedRace ReportQuiescent CompareSucceeds
PROPERTY AllFinish
