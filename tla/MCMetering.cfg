SPECIFICATION FairSpec
CONSTANTS
  Nodes = {a}
  None = None
  OpenRC = TRUE
  InitV1 = TRUE
  StartupSaveFails = FALSE
  TableLossInRetirement = FALSE
  BatchSize = 1
  MaxMeters = 2
  MaxActive = 1
  Clock = {1, 2}
  MaxBytes = 1
  MaxRev = 2
  MaxLate = 1
  MaxFaults <- CrashSave
INVARIANTS TypeOK NoOverbilling Settlement
PROPERTIES LedgerMonotone CleanOnlyBilled Retirement
