SPECIFICATION Spec
CONSTANTS
  Nodes = {a, b}
  None = None
  OpenRC = TRUE
  InitV1 = FALSE
  StartupSaveFails = FALSE
  TableLossInRetirement = FALSE
  BatchSize = 1
  MaxMeters = 1
  MaxActive = 1
  Clock = {1}
  MaxBytes = 1
  MaxRev = 3
  MaxLate = 1
  MaxFaults <- CrashNetHost
SYMMETRY NodeSymmetry
INVARIANTS  FinalReadings
