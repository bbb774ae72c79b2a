SPECIFICATION Spec
CONSTANTS
  None = None
  QueueSlots = 2
  BatchSize = 2
  MaxEvents = 3
  MaxSwitches = 0
  MaxFaults <- OneLate
INVARIANTS NoSilentLoss
CHECK_DEADLOCK FALSE
