SPECIFICATION FairSpec
CONSTANTS
  None = None
  QueueSlots = 2
  BatchSize = 2
  MaxEvents = 3
  MaxSwitches = 1
  MaxFaults <- EveryFault
PROPERTIES RingIsFair Drains
CHECK_DEADLOCK FALSE
