SPECIFICATION HostSpec
CONSTANTS
  None = None
  Intents <- I3
  LiveIntents = {"a", "b", "c"}
  PolicyOf <- Pol
  Versions = {1, 2}
  MaxGoals = 1
  BackupsAtomic = TRUE
  FaultBudgets <- Faulty
  Lease = 2
  GuardBounds <- GBounds
  Sessions = {1, 2}
  UdpIdle = 2
  UdpLease = 3
  MaxExpiryBatch = 1
  UdpBounds <- UBounds
INVARIANTS CoreSafe FencesHold
PROPERTIES  CoreApplies GuardRecovers UdpSound
CHECK_DEADLOCK FALSE
