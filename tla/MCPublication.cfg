SPECIFICATION Spec
CONSTANTS
  None = None
  Ops = {}
  Api = {"api"}
  Editable = {"host", "cli"}
  Bound = FALSE
  MaxAttempts = 2
  MaxTries = 1
  MaxEdits = 2
  MaxMita = 1
  MaxForce = 1
  MaxRetries = 0
  MaxMaint = 1
  MaxMsgs = 0
  MaxFaults <- CrashOnce
INVARIANTS TypeOK ConsistentSnapshot PublishedIsCurrent NeverReverts
CHECK_DEADLOCK FALSE
