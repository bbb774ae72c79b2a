SPECIFICATION FairSpec
CONSTANTS
  None = None
  Ops = {o1}
  Api = {"api"}
  Editable = {"host"}
  Bound = TRUE
  MaxAttempts = 1
  MaxTries = 2
  MaxEdits = 2
  MaxMita = 0
  MaxForce = 0
  MaxRetries = 1
  MaxMaint = 0
  MaxMsgs = 1
  MaxFaults <- BuildFault
INVARIANTS OperationsHonest
PROPERTIES FreshBudget 
CHECK_DEADLOCK FALSE
