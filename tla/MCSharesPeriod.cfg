SPECIFICATION FairSpec
CONSTANTS
  None = None
  Servers = {s1}
  Admins = {a1}
  Evals = {e1}
  Ops = {"create", "reset", "pause", "resume", "update"}
  Quotas = {1, 2}
  Expiries = {9}
  Boundaries = {1}
  MaxTime = 1
  MaxIngest = 2
  MaxOps = 3
  MaxCrashes = 0
  Skew = 1
PROPERTIES UsageIsFair OverQuotaBlocked
CHECK_DEADLOCK FALSE
