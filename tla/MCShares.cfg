SPECIFICATION Spec
CONSTANTS
  None = None
  Servers = {s1, s2}
  Admins = {a1}
  Evals = {e1}
  Ops <- AllOps
  Quotas = {1}
  Expiries = {9}
  Boundaries = {1}
  MaxTime = 0
  MaxIngest = 1
  MaxOps = 3
  MaxCrashes = 1
  Skew = 1
SYMMETRY ServerSymmetry
INVARIANTS SharesAgree
CHECK_DEADLOCK FALSE
