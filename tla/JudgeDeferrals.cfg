SPECIFICATION Spec
CONSTANTS
  Units = {1, 2}
  Identities <- MCIdentities
  p1 = p1
  p2 = p2
  Passes = {p1, p2}
  BatchSize = 2
  Threshold = 1
  Allowances <- MCAllowances
  None = None
SYMMETRY MCPassSymmetry
INVARIANTS TypeOK CallsExclusive
CHECK_DEADLOCK FALSE
