SPECIFICATION StatsSpec
CONSTANTS
  s1 = s1
  s2 = s2
  s3 = s3
  kim = kim
  SubjectNames = {s1, s2, s3}
  Owners = {kim}
  Sample = 2
  MaxChanges = 4
  None = none
SYMMETRY Symmetric
CHECK_DEADLOCK FALSE
INVARIANTS StatsInv NoOrphanHidden
