SPECIFICATION Spec
CONSTANTS
  l1 = l1
  l2 = l2
  s1 = s1
  s2 = s2
  s3 = s3
  c1 = c1
  w1 = w1
  Listings = {l1}
  Scans = {s1, s2, s3}
  Checks = {c1}
  Workers = {w1}
  Answers = {"sold"}
  Plans <- MCPlans
  None = None
SYMMETRY Symmetric
INVARIANTS TypeOK Coherent ObservationsCountedOnce MissesFollowSighting
CHECK_DEADLOCK FALSE
