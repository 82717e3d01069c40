SPECIFICATION Spec
CONSTANTS
  r1 = r1  b1 = b1  o1 = o1
  None = None
  Runners = {r1}
  Batches = {b1}
  Operators = {o1}
  Interval = 1
INVARIANT
  ControllerTruth
PROPERTY
  PauseHolds
