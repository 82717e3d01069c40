SPECIFICATION Spec
CONSTANTS
  e1 = e1  e2 = e2  w1 = w1  w2 = w2  facts = facts  truth = truth
  None = None
  Events = {e1, e2}
  Sinks = {truth}
  Workers = {w1, w2}
  SinkOf <- TwoOnTruth
  Projectors = {truth}
  Poison = {}
  Limit = 2
  LeaseTicks = 2
  RetryTicks = 1
  MaxFaults = 2
INVARIANTS
  EffectBeforeReceipt
  NeverStranded
  LeaseExcludes
PROPERTY
  Implements
