SPECIFICATION FairSpec
CONSTANTS
  e1 = e1  e2 = e2  w1 = w1  w2 = w2  facts = facts  truth = truth
  None = None
  Events = {e1, e2}
  Sinks = {facts}
  Workers = {w1, w2}
  SinkOf <- TwoOnFacts
  Projectors = {}
  Poison = {e1}
  Limit = 2
  LeaseTicks = 2
  RetryTicks = 1
  MaxFaults = 1
PROPERTIES
  Drains
