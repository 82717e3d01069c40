SPECIFICATION Spec
CONSTANTS
  l1 = l1  l2 = l2  p1 = p1  p2 = p2  c1 = c1  c2 = c2
  Listings = {l1, l2}
  Consumers = {c1, c2}
  Prices = {p1, p2}
  Answers = {"sold"}
  Priced <- MCPriced
  MaxBatches = 3
  MaxFaults = 1
  NoPrice = NoPrice
  None = None
SYMMETRY Symmetric
INVARIANTS OpeningRecorded CountedOnce LedgerTrue LedgerChains
PROPERTY Implements
CHECK_DEADLOCK FALSE
