SPECIFICATION Spec
CONSTANTS
  Signals = {s1, s2}
  ValidFor = 4
  KeyTtl = 4
  Window = 2
  MaxOrders = 1
  MaxCopies = 2
  EndOfTime = 3
  Faults = {"redis", "db", "crash"}
INVARIANTS
  OneSlipAtMost
  RateHolds
  OrdersFromCopies
SYMMETRY SignalSymmetry
CHECK_DEADLOCK FALSE
