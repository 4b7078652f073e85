SPECIFICATION Spec
CONSTANTS
  Signals = {s1, s2}
  ValidFor = 2
  KeyTtl = 1
  Window = 1
  MaxOrders = 1
  MaxCopies = 3
  EndOfTime = 4
  Faults = {"db", "crash"}
INVARIANTS
  TypeOK
  OrdersFollowKeys
SYMMETRY SignalSymmetry
CHECK_DEADLOCK FALSE
