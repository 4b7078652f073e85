SPECIFICATION Spec
CONSTANTS
  Orders = {o1}
  Qty = 4
  Faults <- AllFaults
  Requests = {r1, r2, r3}
  PollSession = TRUE
INVARIANTS
  TypeOK
  PersistedBeforeBroker
  FillsAreReal
  RejectionsAreReal
  OneFillEvent
PROPERTIES
  LedgerRefined
SYMMETRY RequestSymmetry
CHECK_DEADLOCK FALSE
