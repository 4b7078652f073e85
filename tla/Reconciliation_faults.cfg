SPECIFICATION DeskSpec
CONSTANTS
  Orders = {o1, o2}
  Qty = 1
  Faults = {"poll", "db", "crash"}
  Requests = {}
  PollSession = TRUE
  Foreign = {f1}
  StoredAs = "kite"
  AskedFor = "kite"
INVARIANTS
  DeskTypeOK
  PositionsAreBacked
  MissingIsMissing
  OrphansAreOrphans
SYMMETRY DeskSymmetry
CHECK_DEADLOCK FALSE
