SPECIFICATION FairDeskSpec
CONSTANTS
  Orders = {o1}
  Qty = 1
  Faults = {"poll"}
  Requests = {}
  PollSession = TRUE
  Foreign = {f1}
  StoredAs = "kite"
  AskedFor = "live"
PROPERTIES
  SessionIsReconciled
CHECK_DEADLOCK FALSE
