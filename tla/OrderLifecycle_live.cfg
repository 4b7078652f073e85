SPECIFICATION FairSpec
CONSTANTS
  Orders = {o1, o2}
  Qty = 3
  Faults = {"db", "poll", "reply", "bus"}
  Requests = {}
  PollSession = TRUE
INVARIANTS
  FillEventMeansFilled
PROPERTIES
  LedgerRefined
  CompletionIsRecorded
CHECK_DEADLOCK FALSE
