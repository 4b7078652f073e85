SPECIFICATION FairSpec
CONSTANTS
  Orders = {o1}
  Qty = 2
  Faults = {}
  Requests = {}
  PollSession = FALSE
PROPERTIES
  CompletionIsRecorded
CHECK_DEADLOCK FALSE
