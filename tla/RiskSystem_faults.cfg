SPECIFICATION FairSpec
CONSTANTS
  Callers = {c1, c2}
  MaxCalls = 2
  nifty = nifty
  bank = bank
  NoRequest = NoRequest
  Underlyings <- MCUnderlyings
  Config <- MCConfig
  Requests <- MCRequests
  Accounts <- MCLosses
  Quotes <- MCQuotes
  Faults <- AllRiskFaults
INVARIANTS
  TypeOK
  ApprovalsAudited
  ApprovalsSized
  OneStaleApproval
  TiersToldInOrder
  LockHeld
PROPERTIES
  CallsEnd
CHECK_DEADLOCK FALSE
