SPECIFICATION Spec
CONSTANTS
  Operators = {p1, p2}
  Startup = startup
  MaxChanges = 3
  Faults <- AllSwitchFaults
INVARIANTS
  TypeOK
  AnnouncedIsAudited
  RepeatsBounded
SYMMETRY OperatorSymmetry
CHECK_DEADLOCK FALSE
