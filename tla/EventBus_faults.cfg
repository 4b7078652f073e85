SPECIFICATION FairSpec
CONSTANTS
  MaxMessages = 5
  Batch = 2
  Faults <- AllBusFaults
INVARIANTS
  TypeOK
  AcknowledgedIsSettled
PROPERTIES
  DeliveryOrdered
  TopicMovesOn
CHECK_DEADLOCK FALSE
