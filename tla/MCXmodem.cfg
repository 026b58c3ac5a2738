SPECIFICATION FairSpec
CONSTANTS
  Blocks = 4
  RECORD = 3
  RETRY_LIMIT = 3
  NUMBERS = 3
  INITIAL = 2
  INCREMENT = 1
  MaxFaults = 2
CHECK_DEADLOCK FALSE
INVARIANTS InOrder CompleteUnlessMisread DamageIsRepaired
PROPERTIES ReceiveReturns
