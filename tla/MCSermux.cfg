SPECIFICATION FairSpec
CONSTANTS
  s1 = s1
  s2 = s2
  Bufs = {s1, s2}
  Data <- MCData
  Chars <- MCChars
  SIZE = 2
  None = None
  MaxSent = 2
  MaxRestarts = 2
CHECK_DEADLOCK FALSE
INVARIANTS DeliveredInOrder ReadsOldest CountIsExact
PROPERTIES EverythingArrives
