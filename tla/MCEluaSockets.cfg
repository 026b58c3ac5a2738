SPECIFICATION FairSpec
CONSTANTS
  UIP_CONNS = 2
  UIP_RECEIVE_WINDOW = 2
  UIP_TCP_MSS = 2
  MaxSize = 2
  None = None
CHECK_DEADLOCK FALSE
INVARIANTS StoppedUnlessReceiving SendCounts AcceptedIsReturned
PROPERTIES CallsReturn
