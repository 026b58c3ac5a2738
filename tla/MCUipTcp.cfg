CONSTANTS
  UIP_CONNS = 2
  UIP_LISTENPORTS = 1
  Remotes = {r1}
  ServicePorts = {1}
  PortInit = 0
  PortWrap = 1
  PortEnd = 3
  UIP_RTO = 0
  RtoValues = {0}
  UIP_MAXRTX = 1
  UIP_MAXSYNRTX = 0
  UIP_TIME_WAIT_TIMEOUT = 2
  U8 = 3
  DestPorts = {1, 2}
  Segments <- MCSegments
  ForcedPolls = TRUE
  RexmitOps = {"none", "send"}
SPECIFICATION Spec
CHECK_DEADLOCK TRUE
INVARIANTS UniqueEndpoints EndIsReported CloseTakesEffect RetransmitBudget
