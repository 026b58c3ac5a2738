CONSTANTS
  UIP_CONNS = 1
  UIP_LISTENPORTS = 1
  Remotes = {r1}
  ServicePorts = {1}
  PortInit = 0
  PortWrap = 1
  PortEnd = 3
  UIP_RTO = 1
  RtoValues = {1, 5}
  UIP_MAXRTX = 3
  UIP_MAXSYNRTX = 2
  UIP_TIME_WAIT_TIMEOUT = 3
  U8 = 17
  DestPorts = {1, 2}
  Segments <- MCSegments
  ForcedPolls = TRUE
  RexmitOps = {"none", "send"}
SPECIFICATION FairSpec
PROPERTIES DeadPeersFreeEntries
