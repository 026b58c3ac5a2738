CONSTANTS
  Items <- Response
  InitialMss = 3
  Windows = {0, 3, 4}
  MaxPolls = 3
  HalfClose = TRUE
SPECIFICATION FairSpec
INVARIANTS StreamIntact NoAbortMidResponse EndIsComplete
PROPERTIES StreamSpec ResponseEnds
