SPECIFICATION RfsFairSpec
CONSTANTS
  BUFFER = 2
  Calls <- MCCalls
  FileLen = 2
  MaxSwallow = 2
  MaxTransit = 2
  MaxLosses = 2
INVARIANTS AnswersAreMine PositionKnown
PROPERTIES ServerRecovers
