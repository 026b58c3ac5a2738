SPECIFICATION FairSpec
CONSTANTS
  Ids = {tmr}
  tmr = tmr
  Resources = {1,2}
  QSIZE = 2
  Empty = Empty
  VTMR_NUM_TIMERS = 2
  Periods = {1,2}
  INT_TMR_MATCH = tmr
  MaxOps = 2
  NoTimer = NoTimer
INVARIANTS HookArmed QueueSound OneShotOnce
PROPERTIES InterruptsHandled
