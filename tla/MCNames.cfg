SPECIFICATION FairSpec
CONSTANTS
  d1 = d1
  d2 = d2
  Servers = {d1, d2}
  Provides <- MCProvides
  DiscoverLimit = 2
  RequestLimit = 1
  None = None
  HostNames = {"a", "b"}
  RESOLV_ENTRIES = 2
  MAX_RETRIES = 3
  SEQNOS = 3
  Nobody = Nobody
  MaxLookups = 3
CHECK_DEADLOCK FALSE
INVARIANTS LeaseFromServer ForeignOnlyByReuse AskedBeforeGivingUp
PROPERTIES LookupsReturn
