SPECIFICATION Spec
CONSTANTS
  FastRetryMax = 2
  FullRestartAt = 2
  MaxEvents = 1
  MaxHolds = 1
  Failing = {"stop", "start", "connect"}
  OrderlyOnly = FALSE
INVARIANTS
  HasIpAccurate
  NeverAbandoned
  
