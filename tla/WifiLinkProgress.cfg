SPECIFICATION FairSpec
CONSTANTS
  FastRetryMax = 2
  FullRestartAt = 2
  MaxEvents = 1
  MaxHolds = 1
  Failing = {"start", "connect"}
  OrderlyOnly = TRUE
PROPERTIES
  LinkRecovers
