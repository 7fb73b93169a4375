SPECIFICATION FairSpec
CONSTANTS
  Devices = {1, 2}
  Errors = {e1}
  NoError = NoError
  Retention = 2
  EventRetention = 3
  RetentionInterval = 1
  MaxClock = 3
  MaxFailures = 1
  MaxCrashes = 1
INVARIANTS InterfaceSamplesHaveADevice OutageIsStoredOnce
PROPERTIES OldRowsGo HistoryCatchesUp
