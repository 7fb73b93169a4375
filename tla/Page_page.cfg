SPECIFICATION PageFairSpec
CONSTANTS
  d1 = d1
  d2 = d2
  o1 = o1
  v1 = v1
  v2 = v2
  Listed = {d1, d2}
  None = None
  Contents = {v1, v2}
  Default = v1
  MaxRequests = 3
  MaxDialogActions = 3
  MaxDialogFailures = 1
  Devices = {d1, d2}
  NoData = NoData
  Readings <- CalmOrBusy
  Rules <- OnOrOff
  Loads = {c1}
  MaxChanges = 1
  MaxClock = 1
  MaxFailures = 1
  Options = {o1}
  AllDevices = AllDevices
  Nothing = Nothing
  TableRequests = {r1, r2}
  MaxVersion = 1
  MaxTableActions = 2
  MaxTableFailures = 1
  Wrap = 2
  Absent = Absent
  MaxOctets = 2
  MaxTime = 2
  MaxPolls = 3
  MaxPoints = 2
  Unit = 100
  Magnitudes <- PowersOfTen
CHECK_DEADLOCK FALSE
INVARIANTS DialogsFitThePage DialogShowsItsDevice OneRequestAtATime SettingsInForce OverviewFitsTheAlerts CardsFitTheOverview JudgesLikeTheServer HistoryFitsTheFilter RateIsNeverTooHigh LivePointsInOrder ChartContainsEveryPoint
PROPERTIES TypedTextSurvives ButtonsComeBack FleetSettlesInPlay HistoryNeverGoesBack TablesHealInPlay
