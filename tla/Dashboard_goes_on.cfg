SPECIFICATION FairSpec
CONSTANTS
  d1 = d1
  d2 = d2
  c1 = c1
  c2 = c2
  OneDay = OneDay
  Devices = {d1, d2}
  None = None
  Live = Live
  Empty = Empty
  OneHour = OneHour
  Ranges = {OneHour, OneDay}
  Interfaces = {1}
  Calls = {c1}
  ListEvery = 2
  MaxActions = 2
  MaxFailures = 1
CHECK_DEADLOCK FALSE
INVARIANTS ChartsShowTheRange
PROPERTIES RefreshingGoesOn ListHeals
