SPECIFICATION Spec
CONSTANTS
  d1 = d1
  d2 = d2
  c1 = c1
  c2 = c2
  OneDay = OneDay
  Devices = {d1, d2}
  None = None
  Live = Live
  Empty = Empty
  OneHour = OneHour
  Ranges = {}
  Interfaces = {}
  Calls = {c1, c2}
  ListEvery = 2
  MaxActions = 2
  MaxFailures = 1
SYMMETRY CallSymmetry
CHECK_DEADLOCK FALSE
INVARIANTS RefreshFlagIsRight ShowsTheSelectedDevice SelectionIsListed
