SPECIFICATION Spec
CONSTANTS
  Devices = {d1}
  MetricKeys = {CPU}
  InterfaceKeys = {}
  DeviceKey = DEVICE
  Readings <- AllLevels
  AlertRules <- RulesOnOff
  MailRules <- None
  Requests = {}
  MaxClock = 0
  MaxCrashes = 1
INVARIANTS ActiveHasOpenEvent OpenEventIsAccounted
PROPERTIES HistoryIsOrdered
