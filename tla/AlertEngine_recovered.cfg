SPECIFICATION Spec
CONSTANTS
  Devices = {d1}
  MetricKeys = {CPU}
  InterfaceKeys = {}
  DeviceKey = DEVICE
  Readings <- LowHigh
  AlertRules <- OnlyDefaultRules
  MailRules <- None
  Requests = {}
  MaxClock = 0
  MaxCrashes = 0
INVARIANT RecoveredIsBelowThreshold
