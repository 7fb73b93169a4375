SPECIFICATION FairSpec
CONSTANTS
  Devices = {d1}
  MetricKeys = {}
  InterfaceKeys = {port1}
  DeviceKey = DEVICE
  Readings <- LowHigh
  AlertRules <- OnlyDefaultRules
  MailRules <- None
  Requests = {r1}
  MaxClock = 0
  MaxCrashes = 0
PROPERTIES RecoveryIsNoticed
