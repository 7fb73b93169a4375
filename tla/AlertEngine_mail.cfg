SPECIFICATION Spec
CONSTANTS
  Devices = {d1}
  MetricKeys = {}
  InterfaceKeys = {}
  DeviceKey = DEVICE
  Readings <- LowHigh
  AlertRules <- OnlyDefaultRules
  MailRules <- MailsOnOff
  Requests = {r1}
  MaxClock = 1
  MaxCrashes = 1
PROPERTIES MailFollowsItsEvent RemindersAreSpaced
