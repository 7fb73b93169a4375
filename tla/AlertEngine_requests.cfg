SPECIFICATION FairSpec
CONSTANTS
  Devices = {d1}
  MetricKeys = {}
  InterfaceKeys = {}
  DeviceKey = DEVICE
  Readings <- LowHigh
  AlertRules <- OnlyDefaultRules
  MailRules <- None
  Requests = {r1, r2}
  MaxClock = 0
  MaxCrashes = 1
INVARIANTS DisabledDeviceIsQuiet
PROPERTIES ImplementsLifecycle BreachIsRaised
