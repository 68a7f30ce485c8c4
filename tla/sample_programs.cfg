CONSTANTS
  Threads = {0, 1, 2}
  Passes = 2
  ProfiledContexts = {1, 2}
  DeviceIds <- MCDeviceIds
  Sets <- MCSets
  CountedDevices = 2
  TracedDevices = 1
  Capacity = 4
  UnknownKind = "unknown"
SPECIFICATION Spec
INVARIANTS
  CallsAccepted
  EvaluatedComplete
  EverythingReleased
  ShownIsMeasured
  RecordsHandled
  RecordsCorrelated
