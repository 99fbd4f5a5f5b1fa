SPECIFICATION Spec
CONSTANTS
  o1 = o1
  o2 = o2
  t1 = t1
  t2 = t2
  d1 = d1
  None = None
  Device = {d1}
  Open = {o1}
  Transfer = {}
  DeviceOf <- OneDevice
  Via <- OneEach
  MaxReports = 0
  MaxFailures = 1
  MaxReloads = 0
  MaxFailedReloads = 0
  MaxId = 3
INVARIANTS
  HandleIsBacked
