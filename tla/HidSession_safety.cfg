SPECIFICATION Spec
CONSTANTS
  o1 = o1
  o2 = o2
  t1 = t1
  t2 = t2
  d1 = d1
  None = None
  Device = {d1}
  Open = {o1, o2}
  Transfer = {t1}
  DeviceOf <- OneDevice
  Via <- OneEach
  MaxReports = 2
  MaxFailures = 1
  MaxReloads = 1
  MaxFailedReloads = 1
  MaxId = 5
INVARIANTS
  OwnAnswer
  WhatIsHeardIsTrue
