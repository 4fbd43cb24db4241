SPECIFICATION Spec
CONSTANTS
  t1 = t1
  h1 = h1
  h2 = h2
  Tenants = {t1}
  Handlers = {h1, h2}
  InactivityDays = 1
  MaxDuration = 1
  MaxScan = 1
  MaxCrashes = 0
  None = None
PROPERTY ReapedOnlyIdle
