SPECIFICATION Spec
INVARIANT ConsentBeforeSend
CONSTANTS
  None = None
  Lookups = {l1}
  MaxVersion = 8
  MaxFaults = 1
  MaxCrashes = 0
  Kinds <- WriteKinds
CHECK_DEADLOCK FALSE
