SPECIFICATION Spec
INVARIANTS
  CallInv
  OutcomeIsTrue
PROPERTIES
  FoundIsKept
CONSTANTS
  None = None
  Lookups = {l1, l2}
  MaxVersion = 8
  MaxFaults = 3
  MaxCrashes = 1
  Kinds <- AllKinds
CHECK_DEADLOCK FALSE
