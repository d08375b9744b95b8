SPECIFICATION Spec
INVARIANTS
  OneChild
  ObjectsAreWhole
PROPERTIES
  CancelIsKept
SYMMETRY Symmetry
CONSTANTS
  None = None
  Data = d
  Keys = {p1, p2}
  Calls = {c1, c2}
  MaxRequests = 2
  MaxFaults = 1
  MaxCrashes = 1
CHECK_DEADLOCK FALSE
