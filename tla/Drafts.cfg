SPECIFICATION DraftsSpec
INVARIANTS
  BoundAsShown
  UnitsAreTrusted
  CallsAreKept
CONSTANTS
  Unset = Unset
  Ambiguous = Ambiguous
  Training = t1
  d1 = d1
  d2 = d2
  celsius = celsius
  kelvin = kelvin
  hour = hour
  Datasets = {d1, d2}
  Declared <- MCDeclared
  Dimension <- MCDimension
  InitialRefs <- MCInitialRefs
  Candidates <- MCOffers
  MaxCalls = 3
  MaxMessages = 2
  MaxCrashes = 1
  MaxChanges = 1
  MaxRetries = 1
CHECK_DEADLOCK FALSE
