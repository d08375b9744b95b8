SPECIFICATION Spec
INVARIANTS
  ObjectsAreTracked
  DecisionIsShared
PROPERTIES
  DecidedStays
SYMMETRY Symmetry
CONSTANTS
  None = None
  Uploaders = {u1, u2}
  Senders = {s1, s2}
  Deleters = {a1, a2}
  Deletions = {d1, d2}
  Requests <- MCRequests
CHECK_DEADLOCK FALSE
