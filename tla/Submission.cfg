SPECIFICATION Spec
INVARIANTS
  OncePerIntention
  OneAtWork
PROPERTIES
  RightTarget
SYMMETRY Symmetry
CONSTANTS
  None = None
  Tabs = {t1, t2}
  MaxOps = 2
  MaxRuns = 3
  MaxMoves = 1
  MaxStops = 1
  MaxTries = 2
  MaxGiveUps = 1
CHECK_DEADLOCK FALSE
