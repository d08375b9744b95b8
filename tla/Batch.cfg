SPECIFICATION BatchSpec
INVARIANTS
  OneAtATime
  RecordsAreTrue
  CleanedUp
PROPERTY
  OnlyOwnersStart
CONSTANTS
  NImages = 2
  MaxResumes = 1
  MaxChecks = 1
  MaxFailures = 1
CHECK_DEADLOCK FALSE
