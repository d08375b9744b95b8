SPECIFICATION FairSpec
INVARIANTS
  DispatchAtMostOnce
  Ledgers
  ConsentBeforeStart
PROPERTIES
  StopIsFinal
  NothingIsLost
  KeepsPromise
  ActiveIsLeft
  LateReceiptIsSaved
CONSTANTS
  c1 = c1
  c2 = c2
  c3 = c3
  CallIds = {c1, c2}
  None = None
  KindOf <- ToolKinds
  MaxModelCalls = 3
  MaxTokens = 3
  MaxToolExecutions = 2
  MaxRetries = 1
  MaxCrashes = 1
  MaxFaults = 1
  MaxResumes = 1
CHECK_DEADLOCK FALSE
