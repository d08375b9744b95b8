SPECIFICATION Spec
INVARIANTS
  TypeOK
  FenceInv
  ConversationIsTrue
PROPERTIES
  TerminalIsFinal
CONSTANTS
  c1 = c1
  c2 = c2
  c3 = c3
  CallIds = {c1, c2, c3}
  None = None
  KindOf <- MixedKinds
  MaxModelCalls = 4
  MaxTokens = 4
  MaxToolExecutions = 2
  MaxRetries = 1
  MaxCrashes = 1
  MaxFaults = 1
  MaxResumes = 2
CHECK_DEADLOCK FALSE
