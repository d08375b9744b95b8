SPECIFICATION Spec
INVARIANTS
  SelectionIsWhole
  ComputedOnce
  OutcomeIsSettled
PROPERTIES
  TerminalIsKept
CONSTANTS
  MaxCalls = 3
  Outputs = {"sem_image", "mechanical_properties"}
  MaxFaults = 1
  MaxStops = 1
  MaxCrashes = 1
CHECK_DEADLOCK FALSE
