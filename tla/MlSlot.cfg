SPECIFICATION Spec
INVARIANTS
  TrainingIsOwned
PROPERTIES
  KeepsSlot
SYMMETRY AnyRun
CONSTANTS
  r1 = r1
  r2 = r2
  NoRun = NoRun
  Runs = {r1, r2}
  MemberCount = 1
  CloseOps = {}
  LateOps <- AllOps
  MaxCrashes = 1
  MaxGiveUps = 1
  MaxUnconfirmed = 1
  MaxFaults = 1
