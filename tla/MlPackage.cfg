SPECIFICATION FairSpec
INVARIANTS
  PackageIsWhole
  ClosedIsQuiet
PROPERTIES
  AllIsSettled
CONSTANTS
  r1 = r1
  r2 = r2
  NoRun = NoRun
  Runs = {r1}
  MemberCount = 2
  CloseOps = {1}
  LateOps <- NoClaim
  MaxCrashes = 1
  MaxGiveUps = 1
  MaxUnconfirmed = 1
  MaxFaults = 2
