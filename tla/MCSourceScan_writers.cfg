SPECIFICATION FairSpec
CONSTANTS
  c1 = c1  c2 = c2
  Count = 2
  Contents = {c1, c2}
  Kinds = {"R2", "Local"}
  MaxAttempts = 2
  MaxWrites = 2
  MaxFaults = 1
  NoFile = NoFile
  NoContent = NoContent
INVARIANTS
  TypeOK
  SnapshotIsTrue
  SkippingIsSafe
PROPERTIES
  ScansCatchUp
