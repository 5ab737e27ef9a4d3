SPECIFICATION ConfiguredFairSpec
CONSTANTS
  p1 = p1  p2 = p2  a1 = a1
  Machines = {p1, p2}
  Assets = {a1}
  Length <- TwoChunks
  Pids = {1, 2, 3, 4}
  Inodes = {11, 12, 13, 14, 15, 16}
  ReusesPids = FALSE
  MaxFaults = 2
  NoFile = NoFile  NoName = NoName  NoAsset = NoAsset  Missing = Missing
INVARIANTS
  TargetsTypeOK
  ReadyStaysReady
PROPERTIES
  EitherImplementsTarget
  EitherSettles
