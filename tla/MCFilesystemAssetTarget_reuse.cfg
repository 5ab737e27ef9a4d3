SPECIFICATION Spec
CONSTANTS
  p1 = p1  p2 = p2  a1 = a1
  Procs = {p1, p2}
  Assets = {a1}
  Length <- TwoChunks
  Pids = {1, 2, 3, 4}
  Inodes = {11, 12, 13, 14}
  ReusesPids = TRUE
  MaxFaults = 2
  NoFile = NoFile  NoName = NoName  NoAsset = NoAsset
INVARIANTS
  OnlyVerifiedBytes
