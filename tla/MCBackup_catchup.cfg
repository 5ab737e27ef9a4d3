SPECIFICATION FairSpec
CONSTANTS
  w1 = w1  w2 = w2  text = text  film = film  s1 = s1
  c1 = c1  c2 = c2  c3 = c3  c4 = c4  c5 = c5  c6 = c6
  Workspaces = {w1}
  Contents = {text, film}
  Large = {film}
  Oids = {c1, c2, c3, c4, c5}
  Stamps = {s1}
  ReusesBySize = TRUE
  Hashes = TRUE
  Verifies = TRUE
  MaxEdits = 1
  MaxFaults = 1
  NoCommit = NoCommit  NoObject = NoObject  NoIntent = NoIntent
  NoContent = NoContent  RefMissing = RefMissing  Others = Others
INVARIANTS
  TypeOK
  BackupIsRestorable
  ReportsAreTrue
PROPERTIES
  BackupsCatchUp
