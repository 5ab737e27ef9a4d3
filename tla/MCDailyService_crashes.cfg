SPECIFICATION ServiceSpec
CONSTANTS
  Clients = {}
  CompletedLimit = 1
  MaxOperations = 3
  MaxProgress = 0
  MaxDrops = 0
  NoOperation = NoOperation  FinishedEvent = FinishedEvent
  Order <- ByName
  MaxDay = 0
  MaxRequests = 1
  MaxEdits = 0
  MaxCrashes = 2
  MaxStorageFaults = 1
CHECK_DEADLOCK FALSE
INVARIANTS
  ServiceTypeOK
  AtMostOncePerDate
  WorkspaceIsExclusive
  JournalIsTruthful
