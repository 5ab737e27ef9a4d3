SPECIFICATION FairService
CONSTANTS
  Clients = {}
  CompletedLimit = 1
  MaxOperations = 3
  MaxProgress = 0
  MaxDrops = 0
  NoOperation = NoOperation  FinishedEvent = FinishedEvent
  Order <- OneKind
  MaxDay = 1
  MaxRequests = 1
  MaxEdits = 1
  MaxCrashes = 1
  MaxStorageFaults = 0
CHECK_DEADLOCK FALSE
PROPERTIES
  DueWorkIsStarted
