SPECIFICATION ConsoleSpec
CONSTANTS
  c1 = c1
  Clients = {c1}
  NoClient = NoClient
  CompletedLimit = 0
  MaxOperations = 2
  MaxProgress = 2
  MaxDrops = 1
  NoOperation = NoOperation
  FinishedEvent = FinishedEvent
CHECK_DEADLOCK FALSE
INVARIANTS
  ConsoleTypeOK
  SingleFlight
  StreamIsHistory
  
PROPERTIES
  WatchersAreReleased
  
