SPECIFICATION Spec
CONSTANTS
  Holders = {"primary"}
  Versions = {4, 6}
  MCLT = 1
  StartupPeriod = 1
  ResponseDelay = 1
  SafePeriod = 1
  SendInterval = 1
  PendingCapacity = 6
  StreamCapacity = 2
  MaxXid = 3
  MaxOpens = 2
INVARIANTS
  CommunicationNeedsNegotiation
  ServesOnlyAfterFullUpdate
  UpdateDoneAnswersRequest
  PendingNeverFull
