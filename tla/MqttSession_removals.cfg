SPECIFICATION Spec
CONSTANTS
  Address = {a1, a2, a3, a4}
  nullptr = nullptr
  LoopTasks = {"client"}
  PublishSize = 1
  AllocMayFail = FALSE
  AcksMayBeLate = FALSE
  MaxId = 3
  MaxSmall = 0
  MaxInFlight = 2
INVARIANT NoWriteToDeletedNode
