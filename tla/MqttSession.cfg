SPECIFICATION FairSpec
CONSTANTS
  Address = {a1, a2, a3, a4}
  nullptr = nullptr
  LoopTasks = {"client", "ntw"}
  PublishSize = 2
  AllocMayFail = TRUE
  AcksMayBeLate = TRUE
  MaxId = 2
  MaxSmall = 1
  MaxInFlight = 2
PROPERTIES IsQueue EventuallyDelivered
INVARIANTS TypeOK ListSound AtLeastOnce
