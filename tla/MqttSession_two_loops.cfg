SPECIFICATION Spec
CONSTANTS
  Address = {a1, a2, a3, a4, a5}
  nullptr = nullptr
  LoopTasks = {"client", "ntw"}
  PublishSize = 2
  AllocMayFail = FALSE
  AcksMayBeLate = FALSE
  MaxId = 3
  MaxSmall = 1
  MaxInFlight = 2
INVARIANT WholePackets
