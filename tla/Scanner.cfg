SPECIFICATION FairSpec
CONSTANTS
  Device = {d1, d2}
INVARIANTS TypeOK StoresUnharmed HeardIsReported OnlyHeardIsReported
PROPERTIES ScansAgain KeepsReporting
