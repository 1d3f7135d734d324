SPECIFICATION Spec
CONSTANTS
  Word = 32
  Addr = {1, 2}
  BeaconPref = 3
  TimeoutPref <- MinusOne
  MinBeacon = 2
  DefaultBeacon = 3
  DefaultTimeout = 3
  BootGrace = 4
  Period = 2
  Lag = 1
  NtwLag = 1
  PublishMayFail = FALSE
  MaxClock = 24
  BufSize = 8
  Margin = 4
  RowLens = {2}
INVARIANTS TypeOK WatchdogDeadline
