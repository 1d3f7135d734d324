SPECIFICATION Spec
CONSTANTS
  Word = 64
  Addr = {1}
  BeaconPref = 15
  TimeoutPref = 2
  MinBeacon = 2
  DefaultBeacon = 3
  DefaultTimeout = 3
  BootGrace = 15
  Period = 3
  Lag = 1
  NtwLag = 1
  PublishMayFail = FALSE
  MaxClock = 31
  BufSize = 8
  Margin = 4
  RowLens = {2}
INVARIANT StaleLeaves
