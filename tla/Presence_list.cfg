SPECIFICATION Spec
CONSTANTS
  Word = 32
  Addr = {1, 2}
  BeaconPref = 12
  TimeoutPref = 3
  MinBeacon = 2
  DefaultBeacon = 3
  DefaultTimeout = 3
  BootGrace = 2
  Period = 1
  Lag = 1
  NtwLag = 99
  PublishMayFail = TRUE
  MaxClock = 8
  BufSize = 8
  Margin = 4
  RowLens = {3}
VIEW ButBroker
INVARIANTS CsvInBounds ListComplete
PROPERTY PublishedIsRecent
