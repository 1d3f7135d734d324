SPECIFICATION Spec
CONSTANTS
  SelectPin = "W5500"
  BrokerSettings = {TRUE, FALSE}
  RestartPrefs = {TRUE, FALSE}
  TimeoutPref = 1
  MinUptime = 1
  ConnectTimeout = 1
  RetryDelay = 1
  SettleDelay = 0
  LinkDelay = 1
  LoopDelay = 0
  WebTime = 1
  Lag = 0
  HealsUntil = 2
  MaxClock = 9
CHECK_DEADLOCK FALSE
INVARIANTS TypeOK TimeoutDeadline ConnectsWhenHealthy
