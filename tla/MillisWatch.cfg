SPECIFICATION Spec
CONSTANTS
  Word = 64
  Xor = 1
  Guard = 16
  CheckPeriod = 6
  RestartDelay = 3
  Lag = 2
PROPERTIES NeverOverflows NotBeforeTheEnd RestartsForever
