SPECIFICATION FairSpec
CONSTANTS
  Settings = {s1, s2}
  MinUptime = 2
  OtaTimeout = 2
  WaitTime = 1
  PortalTime = 2
  MaxWaits = 2
  MaxChunks = 3
CHECK_DEADLOCK FALSE
INVARIANT TypeOK
PROPERTIES UploadTakesEffect SettingsTakeEffect RestartsAfterUpload
