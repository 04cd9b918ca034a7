SPECIFICATION BothSpec
CONSTANTS
  N = 2
  Timeout = 1
  MaxScan = 1
  Handler = "loop"
  Rereads = FALSE
  MaxTroubles = 2
INVARIANT TypeOK
PROPERTIES OfflineOnlyWhenSilent AliveShownAvailable PresenceNoticed
