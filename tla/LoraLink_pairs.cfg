SPECIFICATION LFairSpec
CONSTANTS
  Attempts = 2
  MaxTroubles = 0
PROPERTY LoraPairs
