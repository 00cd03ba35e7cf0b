SPECIFICATION FairSpec
CONSTANTS
  MaxStale = 1
  MaxFaults = 1
  MaxBackoff = 4
PROPERTY RecoversServing
