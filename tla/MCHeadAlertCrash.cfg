SPECIFICATION Spec
CONSTANTS
  HeadOrder <- MCHeadOrder
  ClearCycles = 2
  Cooldown = 2
  MaxQueue = 3
  MaxCrashes = 1
INVARIANT CloudAgreesWhenFlushed
