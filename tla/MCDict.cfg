SPECIFICATION FairSpec
CONSTANTS
  Keys <- MCKeys
  Hash <- MCHash
  Width = 3
  InitialSize = 1
  SizeFor <- nextPowerOfTwo
  ShrinkFactor = 3
  EmptyVisits = 1
  CronBuckets = 2
  Counts = {1, 3}
  MaxScanIterations = 3
INVARIANTS ScanMissesNothing
PROPERTIES ImplementsKeySet RehashCompletes ScanEnds
