SPECIFICATION FairSpec
CONSTANTS
  k1 = k1
  k2 = k2
  p1 = p1
  p2 = p2
  NoPid = NoPid
  Keys <- MCKeys
  Pids <- MCPids
  MaxWrites = 2
  MaxTime = 1
  Volatile <- MCVolatile
INVARIANTS
  SnapshotIsPointInTime
  DirtyCountsUnsaved
PROPERTIES
  ReloadAloneIsIdentity
  BackgroundSaveEnds
