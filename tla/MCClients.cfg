SPECIFICATION Spec
CONSTANTS
  NumDbs = 2
  Names = {k1}
  Data = {d1}
  Elements = {1}
  Inf = 1
  MaxMs = 1
  NoValue = NoValue
  NoTTL = NoTTL
  Clients = {c1, c2}
  Transactors = {c1, c2}
  Commands <- FewCommands
  Queueable <- FewQueueable
  MaxQueue = 1
  MaxTime = 0
  SampleSize = 2
  MaxRounds = 2
SYMMETRY ClientSymmetry
INVARIANTS WatchIndexExact DirtyOnlyWhileWatching QueueIsWhole TransactionEndsClean
