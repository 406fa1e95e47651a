SPECIFICATION Spec
CONSTANTS
  NumDbs = 1
  Names = {k1, k2}
  Data = {d1}
  Elements = {}
  Inf = 1
  MaxMs = 10
  NoValue = NoValue
  NoTTL = NoTTL
  Clients = {c1, c2}
  Transactors = {c1}
  Commands <- ExpiringSets
  Queueable <- ExpiringSets
  MaxQueue = 1
  MaxTime = 2
  SampleSize = 2
  MaxRounds = 2
SYMMETRY NameSymmetry
PROPERTY ExecSeesWatchedKeysAlive
