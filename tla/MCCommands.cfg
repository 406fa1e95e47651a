SPECIFICATION Spec
CONSTANTS
  NumDbs = 1
  Names = {k1, k2}
  Data = {d1}
  Elements = {1, 2}
  Inf = 1
  MaxMs = 10
  NoValue = NoValue
  NoTTL = NoTTL
  Requests <- MCRequests
  Ranges <- MCRanges
  MaxLen = 2
  MaxTime = 1
SYMMETRY NameSymmetry
INVARIANTS NoEmptyCollection LexRunIsFilter LmoveConserves SmoveConserves
PROPERTIES ChangeIsAnnounced
