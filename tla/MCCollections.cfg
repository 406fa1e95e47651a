SPECIFICATION Spec
CONSTANTS
  Strings <- MCStrings
  Scores <- MCScores
  ScoreText <- MCScoreText
  Size <- MCSize
  Bytes <- MCBytes
  Ints = {1, 2, 3, 4}
  Wide = {4}
  Oversized = {6}
  MaxEntries = 2
  MaxInts = 3
  NodeBytes = 24
  MaxLen = 4
  MaxBytes = 4
  MaxLevel = 2
  MaxInlineCount = 3
  MaxLine = 65536
  MaxArgs = 1048576
  MaxBulk = 536870912
  BackLengths <- MCBackLengths
  FileLengths <- MCFileLengths
  Window = 40
INVARIANTS QueriesAgree SkipListSound CompactIsSmall EveryValueLoads BytesDecode RequestsSurviveCuts
PROPERTY ImplementsCollection
