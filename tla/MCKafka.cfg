SPECIFICATION FairSpec
CONSTANTS
  c1 = c1
  c2 = c2
  Conns = {c1, c2}
  Requests <- MCRequests
  Partitions = {0}
  Default = 1
  Theirs = 2
  AutoCreate = TRUE
  Now = 2
  MaxFetch = 2
  MaxWait = 1
  MaxTheirs = 1
  MaxLate = 1
INVARIANTS
  AckedAtOffset
  FetchIsTheNextRun
  BisectionIsExact
  AnswersInOrder
PROPERTIES
  TopicIsSettled
  RequestsAreServed
CHECK_DEADLOCK FALSE
