SPECIFICATION FairSpec
CONSTANTS
  a = a  b = b  c = c  g1 = g1
  Workers = {w1, w2}
  Groups = {g1}
  Tasks = {a, b, c}
  GroupOf <- OneGroup
  Top <- Root
  Children <- Tree
  MayFail = {b}
  MayCancel = TRUE
  MayClose = TRUE
  Monitor = Monitor
  Closer = Closer
  NoTask = NoTask
INVARIANTS PoolInv WalkIsComplete
PROPERTIES WaitReturns CloseEndsWorkers
CHECK_DEADLOCK FALSE
