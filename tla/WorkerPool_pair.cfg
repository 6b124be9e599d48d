SPECIFICATION Spec
CONSTANTS
  a = a  b = b  c = c  g1 = g1
  Workers = {w1, w2}
  Groups = {g1}
  Tasks = {a, b, c}
  GroupOf <- OneGroup
  Top <- Pair
  Children <- Tree
  MayFail = {}
  MayCancel = FALSE
  MayClose = FALSE
  Monitor = Monitor
  Closer = Closer
  NoTask = NoTask
INVARIANT WaitMeansDrained
CHECK_DEADLOCK FALSE
