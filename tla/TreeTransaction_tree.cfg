CONSTANTS
  root = root
  host = host
  box = box
  boxa = boxa
  boxd = boxd
  boxl = boxl
  opt = opt
  a1 = a1
  b1 = b1
  b2 = b2
  lst = lst
  k1 = k1
  id1 = id1
  val1 = val1
  tag1 = tag1
  pres = pres
  prea = prea
  i1 = i1
  i2 = i2
  Nodes <- MCNodes
  Root = root
  Parent <- MCParent
  Kind <- MCKind
  KeyLeafs <- MCKeyLeafs
  ChoicesOf <- MCChoices
  Default <- MCDefault
  NoValue = NoValue
  Intents = {i1, i2}
  Prio <- MCPrio
  Factory = {host}
  Foreign = foreign
  Scopes <- MCScopes
SPECIFICATION Spec
INVARIANTS TreeInv ReportsMatchRevert
PROPERTIES WinnerOnDevice UnmanagedStays WriteBackMatches SyncRestores
CHECK_DEADLOCK FALSE
