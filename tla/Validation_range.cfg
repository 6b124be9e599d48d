CONSTANTS
  root = root
  lst = lst
  k1 = k1
  k2 = k2
  id1 = id1
  id2 = id2
  val1 = val1
  val2 = val2
  ref = ref
  opt = opt
  sel = sel
  sref = sref
  dsel = dsel
  dref = dref
  box = box
  man = man
  rng = rng
  pat = pat
  len = len
  len2 = len2
  ll = ll
  lp = lp
  lr = lr
  tst = tst
  cho = cho
  ca = ca
  cb = cb
  cx = cx
  grp = grp
  g1 = g1
  g2 = g2
  g3 = g3
  gid1 = gid1
  gid2 = gid2
  gid3 = gid3
  i1 = i1
  i2 = i2
  Nodes <- Entries
  Root = root
  NoValue = NoValue
  Intents = {i1, i2}
  Optional = {opt}
  Parent <- MCParent
  Kind <- MCKind
  KeyLeafs <- MCKeyLeafs
  ChoicesOf <- MCChoicesOf
  Default <- MCDefault
  Name <- MCName
  Mandatory <- MCMandatory
  Lref <- MCLref
  From <- MCFrom
  MinMax <- MCMinMax
  Ranges <- MCRanges
  Lengths <- MCLengths
  Patterns <- MCPatterns
  Must <- MCMust
  Prio <- MCPrio
  Scopes <- RangeScopes
SPECIFICATION Spec
INVARIANTS ValuesInRange
CHECK_DEADLOCK FALSE
