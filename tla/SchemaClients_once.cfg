CONSTANTS
  c1 = c1
  c2 = c2
  s1 = s1
  s2 = s2
  Configs <- MCConfigs
  Callers = {c1, c2}
  Schemas = {s1, s2}
  Bound = s1
  MaxVersion = 2
  TTL = 2
  Nobody = Nobody
SPECIFICATION Spec
INVARIANT FetchedOnce
CHECK_DEADLOCK FALSE
