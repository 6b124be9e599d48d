\* Two overlapping creations of a name leave a datastore running that is not listed.
CONSTANTS
  n1 = n1
  Names = {n1}
  Configured = {n1}
  a1 = a1
  a2 = a2
  Admins = {a1, a2}
  s1 = s1
  s2 = s2
  Streams = {s1, s2}
  Scopes <- MCScopes
  MaxDatastores = 2
  Nobody = Nobody
SPECIFICATION Spec
INVARIANT NobodyRunsUnlisted
CHECK_DEADLOCK FALSE
