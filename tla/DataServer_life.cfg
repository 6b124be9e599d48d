\* One name, which two clients create and delete, up to two datastores; two streams.
CONSTANTS
  n1 = n1
  Names = {n1}
  Configured = {n1}
  a1 = a1
  a2 = a2
  Admins = {a1, a2}
  s1 = s1
  s2 = s2
  Streams = {s1, s2}
  Scopes <- MCScopes
  MaxDatastores = 2
  Nobody = Nobody
SPECIFICATION Spec
INVARIANTS LifeInv
PROPERTIES EventsAreBracketed ServerProgress
CHECK_DEADLOCK FALSE
