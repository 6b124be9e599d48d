CONSTANTS
  i1 = i1
  i2 = i2
  i3 = i3
  Intents = {i1, i2, i3}
  Scopes <- MCScopes
  Values = {v1, v2}
  NoValue = NoValue
SPECIFICATION Spec
INVARIANTS SuccessorIsOnDevice
CHECK_DEADLOCK FALSE
