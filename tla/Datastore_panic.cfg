SPECIFICATION MCSpec
CONSTANTS
  i1 = i1  i2 = i2  p1 = p1  p2 = p2  v1 = v1  v2 = v2
  Clients = {c1}
  Syncs = {}
  TxIds = {t1}
  Intents = {i1}
  PrioOf <- AnIntentPrio
  Paths = {p1}
  Values = {v1}
  NoValue = NoValue
  Requests <- OneIntent
  Scopes <- OneScope
  NoReplace = NoReplace
  NoChange = NoChange
  NoTx = NoTx
  Free = Free
  TimersFire = TRUE
  OtherIds = FALSE
  EmptyGetAborts = FALSE
  MaxFaults = 0
  MaxCrashes = 0
  MaxDrifts = 0
INVARIANT NoPanic
CHECK_DEADLOCK FALSE
