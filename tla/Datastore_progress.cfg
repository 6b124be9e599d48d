SPECIFICATION MCFairSpec
CONSTANTS
  i1 = i1  i2 = i2  p1 = p1  p2 = p2  v1 = v1  v2 = v2
  Clients = {c1, c2}
  Syncs = {s1}
  TxIds = {t1}
  Intents = {i1}
  PrioOf <- AnIntentPrio
  Paths = {p1}
  Values = {v1}
  NoValue = NoValue
  Requests <- OneIntent
  Scopes <- OneScope
  NoReplace = NoReplace
  NoChange = NoChange
  NoTx = NoTx
  Free = Free
  TimersFire = TRUE
  OtherIds = TRUE
  EmptyGetAborts = FALSE
  MaxFaults = 1
  MaxCrashes = 1
  MaxDrifts = 1
PROPERTIES CallsReturn ExpiredTransactionEnds Converges
CHECK_DEADLOCK FALSE
