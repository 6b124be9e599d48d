\* Three worlds: transactions alone; every kind of request with timers, a fault and a crash;
\* two syncs against a transaction.
SPECIFICATION MCSpec
CONSTANTS
  i1 = i1  i2 = i2  p1 = p1  p2 = p2  v1 = v1  v2 = v2
  Clients = {c1, c2}
  Syncs = {s1}
  TxIds = {t1, t2, t3}
  Intents = {i1, i2}
  PrioOf <- AnIntentPrio
  Paths = {p1}
  Values = {v1, v2}
  NoValue = NoValue
  Requests <- AllRequests
  Scopes <- SafetyScopes
  NoReplace = NoReplace
  NoChange = NoChange
  NoTx = NoTx
  Free = Free
  TimersFire = TRUE
  OtherIds = TRUE
  EmptyGetAborts = TRUE
  MaxFaults = 1
  MaxCrashes = 1
  MaxDrifts = 1
SYMMETRY Symmetry
INVARIANTS LockDiscipline TransactionExclusion CleanupIsAlone DmutexSerializes StoresAgree
  CancelRestoresIntents
PROPERTY StoreChangesOnlyInTransaction
CHECK_DEADLOCK FALSE
