----------------------- MODULE DatastoreCancelProofs -----------------------
(***************************************************************************)
(* Proof about DatastoreHistory: TransactionCancel brings the intents back *)
(* for every value of the constants.                                       *)
(*                                                                         *)
(* The invariant is RestoreInv: the former content a transaction recorded  *)
(* and the cache are together the intents before it.  RecordsKeep          *)
(* establishes it, PersistKeeps carries it through every stored intent and *)
(* the other lemmas through the steps that neither record nor store.       *)
(***************************************************************************)
EXTENDS DatastoreProofs

-----------------------------------------------------------------------------
\* The data that the restored intents depend on has its types.
DataTypes ==
  /\ old \in [TxIds -> [Intents -> Config \cup {NoChange}]]
  /\ req \in [Procs -> Request]
  /\ intents \in [Intents -> Config] /\ before \in [Intents -> Config]
  /\ tree = [p \in Procs |-> tree[p]]
  /\ \A p \in Procs : "intents" \in DOMAIN tree[p] /\ tree[p].intents \in [Intents -> Config]
  /\ faults \in Nat

\* The request of a rollback is a request, and names what was recorded.
LEMMA RollbackRequests ==
  ASSUME old \in [TxIds -> [Intents -> Config \cup {NoChange}]], NEW t \in TxIds
  PROVE  /\ RollbackRequest(t) \in Request
         /\ Named(RollbackRequest(t)) = Recorded(t)
         /\ \A i \in Recorded(t) : Exported(RollbackRequest(t).new[i]) = old[t][i]
         /\ ~RollbackRequest(t).dryRun
<1> DEFINE Back(c) == [content |-> c, delete |-> FALSE, onlyIntended |-> FALSE,
                       nonRevertive |-> FALSE, previouslyApplied |-> FALSE]
           new == [i \in Intents |-> IF old[t][i] = NoChange THEN NoChange ELSE Back(old[t][i])]
<1>1. /\ RollbackRequest(t) = [NoRequest EXCEPT !.new = new]
      /\ RollbackRequest(t).new = new /\ RollbackRequest(t).dryRun = FALSE
  <2>1. RollbackRequest(t) = [NoRequest EXCEPT !.new = new]
    BY Zenon DEF RollbackRequest
  <2> QED BY <2>1 DEF NoRequest
<1>2. ASSUME NEW i \in Intents, old[t][i] # NoChange PROVE Back(old[t][i]) \in Change
  <2>1. old[t][i] \in Config BY Zenon, <1>2
  <2> QED BY Zenon, <2>1 DEF Change
<1>3. NoChange \notin Change
  BY Zenon, ConstantsAssumption
<1>4. new \in [Intents -> Change \cup {NoChange}]
  BY Zenon, <1>2
<1>5. RollbackRequest(t) \in Request
  <2>1. ASSUME NEW n \in [Intents -> Change \cup {NoChange}]
        PROVE  [NoRequest EXCEPT !.new = n] \in Request
    BY Zenon DEF NoRequest, Request
  <2> QED BY Zenon, <1>1, <1>4, <2>1
<1>6. ASSUME NEW i \in Intents
      PROVE  /\ old[t][i] = NoChange => new[i] = NoChange
             /\ old[t][i] # NoChange => new[i] # NoChange /\ Exported(new[i]) = old[t][i]
  <2>1. CASE old[t][i] = NoChange
    BY Zenon, <2>1
  <2>2. CASE old[t][i] # NoChange
    <3>1. new[i] = Back(old[t][i])
      BY Zenon, <2>2
    <3>2. new[i] # NoChange
      BY Zenon, <1>2, <1>3, <2>2, <3>1
    <3>3. Exported(Back(old[t][i])) = old[t][i]
      BY Zenon DEF Exported
    <3> QED BY Zenon, <2>2, <3>1, <3>2, <3>3
  <2> QED BY Zenon, <2>1, <2>2
<1> HIDE DEF new
<1>7. /\ Named(RollbackRequest(t)) = Recorded(t)
      /\ \A i \in Recorded(t) : Exported(RollbackRequest(t).new[i]) = old[t][i]
  BY Zenon, <1>1, <1>6 DEF Named, Recorded
<1>8. ~RollbackRequest(t).dryRun
  BY Zenon, <1>1
<1> QED BY Zenon, <1>5, <1>7, <1>8

\* An empty tree and an empty request have their types.
LEMMA EmptyTypes ==
  /\ NoRequest \in Request /\ ~NoRequest.dryRun
  /\ EmptyConfig \in Config
  /\ "intents" \in DOMAIN EmptyTree /\ EmptyTree.intents \in [Intents -> Config]
<1>1. EmptyConfig \in Config
  BY Zenon DEF EmptyConfig, Config
<1>2. NoRequest \in Request /\ ~NoRequest.dryRun
  BY Zenon DEF NoRequest, Request
<1>3. "intents" \in DOMAIN EmptyTree /\ EmptyTree.intents = [i \in Intents |-> EmptyConfig]
  BY DEF EmptyTree
<1> QED BY Zenon, <1>1, <1>2, <1>3

\* p changes its own request and tree, and at most one more call has failed.
LEMMA TypesKept ==
  ASSUME DataTypes, NEW p \in Procs,
         old' \in [TxIds -> [Intents -> Config \cup {NoChange}]],
         intents' = intents, before' = before \/ before' = intents,
         req' = req \/ \E r \in Request : req' = [req EXCEPT ![p] = r],
         tree' = tree \/ \E t : /\ tree' = [tree EXCEPT ![p] = t]
                                /\ "intents" \in DOMAIN t /\ t.intents \in [Intents -> Config],
         faults' = faults \/ faults' = faults + 1
  PROVE  DataTypes'
<1> USE DEF DataTypes
<1>1. req' \in [Procs -> Request]
  BY Zenon
<1>2. /\ (tree = [q \in Procs |-> tree[q]])'
      /\ \A q \in Procs : "intents" \in DOMAIN tree'[q] /\ tree'[q].intents \in [Intents -> Config]
  <2>1. CASE tree' = tree
    BY Zenon, <2>1
  <2>2. ASSUME NEW t, tree' = [tree EXCEPT ![p] = t],
               "intents" \in DOMAIN t, t.intents \in [Intents -> Config]
        PROVE  <1>2!1 /\ <1>2!2
    <3>1. (tree = [q \in Procs |-> tree[q]])'
      BY Zenon, <2>2
    <3>2. ASSUME NEW q \in Procs PROVE tree'[q] = IF q = p THEN t ELSE tree[q]
      BY Zenon, <2>2
    <3> QED BY Zenon, <2>2, <3>1, <3>2
  <2> QED BY Zenon, <2>1, <2>2
<1>3. faults' \in Nat
  OBVIOUS
<1> QED BY Zenon, <1>1, <1>2, <1>3

\* Every step preserves the types.
LEMMA TypesStep == Inductive /\ TodoInv /\ DataTypes /\ [HNext]_<<vars, before>> => DataTypes'
<1> SUFFICES ASSUME Inductive, TodoInv, DataTypes, [HNext]_<<vars, before>> PROVE DataTypes'
  BY Zenon
<1> USE DEF locals, manager, stores, cache, budget, Procs
<1>1. [Next]_vars /\ (before' = before \/ before' = intents)
  BY Zenon DEF HNext
<1>2. /\ old \in [TxIds -> [Intents -> Config \cup {NoChange}]]
      /\ faults' = faults \/ faults' = faults + 1 => faults' \in Nat
  BY DEF DataTypes
<1>3. ASSUME NEW p \in Procs, Clear(p), intents' = intents,
             old' \in [TxIds -> [Intents -> Config \cup {NoChange}]],
             faults' = faults \/ faults' = faults + 1
      PROVE  DataTypes'
  BY Zenon, <1>1, <1>3, TypesKept, EmptyTypes DEF Clear
<1>4. ASSUME UNCHANGED <<req, tree>>, intents' = intents,
             old' \in [TxIds -> [Intents -> Config \cup {NoChange}]],
             faults' = faults \/ faults' = faults + 1
      PROVE  DataTypes'
  BY Zenon, <1>1, <1>2, <1>4 DEF DataTypes
<1>5. ASSUME NEW p \in Clients \cup TxIds, Abort(p), intents' = intents,
             old' \in [TxIds -> [Intents -> Config \cup {NoChange}]],
             faults' = faults \/ faults' = faults + 1
      PROVE  DataTypes'
  BY Zenon, <1>3, <1>4, <1>5 DEF Abort, Return, RollbackEnds
<1>6. ASSUME NEW p \in Clients \cup TxIds, RecordOld(p)
      PROVE  old' \in [TxIds -> [Intents -> Config \cup {NoChange}]]
  <2>1. [i \in Intents |-> IF i \in Named(req[p]) THEN tree[p].intents[i] ELSE NoChange]
          \in [Intents -> Config \cup {NoChange}]
    BY Zenon DEF DataTypes
  <2> QED BY Zenon, <1>6, <2>1 DEF RecordOld, DataTypes
<1>7. ASSUME NEW c \in Clients, Calls(c) PROVE DataTypes'
  <2>1. ASSUME NEW t \in TxIds, NEW r \in Requests, TransactionSet(c, t, r) PROVE DataTypes'
    BY Zenon, <1>1, <1>2, <2>1, TypesKept, ConstantsAssumption DEF TransactionSet
  <2>2. ASSUME NEW t \in TxIds, Call(c, "confirm", t) \/ Call(c, "cancel", t) PROVE DataTypes'
    BY Zenon, <1>2, <1>4, <2>2 DEF Call
  <2> QED BY Zenon, <1>7, <2>1, <2>2 DEF Calls, TransactionConfirm, TransactionCancel
<1>8. ASSUME NEW c \in Clients, ClientStep(c) PROVE DataTypes'
  <2>1. CASE Return(c) /\ UNCHANGED <<old, intents, faults>>
    BY Zenon, <1>2, <1>3, <2>1 DEF Return
  <2>2. CASE Abort(c) /\ UNCHANGED <<old, intents, faults>>
    BY Zenon, <1>2, <1>5, <2>2
  <2>3. CASE UNCHANGED <<req, tree, old, intents, faults>>
    BY Zenon, <1>2, <1>4, <2>3
  <2>4. CASE Cancel(c)
    <3>1. transaction \in TxIds
      BY Zenon, <2>4 DEF Cancel, Inductive, ControlOK
    <3>2. RollbackRequest(transaction) \in Request
      BY Zenon, <1>2, <3>1, RollbackRequests
    <3> QED BY Zenon, <1>1, <1>2, <2>4, <3>2, TypesKept DEF Cancel
  <2> QED
    BY Zenon, <1>8, <2>1, <2>2, <2>3, <2>4
    DEF ClientStep, RegisterTransaction, RegisterContextDone, NoOp, SkipReplace, ReplaceIntent,
        ReplaceApply, ReplaceWriteBack, ReplaceStore, StoreRunning, Cleanup, Finish,
        NoOngoingTransaction, Confirm
<1>9. ASSUME NEW p \in Clients \cup TxIds, LowlevelStep(p) PROVE DataTypes'
  <2>1. CASE CopySyncTree(p)
    <3> DEFINE t == [EmptyTree EXCEPT !.running = running, !.updated = runUpdated]
    <3>1. "intents" \in DOMAIN t /\ t.intents = EmptyTree.intents
      BY DEF EmptyTree
    <3>2. t.intents \in [Intents -> Config]
      BY Zenon, <3>1, EmptyTypes
    <3> HIDE DEF t
    <3>3. tree' = [tree EXCEPT ![p] = t]
      BY Zenon, <2>1 DEF CopySyncTree, t
    <3> QED BY Zenon, <1>1, <1>2, <2>1, <3>1, <3>2, <3>3, TypesKept DEF CopySyncTree
  <2>2. CASE LoadAllButRunningIntents(p)
    <3>1. PICK S : tree' = [tree EXCEPT ![p] = WithIntents(tree[p], S)]
      BY Zenon, <2>2 DEF LoadAllButRunningIntents
    <3>2. /\ "intents" \in DOMAIN WithIntents(tree[p], S)
          /\ WithIntents(tree[p], S).intents
               = [i \in Intents |-> IF i \in S THEN intents[i] ELSE EmptyConfig]
      BY Zenon DEF WithIntents, DataTypes
    <3>3. WithIntents(tree[p], S).intents \in [Intents -> Config]
      BY Zenon, <3>2, EmptyTypes DEF DataTypes
    <3> QED BY Zenon, <1>1, <1>2, <2>2, <3>1, <3>2, <3>3, TypesKept DEF LoadAllButRunningIntents
  <2>3. CASE MergeAndValidate(p)
    <3>1. CASE req[p].dryRun
      BY Zenon, <1>3, <1>6, <2>3, <3>1 DEF MergeAndValidate, Return
    <3>2. CASE ~req[p].dryRun
      BY Zenon, <1>1, <1>6, <2>3, <3>2, TypesKept, EmptyTypes DEF MergeAndValidate
    <3> QED BY Zenon, <3>1, <3>2
  <2>4. CASE MergeInvalid(p)
    BY Zenon, <1>5, <1>6, <2>4 DEF MergeInvalid
  <2>5. ASSUME NEW i \in Intents, PersistIntent(p, i) PROVE DataTypes'
    <3>1. Exported(req[p].new[i]) \in Config
      <4>1. req[p].new[i] \in Change
        <5>1. i \in Named(req[p])
          BY Zenon, <2>5 DEF PersistIntent, TodoInv, Storing
        <5>2. req[p] \in Request
          BY Zenon DEF DataTypes
        <5>3. req[p].new \in [Intents -> Change \cup {NoChange}]
          BY <5>2 DEF Request
        <5> QED BY Zenon, <5>1, <5>3 DEF Named
      <4>2. ASSUME NEW ch \in Change PROVE Exported(ch) \in Config
        BY Zenon, EmptyTypes DEF Change, Exported
      <4> QED BY Zenon, <4>1, <4>2
    <3>2. /\ intents' = [intents EXCEPT ![i] = Exported(req[p].new[i])]
          /\ UNCHANGED <<req, tree, old, faults, transaction>>
      BY Zenon, <2>5 DEF PersistIntent, Stored
    <3>3. intents' \in [Intents -> Config]
      BY Zenon, <3>1, <3>2 DEF DataTypes
    <3> QED BY Zenon, <1>1, <3>2, <3>3 DEF DataTypes
  <2>6. CASE UNCHANGED <<req, tree, old, intents, faults>>
    BY Zenon, <1>2, <1>4, <2>6
  <2>7. CASE StoreAndFinish(p)
    BY Zenon, <1>2, <1>3, <2>6, <2>7 DEF StoreAndFinish, StoreRunning, Return, RollbackEnds
  <2> QED
    BY Zenon, <1>9, <2>1, <2>2, <2>3, <2>4, <2>5, <2>6, <2>7
    DEF LowlevelStep, ApplyIntent, WriteBackSyncTree
<1>10. ASSUME NEW t \in TxIds, TimerStep(t) PROVE DataTypes'
  <2>1. RollbackRequest(t) \in Request
    BY Zenon, <1>2, RollbackRequests
  <2>2. CASE TimerRollback(t)
    BY Zenon, <1>1, <1>2, <2>1, <2>2, TypesKept DEF TimerRollback
  <2>3. CASE UNCHANGED <<req, tree, old, intents, faults>>
    BY Zenon, <1>2, <1>4, <2>3
  <2> QED BY Zenon, <1>10, <2>2, <2>3 DEF TimerStep, TimerFires, TimerStopped, RollbackLock
<1>11. ASSUME NEW s \in Syncs, SyncStep(s) \/ SyncFails(s) PROVE DataTypes'
  <2>1. CASE SyncReturns(s) /\ UNCHANGED <<old, intents>> /\ (faults' = faults \/ faults' = faults + 1)
    BY Zenon, <1>2, <1>3, <2>1 DEF SyncReturns
  <2>2. CASE SyncGet(s)
    <3> DEFINE t == [EmptyTree EXCEPT !.running = device]
    <3>1. "intents" \in DOMAIN t /\ t.intents = EmptyTree.intents
      BY DEF EmptyTree
    <3>2. t.intents \in [Intents -> Config]
      BY Zenon, <3>1, EmptyTypes
    <3> HIDE DEF t
    <3>3. tree' = [tree EXCEPT ![s] = t]
      BY Zenon, <2>2 DEF SyncGet, t
    <3> QED BY Zenon, <1>1, <1>2, <2>2, <3>1, <3>2, <3>3, TypesKept DEF SyncGet
  <2>3. CASE RevertLoad(s)
    BY Zenon, <1>1, <1>2, <2>3, TypesKept, EmptyTypes DEF RevertLoad
  <2>4. CASE UNCHANGED <<req, tree, old, intents, faults>>
    BY Zenon, <1>2, <1>4, <2>4
  <2> QED
    BY Zenon, <1>11, <2>1, <2>2, <2>3, <2>4
    DEF SyncStep, ApplyToRunning, RevertSkip, RevertLock, RevertApply, SyncFails, CountFault
<1>12. CASE Restart /\ faults' = faults
  <2>1. /\ old' = [t \in TxIds |-> [i \in Intents |-> NoChange]]
        /\ req' = [p \in Procs |-> NoRequest]
        /\ tree' = [p \in Procs |-> EmptyTree]
        /\ UNCHANGED <<intents, faults>>
    BY Zenon, <1>12 DEF Restart
  <2> QED BY Zenon, <1>1, <2>1, EmptyTypes DEF DataTypes
<1>13. CASE Failures
  <2>1. ASSUME NEW p, MayFail(p) PROVE faults' = faults \/ faults' = faults + 1
    BY Zenon, <2>1 DEF MayFail, CountFault
  <2>2. ASSUME NEW p \in Clients \cup TxIds, CallFails(p) PROVE DataTypes'
    BY Zenon, <1>2, <1>5, <2>1, <2>2 DEF CallFails
  <2>3. ASSUME NEW p \in Clients \cup TxIds, NEW i \in Intents, PersistModifyFails(p, i) PROVE DataTypes'
    BY Zenon, <1>2, <1>5, <2>1, <2>3 DEF PersistModifyFails
  <2>4. ASSUME NEW p \in Clients \cup TxIds, NEW i \in Intents, PersistDeleteFails(p, i) PROVE DataTypes'
    BY Zenon, <1>2, <1>4, <2>1, <2>4 DEF PersistDeleteFails
  <2>5. ASSUME NEW c \in Clients, CancelContext(c) PROVE DataTypes'
    BY Zenon, <1>2, <1>4, <2>5 DEF CancelContext, CountFault
  <2>6. ASSUME NEW p \in Paths, NEW v \in Values \cup {NoValue}, DeviceChanges(p, v) PROVE DataTypes'
    BY Zenon, <1>2, <1>4, <2>6 DEF DeviceChanges
  <2> QED
    BY Zenon, <1>11, <1>12, <1>13, <2>2, <2>3, <2>4, <2>5, <2>6 DEF Failures, Crash, Panic
<1>14. CASE UNCHANGED vars
  BY Zenon, <1>2, <1>4, <1>14 DEF vars
<1> QED BY Zenon, <1>1, <1>7, <1>8, <1>9, <1>10, <1>11, <1>13, <1>14 DEF Next

\* Nothing that belongs to process q changes.
Same(q) ==
  /\ pc'[q] = pc[q] /\ arg'[q] = arg[q] /\ req'[q] = req[q]
  /\ tree'[q] = tree[q] /\ todo'[q] = todo[q]
  /\ q \in Clients => op'[q] = op[q]

\* Whoever rolls back or stores has its transaction registered, and is not a dry run.
WorksForRegistered ==
  \A p \in Clients \cup TxIds :
    pc[p] \in Writing \/ (p \in Clients /\ op[p] = "cancel" /\ pc[p] \in LowlevelLabels)
    => transaction # NoTx /\ InTransaction(p)

\* The transaction of whoever writes or cancels is registered.
LEMMA Working == Inductive => WorksForRegistered
<1> SUFFICES ASSUME Inductive, NEW p \in Clients \cup TxIds,
                    pc[p] \in Writing \/ (p \in Clients /\ op[p] = "cancel" /\ pc[p] \in LowlevelLabels)
             PROVE  transaction # NoTx /\ InTransaction(p)
  BY Zenon DEF WorksForRegistered
<1>1. pc[p] \in LowlevelLabels
  BY Zenon DEF Writing, LowlevelLabels
<1>2. CASE p \in Clients
  <2>1. ClientInv(p) BY Zenon, <1>2 DEF Inductive, ControlInv
  <2>2. ~req[p].dryRun
    BY Zenon, <2>1 DEF ClientInv, Writing, DryLabels
  <2>3. op[p] = "set" => transaction = arg[p] /\ arg[p] \in TxIds
    BY Zenon, <1>1, <1>2, <2>1, <2>2 DEF ClientInv, LowlevelLabels, Inductive, ControlOK
  <2>4. op[p] \in {"set", "cancel"}
    BY Zenon, <1>1, <2>1 DEF ClientInv
  <2> QED BY Zenon, <1>1, <2>1, <2>2, <2>3, <2>4, Constants DEF ClientInv, InTransaction
<1>3. CASE p \in TxIds
  <2>1. TimerInv(p) BY Zenon, <1>3 DEF Inductive, ControlInv
  <2> QED BY Zenon, <1>1, <1>3, <2>1, Constants DEF TimerInv, InTransaction
<1> QED BY Zenon, <1>2, <1>3

\* The same in the next state.
LEMMA WorkingNext == Inductive' => WorksForRegistered'
BY Working, PTL

\* A step in which the processes of P move on, nothing is recorded or stored, and at most the
\* registered transaction is removed.
LEMMA OthersKeep ==
  ASSUME Inductive, Inductive', RestoreInv, NEW P,
         UNCHANGED <<old, intents, before>>, used \subseteq used',
         transaction' = transaction \/ transaction' = NoTx,
         faults' = 0 => faults = 0 /\ \A c \in Clients : c \in ctxDone' => c \in ctxDone,
         \A q \in Procs \ P : Same(q),
         \A c \in Clients \cap P : ClientKeeps(c)' /\ (faults' = 0 => ClientRestores(c)'),
         \A t \in TxIds \cap P : TimerKeeps(t)',
         \A p \in (Clients \cup TxIds) \cap P : StoresRecorded(p)'
  PROVE  RestoreInv'
<1> USE Constants DEF Procs
<1>1. /\ \A t : Recorded(t)' = Recorded(t) /\ RollbackRequest(t)' = RollbackRequest(t)
      /\ transaction' # NoTx => transaction' = transaction
      /\ transaction' # NoTx => Recorded(transaction)' = Recorded(transaction)
      /\ transaction' # NoTx => RollbackRequest(transaction)' = RollbackRequest(transaction)
  BY Zenon DEF Recorded, RollbackRequest
<1>2. ASSUME NEW c \in Clients \ P PROVE ClientKeeps(c)'
  <2>1. ClientKeeps(c) /\ Same(c) BY Zenon DEF RestoreInv
  <2>2. ClientInv(c) BY Zenon DEF Inductive, ControlInv
  <2>3. op[c] = "set" => arg[c] \in TxIds
    BY Zenon, <2>2 DEF ClientInv, Inductive, ControlOK
  <2>4. op'[c] = "set" /\ pc'[c] \in Unrecorded => (Recorded(arg[c]) = {})'
    <3>1. Recorded(arg[c])' = Recorded(arg[c])
      BY Zenon, <2>1 DEF Same, Recorded
    <3> QED BY Zenon, <2>1, <3>1 DEF ClientKeeps, Same
  <2>5. req'[c].dryRun => arg'[c] # transaction'
    BY Zenon, <2>1, <2>2, <2>3 DEF ClientKeeps, Same, ClientInv
  <2>6. op'[c] = "cancel" /\ pc'[c] \in LowlevelLabels => req'[c] = RollbackRequest(transaction)'
    BY Zenon, <1>1, <2>1, WorkingNext DEF WorksForRegistered, ClientKeeps, Same
  <2> QED BY Zenon, <2>4, <2>5, <2>6 DEF ClientKeeps
<1>3. ASSUME NEW t \in TxIds \ P PROVE TimerKeeps(t)'
  BY Zenon, <1>1 DEF RestoreInv, TimerKeeps, Same
<1>4. ASSUME NEW p \in (Clients \cup TxIds) \ P PROVE StoresRecorded(p)'
  <2>1. StoresRecorded(p) /\ Same(p) BY Zenon DEF RestoreInv
  <2> QED BY Zenon, <1>1, <2>1, WorkingNext DEF WorksForRegistered, StoresRecorded, Same
<1>5. ASSUME faults' = 0, transaction' # NoTx PROVE Restorable(transaction)'
  BY Zenon, <1>1, <1>5 DEF RestoreInv, Restorable
<1>6. ASSUME faults' = 0, NEW c \in Clients \ P PROVE ClientRestores(c)'
  <2>1. ClientRestores(c) /\ Same(c) BY Zenon, <1>6 DEF RestoreInv
  <2> QED BY Zenon, <1>6, <2>1 DEF ClientRestores, Same
<1> QED BY Zenon, <1>2, <1>3, <1>4, <1>5, <1>6 DEF RestoreInv

\* p goes on: it enters no place whose facts it has not established.
LEMMA MovesKeep ==
  ASSUME Inductive, Inductive', RestoreInv, DataTypes, TodoInv,
         NEW p \in Clients \cup TxIds, NEW label, label # "rollback",
         pc' = [pc EXCEPT ![p] = label],
         UNCHANGED <<transaction, used, old, intents, before, op, arg, req, todo, ctxDone>>,
         tree' = tree \/ \E t : tree' = [tree EXCEPT ![p] = t],
         faults' = 0 => faults = 0,
         p \in Clients /\ label \in Unrecorded => pc[p] \in Unrecorded,
         p \in Clients /\ label \in LowlevelLabels => op[p] = "set" \/ pc[p] \in LowlevelLabels,
         p \in TxIds /\ label \in LowlevelLabels => pc[p] \in {"rollback"} \cup LowlevelLabels,
         label \in Writing => pc[p] \in Writing,
         label = "store" => todo[p] = {},
         p \in Clients /\ label = "merge" /\ faults = 0 => tree'[p].intents = intents
  PROVE  RestoreInv'
<1> USE DEF Procs
<1>1. pc'[p] = label /\ \A q \in Procs \ {p} : Same(q)
  <2>1. pc'[p] = label /\ \A q \in Procs \ {p} : pc'[q] = pc[q]
    BY Zenon DEF Inductive, ControlOK
  <2>2. \A q \in Procs \ {p} : tree'[q] = tree[q]
    BY Zenon DEF DataTypes
  <2> QED BY Zenon, <2>1, <2>2 DEF Same
<1>2. /\ \A t : Recorded(t)' = Recorded(t) /\ RollbackRequest(t)' = RollbackRequest(t)
      /\ Recorded(transaction)' = Recorded(transaction)
      /\ RollbackRequest(transaction)' = RollbackRequest(transaction)
      /\ Recorded(arg[p])' = Recorded(arg[p])
  BY Zenon DEF Recorded, RollbackRequest
<1>3. p \in Clients => ClientKeeps(p)'
  BY Zenon, <1>1, <1>2 DEF RestoreInv, ClientKeeps
<1>4. p \in Clients => (faults' = 0 => ClientRestores(p)')
  BY Zenon, <1>1 DEF RestoreInv, ClientRestores
<1>5. p \in TxIds => TimerKeeps(p)'
  BY Zenon, <1>1, <1>2 DEF RestoreInv, TimerKeeps
<1>6. StoresRecorded(p)'
  BY Zenon, <1>1, <1>2 DEF RestoreInv, StoresRecorded, Writing
<1> DEFINE P == {p}
<1>7. /\ \A q \in Procs \ P : Same(q)
      /\ \A c \in Clients \cap P : ClientKeeps(c)' /\ (faults' = 0 => ClientRestores(c)')
      /\ \A t \in TxIds \cap P : TimerKeeps(t)'
      /\ \A q \in (Clients \cup TxIds) \cap P : StoresRecorded(q)'
  BY Zenon, <1>1, <1>3, <1>4, <1>5, <1>6
<1> HIDE DEF P
<1> QED BY Zenon, <1>7, OthersKeep

\* The local variables of p are gone; the others keep theirs.
LEMMA ClearSame ==
  ASSUME Inductive, DataTypes, TodoInv, NEW p \in Procs, NEW label, Clear(p), GoTo(p, label),
         p \notin Clients => UNCHANGED <<op, arg>>,
         p \in Clients => /\ op' = [op EXCEPT ![p] = "none"]
                          /\ arg' = [arg EXCEPT ![p] = NoTx]
  PROVE  /\ pc'[p] = label /\ req'[p] = NoRequest /\ todo'[p] = {}
         /\ p \in Clients => op'[p] = "none"
         /\ \A q \in Procs \ {p} : Same(q)
<1> USE DEF Clear, GoTo, DataTypes, TodoInv
<1>1. /\ pc'[p] = label /\ req'[p] = NoRequest /\ todo'[p] = {}
      /\ p \in Clients => op'[p] = "none"
  BY Zenon DEF Inductive, ControlOK
<1>2. ASSUME NEW q \in Procs \ {p} PROVE Same(q)
  <2>1. pc'[q] = pc[q] BY Zenon DEF Inductive, ControlOK
  <2>2. req'[q] = req[q] BY Zenon
  <2>3. tree'[q] = tree[q] BY Zenon
  <2>4. todo'[q] = todo[q] BY Zenon
  <2>5. arg'[q] = arg[q] BY Zenon DEF Inductive, ControlOK
  <2>6. q \in Clients => op'[q] = op[q] BY Zenon DEF Inductive, ControlOK
  <2> QED BY Zenon, <2>1, <2>2, <2>3, <2>4, <2>5, <2>6 DEF Same
<1> QED BY Zenon, <1>1, <1>2

\* A handler returns; at most the registered transaction is removed.
LEMMA ReturnsKeep ==
  ASSUME Inductive, Inductive', RestoreInv, DataTypes, TodoInv, NEW c \in Clients, Return(c),
         UNCHANGED <<used, old, intents, before>>,
         transaction' = transaction \/ transaction' = NoTx,
         faults' = 0 => faults = 0
  PROVE  RestoreInv'
<1> USE Constants DEF Procs
<1>1. /\ pc'[c] = "idle" /\ req'[c] = NoRequest /\ op'[c] = "none" /\ todo'[c] = {}
      /\ \A q \in Procs \ {c} : Same(q)
  BY Zenon, ClearSame DEF Return
<1>2. /\ c \notin ctxDone'
      /\ \A d \in Clients : d \in ctxDone' => d \in ctxDone
  <2>1. op[c] = "set" => arg[c] \in TxIds
    BY Zenon DEF Inductive, ControlInv, ClientInv, ControlOK
  <2> QED BY Zenon, <2>1 DEF Return
<1>3. ClientKeeps(c)' /\ ClientRestores(c)' /\ StoresRecorded(c)'
  BY Zenon, <1>1, <1>2, EmptyTypes
  DEF ClientKeeps, ClientRestores, StoresRecorded, Writing
<1> DEFINE P == {c}
<1>4. /\ \A q \in Procs \ P : Same(q)
      /\ \A d \in Clients \cap P : ClientKeeps(d)' /\ (faults' = 0 => ClientRestores(d)')
      /\ \A t \in TxIds \cap P : TimerKeeps(t)'
      /\ \A q \in (Clients \cup TxIds) \cap P : StoresRecorded(q)'
      /\ used \subseteq used'
  BY Zenon, <1>1, <1>3
<1> HIDE DEF P
<1> QED BY Zenon, <1>2, <1>4, OthersKeep

\* A rollback of a timer ends.
LEMMA RollbackKeeps ==
  ASSUME Inductive, Inductive', RestoreInv, DataTypes, TodoInv, NEW t \in TxIds, RollbackEnds(t),
         UNCHANGED <<used, old, intents, before>>,
         faults' = 0 => faults = 0
  PROVE  RestoreInv'
<1> USE Constants DEF Procs
<1>1. /\ pc'[t] = "exited"
      /\ \A q \in Procs \ {t} : Same(q)
  BY Zenon, ClearSame DEF RollbackEnds
<1>2. TimerKeeps(t)' /\ StoresRecorded(t)'
  <2>1. t \notin used' => Recorded(t)' = {}
    BY Zenon DEF RestoreInv, TimerKeeps, Recorded
  <2> QED BY Zenon, <1>1, <2>1 DEF TimerKeeps, StoresRecorded, Writing, LowlevelLabels
<1> DEFINE P == {t}
<1>3. /\ \A q \in Procs \ P : Same(q)
      /\ \A d \in Clients \cap P : ClientKeeps(d)' /\ (faults' = 0 => ClientRestores(d)')
      /\ \A u \in TxIds \cap P : TimerKeeps(u)'
      /\ \A q \in (Clients \cup TxIds) \cap P : StoresRecorded(q)'
      /\ used \subseteq used'
      /\ transaction' = NoTx /\ ctxDone' = ctxDone
  BY Zenon, <1>1, <1>2 DEF RollbackEnds
<1> HIDE DEF P
<1> QED BY Zenon, <1>3, OthersKeep

\* lowlevelTransactionSet or replaceIntent returns an error.
LEMMA AbortsKeep ==
  ASSUME Inductive, Inductive', RestoreInv, DataTypes, TodoInv,
         NEW p \in Clients \cup TxIds, Abort(p),
         UNCHANGED <<used, old, intents, before>>,
         faults' = 0 => faults = 0
  PROVE  RestoreInv'
<1>1. CASE /\ p \in Clients /\ op[p] = "set" /\ GoTo(p, "cleanup")
           /\ UNCHANGED <<locks, transaction, locals, ctxDone>>
  <2>1. "cleanup" \notin Unrecorded \cup LowlevelLabels \cup Writing
    BY Zenon DEF Unrecorded, LowlevelLabels, Writing
  <2> QED BY Zenon, <1>1, <2>1, MovesKeep DEF GoTo, locals
<1>2. CASE p \in Clients /\ Return(p) /\ UNCHANGED transaction
  BY Zenon, <1>2, ReturnsKeep
<1>3. CASE p \in TxIds /\ RollbackEnds(p)
  BY Zenon, <1>3, RollbackKeeps
<1> QED BY Zenon, <1>1, <1>2, <1>3 DEF Abort

\* A TransactionSet records the former content of its intents, once, for its own transaction.
LEMMA RecordsKeep ==
  ASSUME Inductive, Inductive', RestoreInv, DataTypes,
         NEW c \in Clients, op[c] = "set", pc[c] = "merge", RecordOld(c),
         UNCHANGED <<transaction, used, intents, before, faults>>,
         \A d \in Clients : d \in ctxDone' => d \in ctxDone,
         \A q \in Procs \ {c} : Same(q),
         ClientKeeps(c)', ClientRestores(c)' \/ faults' # 0, StoresRecorded(c)'
  PROVE  RestoreInv'
<1> USE Constants DEF Procs
<1>1. /\ arg[c] \in TxIds /\ arg[c] \in used /\ pc[arg[c]] = "none"
      /\ req[c].dryRun \/ transaction = arg[c]
      /\ Recorded(arg[c]) = {} /\ (req[c].dryRun => arg[c] # transaction)
  <2>1. ClientInv(c) /\ ClientKeeps(c)
    BY Zenon DEF Inductive, ControlInv, RestoreInv
  <2> QED BY Zenon, <2>1 DEF ClientInv, ClientKeeps, Inductive, ControlOK, Unrecorded
<1> DEFINE kept == [i \in Intents |-> IF i \in Named(req[c]) THEN tree[c].intents[i] ELSE NoChange]
<1>2. old' = [old EXCEPT ![arg[c]] = kept]
  BY Zenon DEF RecordOld
<1>3. /\ old'[arg[c]] = kept
      /\ \A t \in TxIds \ {arg[c]} : old'[t] = old[t]
  BY Zenon, <1>1, <1>2 DEF DataTypes
<1> HIDE DEF kept
<1>4. ASSUME NEW t \in TxIds \ {arg[c]}
      PROVE  Recorded(t)' = Recorded(t) /\ RollbackRequest(t)' = RollbackRequest(t)
  BY Zenon, <1>3 DEF Recorded, RollbackRequest
<1>5. ASSUME arg[c] = transaction, NEW q \in Clients \cup TxIds, q # c,
             pc[q] \in Writing \/ (q \in Clients /\ op[q] = "cancel" /\ pc[q] \in LowlevelLabels)
      PROVE  FALSE
  <2>1. InTransaction(c)
    BY Zenon, <1>1, <1>5 DEF InTransaction, LowlevelLabels
  <2>2. InTransaction(q)
    BY Zenon, <1>5, Working DEF WorksForRegistered
  <2> QED BY Zenon, <1>5, <2>1, <2>2, ExclusionFromInductive DEF TransactionExclusion
<1>6. arg[c] # transaction /\ transaction # NoTx =>
        /\ Recorded(transaction)' = Recorded(transaction)
        /\ RollbackRequest(transaction)' = RollbackRequest(transaction)
        /\ old'[transaction] = old[transaction]
  <2>1. transaction # NoTx => transaction \in TxIds
    BY Zenon DEF Inductive, ControlOK
  <2> QED BY Zenon, <1>3, <2>1 DEF Recorded, RollbackRequest
<1>7. ASSUME NEW d \in Clients \ {c} PROVE ClientKeeps(d)'
  <2>1. ClientKeeps(d) /\ Same(d)
    BY Zenon DEF RestoreInv
  <2>2. op[d] = "set" => arg[d] \in TxIds \ {arg[c]}
    <3>1. op[d] = "set" => arg[d] \in TxIds
      BY Zenon DEF Inductive, ControlInv, ClientInv, ControlOK
    <3> QED BY Zenon, <3>1 DEF Inductive, ControlInv, LockInv
  <2>3. op[d] = "set" => Recorded(arg[d])' = Recorded(arg[d])
    <3>1. op[d] = "set" => old'[arg'[d]] = old[arg[d]]
      BY Zenon, <1>3, <2>1, <2>2 DEF Same
    <3> QED BY Zenon, <3>1 DEF Recorded
  <2>4. op[d] = "cancel" /\ pc[d] \in LowlevelLabels => transaction # NoTx /\ arg[c] # transaction
    BY Zenon, <1>5, Working DEF WorksForRegistered
  <2> QED BY Zenon, <1>6, <2>1, <2>3, <2>4 DEF ClientKeeps, Same
<1>8. ASSUME NEW t \in TxIds PROVE TimerKeeps(t)'
  <2>1. TimerKeeps(t) /\ Same(t)
    BY Zenon DEF RestoreInv
  <2>2. t = arg[c] => t \in used' /\ pc'[t] \notin {"rollback"} \cup LowlevelLabels
    BY Zenon, <1>1, <2>1 DEF Same, LowlevelLabels
  <2>3. t # arg[c] => Recorded(t)' = Recorded(t) /\ RollbackRequest(t)' = RollbackRequest(t)
    BY Zenon, <1>4
  <2> QED BY Zenon, <2>1, <2>2, <2>3 DEF TimerKeeps, Same
<1>9. ASSUME NEW q \in (Clients \cup TxIds) \ {c} PROVE StoresRecorded(q)'
  <2>1. StoresRecorded(q) /\ Same(q)
    BY Zenon DEF RestoreInv
  <2>2. pc[q] \in Writing => transaction # NoTx /\ arg[c] # transaction
    BY Zenon, <1>5, Working DEF WorksForRegistered
  <2> QED BY Zenon, <1>6, <2>1, <2>2 DEF StoresRecorded, Same
<1>10. ASSUME faults = 0, transaction # NoTx PROVE Restorable(transaction)'
  <2>1. Restorable(transaction)
    BY Zenon, <1>10 DEF RestoreInv
  <2>2. CASE arg[c] # transaction
    BY Zenon, <1>6, <1>10, <2>1, <2>2 DEF Restorable
  <2>3. CASE arg[c] = transaction
    <3>1. tree[c].intents = intents
      BY Zenon, <1>1, <1>10, <2>3 DEF RestoreInv, ClientRestores
    <3>2. ASSUME NEW i \in Intents PROVE before[i] = intents[i]
      BY Zenon, <1>1, <2>1, <2>3 DEF Restorable
    <3>3. ASSUME NEW i \in Intents
          PROVE  kept[i] = NoChange \/ kept[i] = intents[i]
      BY Zenon, <3>1 DEF kept
    <3>4. ASSUME NEW i \in Intents
          PROVE  before[i] = IF i \in Recorded(transaction)' THEN old'[transaction][i] ELSE intents[i]
      BY Zenon, <1>3, <2>3, <3>2, <3>3 DEF Recorded
    <3> QED BY Zenon, <3>4 DEF Restorable
  <2> QED BY Zenon, <2>2, <2>3
<1>11. ASSUME faults = 0, NEW d \in Clients \ {c} PROVE ClientRestores(d)'
  <2>1. ClientRestores(d) /\ Same(d) BY Zenon, <1>11 DEF RestoreInv
  <2> QED BY Zenon, <2>1 DEF ClientRestores, Same
<1> QED BY Zenon, <1>7, <1>8, <1>9, <1>10, <1>11 DEF RestoreInv

\* An intent is stored: only one that was recorded, and by a cancel with its former content.
LEMMA PersistKeeps ==
  ASSUME Inductive, RestoreInv, DataTypes, TodoInv,
         NEW p \in Clients \cup TxIds, NEW i \in Intents, PersistIntent(p, i), before' = before
  PROVE  RestoreInv'
<1> USE Constants DEF Procs
<1>1. /\ pc[p] = "persist" /\ i \in todo[p]
      /\ intents' = [intents EXCEPT ![i] = Exported(req[p].new[i])]
      /\ todo' = [todo EXCEPT ![p] = todo[p] \ {i}]
      /\ UNCHANGED <<transaction, used, old, pc, op, arg, req, tree, ctxDone, faults>>
  BY Zenon DEF PersistIntent, Stored, manager, budget
<1>2. /\ intents'[i] = Exported(req[p].new[i])
      /\ \A j \in Intents \ {i} : intents'[j] = intents[j]
      /\ todo'[p] = todo[p] \ {i}
      /\ \A q \in Procs \ {p} : todo'[q] = todo[q]
  BY Zenon, <1>1 DEF DataTypes, TodoInv
<1>3. /\ pc[p] \in Writing /\ transaction # NoTx /\ InTransaction(p)
      /\ transaction \in TxIds
      /\ i \in Recorded(transaction)
  <2>1. pc[p] \in Writing
    BY Zenon, <1>1 DEF Writing
  <2> QED BY Zenon, <1>1, <2>1, Working DEF WorksForRegistered, RestoreInv, StoresRecorded, Inductive, ControlOK
<1>4. /\ \A t : Recorded(t)' = Recorded(t) /\ RollbackRequest(t)' = RollbackRequest(t)
      /\ Recorded(transaction)' = Recorded(transaction)
      /\ RollbackRequest(transaction)' = RollbackRequest(transaction)
      /\ \A c : Recorded(arg[c])' = Recorded(arg[c])
  BY Zenon, <1>1 DEF Recorded, RollbackRequest
<1>5. ASSUME NEW c \in Clients PROVE ClientKeeps(c)'
  BY Zenon, <1>1, <1>4 DEF RestoreInv, ClientKeeps
<1>6. ASSUME NEW t \in TxIds PROVE TimerKeeps(t)'
  BY Zenon, <1>1, <1>4 DEF RestoreInv, TimerKeeps
<1>7. ASSUME NEW q \in Clients \cup TxIds PROVE StoresRecorded(q)'
  <2>1. StoresRecorded(q) BY Zenon DEF RestoreInv
  <2>2. todo'[q] \subseteq todo[q]
    BY Zenon, <1>2
  <2> QED BY Zenon, <1>1, <1>4, <2>1, <2>2 DEF StoresRecorded
<1>8. ASSUME faults = 0 PROVE Restorable(transaction)'
  <2>1. Restorable(transaction)
    BY Zenon, <1>3, <1>8 DEF RestoreInv
  <2>2. ASSUME NEW j \in Intents
        PROVE  before[j] = IF j \in Recorded(transaction) THEN old[transaction][j] ELSE intents'[j]
    BY Zenon, <1>2, <1>3, <2>1 DEF Restorable
  <2> QED BY Zenon, <1>1, <1>4, <2>2 DEF Restorable
<1>9. ASSUME faults = 0, NEW c \in Clients, c # p PROVE ClientRestores(c)'
  <2>1. ClientRestores(c)
    BY Zenon, <1>9 DEF RestoreInv
  <2>2. ~InTransaction(c)
    BY Zenon, <1>3, <1>9, ExclusionFromInductive DEF TransactionExclusion
  <2>3. ~(pc[c] = "merge" /\ ~req[c].dryRun)
    BY Zenon, <2>2 DEF InTransaction, LowlevelLabels
  <2>4. pc[c] \notin Writing
    BY Zenon, <2>2, Working DEF WorksForRegistered
  <2> QED BY Zenon, <1>1, <2>1, <2>3, <2>4 DEF ClientRestores
<1>10. ASSUME faults = 0, p \in Clients PROVE ClientRestores(p)'
  <2>1. ClientRestores(p) /\ ClientKeeps(p) /\ Restorable(transaction)
    BY Zenon, <1>3, <1>10 DEF RestoreInv
  <2>2. op[p] = "cancel" => intents'[i] = before[i]
    <3>1. op[p] = "cancel" => req[p] = RollbackRequest(transaction)
      BY Zenon, <1>1, <2>1 DEF ClientKeeps, LowlevelLabels
    <3>2. Exported(RollbackRequest(transaction).new[i]) = old[transaction][i]
      BY Zenon, <1>3, RollbackRequests DEF DataTypes
    <3>3. before[i] = old[transaction][i]
      BY Zenon, <1>3, <2>1 DEF Restorable
    <3> QED BY Zenon, <1>2, <3>1, <3>2, <3>3
  <2>3. ASSUME op[p] = "cancel", NEW j \in Intents \ todo'[p] PROVE intents'[j] = before[j]
    <3>1. CASE j = i
      BY Zenon, <2>2, <2>3, <3>1
    <3>2. CASE j # i
      BY Zenon, <1>2, <1>3, <2>1, <2>3, <3>2 DEF ClientRestores
    <3> QED BY Zenon, <3>1, <3>2
  <2> QED BY Zenon, <1>1, <2>1, <2>3 DEF ClientRestores
<1> QED BY Zenon, <1>1, <1>5, <1>6, <1>7, <1>8, <1>9, <1>10 DEF RestoreInv

\* RegisterTransaction succeeds: nothing is recorded for the transaction and nobody stores.
LEMMA RegisterKeeps ==
  ASSUME Inductive, RestoreInv, NEW c \in Clients,
         pc[c] = "register", transaction = NoTx, transaction' = arg[c], before' = intents,
         pc' = [pc EXCEPT ![c] = "replace"],
         UNCHANGED <<used, old, intents, op, arg, req, tree, todo, ctxDone, faults>>
  PROVE  RestoreInv'
<1> USE Constants DEF Procs
<1>1. /\ op[c] = "set" /\ arg[c] \in TxIds /\ Recorded(arg[c]) = {} /\ ~req[c].dryRun
  <2>1. ClientInv(c) /\ ClientKeeps(c)
    BY Zenon DEF Inductive, ControlInv, RestoreInv
  <2> QED BY Zenon, <2>1 DEF ClientInv, ClientKeeps, Inductive, ControlOK, Unrecorded, ClientLabels, DryLabels
<1>2. /\ pc'[c] = "replace"
      /\ \A q \in Procs \ {c} : pc'[q] = pc[q]
  BY Zenon DEF Inductive, ControlOK
<1>3. /\ \A t : Recorded(t)' = Recorded(t) /\ RollbackRequest(t)' = RollbackRequest(t)
      /\ \A d : Recorded(arg[d])' = Recorded(arg[d])
  BY Zenon DEF Recorded, RollbackRequest
<1>4. ASSUME NEW q \in Clients \cup TxIds
      PROVE  /\ pc'[q] \notin Writing
             /\ ~(q \in Clients /\ op[q] = "cancel" /\ pc'[q] \in LowlevelLabels)
  <2>1. /\ pc[q] \notin Writing
        /\ ~(q \in Clients /\ op[q] = "cancel" /\ pc[q] \in LowlevelLabels)
    BY Zenon, Working DEF WorksForRegistered
  <2> QED BY Zenon, <1>2, <2>1 DEF Writing, LowlevelLabels
<1>5. ASSUME NEW d \in Clients PROVE ClientKeeps(d)'
  <2>1. ClientKeeps(d) BY Zenon DEF RestoreInv
  <2>2. pc'[d] \in Unrecorded => pc[d] \in Unrecorded
    BY Zenon, <1>2 DEF Unrecorded
  <2>3. req[d].dryRun => op[d] = "set" /\ d # c
    BY Zenon, <1>1 DEF Inductive, ControlInv, ClientInv
  <2>4. req[d].dryRun => arg[d] # arg[c]
    BY Zenon, <1>1, <2>3 DEF Inductive, ControlInv, LockInv
  <2> QED BY Zenon, <1>3, <1>4, <2>1, <2>2, <2>4 DEF ClientKeeps
<1>6. ASSUME NEW t \in TxIds PROVE TimerKeeps(t)'
  BY Zenon, <1>2, <1>3 DEF RestoreInv, TimerKeeps
<1>7. ASSUME NEW q \in Clients \cup TxIds PROVE StoresRecorded(q)'
  BY Zenon, <1>4 DEF StoresRecorded, Writing
<1>8. Restorable(transaction)'
  <2>1. Recorded(transaction)' = {}
    BY Zenon, <1>1 DEF Recorded
  <2> QED BY Zenon, <2>1 DEF Restorable
<1>9. ASSUME faults = 0, NEW d \in Clients PROVE ClientRestores(d)'
  <2>1. ClientRestores(d) BY Zenon, <1>9 DEF RestoreInv
  <2>2. pc'[d] = "merge" => pc[d] = "merge"
    BY Zenon, <1>2
  <2> QED BY Zenon, <1>4, <2>1, <2>2 DEF ClientRestores
<1> QED BY Zenon, <1>5, <1>6, <1>7, <1>8, <1>9 DEF RestoreInv

\* What the steps of lowlevelTransactionSet do.
LEMMA LowlevelKeeps ==
  ASSUME Inductive, Inductive', TodoInv, DataTypes, RestoreInv,
         NEW p \in Clients \cup TxIds, LowlevelStep(p),
         transaction' = transaction \/ transaction' = NoTx => before' = before
  PROVE  RestoreInv'
<1> USE Constants DEF GoTo, locals, manager, stores, cache, budget, Procs
<1>1. CASE CopySyncTree(p)
  <2>1. pc[p] \in Unrecorded /\ pc[p] \in LowlevelLabels /\ "load" \notin Writing
    BY Zenon, <1>1 DEF CopySyncTree, Unrecorded, LowlevelLabels, Writing
  <2> QED BY Zenon, <1>1, <2>1, MovesKeep DEF CopySyncTree
<1>2. CASE LoadAllButRunningIntents(p)
  <2>1. pc[p] \in Unrecorded /\ pc[p] \in LowlevelLabels /\ "merge" \notin Writing
    BY Zenon, <1>2 DEF LoadAllButRunningIntents, Unrecorded, LowlevelLabels, Writing
  <2>2. p \in Clients /\ faults = 0 => tree'[p].intents = intents
    <3> SUFFICES ASSUME p \in Clients, faults = 0 PROVE tree'[p].intents = intents
      BY Zenon
    <3>1. p \notin ctxDone
      BY Zenon DEF RestoreInv, ClientRestores
    <3>2. tree' = [tree EXCEPT ![p] = WithIntents(tree[p], Intents)]
      BY Zenon, <1>2, <3>1 DEF LoadAllButRunningIntents
    <3>3. tree'[p] = WithIntents(tree[p], Intents)
      BY Zenon, <3>2 DEF DataTypes
    <3>4. WithIntents(tree[p], Intents).intents
            = [i \in Intents |-> IF i \in Intents THEN intents[i] ELSE EmptyConfig]
      BY Zenon DEF WithIntents, DataTypes
    <3>5. [i \in Intents |-> IF i \in Intents THEN intents[i] ELSE EmptyConfig] = intents
      BY Zenon DEF DataTypes
    <3> QED BY Zenon, <3>3, <3>4, <3>5
  <2> QED BY Zenon, <1>2, <2>1, <2>2, MovesKeep DEF LoadAllButRunningIntents
<1>3. CASE MergeAndValidate(p) /\ req[p].dryRun
  <2>1. p \in Clients /\ Return(p) /\ pc[p] = "merge" /\ op[p] = "set"
    BY Zenon, <1>3 DEF MergeAndValidate, Inductive, ControlInv, ClientInv
  <2>2. /\ pc'[p] = "idle" /\ req'[p] = NoRequest /\ op'[p] = "none" /\ todo'[p] = {}
        /\ \A q \in Procs \ {p} : Same(q)
    BY Zenon, <2>1, ClearSame DEF Return
  <2>3. /\ p \notin ctxDone'
        /\ \A d \in Clients : d \in ctxDone' => d \in ctxDone
    <3>1. arg[p] \in TxIds
      BY Zenon, <2>1 DEF Inductive, ControlInv, ClientInv, ControlOK
    <3> QED BY Zenon, <2>1, <3>1 DEF Return
  <2>4. ClientKeeps(p)' /\ ClientRestores(p)' /\ StoresRecorded(p)'
    BY Zenon, <2>2, <2>3, EmptyTypes
    DEF ClientKeeps, ClientRestores, StoresRecorded, Writing
  <2> QED BY Zenon, <1>3, <2>1, <2>2, <2>3, <2>4, RecordsKeep DEF MergeAndValidate
<1>4. CASE MergeAndValidate(p) /\ ~req[p].dryRun
  <2>1. /\ pc[p] = "merge" /\ RecordOld(p)
        /\ pc' = [pc EXCEPT ![p] = "apply"]
        /\ tree' = [tree EXCEPT ![p] = EmptyTree]
        /\ todo' = [todo EXCEPT ![p] = Named(req[p])]
        /\ UNCHANGED <<transaction, used, intents, op, arg, req, ctxDone, faults>>
    BY Zenon, <1>4 DEF MergeAndValidate
  <2>2. /\ pc'[p] = "apply" /\ todo'[p] = Named(req[p])
        /\ \A q \in Procs \ {p} : Same(q)
    <3>1. pc'[p] = "apply" /\ todo'[p] = Named(req[p])
      BY Zenon, <2>1 DEF Inductive, ControlOK, TodoInv
    <3>2. ASSUME NEW q \in Procs \ {p} PROVE pc'[q] = pc[q] /\ tree'[q] = tree[q] /\ todo'[q] = todo[q]
      BY Zenon, <2>1 DEF Inductive, ControlOK, TodoInv, DataTypes
    <3> QED BY Zenon, <2>1, <3>1, <3>2 DEF Same
  <2>3. "apply" \notin Unrecorded /\ "apply" \in LowlevelLabels /\ pc[p] \in LowlevelLabels /\ before' = before
    BY Zenon, <1>4, <2>1 DEF Unrecorded, LowlevelLabels
  <2>4. CASE p \in Clients /\ op[p] = "set"
    <3>1. transaction = arg[p] /\ arg[p] \in TxIds
      BY Zenon, <1>4, <2>1, <2>4 DEF Inductive, ControlInv, ClientInv, ControlOK
    <3>2. ASSUME NEW i \in Named(req[p]) PROVE i \in Recorded(transaction)'
      <4>1. i \in Intents BY Zenon DEF Named
      <4>2. old'[transaction]
              = [j \in Intents |-> IF j \in Named(req[p]) THEN tree[p].intents[j] ELSE NoChange]
        BY Zenon, <2>1, <2>4, <3>1 DEF RecordOld, DataTypes
      <4>3. old'[transaction][i] = tree[p].intents[i]
        BY Zenon, <4>1, <4>2
      <4>4. tree[p].intents[i] \in Config
        <5>1. tree[p].intents \in [Intents -> Config]
          BY Zenon, <2>4 DEF DataTypes
        <5> QED BY Zenon, <4>1, <5>1
      <4> QED BY Zenon, <2>1, <4>1, <4>3, <4>4, ConstantsAssumption DEF Recorded
    <3>3. StoresRecorded(p)'
      BY Zenon, <2>2, <3>2 DEF StoresRecorded
    <3>4. ClientKeeps(p)'
      BY Zenon, <1>4, <2>1, <2>2, <2>3, <2>4 DEF ClientKeeps
    <3>5. faults' = 0 => ClientRestores(p)'
      BY Zenon, <2>1, <2>2, <2>4 DEF ClientRestores, RestoreInv
    <3> QED BY Zenon, <2>1, <2>2, <2>3, <2>4, <3>3, <3>4, <3>5, RecordsKeep
  <2>5. CASE ~(p \in Clients /\ op[p] = "set")
    <3>1. old' = old
      BY Zenon, <2>1, <2>5 DEF RecordOld
    <3>2. p \in Clients => op[p] = "cancel"
      BY Zenon, <2>3, <2>5 DEF Inductive, ControlInv, ClientInv
    <3>3. req[p] = RollbackRequest(transaction) /\ transaction \in TxIds
      <4>1. CASE p \in Clients
        BY Zenon, <2>3, <3>2, <4>1, Working DEF WorksForRegistered, RestoreInv, ClientKeeps, Inductive, ControlOK
      <4>2. CASE p \in TxIds
        BY Zenon, <2>3, <4>2 DEF RestoreInv, TimerKeeps, Inductive, ControlInv, TimerInv
      <4> QED BY Zenon, <4>1, <4>2
    <3>4. Named(req[p]) = Recorded(transaction)
      BY Zenon, <3>3, RollbackRequests DEF DataTypes
    <3>5. Recorded(transaction)' = Recorded(transaction) /\ RollbackRequest(transaction)' = RollbackRequest(transaction)
      BY Zenon, <2>1, <3>1 DEF Recorded, RollbackRequest
    <3>6. StoresRecorded(p)'
      BY Zenon, <2>2, <3>4, <3>5 DEF StoresRecorded
    <3>7. p \in Clients => ClientKeeps(p)'
      BY Zenon, <1>4, <2>1, <2>2, <3>2, <3>3, <3>5 DEF ClientKeeps
    <3>8. p \in Clients /\ faults' = 0 => ClientRestores(p)'
      <4> SUFFICES ASSUME p \in Clients, faults' = 0 PROVE ClientRestores(p)'
        BY Zenon
      <4>1. Restorable(transaction) /\ ClientRestores(p)
        BY Zenon, <2>1, <3>3 DEF RestoreInv
      <4>2. ASSUME NEW i \in Intents \ Recorded(transaction) PROVE intents[i] = before[i]
        BY Zenon, <4>1 DEF Restorable
      <4> QED BY Zenon, <2>1, <2>2, <2>3, <3>2, <3>4, <4>1, <4>2 DEF ClientRestores
    <3>9. p \in TxIds => TimerKeeps(p)'
      <4> SUFFICES ASSUME p \in TxIds PROVE TimerKeeps(p)'
        BY Zenon
      <4>1. Recorded(p)' = Recorded(p) /\ RollbackRequest(p)' = RollbackRequest(p)
        BY Zenon, <3>1 DEF Recorded, RollbackRequest
      <4> QED BY Zenon, <2>1, <2>3, <4>1 DEF RestoreInv, TimerKeeps
    <3> DEFINE P == {p}
    <3>10. /\ \A q \in Procs \ P : Same(q)
           /\ \A c \in Clients \cap P : ClientKeeps(c)' /\ (faults' = 0 => ClientRestores(c)')
           /\ \A t \in TxIds \cap P : TimerKeeps(t)'
           /\ \A q \in (Clients \cup TxIds) \cap P : StoresRecorded(q)'
      BY Zenon, <2>2, <3>6, <3>7, <3>8, <3>9
    <3> HIDE DEF P
    <3> QED BY Zenon, <2>1, <2>3, <3>1, <3>10, OthersKeep
  <2> QED BY Zenon, <2>4, <2>5
<1>5. CASE MergeInvalid(p)
  <2>1. /\ pc[p] = "merge" /\ RecordOld(p) /\ Abort(p)
        /\ UNCHANGED <<used, intents, faults>>
    BY Zenon, <1>5 DEF MergeInvalid
  <2>2. transaction' = transaction \/ transaction' = NoTx
    BY Zenon, <2>1 DEF Abort, RollbackEnds
  <2>3. CASE p \in Clients /\ op[p] = "set"
    <3>1. /\ pc' = [pc EXCEPT ![p] = "cleanup"]
          /\ UNCHANGED <<transaction, op, arg, req, tree, todo, ctxDone>>
      BY Zenon, <2>1, <2>3 DEF Abort
    <3>2. /\ pc'[p] = "cleanup"
          /\ \A q \in Procs \ {p} : Same(q)
      BY Zenon, <3>1 DEF Inductive, ControlOK, Same
    <3>3. ClientKeeps(p)' /\ StoresRecorded(p)'
      BY Zenon, <2>3, <3>1, <3>2 DEF RestoreInv, ClientKeeps, StoresRecorded, Unrecorded, Writing
    <3>4. faults' = 0 => ClientRestores(p)'
      BY Zenon, <2>1, <2>3, <3>1, <3>2 DEF RestoreInv, ClientRestores
    <3> QED BY Zenon, <2>1, <2>3, <3>1, <3>2, <3>3, <3>4, RecordsKeep
  <2>4. CASE ~(p \in Clients /\ op[p] = "set")
    <3>1. old' = old
      BY Zenon, <2>1, <2>4 DEF RecordOld
    <3> QED BY Zenon, <2>1, <2>2, <3>1, AbortsKeep
  <2> QED BY Zenon, <2>3, <2>4
<1>6. CASE ApplyIntent(p)
  <2>1. /\ pc[p] \in Writing /\ pc[p] \in LowlevelLabels /\ "persist" \notin Unrecorded
    BY Zenon, <1>6 DEF ApplyIntent, Unrecorded, LowlevelLabels, Writing
  <2> QED BY Zenon, <1>6, <2>1, MovesKeep DEF ApplyIntent
<1>7. ASSUME NEW i \in Intents, PersistIntent(p, i) PROVE RestoreInv'
  BY Zenon, <1>7, PersistKeeps DEF PersistIntent
<1>8. CASE WriteBackSyncTree(p)
  <2>1. /\ pc[p] \in Writing /\ pc[p] \in LowlevelLabels /\ "store" \notin Unrecorded
    BY Zenon, <1>8 DEF WriteBackSyncTree, Unrecorded, LowlevelLabels, Writing
  <2>2. /\ pc' = [pc EXCEPT ![p] = "store"] /\ todo[p] = {}
        /\ UNCHANGED <<transaction, used, old, intents, before, op, arg, req, tree, todo, ctxDone, faults>>
    BY Zenon, <1>8 DEF WriteBackSyncTree
  <2> QED BY Zenon, <2>1, <2>2, MovesKeep
<1>9. CASE StoreAndFinish(p)
  <2>1. pc[p] = "store" /\ UNCHANGED <<intents, used, old, faults>>
    BY Zenon, <1>9 DEF StoreAndFinish, StoreRunning
  <2>2. CASE /\ p \in Clients /\ op[p] = "set"
             /\ pc' = [pc EXCEPT ![p] = "finish", ![arg[p]] = "select"]
             /\ UNCHANGED <<transaction, locals, ctxDone>>
    <3>1. PICK u \in TxIds : u = arg[p] /\ u \in used
      BY Zenon, <2>2 DEF Inductive, ControlInv, ClientInv, ControlOK
    <3> DEFINE P == {p, u}
    <3>2. /\ pc'[p] = "finish" /\ pc'[u] = "select"
          /\ \A q \in Procs \ P : Same(q)
      <4>1. pc' = [pc EXCEPT ![p] = "finish", ![u] = "select"] /\ p # u
        BY Zenon, <2>2, <3>1
      <4>2. pc'[p] = "finish" /\ pc'[u] = "select"
        BY Zenon, <4>1 DEF Inductive, ControlOK
      <4>3. ASSUME NEW q \in Procs, q # p, q # u PROVE pc'[q] = pc[q]
        BY Zenon, <4>1, <4>3 DEF Inductive, ControlOK
      <4> QED BY Zenon, <2>2, <4>2, <4>3 DEF Same
    <3>3. ClientKeeps(p)' /\ StoresRecorded(p)'
      BY Zenon, <2>2, <3>2 DEF RestoreInv, ClientKeeps, StoresRecorded, Unrecorded, Writing
    <3>4. faults' = 0 => ClientRestores(p)'
      BY Zenon, <2>1, <2>2, <3>2 DEF RestoreInv, ClientRestores
    <3>5. TimerKeeps(u)' /\ StoresRecorded(u)'
      BY Zenon, <2>1, <3>1, <3>2 DEF TimerKeeps, StoresRecorded, Writing, LowlevelLabels
    <3>6. /\ \A c \in Clients \cap P : ClientKeeps(c)' /\ (faults' = 0 => ClientRestores(c)')
          /\ \A t \in TxIds \cap P : TimerKeeps(t)'
          /\ \A q \in (Clients \cup TxIds) \cap P : StoresRecorded(q)'
      BY Zenon, <2>2, <3>1, <3>3, <3>4, <3>5
    <3> HIDE DEF P
    <3> QED BY Zenon, <2>1, <2>2, <3>2, <3>6, OthersKeep
  <2>3. CASE p \in Clients /\ CleanupTransaction(arg[p]) /\ Return(p)
    BY Zenon, <2>1, <2>3, ReturnsKeep DEF CleanupTransaction
  <2>4. CASE p \in TxIds /\ RollbackEnds(p)
    <3>1. transaction' = NoTx BY Zenon, <2>4 DEF RollbackEnds
    <3> QED BY Zenon, <2>1, <2>4, <3>1, RollbackKeeps
  <2> QED BY Zenon, <1>9, <2>2, <2>3, <2>4 DEF StoreAndFinish
<1> QED
  BY Zenon, <1>1, <1>2, <1>3, <1>4, <1>5, <1>6, <1>7, <1>8, <1>9 DEF LowlevelStep

\* Every step preserves RestoreInv.
LEMMA RestoreStep ==
  ASSUME Inductive, Inductive', TodoInv, DataTypes, RestoreInv, [HNext]_<<vars, before>>
  PROVE  RestoreInv'
<1> USE Constants DEF GoTo, locals, manager, stores, cache, budget, Procs
<1>1. /\ [Next]_vars
      /\ transaction' = transaction \/ transaction' = NoTx => before' = before
  BY Zenon DEF HNext, vars
<1>10. /\ pc \in [Procs -> ClientLabels \cup LowlevelLabels \cup TimerLabels \cup SyncLabels]
       /\ op \in [Clients -> {"none", "set", "confirm", "cancel"}]
       /\ arg \in [Procs -> TxIds \cup {NoTx}]
       /\ req = [p \in Procs |-> req[p]]
       /\ transaction # NoTx => transaction \in used
  BY Zenon DEF Inductive, ControlOK, ControlInv, LockInv
<1>2. ASSUME NEW c \in Clients, NEW t \in TxIds, NEW r \in Requests, TransactionSet(c, t, r)
      PROVE  RestoreInv'
  <2> DEFINE label == IF r.dryRun THEN "replace" ELSE "register"
             P == {c}
  <2>0. label \in {"replace", "register"}
    BY Zenon
  <2>1. /\ t \notin used /\ used' = used \cup {t}
        /\ pc' = [pc EXCEPT ![c] = label]
        /\ op' = [op EXCEPT ![c] = "set"]
        /\ arg' = [arg EXCEPT ![c] = t]
        /\ req' = [req EXCEPT ![c] = r]
        /\ UNCHANGED <<transaction, old, intents, tree, todo, ctxDone, faults>>
    BY Zenon, <1>2 DEF TransactionSet
  <2> HIDE DEF label
  <2>2. /\ pc'[c] = label /\ op'[c] = "set" /\ arg'[c] = t /\ req'[c] = r
        /\ \A q \in Procs \ P : Same(q)
    <3>1. pc'[c] = label /\ op'[c] = "set" /\ arg'[c] = t /\ req'[c] = r
      BY Zenon, <1>10, <2>1
    <3>2. ASSUME NEW q \in Procs \ P PROVE pc'[q] = pc[q] /\ arg'[q] = arg[q] /\ req'[q] = req[q]
      BY Zenon, <1>10, <2>1, <3>2
    <3>3. ASSUME NEW q \in Clients \ P PROVE op'[q] = op[q]
      BY Zenon, <1>10, <2>1, <3>3
    <3> QED BY Zenon, <2>1, <3>1, <3>2, <3>3 DEF Same
  <2>3. ClientKeeps(c)' /\ StoresRecorded(c)'
    <3>1. Recorded(arg[c])' = {}
      BY Zenon, <2>1, <2>2 DEF RestoreInv, TimerKeeps, Recorded
    <3>2. t # transaction'
      BY Zenon, <1>10, <2>1
    <3> QED BY Zenon, <2>0, <2>2, <3>1, <3>2 DEF ClientKeeps, StoresRecorded, Writing, LowlevelLabels
  <2>4. faults' = 0 => ClientRestores(c)'
    BY Zenon, <2>0, <2>1, <2>2 DEF RestoreInv, ClientRestores, Writing
  <2>5. /\ \A d \in Clients \cap P : ClientKeeps(d)' /\ (faults' = 0 => ClientRestores(d)')
        /\ \A u \in TxIds \cap P : TimerKeeps(u)'
        /\ \A q \in (Clients \cup TxIds) \cap P : StoresRecorded(q)'
        /\ used \subseteq used'
    BY Zenon, <2>1, <2>3, <2>4
  <2> HIDE DEF P
  <2> QED BY Zenon, <1>1, <2>1, <2>2, <2>5, OthersKeep
<1>3. ASSUME NEW c \in Clients, NEW t \in TxIds, NEW name \in {"confirm", "cancel"}, Call(c, name, t)
      PROVE  RestoreInv'
  <2> DEFINE P == {c}
  <2>1. /\ pc[c] = "idle"
        /\ pc' = [pc EXCEPT ![c] = name]
        /\ op' = [op EXCEPT ![c] = name]
        /\ arg' = [arg EXCEPT ![c] = t]
        /\ UNCHANGED <<transaction, used, old, intents, req, tree, todo, ctxDone, faults>>
    BY Zenon, <1>3 DEF Call
  <2>2. /\ pc'[c] = name /\ op'[c] = name
        /\ \A q \in Procs \ P : Same(q)
    <3>1. pc'[c] = name /\ op'[c] = name
      BY Zenon, <1>10, <2>1
    <3>2. ASSUME NEW q \in Procs \ P PROVE pc'[q] = pc[q] /\ arg'[q] = arg[q]
      BY Zenon, <1>10, <2>1, <3>2
    <3>3. ASSUME NEW q \in Clients \ P PROVE op'[q] = op[q]
      BY Zenon, <1>10, <2>1, <3>3
    <3> QED BY Zenon, <2>1, <3>1, <3>2, <3>3 DEF Same
  <2>3. ~req'[c].dryRun
    BY Zenon, <2>1 DEF Inductive, ControlInv, ClientInv, DryLabels
  <2>4. ClientKeeps(c)' /\ StoresRecorded(c)'
    BY Zenon, <2>2, <2>3 DEF ClientKeeps, StoresRecorded, Writing, LowlevelLabels
  <2>5. faults' = 0 => ClientRestores(c)'
    BY Zenon, <2>1, <2>2 DEF RestoreInv, ClientRestores, Writing
  <2>6. /\ \A d \in Clients \cap P : ClientKeeps(d)' /\ (faults' = 0 => ClientRestores(d)')
        /\ \A u \in TxIds \cap P : TimerKeeps(u)'
        /\ \A q \in (Clients \cup TxIds) \cap P : StoresRecorded(q)'
    BY Zenon, <2>4, <2>5
  <2> HIDE DEF P
  <2> QED BY Zenon, <1>1, <2>1, <2>2, <2>6, OthersKeep
<1>4. ASSUME NEW c \in Clients, ClientStep(c) PROVE RestoreInv'
  <2>1. CASE RegisterTransaction(c) /\ transaction = NoTx
    <3>1. arg[c] \in TxIds
      BY Zenon, <2>1 DEF RegisterTransaction, Inductive, ControlInv, ClientInv, ControlOK, ClientLabels
    <3>2. before' = intents
      BY Zenon, <2>1, <3>1 DEF RegisterTransaction, HNext, vars
    <3> QED BY Zenon, <2>1, <3>2, RegisterKeeps DEF RegisterTransaction
  <2>2. CASE /\ Return(c) /\ UNCHANGED <<used, old, intents, faults>>
             /\ transaction' = transaction \/ transaction' = NoTx
    BY Zenon, <1>1, <2>2, ReturnsKeep
  <2>3. CASE SkipReplace(c)
    <3>1. pc[c] \in Unrecorded /\ op[c] = "set" /\ "copy" \notin Writing
      BY Zenon, <2>3 DEF SkipReplace, Unrecorded, Writing, Inductive, ControlInv, ClientInv, ClientLabels
    <3> QED BY Zenon, <1>1, <2>3, <3>1, MovesKeep DEF SkipReplace
  <2>4. CASE ReplaceIntent(c)
    <3>1. pc[c] \in Unrecorded /\ op[c] = "set" /\ "replaceApply" \notin Writing
      BY Zenon, <2>4 DEF ReplaceIntent, Unrecorded, Writing, Inductive, ControlInv, ClientInv, ClientLabels
    <3>2. CASE Abort(c)
      <4>1. transaction' = transaction
        BY Zenon, <3>1, <3>2 DEF Abort
      <4> QED BY Zenon, <1>1, <2>4, <3>2, <4>1, AbortsKeep DEF ReplaceIntent
    <3>3. CASE ~Abort(c)
      BY Zenon, <1>1, <2>4, <3>1, <3>3, MovesKeep DEF ReplaceIntent
    <3> QED BY Zenon, <3>2, <3>3
  <2>5. CASE ReplaceApply(c)
    <3>1. pc[c] \in Unrecorded /\ op[c] = "set" /\ "replaceWriteBack" \notin Writing
      BY Zenon, <2>5 DEF ReplaceApply, Unrecorded, Writing, Inductive, ControlInv, ClientInv, ClientLabels
    <3> QED BY Zenon, <1>1, <2>5, <3>1, MovesKeep DEF ReplaceApply
  <2>6. CASE ReplaceWriteBack(c)
    <3>1. pc[c] \in Unrecorded /\ op[c] = "set" /\ "replaceStore" \notin Writing
      BY Zenon, <2>6 DEF ReplaceWriteBack, Unrecorded, Writing, Inductive, ControlInv, ClientInv, ClientLabels
    <3> QED BY Zenon, <1>1, <2>6, <3>1, MovesKeep DEF ReplaceWriteBack
  <2>7. CASE ReplaceStore(c)
    <3>1. pc[c] \in Unrecorded /\ op[c] = "set" /\ "copy" \notin Writing
      BY Zenon, <2>7 DEF ReplaceStore, Unrecorded, Writing, Inductive, ControlInv, ClientInv, ClientLabels
    <3> QED BY Zenon, <1>1, <2>7, <3>1, MovesKeep DEF ReplaceStore, StoreRunning
  <2>8. CASE Cancel(c)
    <3> DEFINE P == {c}
    <3>1. /\ pc[c] = "cancel" /\ op[c] = "cancel" /\ transaction \in TxIds
          /\ pc' = [pc EXCEPT ![c] = "copy"]
          /\ req' = [req EXCEPT ![c] = RollbackRequest(transaction)]
          /\ UNCHANGED <<transaction, used, old, intents, op, arg, tree, todo, ctxDone, faults>>
      BY Zenon, <2>8 DEF Cancel, Inductive, ControlInv, ClientInv, ControlOK
    <3>2. /\ pc'[c] = "copy" /\ req'[c] = RollbackRequest(transaction)
          /\ \A q \in Procs \ P : Same(q)
      <4>1. pc'[c] = "copy" /\ req'[c] = RollbackRequest(transaction)
        BY Zenon, <3>1 DEF Inductive, ControlOK
      <4>2. ASSUME NEW q \in Procs \ P PROVE pc'[q] = pc[q] /\ req'[q] = req[q]
        BY Zenon, <3>1, <4>2 DEF Inductive, ControlOK
      <4> QED BY Zenon, <3>1, <4>1, <4>2 DEF Same
    <3>3. /\ RollbackRequest(transaction)' = RollbackRequest(transaction)
          /\ ~RollbackRequest(transaction).dryRun
      <4>1. RollbackRequest(transaction)' = RollbackRequest(transaction)
        BY Zenon, <3>1 DEF RollbackRequest
      <4> QED BY Zenon, <3>1, <4>1, RollbackRequests DEF DataTypes
    <3>4. ClientKeeps(c)' /\ StoresRecorded(c)'
      BY Zenon, <3>1, <3>2, <3>3 DEF ClientKeeps, StoresRecorded, Writing
    <3>5. faults' = 0 => ClientRestores(c)'
      BY Zenon, <3>1, <3>2 DEF RestoreInv, ClientRestores, Writing
    <3>6. /\ \A d \in Clients \cap P : ClientKeeps(d)' /\ (faults' = 0 => ClientRestores(d)')
          /\ \A u \in TxIds \cap P : TimerKeeps(u)'
          /\ \A q \in (Clients \cup TxIds) \cap P : StoresRecorded(q)'
      BY Zenon, <3>4, <3>5
    <3> HIDE DEF P
    <3> QED BY Zenon, <1>1, <3>1, <3>2, <3>6, OthersKeep
  <2> QED
    BY Zenon, <1>4, <2>1, <2>2, <2>3, <2>4, <2>5, <2>6, <2>7, <2>8
    DEF ClientStep, RegisterTransaction, RegisterContextDone, NoOp, Cleanup, CleanupTransaction,
        Finish, NoOngoingTransaction, Confirm
<1>5. ASSUME NEW t \in TxIds, TimerStep(t) PROVE RestoreInv'
  <2>1. CASE TimerFires(t)
    <3>1. "fired" \notin Unrecorded \cup LowlevelLabels \cup Writing
      BY Zenon DEF Unrecorded, LowlevelLabels, Writing
    <3> QED BY Zenon, <1>1, <2>1, <3>1, MovesKeep DEF TimerFires
  <2>2. CASE TimerStopped(t)
    <3>1. "exited" \notin Unrecorded \cup LowlevelLabels \cup Writing
      BY Zenon DEF Unrecorded, LowlevelLabels, Writing
    <3> QED BY Zenon, <1>1, <2>2, <3>1, MovesKeep DEF TimerStopped
  <2>3. CASE RollbackLock(t)
    <3>1. "copy" \notin Writing
      BY Zenon DEF Writing
    <3> QED BY Zenon, <1>1, <2>3, <3>1, MovesKeep DEF RollbackLock
  <2>4. CASE TimerRollback(t)
    <3> DEFINE P == {t}
    <3>1. /\ pc' = [pc EXCEPT ![t] = "rollback"]
          /\ req' = [req EXCEPT ![t] = RollbackRequest(t)]
          /\ UNCHANGED <<transaction, used, old, intents, op, arg, tree, todo, ctxDone, faults>>
      BY Zenon, <2>4 DEF TimerRollback
    <3>2. /\ pc'[t] = "rollback" /\ req'[t] = RollbackRequest(t)
          /\ \A q \in Procs \ P : Same(q)
      <4>1. pc'[t] = "rollback" /\ req'[t] = RollbackRequest(t)
        BY Zenon, <1>10, <3>1
      <4>2. ASSUME NEW q \in Procs \ P PROVE pc'[q] = pc[q] /\ req'[q] = req[q]
        BY Zenon, <1>10, <3>1, <4>2
      <4> QED BY Zenon, <3>1, <4>1, <4>2 DEF Same
    <3>3. Recorded(t)' = Recorded(t) /\ RollbackRequest(t)' = RollbackRequest(t)
      BY Zenon, <3>1 DEF Recorded, RollbackRequest
    <3>4. TimerKeeps(t)' /\ StoresRecorded(t)'
      BY Zenon, <3>1, <3>2, <3>3 DEF RestoreInv, TimerKeeps, StoresRecorded, Writing
    <3>5. /\ \A d \in Clients \cap P : ClientKeeps(d)' /\ (faults' = 0 => ClientRestores(d)')
          /\ \A u \in TxIds \cap P : TimerKeeps(u)'
          /\ \A q \in (Clients \cup TxIds) \cap P : StoresRecorded(q)'
      BY Zenon, <3>4
    <3> HIDE DEF P
    <3> QED BY Zenon, <1>1, <3>1, <3>2, <3>5, OthersKeep
  <2> QED BY Zenon, <1>5, <2>1, <2>2, <2>3, <2>4 DEF TimerStep
<1>6. ASSUME NEW s \in Syncs, SyncStep(s) \/ SyncFails(s) PROVE RestoreInv'
  <2> DEFINE P == {s}
  <2>1. \A q \in Procs \ P : Same(q)
    <3>1. CASE SyncReturns(s)
      BY Zenon, <3>1, ClearSame DEF SyncReturns
    <3>2. ASSUME NEW label, pc' = [pc EXCEPT ![s] = label],
                 UNCHANGED <<op, arg, req, todo>>,
                 tree' = tree \/ \E t : tree' = [tree EXCEPT ![s] = t],
                 NEW q \in Procs \ P
          PROVE  Same(q)
      <4>1. pc'[q] = pc[q]
        BY Zenon, <1>10, <3>2
      <4>2. tree'[q] = tree[q]
        BY Zenon, <3>2 DEF DataTypes
      <4> QED BY Zenon, <3>2, <4>1, <4>2 DEF Same
    <3>3. CASE SyncGet(s)
      BY Zenon, <3>2, <3>3 DEF SyncGet
    <3>4. CASE ApplyToRunning(s) \/ RevertLoad(s) \/ RevertLock(s)
      BY Zenon, <3>2, <3>4 DEF ApplyToRunning, RevertLoad, RevertLock
    <3> QED BY Zenon, <1>6, <3>1, <3>3, <3>4 DEF SyncStep, RevertSkip, RevertApply, SyncFails
  <2>2. /\ UNCHANGED <<transaction, used, old, intents, ctxDone>>
        /\ faults' = faults \/ faults' = faults + 1
    BY Zenon, <1>6
    DEF SyncStep, SyncGet, ApplyToRunning, RevertLoad, RevertSkip, RevertLock, RevertApply,
        SyncFails, SyncReturns, CountFault
  <2>3. faults' = 0 => faults = 0
    BY <2>2 DEF DataTypes
  <2>4. /\ \A d \in Clients \cap P : ClientKeeps(d)' /\ (faults' = 0 => ClientRestores(d)')
        /\ \A u \in TxIds \cap P : TimerKeeps(u)'
        /\ \A q \in (Clients \cup TxIds) \cap P : StoresRecorded(q)'
    BY Zenon
  <2> HIDE DEF P
  <2> QED BY Zenon, <1>1, <2>1, <2>2, <2>3, <2>4, OthersKeep
<1>7. CASE Restart
  <2>1. /\ transaction' = NoTx /\ ctxDone' = {}
        /\ old' = [t \in TxIds |-> [i \in Intents |-> NoChange]]
        /\ pc' = [p \in Procs |-> IF p \in used THEN "exited" ELSE IF p \in TxIds THEN "none" ELSE "idle"]
        /\ op' = [c \in Clients |-> "none"]
        /\ req' = [p \in Procs |-> NoRequest]
    BY Zenon, <1>7 DEF Restart
  <2>2. ASSUME NEW p \in Procs PROVE pc'[p] \in {"exited", "none", "idle"} /\ req'[p] = NoRequest
    BY Zenon, <2>1
  <2>3. ASSUME NEW c \in Clients PROVE ClientKeeps(c)' /\ ClientRestores(c)'
    BY Zenon, <2>1, <2>2, EmptyTypes DEF ClientKeeps, ClientRestores
  <2>4. ASSUME NEW t \in TxIds PROVE TimerKeeps(t)'
    BY Zenon, <2>1, <2>2 DEF TimerKeeps, Recorded, LowlevelLabels
  <2>5. ASSUME NEW p \in Clients \cup TxIds PROVE StoresRecorded(p)'
    BY Zenon, <2>2 DEF StoresRecorded, Writing
  <2> QED BY Zenon, <2>1, <2>3, <2>4, <2>5 DEF RestoreInv
<1>8. CASE Failures
  <2>1. ASSUME NEW p, MayFail(p)
        PROVE  /\ faults' = 0 => faults = 0
               /\ faults' = 0 /\ p \in Clients => FALSE
    <3>1. CASE CountFault
      BY <3>1 DEF CountFault, DataTypes
    <3>2. CASE p \in ctxDone /\ faults' = faults
      BY Zenon, <3>2 DEF RestoreInv, ClientRestores
    <3> QED BY Zenon, <2>1, <3>1, <3>2 DEF MayFail
  <2>2. ASSUME NEW p \in Clients \cup TxIds, Abort(p) PROVE transaction' = transaction \/ transaction' = NoTx
    BY Zenon, <2>2 DEF Abort, RollbackEnds
  <2>3. ASSUME NEW p \in Clients \cup TxIds, CallFails(p) PROVE RestoreInv'
    BY Zenon, <1>1, <2>1, <2>2, <2>3, AbortsKeep DEF CallFails
  <2>4. ASSUME NEW p \in Clients \cup TxIds, NEW i \in Intents, PersistModifyFails(p, i) PROVE RestoreInv'
    BY Zenon, <1>1, <2>1, <2>2, <2>4, AbortsKeep DEF PersistModifyFails
  <2>5. ASSUME NEW p \in Clients \cup TxIds, NEW i \in Intents, PersistDeleteFails(p, i) PROVE RestoreInv'
    <3> DEFINE P == {p}
    <3>1. /\ pc[p] = "persist" /\ MayFail(p)
          /\ todo' = [todo EXCEPT ![p] = todo[p] \ {i}]
          /\ UNCHANGED <<transaction, used, old, intents, pc, op, arg, req, tree, ctxDone>>
      BY Zenon, <2>5 DEF PersistDeleteFails
    <3>2. todo'[p] \subseteq todo[p] /\ \A q \in Procs \ P : Same(q)
      BY Zenon, <3>1 DEF TodoInv, Same
    <3>3. /\ Recorded(transaction)' = Recorded(transaction)
          /\ RollbackRequest(transaction)' = RollbackRequest(transaction)
          /\ Recorded(arg[p])' = Recorded(arg[p])
          /\ Recorded(p)' = Recorded(p) /\ RollbackRequest(p)' = RollbackRequest(p)
      BY Zenon, <3>1 DEF Recorded, RollbackRequest
    <3>4. StoresRecorded(p)'
      BY Zenon, <3>1, <3>2, <3>3 DEF RestoreInv, StoresRecorded
    <3>5. p \in Clients => ClientKeeps(p)'
      BY Zenon, <3>1, <3>3 DEF RestoreInv, ClientKeeps
    <3>6. p \in TxIds => TimerKeeps(p)'
      BY Zenon, <3>1, <3>3 DEF RestoreInv, TimerKeeps
    <3>7. p \in Clients => faults' # 0
      BY Zenon, <2>1, <3>1
    <3>8. /\ \A d \in Clients \cap P : ClientKeeps(d)' /\ (faults' = 0 => ClientRestores(d)')
          /\ \A u \in TxIds \cap P : TimerKeeps(u)'
          /\ \A q \in (Clients \cup TxIds) \cap P : StoresRecorded(q)'
      BY Zenon, <3>4, <3>5, <3>6, <3>7
    <3> HIDE DEF P
    <3> QED BY Zenon, <1>1, <2>1, <3>1, <3>2, <3>8, OthersKeep
  <2>6. ASSUME NEW c \in Clients, CancelContext(c) PROVE RestoreInv'
    <3>1. faults' # 0
      BY <2>6 DEF CancelContext, CountFault, DataTypes
    <3>2. UNCHANGED <<transaction, used, old, intents, pc, op, arg, req, tree, todo>>
      BY Zenon, <2>6 DEF CancelContext
    <3>3. \A q \in Procs \ {} : Same(q)
      BY Zenon, <3>2 DEF Same
    <3> QED BY Zenon, <1>1, <3>1, <3>2, <3>3, OthersKeep
  <2>7. ASSUME NEW p \in Paths, NEW v \in Values \cup {NoValue}, DeviceChanges(p, v) PROVE RestoreInv'
    <3>1. UNCHANGED <<transaction, used, old, intents, pc, op, arg, req, tree, todo, ctxDone, faults>>
      BY Zenon, <2>7 DEF DeviceChanges
    <3>2. \A q \in Procs \ {} : Same(q)
      BY Zenon, <3>1 DEF Same
    <3> QED BY Zenon, <1>1, <3>1, <3>2, OthersKeep
  <2> QED
    BY Zenon, <1>6, <1>7, <1>8, <2>3, <2>4, <2>5, <2>6, <2>7 DEF Failures, Crash, Panic
<1>9. CASE UNCHANGED vars
  <2>1. UNCHANGED <<transaction, used, old, intents, pc, op, arg, req, tree, todo, ctxDone, faults>>
    BY Zenon, <1>9 DEF vars
  <2>2. \A q \in Procs \ {} : Same(q)
    BY Zenon, <2>1 DEF Same
  <2> QED BY Zenon, <1>1, <2>1, <2>2, OthersKeep
<1> QED
  BY Zenon, <1>1, <1>2, <1>3, <1>4, <1>5, <1>6, <1>8, <1>9, LowlevelKeeps
  DEF Next, Calls, TransactionConfirm, TransactionCancel

\* Unless a call failed or a request was cancelled, TransactionCancel leaves the intents of the
\* cache exactly as they were when the transaction was registered, for any number of clients,
\* timers, syncs, intents and requests, and whatever crashes and panics came before.
THEOREM CancelRestores == HSpec => []CancelRestoresIntents
<1> DEFINE All == Inductive /\ TodoInv /\ DataTypes /\ RestoreInv
<1>1. HInit => All
  <2> SUFFICES ASSUME HInit PROVE All
    BY Zenon
  <2>1. Inductive
    BY Zenon, Initially DEF HInit
  <2>2. TodoInv
    BY Zenon, Constants DEF HInit, Init, TodoInv, Storing, Procs
  <2>3. DataTypes
    BY Zenon, EmptyTypes DEF HInit, Init, DataTypes
  <2>4. RestoreInv
    <3>1. ASSUME NEW p \in Procs PROVE pc[p] \in {"none", "idle"} /\ req[p] = NoRequest
      BY Zenon DEF HInit, Init
    <3>2. ASSUME NEW t \in TxIds PROVE Recorded(t) = {}
      BY Zenon DEF HInit, Init, Recorded
    <3>3. ASSUME NEW c \in Clients PROVE ClientKeeps(c) /\ ClientRestores(c)
      BY Zenon, <3>1, EmptyTypes DEF HInit, Init, ClientKeeps, ClientRestores, Procs
    <3>4. ASSUME NEW t \in TxIds PROVE TimerKeeps(t)
      BY Zenon, <3>1, <3>2 DEF TimerKeeps, LowlevelLabels, Procs
    <3>5. ASSUME NEW p \in Clients \cup TxIds PROVE StoresRecorded(p)
      BY Zenon, <3>1 DEF StoresRecorded, Writing, Procs
    <3> QED BY Zenon, <3>3, <3>4, <3>5 DEF HInit, Init, RestoreInv
  <2> QED BY Zenon, <2>1, <2>2, <2>3, <2>4
<1>2. All /\ [HNext]_<<vars, before>> => All'
  <2> SUFFICES ASSUME All, [HNext]_<<vars, before>> PROVE All'
    BY Zenon
  <2>1. [Next]_vars
    BY Zenon DEF HNext
  <2>2. Inductive' /\ TodoInv'
    BY Zenon, <2>1, Stepwise, TodoStep
  <2> QED BY Zenon, <2>2, TypesStep, RestoreStep
<1>3. All => CancelRestoresIntents
  <2> SUFFICES ASSUME All, faults = 0, NEW c \in Clients, op[c] = "cancel", pc[c] = "store"
               PROVE  intents = before
    BY Zenon DEF CancelRestoresIntents
  <2>1. todo[c] = {}
    BY Zenon DEF RestoreInv, StoresRecorded
  <2>2. ASSUME NEW i \in Intents PROVE intents[i] = before[i]
    BY Zenon, <2>1 DEF RestoreInv, ClientRestores, Writing
  <2>3. intents \in [Intents -> Config] /\ before \in [Intents -> Config]
    BY Zenon DEF DataTypes
  <2> QED BY <2>2, <2>3
<1> QED BY <1>1, <1>2, <1>3, PTL DEF HSpec
=============================================================================
