----------------------------- MODULE Datastore -----------------------------
(***************************************************************************)
(* One datastore of the data server: the northbound transaction handlers   *)
(* (TransactionSet, TransactionConfirm, TransactionCancel), the            *)
(* TransactionManager with the rollback timer of every transaction, the    *)
(* periodic sync with its revert, the intent cache, the sync tree and the  *)
(* southbound device.                                                      *)
(*                                                                         *)
(* Processes are client calls (one at a time per element of Clients), the  *)
(* rollback timer goroutine of every transaction (named by the             *)
(* transaction) and the sync goroutines.  A step of a process is the code  *)
(* between two points where another process can interfere: a lock, a call  *)
(* to the cache, a call to the device.                                     *)
(*                                                                         *)
(* The configuration tree is abstracted to its leaves: a path is a leaf,   *)
(* and what is sent for it is decided by the operators of LeafVariants.    *)
(***************************************************************************)
EXTENDS LeafVariants, FiniteSets

CONSTANTS
  Clients,     \* concurrent northbound callers
  Syncs,       \* goroutines that run a sync cycle
  TxIds,       \* transactions, and the goroutines of their rollback timers
  Intents,     \* names of intents
  PrioOf,      \* PrioOf[i]: the priority of intent i
  Paths,       \* the leaves
  Values,      \* the values of a leaf
  NoValue,     \* a leaf without a value
  Requests,    \* the TransactionSet requests clients send
  NoReplace,   \* a request without a replace intent
  NoChange,    \* an intent that a request does not name
  NoTx,        \* nil transaction
  Free,        \* an unlocked mutex
  TimersFire,  \* whether rollback timeouts expire in this instance
  OtherIds,    \* whether clients may confirm or cancel with the id of another transaction
  EmptyGetAborts, \* the gNMI get sync gives up on an empty response, NETCONF does not
  MaxFaults,   \* bound on failing calls and cancelled requests
  MaxCrashes,  \* bound on crashes of the process
  MaxDrifts    \* bound on changes of the device by others

Procs == Clients \cup Syncs \cup TxIds

Config == [Paths -> Values \cup {NoValue}]

EmptyConfig == [p \in Paths |-> NoValue]

\* A types.TransactionIntent without name and priority.
Change == [content : Config, delete : BOOLEAN, onlyIntended : BOOLEAN,
           nonRevertive : BOOLEAN, previouslyApplied : BOOLEAN]

Request == [new : [Intents -> Change \cup {NoChange}],
            replace : Config \cup {NoReplace}, dryRun : BOOLEAN]

NoRequest == [new |-> [i \in Intents |-> NoChange], replace |-> NoReplace, dryRun |-> FALSE]

\* What a process holds in its private tree: running with the leaves still flagged as
\* updated, the intents loaded from the cache, the non-revertive intents among them.
Tree == [running : Config, updated : SUBSET Paths,
         intents : [Intents -> Config], nonRevertive : SUBSET Intents]

EmptyTree == [running |-> EmptyConfig, updated |-> {},
              intents |-> [i \in Intents |-> EmptyConfig], nonRevertive |-> {}]

ASSUME ConstantsAssumption ==
  /\ Requests \subseteq Request
  /\ PrioOf \in [Intents -> Nat]
  /\ NoValue \notin Values
  /\ NoTx \notin TxIds
  /\ NoReplace \notin Config /\ NoChange \notin Change /\ NoChange \notin Config
  /\ Free \notin Procs
  /\ Clients \cap Syncs = {} /\ Clients \cap TxIds = {} /\ Syncs \cap TxIds = {}
  /\ {TimersFire, OtherIds, EmptyGetAborts} \subseteq BOOLEAN
  /\ {MaxFaults, MaxCrashes, MaxDrifts} \subseteq Nat

VARIABLES
  dmutex,       \* Datastore.dmutex: its holder or Free
  tmMutex,      \* TransactionManager.tmMutex: its holder or Free
  transaction,  \* TransactionManager.transaction
  used,         \* the transactions that were started
  done,         \* done[t]: the channel of t's TransactionCancelTimer, "nil", "open" or "closed"
  old,          \* old[t]: Transaction.oldIntents, the intents' content before t
  pc, op,       \* pc[p]: where p stands; op[c]: the call client c executes
  arg, req,     \* arg[p]: the transaction p works for; req[p]: the request p executes
  tree,         \* tree[p]: p's private tree, until the changes for the device are computed
  changes,      \* changes[p]: the updates and deletes p computed from its tree
  todo,         \* todo[p]: the intents p has still to store
  ctxDone,      \* the processes whose context is cancelled
  device,       \* the configuration of the device
  running,      \* Datastore.syncTree, the running configuration
  runUpdated,   \* the leaves of syncTree whose running entry has IsUpdated set
  intents,      \* the intent cache: content per intent, EmptyConfig if there is none
  nonRev,       \* the intents of the cache stored as non-revertive
  cachedRunning,\* the running intent in the cache
  faults,       \* failing calls so far
  crashes,      \* crashes and panics so far
  drifts        \* changes of the device by others so far

locks  == <<dmutex, tmMutex>>
manager == <<transaction, used, done, old>>
locals == <<op, arg, req, tree, changes, todo>>
cache  == <<intents, nonRev, cachedRunning>>
stores == <<device, running, runUpdated, cache>>
budget == <<faults, crashes, drifts>>
vars   == <<locks, manager, pc, locals, ctxDone, stores, budget>>

-----------------------------------------------------------------------------
(* What a private tree and a request mean for a leaf. *)

Named(r) == {i \in Intents : r.new[i] # NoChange}

\* Add(lv, i) for every intent of S.
ForIntents(Add(_, _), lv, S) ==
  MapThenFoldSet(LAMBDA i, acc : Add(acc, i), lv, LAMBDA i : i, LAMBDA T : CHOOSE i \in T : TRUE, S)

AddIf(lv, le) == IF le.value = NoValue THEN lv ELSE AddWithStats(lv, le)

LoadedLeaf(t, p) ==
  LET running_ == [NewLeafEntry(RunningIntentName, RunningValuesPrio, t.running[p])
                     EXCEPT !.updated = p \in t.updated]
  IN  ForIntents(LAMBDA lv, i : AddIf(lv, NewLeafEntry(i, PrioOf[i], t.intents[i][p])),
                 AddIf(<<>>, running_), Intents)

MergeLeaf(lv, i, c, p) ==
  LET marked == MarkOwnerForDeletion(lv, i, c.onlyIntended)
      le     == NewLeafEntry(i, PrioOf[i], c.content[p])
      flagged == IF c.nonRevertive /\ c.previouslyApplied THEN le ELSE MarkNew(le)
  IN  IF c.delete THEN marked ELSE AddIf(marked, flagged)

\* The leaf variants of p once the request's intents are merged.
Leaf(t, r, p) ==
  ForIntents(LAMBDA lv, i : MergeLeaf(lv, i, r.new[i], p), LoadedLeaf(t, p), Named(r))

NonRevertiveIn(t, r) ==
  (t.nonRevertive \ Named(r)) \cup {i \in Named(r) : r.new[i].nonRevertive}

\* The changes for the device: the updates by path (NoValue: none) and the deletes.
Updates(t, r) ==
  [p \in Paths |-> LET lv == Leaf(t, r, p)
                       s  == GetHighestPrecedenceNew(lv, NonRevertiveIn(t, r))
                   IN  IF s = 0 THEN NoValue ELSE lv[s].value]

Deletes(t, r) == {p \in Paths : ShouldDelete(Leaf(t, r, p))}

Changes(t, r) == [updates |-> Updates(t, r), deletes |-> Deletes(t, r)]

NoChanges == [updates |-> EmptyConfig, deletes |-> {}]

\* Deletes are applied before updates, by the device and by writeBackSyncTree.
Applied(cfg, ch) ==
  [p \in Paths |-> IF ch.updates[p] # NoValue THEN ch.updates[p]
                   ELSE IF p \in ch.deletes THEN NoValue ELSE cfg[p]]

UpdatedAfter(cfg, flagged, ch) ==
  {p \in Paths \ ch.deletes :
     IF ch.updates[p] = NoValue THEN p \in flagged
     ELSE cfg[p] # NoValue /\ (p \in flagged \/ cfg[p] # ch.updates[p])}

\* What TreeExport finds of intent i: its entries that are not marked for deletion.
Exported(c) == IF c.delete THEN EmptyConfig ELSE c.content

-----------------------------------------------------------------------------
Init ==
  /\ dmutex = Free /\ tmMutex = Free
  /\ transaction = NoTx
  /\ used = {}
  /\ done = [t \in TxIds |-> "nil"]
  /\ old = [t \in TxIds |-> [i \in Intents |-> NoChange]]
  /\ pc = [p \in Procs |-> IF p \in TxIds THEN "none" ELSE "idle"]
  /\ op = [c \in Clients |-> "none"]
  /\ arg = [p \in Procs |-> IF p \in TxIds THEN p ELSE NoTx]
  /\ req = [p \in Procs |-> NoRequest]
  /\ tree = [p \in Procs |-> EmptyTree]
  /\ changes = [p \in Procs |-> NoChanges]
  /\ todo = [p \in Procs |-> {}]
  /\ ctxDone = {}
  /\ device = EmptyConfig
  /\ running = EmptyConfig
  /\ runUpdated = {}
  /\ intents = [i \in Intents |-> EmptyConfig]
  /\ nonRev = {}
  /\ cachedRunning = EmptyConfig
  /\ faults = 0 /\ crashes = 0 /\ drifts = 0

GoTo(p, label) == pc' = [pc EXCEPT ![p] = label]

\* What p keeps in local variables is gone when it returns.
Clear(p) ==
  /\ req' = [req EXCEPT ![p] = NoRequest]
  /\ tree' = [tree EXCEPT ![p] = EmptyTree]
  /\ changes' = [changes EXCEPT ![p] = NoChanges]
  /\ todo' = [todo EXCEPT ![p] = {}]

\* The handler of client c returns: the deferred dmutex.Unlock(), and the end of the call's
\* context, which is also the context of the rollback timer a TransactionSet started.
Return(c) ==
  /\ GoTo(c, "idle")
  /\ op' = [op EXCEPT ![c] = "none"]
  /\ arg' = [arg EXCEPT ![c] = NoTx]
  /\ Clear(c)
  /\ dmutex' = IF dmutex = c THEN Free ELSE dmutex
  /\ ctxDone' = (ctxDone \ {c}) \cup (IF op[c] = "set" THEN {arg[c]} ELSE {})

\* TransactionManager.CleanupTransaction(id)
CleanupTransaction(id) == transaction' = IF transaction = id THEN NoTx ELSE transaction

\* Mutant of RollbackEnds: the transaction stays registered.
RollbackEnds_StaysRegistered(t) ==
  /\ tmMutex' = Free
  /\ GoTo(t, "exited")
  /\ Clear(t)
  /\ UNCHANGED <<dmutex, transaction, op, arg, ctxDone>>

\* TransactionManager.Rollback ends, whatever the result of the rollback was.
RollbackEnds(t) ==
  /\ transaction' = NoTx
  /\ tmMutex' = Free
  /\ GoTo(t, "exited")
  /\ Clear(t)
  /\ UNCHANGED <<dmutex, op, arg, ctxDone>>

\* Mutant of Abort: a failing cancel does not give back tmMutex.
Abort_KeepsLock(p) ==
  \/ /\ p \in Clients /\ op[p] = "set"
     /\ GoTo(p, "cleanup")
     /\ UNCHANGED <<locks, transaction, locals, ctxDone>>
  \/ /\ p \in Clients /\ op[p] = "cancel"
     /\ Return(p)
     /\ UNCHANGED <<tmMutex, transaction>>
  \/ p \in TxIds /\ RollbackEnds(p)

\* replaceIntent or lowlevelTransactionSet returns an error to its caller.
Abort(p) ==
  \/ /\ p \in Clients /\ op[p] = "set"
     /\ GoTo(p, "cleanup")
     /\ UNCHANGED <<locks, transaction, locals, ctxDone>>
  \/ /\ p \in Clients /\ op[p] = "cancel"
     /\ tmMutex' = Free
     /\ Return(p)
     /\ UNCHANGED transaction
  \/ p \in TxIds /\ RollbackEnds(p)

CountFault == faults < MaxFaults /\ faults' = faults + 1 /\ UNCHANGED <<crashes, drifts>>

\* A call with a cancelled context may fail; any other failure is counted.
MayFail(p) == IF p \in ctxDone THEN UNCHANGED budget ELSE CountFault

-----------------------------------------------------------------------------
(* TransactionSet *)

\* Up to the TryLock of dmutex, which a dry run does not take.
TransactionSet(c, t, r) ==
  /\ pc[c] = "idle"
  /\ t \notin used
  /\ r.dryRun \/ dmutex = Free
  /\ used' = used \cup {t}
  /\ dmutex' = IF r.dryRun THEN dmutex ELSE c
  /\ GoTo(c, IF r.dryRun THEN "replace" ELSE "register")
  /\ op' = [op EXCEPT ![c] = "set"]
  /\ arg' = [arg EXCEPT ![c] = t]
  /\ req' = [req EXCEPT ![c] = r]
  /\ UNCHANGED <<tmMutex, transaction, done, old, tree, changes, todo, ctxDone, stores, budget>>

\* Mutant of RegisterTransaction: an ongoing transaction is replaced.
RegisterTransaction_Unchecked(c) ==
  /\ pc[c] = "register"
  /\ tmMutex = Free
  /\ transaction' = arg[c]
  /\ GoTo(c, "replace")
  /\ UNCHANGED <<locks, used, done, old, locals, ctxDone, stores, budget>>

\* RegisterTransaction, or ErrTransactionOngoing.  The context is looked at before tmMutex
\* is taken, so it may be cancelled by now.
RegisterTransaction(c) ==
  /\ pc[c] = "register"
  /\ tmMutex = Free
  /\ IF transaction = NoTx
     THEN /\ transaction' = arg[c]
          /\ GoTo(c, "replace")
          /\ UNCHANGED <<dmutex, locals, ctxDone>>
     ELSE Return(c) /\ UNCHANGED transaction
  /\ UNCHANGED <<tmMutex, used, done, old, stores, budget>>

\* ErrContextDone
RegisterContextDone(c) ==
  /\ pc[c] = "register"
  /\ c \in ctxDone
  /\ Return(c)
  /\ UNCHANGED <<tmMutex, manager, stores, budget>>

\* No intents and no replace: the guard is told Success and the transaction stays registered.
NoOp(c) ==
  /\ pc[c] = "replace"
  /\ req[c].replace = NoReplace /\ Named(req[c]) = {} /\ ~req[c].dryRun
  /\ Return(c)
  /\ UNCHANGED <<tmMutex, manager, stores, budget>>

SkipReplace(c) ==
  /\ pc[c] = "replace"
  /\ req[c].replace = NoReplace /\ Named(req[c]) # {}
  /\ GoTo(c, "copy")
  /\ UNCHANGED <<locks, manager, locals, ctxDone, stores, budget>>

\* replaceIntent up to the validation: it needs the running intent of the cache.
ReplaceIntent(c) ==
  /\ pc[c] = "replace"
  /\ req[c].replace # NoReplace
  /\ \/ /\ cachedRunning # EmptyConfig
        /\ GoTo(c, "replaceApply")
        /\ UNCHANGED <<locks, transaction, locals, ctxDone>>
     \/ Abort(c)    \* no running intent, or the validation fails
  /\ UNCHANGED <<used, done, old, stores, budget>>

\* Set() with TargetSourceReplace: the device ends up with exactly the replace content.
ReplaceApply(c) ==
  /\ pc[c] = "replaceApply"
  /\ device' = req[c].replace
  /\ GoTo(c, "replaceWriteBack")
  /\ UNCHANGED <<locks, manager, locals, ctxDone, running, runUpdated, cache, budget>>

ReplaceWriteBack(c) ==
  /\ pc[c] = "replaceWriteBack"
  /\ running' = req[c].replace
  /\ runUpdated' = {}
  /\ GoTo(c, "replaceStore")
  /\ UNCHANGED <<locks, manager, locals, ctxDone, device, cache, budget>>

\* Export the sync tree as it is now and store it, unless it is empty.
StoreRunning ==
  /\ cachedRunning' = IF running = EmptyConfig THEN cachedRunning ELSE running
  /\ UNCHANGED <<device, running, runUpdated, intents, nonRev>>

ReplaceStore(c) ==
  /\ pc[c] = "replaceStore"
  /\ StoreRunning
  /\ GoTo(c, "copy")
  /\ UNCHANGED <<locks, manager, locals, ctxDone, budget>>

\* The deferred TransactionGuard.Done() of a failed TransactionSet, which does not take
\* tmMutex, and the return of the handler.
Cleanup(c) ==
  /\ pc[c] = "cleanup"
  /\ IF req[c].dryRun THEN UNCHANGED transaction ELSE CleanupTransaction(arg[c])
  /\ Return(c)
  /\ UNCHANGED <<tmMutex, used, done, old, stores, budget>>

-----------------------------------------------------------------------------
(* lowlevelTransactionSet, for a TransactionSet, a TransactionCancel and a timer *)

CopySyncTree(p) ==
  /\ pc[p] = "copy"
  /\ tree' = [tree EXCEPT ![p] = [EmptyTree EXCEPT !.running = running, !.updated = runUpdated]]
  /\ GoTo(p, "load")
  /\ UNCHANGED <<locks, manager, op, arg, req, changes, todo, ctxDone, stores, budget>>

\* A tree with the intents of S imported from the cache.
WithIntents(t, S) ==
  [t EXCEPT !.intents = [i \in Intents |-> IF i \in S THEN intents[i] ELSE EmptyConfig],
            !.nonRevertive = nonRev \cap S]

\* With a cancelled context the cache stops sending and closes the channels, which the
\* reader takes for the end of the list: any part of the intents may have arrived.
LoadAllButRunningIntents(p) ==
  /\ pc[p] = "load"
  /\ \E S \in IF p \in ctxDone THEN SUBSET Intents ELSE {Intents} :
       tree' = [tree EXCEPT ![p] = WithIntents(@, S)]
  /\ GoTo(p, "merge")
  /\ UNCHANGED <<locks, manager, op, arg, req, changes, todo, ctxDone, stores, budget>>

\* The intents of the request are merged, their former content is kept for a rollback.
RecordOld(p) ==
  old' = IF p \in Clients /\ op[p] = "set"
         THEN [old EXCEPT ![arg[p]] =
                [i \in Intents |-> IF i \in Named(req[p]) THEN tree[p].intents[i] ELSE NoChange]]
         ELSE old

\* Validation passes; a dry run returns here.
MergeAndValidate(p) ==
  /\ pc[p] = "merge"
  /\ RecordOld(p)
  /\ IF req[p].dryRun THEN p \in Clients /\ Return(p)
     ELSE /\ GoTo(p, "apply")
          /\ changes' = [changes EXCEPT ![p] = Changes(tree[p], req[p])]
          /\ tree' = [tree EXCEPT ![p] = EmptyTree]
          /\ todo' = [todo EXCEPT ![p] = Named(req[p])]
          /\ UNCHANGED <<dmutex, op, arg, req, ctxDone>>
  /\ UNCHANGED <<tmMutex, transaction, used, done, stores, budget>>

\* ErrValidation
MergeInvalid(p) ==
  /\ pc[p] = "merge"
  /\ RecordOld(p)
  /\ Abort(p)
  /\ UNCHANGED <<used, done, stores, budget>>

\* applyIntent: the Set of the target
ApplyIntent(p) ==
  /\ pc[p] = "apply"
  /\ device' = Applied(device, changes[p])
  /\ GoTo(p, "persist")
  /\ UNCHANGED <<locks, manager, locals, ctxDone, running, runUpdated, cache, budget>>

Stored(i, content) == intents' = [intents EXCEPT ![i] = content]

\* IntentModify or IntentDelete for one intent of the transaction, in map order.
PersistIntent(p, i) ==
  /\ pc[p] = "persist"
  /\ i \in todo[p]
  /\ Stored(i, Exported(req[p].new[i]))
  /\ nonRev' = IF req[p].new[i].nonRevertive /\ Exported(req[p].new[i]) # EmptyConfig
               THEN nonRev \cup {i} ELSE nonRev \ {i}
  /\ todo' = [todo EXCEPT ![p] = @ \ {i}]
  /\ UNCHANGED <<locks, manager, pc, op, arg, req, tree, changes, ctxDone,
                 device, running, runUpdated, cachedRunning, budget>>

\* A failing IntentDelete is only logged.
PersistDeleteFails(p, i) ==
  /\ pc[p] = "persist"
  /\ i \in todo[p]
  /\ Exported(req[p].new[i]) = EmptyConfig
  /\ MayFail(p)
  /\ todo' = [todo EXCEPT ![p] = @ \ {i}]
  /\ UNCHANGED <<locks, manager, pc, op, arg, req, tree, changes, ctxDone, stores>>

\* A failing IntentModify ends the transaction, with the device already changed.
PersistModifyFails(p, i) ==
  /\ pc[p] = "persist"
  /\ i \in todo[p]
  /\ Exported(req[p].new[i]) # EmptyConfig
  /\ MayFail(p)
  /\ Abort(p)
  /\ UNCHANGED <<used, done, old, stores>>

\* Mutant of WriteBackSyncTree: deleted leaves stay in the sync tree.
WriteBackSyncTree_NoDeletes(p) ==
  /\ pc[p] = "persist"
  /\ todo[p] = {}
  /\ running' = Applied(running, [changes[p] EXCEPT !.deletes = {}])
  /\ runUpdated' = UpdatedAfter(running, runUpdated, changes[p])
  /\ GoTo(p, "store")
  /\ UNCHANGED <<locks, manager, locals, ctxDone, device, cache, budget>>

\* writeBackSyncTree under syncTreeMutex
WriteBackSyncTree(p) ==
  /\ pc[p] = "persist"
  /\ todo[p] = {}
  /\ running' = Applied(running, changes[p])
  /\ runUpdated' = UpdatedAfter(running, runUpdated, changes[p])
  /\ GoTo(p, "store")
  /\ UNCHANGED <<locks, manager, locals, ctxDone, device, cache, budget>>

\* writeBackSyncTree stores running, and lowlevelTransactionSet returns to its caller: a
\* TransactionSet starts the rollback timer, TransactionManager.Cancel and .Rollback are done.
StoreAndFinish(p) ==
  /\ pc[p] = "store"
  /\ StoreRunning
  /\ \/ /\ p \in Clients /\ op[p] = "set"
        /\ done' = [done EXCEPT ![arg[p]] = "open"]
        /\ pc' = [pc EXCEPT ![p] = "finish", ![arg[p]] = "select"]
        /\ UNCHANGED <<locks, transaction, locals, ctxDone>>
     \/ /\ p \in Clients /\ op[p] = "cancel"
        /\ CleanupTransaction(arg[p])
        /\ tmMutex' = Free
        /\ Return(p)
        /\ UNCHANGED done
     \/ p \in TxIds /\ RollbackEnds(p) /\ UNCHANGED done
  /\ UNCHANGED <<used, old, budget>>

\* TransactionGuard.Success() and the return of the handler
Finish(c) ==
  /\ pc[c] = "finish"
  /\ Return(c)
  /\ UNCHANGED <<tmMutex, manager, stores, budget>>

\* A call to the cache or to the device fails; a failing Set may have reached the device.
CallFails(p) ==
  /\ pc[p] \in {"load", "apply", "store", "replaceApply", "replaceStore"}
  /\ MayFail(p)
  /\ Abort(p)
  /\ \/ UNCHANGED device
     \/ pc[p] = "apply" /\ device' = Applied(device, changes[p])
     \/ pc[p] = "replaceApply" /\ device' = req[p].replace
  /\ UNCHANGED <<used, done, old, running, runUpdated, cache>>

-----------------------------------------------------------------------------
(* TransactionConfirm and TransactionCancel *)

\* Mutant of Call: the handler does not take dmutex.
Call_WithoutLock(c, name, t) ==
  /\ pc[c] = "idle"
  /\ t \in used
  /\ OtherIds \/ transaction \in {t, NoTx}
  /\ GoTo(c, name)
  /\ op' = [op EXCEPT ![c] = name]
  /\ arg' = [arg EXCEPT ![c] = t]
  /\ UNCHANGED <<locks, manager, req, tree, changes, todo, ctxDone, stores, budget>>

Call(c, name, t) ==
  /\ pc[c] = "idle"
  /\ dmutex = Free
  /\ t \in used
  /\ OtherIds \/ transaction \in {t, NoTx}
  /\ dmutex' = c
  /\ GoTo(c, name)
  /\ op' = [op EXCEPT ![c] = name]
  /\ arg' = [arg EXCEPT ![c] = t]
  /\ UNCHANGED <<tmMutex, manager, req, tree, changes, todo, ctxDone, stores, budget>>

TransactionConfirm(c, t) == Call(c, "confirm", t)

TransactionCancel(c, t) == Call(c, "cancel", t)

NoOngoingTransaction(c) ==
  /\ pc[c] \in {"confirm", "cancel"}
  /\ tmMutex = Free
  /\ transaction = NoTx
  /\ Return(c)
  /\ UNCHANGED <<tmMutex, manager, stores, budget>>

\* TransactionCancelTimer.Stop() on a channel that is not closed yet: the channel stays
\* closed until the timer's goroutine sees it.  Closing it twice panics, see Panic.
StopTimer(t) ==
  /\ done[t] # "closed"
  /\ done' = IF done[t] = "open" THEN [done EXCEPT ![t] = "closed"] ELSE done

\* TransactionManager.Confirm: stops the timer of the registered transaction, whatever the
\* id of the call, and then removes the transaction if it has that id.
Confirm(c) ==
  /\ pc[c] = "confirm"
  /\ tmMutex = Free
  /\ transaction # NoTx
  /\ StopTimer(transaction)
  /\ CleanupTransaction(arg[c])
  /\ Return(c)
  /\ UNCHANGED <<tmMutex, used, old, stores, budget>>

\* Mutant of RollbackRequest: an intent that was not there before is left alone.
RollbackRequest_OnlyExisting(t) ==
  [NoRequest EXCEPT !.new = [i \in Intents |->
     IF old[t][i] \in {NoChange, EmptyConfig} THEN NoChange
     ELSE [content |-> old[t][i], delete |-> FALSE, onlyIntended |-> FALSE,
           nonRevertive |-> FALSE, previouslyApplied |-> FALSE]]]

\* Transaction.GetRollbackTransaction without the stop of the timer: the old content of the
\* intents becomes their new content, with none of the intents' attributes.
RollbackRequest(t) ==
  [NoRequest EXCEPT !.new = [i \in Intents |->
     IF old[t][i] = NoChange THEN NoChange
     ELSE [content |-> old[t][i], delete |-> FALSE, onlyIntended |-> FALSE,
           nonRevertive |-> FALSE, previouslyApplied |-> FALSE]]]

\* TransactionManager.Cancel up to the rollback, which runs with tmMutex held.
Cancel(c) ==
  /\ pc[c] = "cancel"
  /\ tmMutex = Free
  /\ transaction # NoTx
  /\ StopTimer(transaction)
  /\ tmMutex' = c
  /\ req' = [req EXCEPT ![c] = RollbackRequest(transaction)]
  /\ GoTo(c, "copy")
  /\ UNCHANGED <<dmutex, transaction, used, old, op, arg, tree, changes, todo, ctxDone, stores, budget>>

-----------------------------------------------------------------------------
(* The goroutine of a TransactionCancelTimer *)

\* select: the delay is over.  Both channels may be ready, then either may be taken.
TimerFires(t) ==
  /\ TimersFire
  /\ pc[t] = "select"
  /\ GoTo(t, "fired")
  /\ UNCHANGED <<locks, manager, locals, ctxDone, stores, budget>>

TimerStopped(t) ==
  /\ pc[t] = "select"
  /\ done[t] = "closed"
  /\ done' = [done EXCEPT ![t] = "nil"]
  /\ GoTo(t, "exited")
  /\ UNCHANGED <<locks, transaction, used, old, locals, ctxDone, stores, budget>>

\* Transaction.rollback: GetRollbackTransaction is evaluated first, and stops the timer.
TimerRollback(t) ==
  /\ pc[t] = "fired"
  /\ StopTimer(t)
  /\ req' = [req EXCEPT ![t] = RollbackRequest(t)]
  /\ GoTo(t, "rollback")
  /\ UNCHANGED <<locks, transaction, used, old, op, arg, tree, changes, todo, ctxDone, stores, budget>>

\* Mutant of RollbackLock: the transaction is removed before it is rolled back.
RollbackLock_CleansUpFirst(t) ==
  /\ pc[t] = "rollback"
  /\ tmMutex = Free
  /\ tmMutex' = t
  /\ transaction' = NoTx
  /\ GoTo(t, "copy")
  /\ UNCHANGED <<dmutex, used, done, old, locals, ctxDone, stores, budget>>

\* TransactionManager.Rollback takes tmMutex.  Nothing on this path takes dmutex.
RollbackLock(t) ==
  /\ pc[t] = "rollback"
  /\ tmMutex = Free
  /\ tmMutex' = t
  /\ GoTo(t, "copy")
  /\ UNCHANGED <<dmutex, manager, locals, ctxDone, stores, budget>>

-----------------------------------------------------------------------------
(* Sync *)

\* The response of the device, imported into a tree of its own.
SyncGet(s) ==
  /\ pc[s] = "idle"
  /\ tree' = [tree EXCEPT ![s] = [EmptyTree EXCEPT !.running = device]]
  /\ GoTo(s, IF EmptyGetAborts /\ device = EmptyConfig THEN "idle" ELSE "got")
  /\ UNCHANGED <<locks, manager, op, arg, req, changes, todo, ctxDone, stores, budget>>

\* ApplyToRunning under syncTreeMutex: running becomes what the device answered, the flags are
\* reset, and the revert works on a copy.
ApplyToRunning(s) ==
  /\ pc[s] = "got"
  /\ running' = tree[s].running
  /\ runUpdated' = {}
  /\ GoTo(s, "revertLoad")
  /\ UNCHANGED <<locks, manager, locals, ctxDone, device, cache, budget>>

\* performRevert up to the question whether there is something to correct.
RevertLoad(s) ==
  /\ pc[s] = "revertLoad"
  /\ changes' = [changes EXCEPT ![s] = Changes(WithIntents(tree[s], Intents), NoRequest)]
  /\ tree' = [tree EXCEPT ![s] = EmptyTree]
  /\ GoTo(s, "decide")
  /\ UNCHANGED <<locks, manager, op, arg, req, todo, ctxDone, stores, budget>>

SyncReturns(s) == GoTo(s, "idle") /\ Clear(s) /\ UNCHANGED <<op, arg, ctxDone>>

\* performRevert: nothing to correct, or dmutex is taken and the cycle is skipped.
RevertSkip(s) ==
  /\ pc[s] = "decide"
  /\ changes[s] = NoChanges \/ dmutex # Free
  /\ SyncReturns(s)
  /\ UNCHANGED <<locks, manager, stores, budget>>

\* Mutant of RevertLock: the revert does not take dmutex.
RevertLock_Skipped(s) ==
  /\ pc[s] = "decide"
  /\ changes[s] # NoChanges
  /\ GoTo(s, "revert")
  /\ UNCHANGED <<locks, manager, locals, ctxDone, stores, budget>>

RevertLock(s) ==
  /\ pc[s] = "decide"
  /\ changes[s] # NoChanges
  /\ dmutex = Free
  /\ dmutex' = s
  /\ GoTo(s, "revert")
  /\ UNCHANGED <<tmMutex, manager, locals, ctxDone, stores, budget>>

RevertApply(s) ==
  /\ pc[s] = "revert"
  /\ device' = Applied(device, changes[s])
  /\ dmutex' = Free
  /\ SyncReturns(s)
  /\ UNCHANGED <<tmMutex, manager, running, runUpdated, cache, budget>>

\* Mutant of SyncFails: dmutex is not given back when the Set fails.
SyncFails_KeepsLock(s) ==
  /\ pc[s] \in {"got", "revertLoad", "revert"}
  /\ CountFault
  /\ SyncReturns(s)
  /\ UNCHANGED <<locks, manager, stores>>

\* Getting the device's configuration, loading the intents or the Set fails.
SyncFails(s) ==
  /\ pc[s] \in {"got", "revertLoad", "revert"}
  /\ CountFault
  /\ SyncReturns(s)
  /\ dmutex' = IF dmutex = s THEN Free ELSE dmutex
  /\ UNCHANGED <<tmMutex, manager, stores>>

-----------------------------------------------------------------------------
(* The environment *)

\* The client gives up or the RPC timeout expires.
CancelContext(c) ==
  /\ pc[c] # "idle"
  /\ c \notin ctxDone
  /\ CountFault
  /\ ctxDone' = ctxDone \cup {c}
  /\ UNCHANGED <<locks, manager, pc, locals, stores>>

DeviceChanges(p, v) ==
  /\ drifts < MaxDrifts
  /\ device[p] # v
  /\ drifts' = drifts + 1
  /\ device' = [device EXCEPT ![p] = v]
  /\ UNCHANGED <<locks, manager, pc, locals, ctxDone, running, runUpdated, cache, faults, crashes>>

\* The process ends and is started again: what it kept in memory is lost, the registered
\* transaction and its timer included; the sync tree starts empty.
Restart ==
  /\ dmutex' = Free /\ tmMutex' = Free
  /\ transaction' = NoTx
  /\ done' = [t \in TxIds |-> "nil"]
  /\ old' = [t \in TxIds |-> [i \in Intents |-> NoChange]]
  /\ pc' = [p \in Procs |-> IF p \in used THEN "exited" ELSE IF p \in TxIds THEN "none" ELSE "idle"]
  /\ op' = [c \in Clients |-> "none"]
  /\ arg' = [p \in Procs |-> IF p \in TxIds THEN p ELSE NoTx]
  /\ req' = [p \in Procs |-> NoRequest]
  /\ tree' = [p \in Procs |-> EmptyTree]
  /\ changes' = [p \in Procs |-> NoChanges]
  /\ todo' = [p \in Procs |-> {}]
  /\ ctxDone' = {}
  /\ running' = EmptyConfig /\ runUpdated' = {}
  /\ UNCHANGED <<used, device, cache>>

Crash ==
  /\ crashes < MaxCrashes
  /\ crashes' = crashes + 1
  /\ Restart
  /\ UNCHANGED <<faults, drifts>>

\* A panic ends the process: the done channel of the timer is closed for the second time by
\* Confirm, Cancel or the timer itself, or the nil guard of a dry run without intents is used.
Panic(p) ==
  /\ \/ /\ pc[p] \in {"confirm", "cancel"} /\ tmMutex = Free
        /\ transaction # NoTx /\ done[transaction] = "closed"
     \/ pc[p] = "fired" /\ done[p] = "closed"
     \/ /\ pc[p] = "replace" /\ req[p].dryRun
        /\ req[p].replace = NoReplace /\ Named(req[p]) = {}
  /\ Restart
  /\ crashes' = crashes + 1
  /\ UNCHANGED <<faults, drifts>>

-----------------------------------------------------------------------------
\* The steps of a process that has begun something, without failures.
ClientStep(c) ==
  \/ RegisterTransaction(c) \/ RegisterContextDone(c)
  \/ NoOp(c) \/ SkipReplace(c) \/ ReplaceIntent(c)
  \/ ReplaceApply(c) \/ ReplaceWriteBack(c) \/ ReplaceStore(c)
  \/ Cleanup(c) \/ Finish(c)
  \/ NoOngoingTransaction(c) \/ Confirm(c) \/ Cancel(c)

LowlevelStep(p) ==
  \/ CopySyncTree(p) \/ LoadAllButRunningIntents(p)
  \/ MergeAndValidate(p) \/ MergeInvalid(p) \/ ApplyIntent(p)
  \/ \E i \in Intents : PersistIntent(p, i)
  \/ WriteBackSyncTree(p) \/ StoreAndFinish(p)

TimerStep(t) == TimerFires(t) \/ TimerStopped(t) \/ TimerRollback(t) \/ RollbackLock(t)

SyncStep(s) ==
  \/ SyncGet(s) \/ ApplyToRunning(s) \/ RevertLoad(s)
  \/ RevertSkip(s) \/ RevertLock(s) \/ RevertApply(s)

Calls(c) ==
  \/ \E t \in TxIds, r \in Requests : TransactionSet(c, t, r)
  \/ \E t \in TxIds : TransactionConfirm(c, t) \/ TransactionCancel(c, t)

Failures ==
  \/ \E p \in Clients \cup TxIds :
       \/ CallFails(p)
       \/ \E i \in Intents : PersistDeleteFails(p, i) \/ PersistModifyFails(p, i)
  \/ \E s \in Syncs : SyncFails(s)
  \/ \E c \in Clients : CancelContext(c)
  \/ \E p \in Paths, v \in Values \cup {NoValue} : DeviceChanges(p, v)
  \/ Crash
  \/ \E p \in Clients \cup TxIds : Panic(p)

Next ==
  \/ \E c \in Clients : Calls(c) \/ ClientStep(c)
  \/ \E p \in Clients \cup TxIds : LowlevelStep(p)
  \/ \E t \in TxIds : TimerStep(t)
  \/ \E s \in Syncs : SyncStep(s)
  \/ Failures

Spec == Init /\ [][Next]_vars

\* Process p can take a step of its own.  A sync waits for its ticker when it is idle.
CanStep(p) ==
  CASE pc[p] \in {"register", "confirm", "cancel", "rollback"} -> tmMutex = Free
    [] pc[p] = "select" -> TimersFire \/ done[p] = "closed"
    [] pc[p] = "idle" -> p \in Syncs /\ ~(EmptyGetAborts /\ device = EmptyConfig)
    [] OTHER -> pc[p] \notin {"none", "exited"}

\* Weak fairness of every process: a goroutine that can go on is scheduled eventually, a timeout
\* expires, the ticker of the sync starts the next cycle.  Clients need not call, and nothing
\* has to fail.  It is written with CanStep because every step of p changes pc[p] or todo[p].
Fairness ==
  \A p \in Procs :
    []<>~CanStep(p) \/ []<><<pc'[p] # pc[p] \/ todo'[p] # todo[p]>>_vars

FairSpec == Spec /\ Fairness

-----------------------------------------------------------------------------
(* Properties *)

ClientLabels == {"idle", "register", "replace", "replaceApply", "replaceWriteBack",
  "replaceStore", "cleanup", "finish", "confirm", "cancel"}
LowlevelLabels == {"copy", "load", "merge", "apply", "persist", "store"}
TimerLabels == {"none", "select", "fired", "rollback", "exited"}
SyncLabels == {"idle", "got", "revertLoad", "decide", "revert"}

\* The locks, the manager and the control of the processes have their types.
ControlOK ==
  /\ dmutex \in Clients \cup Syncs \cup {Free} /\ tmMutex \in Clients \cup TxIds \cup {Free}
  /\ transaction \in TxIds \cup {NoTx}
  /\ used \subseteq TxIds
  /\ done \in [TxIds -> {"nil", "open", "closed"}]
  /\ pc \in [Procs -> ClientLabels \cup LowlevelLabels \cup TimerLabels \cup SyncLabels]
  /\ \A c \in Clients : pc[c] \in ClientLabels \cup LowlevelLabels
  /\ \A t \in TxIds : pc[t] \in TimerLabels \cup LowlevelLabels
  /\ \A s \in Syncs : pc[s] \in SyncLabels
  /\ op \in [Clients -> {"none", "set", "confirm", "cancel"}]
  /\ arg \in [Procs -> TxIds \cup {NoTx}]

\* The configurations and requests have their types.
DataOK ==
  /\ old \in [TxIds -> [Intents -> Config \cup {NoChange}]]
  /\ req \in [Procs -> Request]
  /\ tree \in [Procs -> Tree]
  /\ changes \in [Procs -> [updates : Config, deletes : SUBSET Paths]]
  /\ todo \in [Procs -> SUBSET Intents]
  /\ ctxDone \subseteq Clients \cup TxIds
  /\ device \in Config /\ running \in Config /\ cachedRunning \in Config
  /\ runUpdated \subseteq Paths
  /\ intents \in [Intents -> Config] /\ nonRev \subseteq Intents
  /\ faults \in Nat /\ crashes \in Nat /\ drifts \in Nat

\* p is between the copy of the sync tree and the write back of a real transaction, or in the
\* replace that precedes it.
InTransaction(p) ==
  /\ pc[p] \in LowlevelLabels \cup {"replaceApply", "replaceWriteBack", "replaceStore"}
  /\ ~req[p].dryRun

\* At most one transaction, cancel or automatic rollback works on the tree, the device and the
\* cache at any time.  Neither lock alone gives this: a TransactionSet holds only dmutex there,
\* a rollback of the timer only tmMutex.
TransactionExclusion ==
  \A p, q \in Clients \cup TxIds : InTransaction(p) /\ InTransaction(q) => p = q

\* Where a dry run can be.
DryLabels == {"replace", "replaceApply", "replaceWriteBack", "replaceStore",
              "copy", "load", "merge", "cleanup"}

\* What a client's place says about the locks, the manager and the timer of its transaction.
ClientInv(c) ==
  /\ pc[c] \in ClientLabels \ {"idle", "confirm", "cancel"} => op[c] = "set"
  /\ pc[c] \in LowlevelLabels => op[c] \in {"set", "cancel"}
  /\ pc[c] \in {"confirm", "cancel"} => op[c] = pc[c]
  /\ pc[c] = "idle" => op[c] = "none"
  /\ req[c].dryRun => op[c] = "set" /\ pc[c] \in DryLabels
  /\ pc[c] # "idle" /\ ~req[c].dryRun => dmutex = c
  /\ op[c] = "set" => arg[c] \in used
  /\ op[c] = "set" /\ pc[c] # "finish" => pc[arg[c]] = "none"
  /\ op[c] = "set" /\ pc[c] \notin {"register", "finish"} /\ ~req[c].dryRun => transaction = arg[c]
  /\ op[c] = "cancel" /\ pc[c] \in LowlevelLabels =>
       /\ tmMutex = c
       /\ transaction # NoTx
       /\ done[transaction] # "open"
       /\ pc[transaction] \in {"none", "select", "fired", "exited"}

\* A timer that got past Stop() belongs to the registered transaction, and its channel is closed.
TimerInv(t) ==
  /\ t \notin used => pc[t] = "none"
  /\ pc[t] = "none" => done[t] = "nil"
  /\ pc[t] \in {"select", "fired"} => done[t] # "nil"
  /\ done[t] = "open" => transaction = t
  /\ pc[t] \in {"rollback"} \cup LowlevelLabels => transaction = t /\ done[t] = "closed"
  /\ pc[t] \in LowlevelLabels => tmMutex = t
  /\ ~req[t].dryRun

\* The holders of the locks, and no transaction of two clients.
LockInv ==
  /\ tmMutex # Free => pc[tmMutex] \in LowlevelLabels
  /\ \A c \in Clients : tmMutex = c => op[c] = "cancel"
  /\ \A s \in Syncs : dmutex = s <=> pc[s] = "revert"
  /\ \A s \in Syncs : ~req[s].dryRun
  /\ transaction # NoTx => transaction \in used
  /\ \A c, d \in Clients : op[c] = "set" /\ op[d] = "set" /\ c # d => arg[c] # arg[d]

\* The inductive invariant behind TransactionExclusion: dmutex keeps clients apart, tmMutex keeps
\* rollbacks apart, and the registered transaction keeps a client and a timer apart, because a
\* timer passes Stop() only while its own transaction is registered.
ControlInv ==
  /\ \A c \in Clients : ClientInv(c)
  /\ \A t \in TxIds : TimerInv(t)
  /\ LockInv

\* The control has its types, and who holds a lock, which transaction is registered and which
\* channel is open follow from where the processes stand.
LockDiscipline == ControlOK /\ ControlInv

\* p is about to send something to the device.
InSet(p) == pc[p] \in {"apply", "replaceApply", "revert"}

\* Of the processes that take dmutex, at most one is about to call the target's Set.
DmutexSerializes ==
  \A p, q \in Clients \cup Syncs :
    InSet(p) /\ InSet(q) /\ ~req[p].dryRun /\ ~req[q].dryRun => p = q

\* The intents of the cache change only while a transaction is registered, and only those the
\* transaction names.
StoreChangesOnlyInTransaction ==
  [][\A i \in Intents : intents'[i] # intents[i] =>
       /\ transaction # NoTx
       /\ \E p \in Clients \cup TxIds : pc[p] = "persist" /\ i \in Named(req[p])]_vars

\* The value the intents of the cache ask for at a leaf.
Intended(p) ==
  LET holders == {i \in Intents : intents[i][p] # NoValue}
  IN  IF holders = {} THEN NoValue
      ELSE intents[CHOOSE i \in holders : \A j \in holders : PrioOf[i] <= PrioOf[j]][p]

\* The deferred cleanup of a failed TransactionSet changes the manager without tmMutex.  Nobody
\* else is inside the manager then, or waits to get in.
CleanupIsAlone ==
  \A c \in Clients : pc[c] = "cleanup" /\ ~req[c].dryRun =>
    /\ tmMutex = Free
    /\ transaction = arg[c]
    /\ \A q \in (Clients \cup TxIds) \ {c} : pc[q] \notin {"register", "confirm", "cancel", "rollback"}

\* Every call returns: the order in which dmutex and tmMutex are taken cannot block a caller
\* for good, and a held dmutex is given back.
CallsReturn == \A c \in Clients : pc[c] # "idle" ~> pc[c] = "idle"

\* Once its timeout has expired a transaction does not stay registered, even if the rollback
\* has to wait for tmMutex or fails.
ExpiredTransactionEnds == \A t \in TxIds : pc[t] = "fired" ~> transaction # t

\* Once the clients are quiet, reverts bring every leaf that an intent asks for to the intent's
\* value, whatever failed, crashed or changed on the device before.
Converges ==
  <>[](\A c \in Clients : pc[c] = "idle") =>
  <>[](\A p \in Paths : Intended(p) # NoValue => device[p] = Intended(p))

\* transaction_rpc.go: "if it is a dry run, return now, skipping updating the device or the
\* cache".  No step of a dry run changes the device.
DryRunHasNoEffect ==
  [][\A c \in Clients : req[c].dryRun /\ pc'[c] # pc[c] => device' = device]_vars

\* PRD of the sync revert fix: "dmutex.TryLock is the universal southbound set-path lock".  No
\* two processes are about to send something to the device.
SouthboundExclusion ==
  \A p, q \in Procs : InSet(p) /\ InSet(q) /\ ~req[p].dryRun /\ ~req[q].dryRun => p = q

\* PRD of the sync revert fix: the cycle after a transaction "sees consistent desired state".
\* What a revert changes on the device is what the intents of the cache ask for.
RevertAppliesIntents ==
  [][\A s \in Syncs, p \in Paths :
       pc[s] = "revert" /\ pc'[s] = "idle" /\ device'[p] # device[p]
       => device'[p] = Intended(p)]_vars

\* transaction_rpc.go, TransactionConfirm: "everything remains as is".  Confirming, cancelling
\* and the timeout in any order do not bring the server down.
NoPanic == crashes = 0

\* Transaction.timer, "timer that triggers auto rollback": a transaction that stays registered
\* with nobody at work on it still has the goroutine that would roll it back.
RegisteredTransactionIsArmed ==
  tmMutex = Free /\ transaction # NoTx => pc[transaction] # "exited"
=============================================================================
