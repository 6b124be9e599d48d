------------------------- MODULE DatastoreHistory -------------------------
(***************************************************************************)
(* Datastore with a history variable: before keeps the intents of the      *)
(* cache as they were when the last transaction was registered.  It says   *)
(* what a rollback has to bring back, and shows that Transaction.oldIntents *)
(* together with the cache is enough to bring it back.                     *)
(***************************************************************************)
EXTENDS Datastore

VARIABLE before

HInit == Init /\ before = intents

HNext ==
  /\ Next
  /\ before' = IF transaction' # NoTx /\ transaction' # transaction THEN intents ELSE before

HSpec == HInit /\ [][HNext]_<<vars, before>>

\* When a TransactionCancel has stored what it rolled back, no call of a client or a sync failed
\* and no request was cancelled, the intents are as they were when the transaction was
\* registered: whatever other clients, timers, syncs, dry runs and the device do in between, and
\* however often the server was restarted before.
CancelRestoresIntents ==
  faults = 0 =>
    \A c \in Clients : op[c] = "cancel" /\ pc[c] = "store" => intents = before

-----------------------------------------------------------------------------
(* The inductive invariant behind it. *)

\* The intents of which t has kept the former content.
Recorded(t) == {i \in Intents : old[t][i] # NoChange}

\* The former content and the cache together are the intents before t.
Restorable(t) ==
  \A i \in Intents : before[i] = IF i \in Recorded(t) THEN old[t][i] ELSE intents[i]

\* Where a TransactionSet has not recorded anything yet.
Unrecorded == {"register", "replace", "replaceApply", "replaceWriteBack", "replaceStore",
               "copy", "load", "merge"}

\* From the changes being computed to the intents being stored.
Writing == {"apply", "persist", "store"}

\* A TransactionSet records once, a dry run never for the registered transaction, and a cancel
\* executes the rollback of the registered transaction.
ClientKeeps(c) ==
  /\ op[c] = "set" /\ pc[c] \in Unrecorded => Recorded(arg[c]) = {}
  /\ req[c].dryRun => arg[c] # transaction
  /\ op[c] = "cancel" /\ pc[c] \in LowlevelLabels => req[c] = RollbackRequest(transaction)

\* A timer executes the rollback of its own transaction.
TimerKeeps(t) ==
  /\ t \notin used => Recorded(t) = {}
  /\ pc[t] \in {"rollback"} \cup LowlevelLabels => req[t] = RollbackRequest(t)

\* What is about to be stored has been recorded.
StoresRecorded(p) ==
  /\ pc[p] \in Writing => todo[p] \subseteq Recorded(transaction)
  /\ pc[p] = "store" => todo[p] = {}

\* Without failures, a TransactionSet has loaded the cache when it merges, and a cancel has
\* brought back what it has stored or did not have to store.
ClientRestores(c) ==
  /\ c \notin ctxDone
  /\ op[c] = "set" /\ pc[c] = "merge" /\ ~req[c].dryRun => tree[c].intents = intents
  /\ op[c] = "cancel" /\ pc[c] \in Writing =>
       \A i \in Intents \ todo[c] : intents[i] = before[i]

RestoreInv ==
  /\ \A c \in Clients : ClientKeeps(c)
  /\ \A t \in TxIds : TimerKeeps(t)
  /\ \A p \in Clients \cup TxIds : StoresRecorded(p)
  /\ faults = 0 =>
       /\ transaction # NoTx => Restorable(transaction)
       /\ \A c \in Clients : ClientRestores(c)
=============================================================================
