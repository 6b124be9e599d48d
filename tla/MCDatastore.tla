---------------------------- MODULE MCDatastore ----------------------------
(***************************************************************************)
(* Instances of Datastore, with its history, for TLC.  The variable scope, *)
(* chosen at the start, bounds what happens in a behaviour, so that one    *)
(* run covers several small worlds.                                        *)
(***************************************************************************)
EXTENDS DatastoreHistory, TLC

CONSTANTS i1, i2, p1, p2, v1, v2,
          Scopes  \* the worlds of the run

VARIABLE scope

AnIntentPrio == [i \in Intents |-> IF i = i1 THEN 10 ELSE 5]

At(p, v) == [q \in Paths |-> IF q = p THEN v ELSE NoValue]

NewContent(content) ==
  [content |-> content, delete |-> FALSE, onlyIntended |-> FALSE,
   nonRevertive |-> FALSE, previouslyApplied |-> FALSE]

Deletion(orphan) ==
  [content |-> EmptyConfig, delete |-> TRUE, onlyIntended |-> orphan,
   nonRevertive |-> FALSE, previouslyApplied |-> FALSE]

Only(i, change) ==
  [NoRequest EXCEPT !.new = [j \in Intents |-> IF j = i THEN change ELSE NoChange]]

\* Two intents on one leaf: set, change and delete each, both in one transaction.
SetAndDelete ==
  {Only(i1, NewContent(At(p1, v1))), Only(i1, NewContent(At(p1, v2))), Only(i1, Deletion(FALSE)),
   Only(i2, NewContent(At(p1, v2))), Only(i2, Deletion(FALSE)),
   [NoRequest EXCEPT !.new = [i \in Intents |->
      IF i = i1 THEN NewContent(At(p1, v2)) ELSE Deletion(FALSE)]]}

\* One intent on one leaf.
OneIntent == {Only(i1, NewContent(At(p1, v1))), Only(i1, Deletion(FALSE))}

\* Every kind of request: new content, deletion, orphan, non-revertive, dry run, replace, none.
EveryKind ==
  {Only(i1, NewContent(At(p1, v1))), Only(i1, Deletion(TRUE)),
   Only(i1, [NewContent(At(p1, v1)) EXCEPT !.nonRevertive = TRUE, !.previouslyApplied = TRUE]),
   [Only(i1, NewContent(At(p1, v1))) EXCEPT !.dryRun = TRUE],
   [Only(i1, Deletion(FALSE)) EXCEPT !.replace = At(p1, v1)],
   [NoRequest EXCEPT !.replace = At(p1, v1), !.dryRun = TRUE],
   NoRequest, [NoRequest EXCEPT !.dryRun = TRUE]}

AllRequests == SetAndDelete \cup OneIntent \cup EveryKind

Symmetry == Permutations(Clients) \cup Permutations(TxIds) \cup Permutations(Syncs)

\* Two clients and three transactions on two intents; nothing fails and no timeout expires.
Transactions ==
  [name |-> "transactions", requests |-> SetAndDelete, clients |-> 2, syncs |-> 0, txs |-> 3,
   timers |-> FALSE, faults |-> 0, crashes |-> 0, drifts |-> 0]

\* Every kind of request with timeouts, a failing call and a crash.
Faulty ==
  [name |-> "faults", requests |-> EveryKind, clients |-> 2, syncs |-> 0, txs |-> 2,
   timers |-> TRUE, faults |-> 1, crashes |-> 1, drifts |-> 0]

\* A sync against one transaction, its timer, a failing call and a change on the device.
Syncing ==
  [name |-> "sync", requests |-> OneIntent, clients |-> 1, syncs |-> 1, txs |-> 1,
   timers |-> TRUE, faults |-> 1, crashes |-> 0, drifts |-> 1]

SafetyScopes == {Transactions, Faulty, Syncing}

\* What the constants of the instance allow.
Everything ==
  [name |-> "everything", requests |-> Requests, clients |-> Cardinality(Clients),
   syncs |-> Cardinality(Syncs), txs |-> Cardinality(TxIds), timers |-> TimersFire,
   faults |-> MaxFaults, crashes |-> MaxCrashes, drifts |-> MaxDrifts]

OneScope == {Everything}

Active(P, label) == Cardinality({p \in P : label[p] # "idle"})

\* A step stays within the scope.
InScope ==
  /\ Cardinality(used') <= scope.txs
  /\ Active(Clients, pc') <= scope.clients
  /\ Active(Syncs, pc') <= scope.syncs
  /\ \A t \in TxIds : pc'[t] = "fired" => scope.timers
  /\ \A c \in Clients : pc[c] = "idle" => req'[c] \in scope.requests \cup {NoRequest}
  /\ faults' <= scope.faults /\ drifts' <= scope.drifts
  /\ crashes' > scope.crashes => crashes' = crashes \/ \E p \in Clients \cup TxIds : Panic(p)

MCInit == HInit /\ scope \in Scopes

MCNext ==
  /\ HNext
  /\ InScope
  /\ UNCHANGED scope

MCSpec == MCInit /\ [][MCNext]_<<vars, before, scope>>

MCFairSpec == MCSpec /\ Fairness

\* Transactions with new content or deletions, and nothing that disturbs them.
Undisturbed == scope.name = "transactions"

\* No process is in the middle of something, and none ever was when the server went down.
Quiet == crashes = 0 /\ \A p \in Procs : pc[p] \in {"idle", "none", "select", "exited"}

\* When nothing is in progress the device has exactly the values of the most preferred intents,
\* and the optimistic write back has brought the sync tree and the stored running intent to the
\* same state, through any sequence of transactions, confirms and cancels.  Everything stored,
\* computed or requested is of its type.
StoresAgree ==
  /\ DataOK
  /\ Undisturbed /\ Quiet =>
       /\ device = [p \in Paths |-> Intended(p)]
       /\ running = device
       /\ running # EmptyConfig => cachedRunning = running

\* Transaction.timer, "timer that triggers auto rollback": when the rollback of the timer is
\* over, and was not refused by the validation, the intents are as they were before the
\* transaction.
AutoRollbackRestoresIntents ==
  [][\A t \in TxIds :
       pc[t] \in LowlevelLabels \ {"merge"} /\ pc'[t] = "exited" /\ crashes' = crashes
       => intents' = before]_<<vars, before, scope>>
=============================================================================
