# A verification project for the data server

The data server keeps, for every network device it manages, a *datastore*: the intents clients
have set, the running configuration of the device, and the connection to the device. This
directory holds TLA+ modules that model its parts, TLC configurations that check them on small
instances, and proofs checked by TLAPS.

## The system and its modules

| Part | Source | Modules |
|---|---|---|
| transactions, rollback timer, guard | `pkg/datastore/transaction_rpc.go`, `pkg/datastore/types/` | `Datastore`, `DatastoreHistory`, `DatastoreProofs`, `DatastoreCancelProofs` |
| sync into running, revert | `pkg/datastore/sync.go` | `Datastore`, `TreeTransaction` |
| leaf variants | `pkg/tree/api/leaf_variants.go`, `leaf_entry.go` | `LeafVariants` |
| a transaction as one leaf sees it | `pkg/tree/root_entry.go`, `pkg/tree/processors/` | `LeafTransaction` |
| configuration tree, choices, export, deviations, blame | `pkg/tree/`, `pkg/tree/ops/`, `pkg/tree/processors/` | `ConfigTree`, `TreeTransaction` |
| validation | `pkg/tree/ops/validation/` | `Validation` |
| worker pools | `pkg/pool/` | `WorkerPool`, `WorkerPoolProofs`, `WorkerCountProofs` |
| gNMI stream sync | `pkg/datastore/target/gnmi/stream.go` | `StreamSync`, `RunningFeed`, `StreamSyncProofs` |
| NETCONF target and syncs | `pkg/datastore/target/netconf/` | `NetconfTarget`, `NetconfProofs` |
| server, datastore map, life cycle, deviation manager | `pkg/server/`, `pkg/datastore/datastore_rpc.go`, `deviations.go` | `DataServer`, `DataServerProofs` |
| schema clients | `pkg/schema/remote.go`, `pkg/datastore/clients/schema/`, `pkg/server/schema.go` | `SchemaClients`, `SchemaClientsProofs` |

The modules `MC...` give the constants their values for TLC.

A client calls TransactionSet. It takes `dmutex` without waiting, registers with the transaction
manager (`tmMutex`), copies the sync tree, loads the intents of the cache, merges the new ones,
validates the tree, sends the difference to the device, stores the intents, writes running back and
starts a rollback timer. TransactionConfirm ends the transaction, TransactionCancel or the timer roll
it back. Sync goroutines read the device, replace running and revert what differs from the intents.
Everything that walks the tree does so with tasks of a worker pool. The targets (gNMI, NETCONF) hold
the connection; the server holds the map of datastores; the schema clients answer what the tree asks
of the schema.

The parts meet in three places. `Datastore` uses the operators of `LeafVariants` to decide what a
transaction or a revert sends for a leaf. `ConfigTree` uses the same operators at the leafs of a tree,
and `TreeTransaction` and `Validation` run whole transactions on it. `StreamSync` is shown to implement
`RunningFeed`, which says what a target may do to running.

### How state and actions correspond to the code

**`Datastore`.** Processes are clients, sync goroutines and the timer goroutine of every
transaction. A step is the code between two points where another process can interfere: a lock,
a call to the cache, a call to the device. `pc[p]` is where a process stands, `tree[p]` its private
tree, `changes[p]` what it computed for the device. A path is one leaf. Failures are a call that fails,
a cancelled request, a crash with restart, a panic (closing a closed channel, using the guard a dry
run does not have), and a change on the device by somebody else. The verdict of the validation is a
free choice here. `DatastoreHistory` adds a history variable, `before`: the intents of the cache when the
last transaction was registered, which is what a rollback has to bring back.

**`LeafVariants`.** The entries of one leaf as a sequence in insertion order, with the queries
CanDelete, ShouldDelete, RemainsToExist, GetHighestPrecedence and GetDeviations as operators.
**`LeafTransaction`** takes one leaf from the copied sync tree through loading, merging and
FinishInsertionPhase, for every combination of flags, values and priorities, with the intents loaded in
any order.

**`ConfigTree`, `TreeTransaction`.** A tree is the set of its entries, the variants of its leafs and
what the choice resolvers remember. Import, merge, deletion, FinishInsertionPhase, GetDeletes, TreeExport
and the encodings are operators. A leaf-list that is sent over XML replaces the element it is in
(`operation="replace"`); a list entry that is replaced is filled up with the rest of its leafs when the
operations carry their namespace, a container is not. XML with and without namespace are therefore two
encodings of the model. A device that gets several cases of a choice in one edit-config keeps one of them,
whichever. A transaction, a sync with its revert, and the reads of the
running intent are one step each, because `Datastore` gives each of them the tree for itself.

**`Validation`.** Every validator on the tree of a transaction with two intents. The statements of
the schema are constants. As in the code, the validators of lengths, patterns and leafrefs look at leafs
only, and the validator of lengths demands every part of a length.

**`WorkerPool`.** The queue, the workers, the monitor of the pool and the virtual pools (groups).
Processes are workers, the owner of each group, the monitor and whoever closes the pool; a step is one
atomic operation or one critical section. Tasks form a tree, as in the processors that walk the
configuration tree. A condition variable is the set of those who wait. Validation and GetDeviations
ignore the error of a nested submission; their groups are of the kind `lenient`.

**`StreamSync`.** The subscription, the pool tasks that convert notifications, `updChan`, the loop that
builds the sync tree, and the goroutines that commit it. Notifications are numbered; a tree remembers
which ones it was built from.

**`NetconfTarget`.** Set with edit, commit and discard, the two goroutines of a sync, and the reconnect
goroutines, on one driver. Sets may overlap: a transaction or a revert is in Set with `dmutex`, the
rollback of a timer with `tmMutex` only, and the device has one candidate that nobody locks. A
configuration is the set of the Sets it contains; the history variable `overlap` remembers which Sets were
in progress together.

**`DataServer`.** Start-up, the map of datastores and its lock, create and delete step by step, the
connection, TransactionSet calls that look a datastore up, the streams of WatchDeviations and the
manager that serves them. Calls that create and delete the same name may overlap, since the map is locked
only to look at it and to change it; the history variable `overlapped` remembers the datastores whose
creation overlapped another call of the name.

**`SchemaClients`.** GetSchema through the cache of the remote client, DeleteSchema, reloads, expiry, and
the index of Retrieve with its lock.

## Runs

| Run | Shows |
|---|---|
| `datastore_safety` | who holds which lock where, exclusion of transactions, cancels and rollbacks, the unlocked cleanup is alone, `dmutex` serialises clients and reverts, device, running and cache agree, a cancel restores the intents |
| `datastore_progress` | every call returns, every expired transaction is unregistered, and when clients are quiet reverts bring the device to the intents |
| `leaf_transaction` | the queries of a leaf agree, a revert after a transaction without explicit deletes finds nothing, the remaining intent is on the device; the last two where at most one deleted entry precedes the remaining ones |
| `worker_pool` | a tree walk with a failing task, a cancellation and a shutdown: Wait means drained, a walk without an error is complete, owners and workers end |
| `stream_sync` | the goroutines implement `RunningFeed`, commits overlap only because of SyncResponses, running follows the device, notifications are settled |
| `netconf_session` | drivers are closed before they are replaced, a refused Set reaches the device only with the commit of a Set that overlapped it, a Set without an error is committed unless a Set that overlapped it discarded the candidate or the device restarted, lost transports are recovered from |
| `data_server` | nothing runs before its clients, no datastore runs from behind the map and every listed one has its cache unless its creation overlapped another call of the name, streams see bracketed events, calls return and streams are served |
| `schema_clients` | descriptions are given to those who asked, a deleted schema leaves the cache, calls return, stale entries expire |
| `tree` | winners reach the device, unmanaged leafs stay, the write back matches, a sync restores the winners, deviations and blame agree with the revert; what the encodings cost is excepted, see below |
| `validation` | what is accepted is valid, what is refused is not, what was accepted can be set again; what no validator looks at is excepted, see below |
| `datastore_dryrun` (violation) | a dry run with a replace intent changes the device |
| `validation_range` (violation) | an intent that is removed brings the value of another to the device unchecked |

### Other disagreements between code and comments

More configurations reproduce a disagreement and are kept beside the runs. Each checks one property,
and TLC finds it violated.

| Configuration | What the code does |
|---|---|
| `Datastore_southbound` | the rollback of a timer sends to the device next to a revert |
| `Datastore_revert` | a revert computed before a transaction is applied after it |
| `Datastore_panic` | a confirm racing the end of the delay closes a channel twice |
| `Datastore_autorollback` | the automatic rollback runs with a cancelled context |
| `LeafTransaction_second` | when a transaction deletes two of three intents, the remaining one may not reach the device |
| `WorkerPool_pair` | with two tasks submitted by the owner, Wait returns while one is running |
| `StreamSync_flag` | `syncRunning` is false while a commit is in flight |
| `NetconfTarget_commit` | a refused commit leaves the edit in the candidate |
| `NetconfTarget_overlap` | a Set returns without an error although an overlapping one discarded its edit |
| `DataServer_overlap` | two overlapping creations of a name leave a datastore running that is not in the map |
| `SchemaClients_once` | a path of the index is fetched twice |
| `TreeTransaction_presence` | giving up a presence container removes a leaf of another intent in it |
| `TreeTransaction_path` | an explicit delete of a missing path ends the process |
| `TreeTransaction_xml` | over XML the leafs of several cases of a choice are sent |
| `TreeTransaction_replace` | over XML a leaf-list that is sent empties the container it is in |
| `Validation_leaflist` | lengths, patterns and leafrefs of leaf-lists are not looked at |

The properties of the runs are stated next to these. Each exception is a set defined beside the property
and no larger than what the code causes:

* `WinnerOnDevice`, `UnmanagedStays`, `WriteBackMatches` and `SyncRestores` except, each where it applies,
  the leafs of a choice with several cases asked for over XML (`Disputed`), what an element replaced
  without refill loses (`Emptied`), in a filled up list entry the leafs whose best intent withdraws
  (`FilledUp`, `Withdrawn`), what goes with a presence container nobody has any more (`GivenUp`), a presence
  container that the device lost (`SentOnce`: JSON and XML send one only while it is new), and for the write
  back a list entry deleted over XML while a leaf in it is flagged as updated (`RenewedInVain`).
* `AcceptedIsValid` and `RejectionIsJustified` except transactions in which a validator sees a value that is
  being withdrawn (`SeenStale`; `validation_range` shows why), and `RejectionIsJustified` and
  `RetryIsAccepted` the lengths of several parts (`Split`).

In `WorkerPool_pair` a worker decrements the counter of the group to zero before the owner submits its
second task, and acts on the zero after the owner closed the group (`decrementInflight`). Outside the
tests every owner that waits submits one task, the root of the tree it walks.

Without a configuration of their own: with `EmptyGetAborts` set, `Converges` fails, because the gNMI get
sync gives up on an empty device. `RegisteredTransactionIsArmed` fails: a confirm with another id, or a
cancel whose rollback fails, leaves the transaction registered with its timer stopped.
`CancelEndsWorkers` fails: nothing wakes an idle pool when its context is cancelled.
`MapReadHoldsLock` fails: TransactionSet and the intent calls read the map without its lock.
`WriteBackIsComplete` fails: in a choice the write back may keep the leafs of the case the device has
dropped. `EveryWinnerOnDevice` fails with the scopes `RefillScopes` too: a list entry is filled up with a value
that is being withdrawn. `EveryRejectionIsJustified` fails with the scopes `LengthScopes`: a value in one part
of a length is refused because it is not in the others.

### Bounds

Bounds are chosen per run so that every action fires and the cases the properties are about occur.

* `datastore_safety` covers three small worlds in one run. In the first, two clients run three
  transactions on two intents of different priority, so that one follows a cancelled and a confirmed one.
  In the second, two clients send every kind of request, with timers, a failing call and a crash. In the
  third, a sync runs against a transaction, its timer, a failing call and a change on the device. One leaf
  is enough because leafs do not influence each other in this module; two values tell changed from
  unchanged. Clients, transactions and syncs are interchangeable, so symmetry over them is sound;
  `datastore_progress` does not use it. Transaction ids are not reused.
* `leaf_transaction` has two intents with two priorities and two values and every combination of flags, and
  three intents of different priorities, loaded in any order.
* `worker_pool` has a root and two children and two workers, so that two tasks run while a third is
  queued. The pool is closed when the owners have submitted their tasks, which is what the comment of
  `CloseForSubmit` asks of the caller.
* `stream_sync` has two notifications on two leafs, two SyncResponses, one or two workers, a channel of one
  and one fault at a time: enough for two commits in flight and for a full channel.
* `netconf_session` has two Sets that may overlap and two lost transports, so that a driver is lost again
  while it is being replaced; together with Stop at most three such events (`MaxEvents`). Stop is considered
  without the candidate, a restart and a device that refuses connections with it.
* `data_server` has one name. Two clients create and delete it, up to two datastores; one client does so next
  to a TransactionSet, or next to a stream; and two streams watch one datastore.
* `schema_clients` has two callers, two schemas, two versions and entries that live two ticks, in six
  configurations of the client.
* `tree` has one instance of every kind of entry, leaf-lists in a container and in a list entry, and two
  intents; every scope is about one of them, in the encodings that treat it differently. There is no
  leaf-list at the root. Between cases of equal priority the code takes the one a range over a map visits
  first; the model takes one order per traversal, the code one per call. A stream that deletes the last leaf
  of a presence container is left out: the sync tree then drops the container and the device keeps it.
* `validation` has two intents and a scope per validator, leaf-lists and a length of two parts included.

Deadlock is not checked: clients may stop calling, and devices may stop changing. The liveness
properties state that nobody is blocked.

### Fairness

* `Datastore`: every goroutine that can go on is scheduled eventually, a timeout expires and the ticker
  starts the next sync cycle (Go's scheduler, `time.Timer`, `time.Ticker`). Clients need not call and
  nothing has to fail. `Converges` is limited to quiet clients: a revert that finds `dmutex` taken is
  skipped, so clients that never stop calling can hold it off for ever.
* `WorkerPool`: every goroutine is weakly fair; nobody has to cancel the context or to close the pool.
* `StreamSync`: the goroutines, the ticker and the timeout of a send. Nothing is assumed of the commits,
  whose revert waits for the device; `EveryNoteSettles` says "if the commits return".
* `NetconfTarget`: the goroutines, and strong fairness of a Get that succeeds: transports are lost finitely
  often, and a device that is asked again and again answers at some time.
* `DataServer`: the goroutines, and strong fairness of a calculation of deviations that succeeds.
* `SchemaClients`: strong fairness of the callers, since a lock of Go is given to each waiter in the end,
  and time goes on.

## Proofs

The theorems hold for every value of the constants that the named assumptions allow: any number of
clients, tasks, notifications, names or callers. Bounds such as `MaxFaults` are arbitrary numbers there.
Each theorem rests on an inductive invariant that was model-checked first; the proofs have a lemma per
kind of step and one step per action.

| Theorem | States | Module |
|---|---|---|
| `Discipline` | `LockDiscipline` | `DatastoreProofs` |
| `Exclusion` | `TransactionExclusion` | `DatastoreProofs` |
| `CleanupAlone` | `CleanupIsAlone` | `DatastoreProofs` |
| `DmutexExclusion` | `DmutexSerializes` | `DatastoreProofs` |
| `StoreChanges` | `StoreChangesOnlyInTransaction`, an action property | `DatastoreProofs` |
| `CancelRestores` | `CancelRestoresIntents` | `DatastoreCancelProofs` |
| `WaitDrains` | `PoolInv` | `WorkerCountProofs` |
| `WalksAreComplete` | `WalkIsComplete` | `WorkerCountProofs` |
| `FeedRefinement` | `StreamSync` implements `RunningFeed` | `StreamSyncProofs` |
| `CommitsAreBounded` | `CommitInv` | `StreamSyncProofs` |
| `RunningIsCurrent` | `RunningFollowsDevice` | `StreamSyncProofs` |
| `DriversAreReplaced` | `DriverInv` | `NetconfProofs` |
| `RefusedSetsStayOut` | `RefusedStaysOut` | `NetconfProofs` |
| `SuccessMeansCommitted` | `OkMeansCommitted`, an action property | `NetconfProofs` |
| `LifeInvariance` | `LifeInv` | `DataServerProofs` |
| `EventBrackets` | `EventsAreBracketed`, an action property | `DataServerProofs` |
| `AnswersAsAsked` | `AnswerInv` | `SchemaClientsProofs` |
| `DeletedIsForgotten` | `DeleteForgets` | `SchemaClientsProofs` |

**Datastore** (`ConstantsAssumption`). `TransactionExclusion` is not inductive: a TransactionSet holds
only `dmutex`, the rollback of a timer only `tmMutex`. `ControlInv` adds the reason: a timer gets past
`Stop()` only while its own transaction is registered, and a client in a transaction has its own
registered and its timer not yet started. `StoreChanges` adds that the intents a process has still to
store are named by its request.

`CancelRestores` says that the intents a transaction recorded (`Transaction.oldIntents`) are enough to undo
it: when a cancel has stored its last intent, the cache is as it was before the transaction was
registered. `RestoreInv` carries this through every step. While a transaction is registered, what it
recorded and, for the other intents, the cache are together the intents before it (`Restorable`). A
TransactionSet records once, from a tree that has every intent of the cache, and everything still to be
stored has been recorded. A cancel executes the request made from the records, so each intent it stores
is one that is back. The property is limited to behaviours in which no call of a client or a sync failed
and no request was cancelled (`faults = 0`). Crashes and panics are included, because the transaction of a
server that went down is not registered any more, and so are failing rollbacks of timers, which run with
an ended context. With a fault it is not true: a failing IntentDelete is only logged, and a TransactionSet
whose read of the cache ends early records empty content for the intents it did not see.

**Pool** (`PoolAssumption`, and `OneRoot`: an owner submits at most one task before it closes its group).
`WaitMeansDrained` rests on what the counters count: `CountInv` says that the counter of a group is
the number of its tasks that are queued, held by a worker or being submitted, `InflightInv` the same
for the pool. `RootInv` says that no task of a group exists before its root is queued, `DoneInv` that
whoever finds the counter at zero is right for good, `MonitorInv` that what the monitor has seen stays
true. `WalkInv` accounts for every child: it has run, can still run, is still to be submitted, or the
group has an error to report. Without `OneRoot` the theorem is false (`WorkerPool_pair`).

**Stream sync** (`BoundsAssumption`). `PlaceInv` says that a notification is in one place on its way;
`BuiltInv` that what a tree says of a leaf comes from its notifications. With them every step is a step of
`RunningFeed` or leaves it alone; the refinement mapping takes the notifications under way as pending
and those that have left every place as settled. `TickInv` counts the commits: one that a tick starts
finds fewer in flight than there were signals. For `RunningFollowsDevice`, `OrderInv` says that with one
worker and one SyncResponse no notification overtakes another at any place, and `FollowInv` that the
notification that decides a leaf is what counts in the tree, in the commit and in running.

**NETCONF** (`BoundsAssumption`), for any number of callers whose Sets overlap. `DriverInv` is inductive.
`SetInv` follows the Sets from their edit to their result: `Numbered` says that Sets in progress at the same
time know of each other in `overlap`, `Placed` what the candidate and the device have of a Set at each of
its places, `Settled` what is left of it when it is over. A Set in front of its commit is still in the
candidate if nobody that overlapped it discarded it and the device did not restart; one that was refused is
out of the candidate unless a commit has carried it to the device before.

**Server** (`ServerAssumption`), for any number of clients whose calls overlap. `MapInv` is the inductive
invariant of `LifeInv`: `Apart` says that calls of one name at the same time know that they overlap, `Knows`
what a create or delete call knows at each of its places, alone or overtaken by another; `NameInv` what is
listed under a name, `DsInv` that a datastore is stopped, listed, about to be listed, or was created in an
overlap, `PhaseInv` that nothing happens before the clients are there. `EventInv` says what
a stream has been told at each place of the run that serves it.

**Schema clients** (`SchemaAssumption`). `CallInv` and `CacheInv` say what a response and an
entry hold, given how the cache is configured; `IndexInv` who may still fetch; `ForgetInv` that nothing
brings a deleted schema back.

### Only model-checked

* Liveness under fairness: `CallsReturn`, `ExpiredTransactionEnds`, `Converges`, `WaitReturns`,
  `CloseEndsWorkers`, `NotesProgress`, `Recovers`, `ServerProgress`, `SchemaProgress`. The prover has no
  rules for fairness and ENABLED.
* Everything about `TreeTransaction` and `Validation`. The tree is walked by recursive operators, and
  what they compute for every tree needs an induction over the tree, which the provers cannot do.
* `QueriesAgree`, `RevertFindsNothing` and `RemainingIntentIsOnDevice`: the queries fold over the entries of
  a leaf in insertion order, and the same holds of them.
* `StoresAgree`, with the types of what a process computes: what a transaction sends is the result of the
  same folds.

## Not modelled

Value conversion and paths (pure functions of strings and numbers), reads that only format
(ListDataStore, GetDataStore, ListIntent, GetIntent), the locks inside LeafVariants, lists with several keys or
ordered by the user, the once sync of gNMI (it hands nothing to the datastore), the files of the cache
library, configuration files, metrics, logging, the command line client and generated code.
`PROJECT.json` lists every part with its status.
