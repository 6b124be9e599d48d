----------------------------- MODULE StreamSync -----------------------------
(***************************************************************************)
(* The gNMI stream sync: gnmiSubscribe takes the device's notifications    *)
(* from the subscription and submits a task for each to the datastore's    *)
(* task pool; the tasks convert them and send them to                      *)
(* buildTreeSyncWithDatastore, which collects them in a sync tree and      *)
(* hands the tree to a goroutine that commits it to running, on every      *)
(* SyncResponse and, after the first, on every tick.                       *)
(*                                                                         *)
(* Notifications are numbered in the order the device sends them and carry *)
(* one change of one leaf: the number of an update stands for its value.   *)
(* "unknown" is an update that ExpandAndConvertIntent cannot convert: it   *)
(* is logged and sent on without its update.                               *)
(***************************************************************************)
EXTENDS Integers, Sequences, FiniteSets, Functions

CONSTANTS Leafs,        \* the leafs the device reports
          MaxNotes,     \* bound on the notifications
          MaxSyncs,     \* bound on the SyncResponses: one per (re)subscription
          WorkerCounts, \* the sizes of the task pool to consider
          ChanSize,     \* updChanBufSize
          Faults        \* what goes wrong in a behaviour, if anything: a subset of
                        \* {"none", "cancel", "stream", "tree", "apply", "schema"}

ASSUME BoundsAssumption ==
  /\ MaxNotes \in Nat
  /\ MaxSyncs \in Nat
  /\ ChanSize \in Nat \ {0}
  /\ WorkerCounts \subseteq Nat \ {0}

VARIABLES note,        \* note[n]: the leaf and the operation of notification n
          syncs,       \* SyncResponses sent so far
          resp,        \* respChan: a notification, SyncResponse or ErrorResponse
          sub,         \* gnmiSubscribe: "run" or "done"
          workers,     \* workers of the task pool
          queue,       \* the tasks the pool has not started
          sending,     \* the tasks in sendNotificationData
          updChan,     \* updChan
          signal,      \* syncResponse holds a signal
          loop,        \* buildTreeSyncWithDatastore: "start", "run" or "done"
          tree,        \* its syncTree
          ticker,      \* tickerChan is set
          handled,     \* signals the loop has taken
          syncRunning, \* syncRunning
          commit,      \* the goroutines in syncToRunning
          running,     \* running[l]: the update the value of leaf l comes from, 0 if absent
          lost,        \* the notifications given up on the way
          cancelled,   \* the context is cancelled
          fault        \* the fault of this behaviour

sourceVars == <<note, syncs>>
environment == <<cancelled, fault>>
subVars    == <<resp, sub>>
poolVars   == <<queue, sending, lost>>
loopVars   == <<loop, tree, ticker, handled>>
vars == <<sourceVars, subVars, workers, poolVars, updChan, signal, loopVars, syncRunning,
          commit, running, environment>>

Notes == 1..MaxNotes
SyncResponse  == 0
ErrorResponse == -1

\* A sync tree: per leaf the last update added, the explicit deletes of running, and the
\* notifications it was built from.
EmptyTree == [upd |-> [l \in Leafs |-> 0], del |-> {}, from |-> {}]

\* A commit that overlaps another was started by a SyncResponse, or overlaps one that was.
Slots == 1..(MaxSyncs + 1)
NoCommit == [pc |-> "none", tree |-> EmptyTree]
InFlight == {c \in Slots : commit[c].pc # "none"}

Trees == [upd : [Leafs -> 0..MaxNotes], del : SUBSET Leafs, from : SUBSET Notes]
Commits == [pc : {"none", "apply", "revert"}, tree : Trees]
NoteType == [leaf : Leafs, op : {"update", "delete", "unknown"}]

TypeOK ==
  /\ note \in Seq(NoteType)
  /\ syncs \in 0..MaxSyncs /\ handled \in Nat
  /\ resp \in Seq(-1..MaxNotes)
  /\ queue \in Seq(Notes) /\ updChan \in Seq(Notes)
  /\ sending \subseteq Notes /\ lost \subseteq Notes
  /\ sub \in {"run", "done"} /\ loop \in {"start", "run", "done"}
  /\ tree \in Trees
  /\ commit \in [Slots -> Commits]
  /\ running \in [Leafs -> 0..MaxNotes]
  /\ workers \in WorkerCounts /\ fault \in Faults
  /\ signal \in BOOLEAN /\ ticker \in BOOLEAN
  /\ syncRunning \in BOOLEAN /\ cancelled \in BOOLEAN

Init ==
  /\ note = <<>> /\ syncs = 0
  /\ resp = <<>> /\ sub = "run"
  /\ workers \in WorkerCounts
  /\ queue = <<>> /\ sending = {} /\ lost = {}
  /\ updChan = <<>>
  /\ signal = FALSE
  /\ loop = "start" /\ tree = EmptyTree /\ ticker = FALSE /\ handled = 0
  /\ syncRunning = FALSE
  /\ commit = [c \in Slots |-> NoCommit]
  /\ running = [l \in Leafs |-> 0]
  /\ cancelled = FALSE
  /\ fault \in Faults

-----------------------------------------------------------------------------
(* The device and the subscription (external). *)

\* The subscription ends with the context; what arrives when nobody reads has no effect.
Subscribed == ~cancelled /\ sub = "run"

DeviceChange(l, op) ==
  /\ Subscribed
  /\ Len(note) < MaxNotes
  /\ op = "unknown" => fault = "schema"
  /\ note' = Append(note, [leaf |-> l, op |-> op])
  /\ resp' = Append(resp, Len(note'))
  /\ UNCHANGED <<syncs, sub, workers, poolVars, updChan, signal, loopVars, syncRunning,
                 commit, running, environment>>

\* Sent after the initial updates of a subscription, and again when the client library has
\* subscribed anew.
DeviceSync ==
  /\ Subscribed
  /\ syncs < MaxSyncs
  /\ syncs' = syncs + 1
  /\ resp' = Append(resp, SyncResponse)
  /\ UNCHANGED <<note, sub, workers, poolVars, updChan, signal, loopVars, syncRunning,
                 commit, running, environment>>

DeviceError ==
  /\ Subscribed
  /\ fault = "stream"
  /\ resp = <<>>
  /\ resp' = <<ErrorResponse>>
  /\ UNCHANGED <<sourceVars, sub, workers, poolVars, updChan, signal, loopVars, syncRunning,
                 commit, running, environment>>

Cancel ==
  /\ fault = "cancel"
  /\ ~cancelled
  /\ cancelled' = TRUE
  /\ UNCHANGED <<sourceVars, subVars, workers, poolVars, updChan, signal, loopVars,
                 syncRunning, commit, running, fault>>

-----------------------------------------------------------------------------
(* gnmiSubscribe *)

\* The pool refuses a task once its context is cancelled: the error is logged.
Submit(n) ==
  \/ /\ ~cancelled
     /\ queue' = Append(queue, n)
     /\ UNCHANGED lost
  \/ /\ cancelled
     /\ lost' = lost \cup {n}
     /\ UNCHANGED queue

SubscribeRecv ==
  /\ sub = "run"
  /\ resp # <<>>
  /\ resp' = Tail(resp)
  /\ \/ /\ Head(resp) > 0
        /\ Submit(Head(resp))
        /\ UNCHANGED signal
     \/ /\ Head(resp) = SyncResponse
        /\ signal' = TRUE
        /\ UNCHANGED <<queue, lost>>
     \/ /\ Head(resp) = ErrorResponse
        /\ UNCHANGED <<queue, lost, signal>>
  /\ UNCHANGED <<sourceVars, sub, workers, sending, updChan, loopVars, syncRunning, commit,
                 running, environment>>

\* The context is done, or the subscription failed for good.  The deferred CloseForSubmit
\* leaves the tasks in the pool.
SubscribeEnd ==
  /\ sub = "run"
  /\ cancelled \/ fault = "stream"
  /\ sub' = "done"
  /\ UNCHANGED <<sourceVars, resp, workers, poolVars, updChan, signal, loopVars, syncRunning,
                 commit, running, environment>>

-----------------------------------------------------------------------------
(* notificationProcessorTask *)

TaskStart ==
  /\ queue # <<>>
  /\ Cardinality(sending) < workers
  /\ queue' = Tail(queue)
  /\ sending' = sending \cup {Head(queue)}
  /\ UNCHANGED <<sourceVars, subVars, workers, lost, updChan, signal, loopVars, syncRunning,
                 commit, running, environment>>

\* Mutant of TaskSend: a notification that cannot be sent at once is given up.
TaskSend_NoWait(n) ==
  /\ n \in sending
  /\ sending' = sending \ {n}
  /\ updChan' = IF Len(updChan) < ChanSize THEN Append(updChan, n) ELSE updChan
  /\ UNCHANGED <<sourceVars, subVars, workers, queue, lost, signal, loopVars, syncRunning,
                 commit, running, environment>>

TaskSend(n) ==
  /\ n \in sending
  /\ Len(updChan) < ChanSize
  /\ sending' = sending \ {n}
  /\ updChan' = Append(updChan, n)
  /\ UNCHANGED <<sourceVars, subVars, workers, queue, lost, signal, loopVars, syncRunning,
                 commit, running, environment>>

\* The channel was full for sendTimeout, or the context is done.
TaskGiveUp(n) ==
  /\ n \in sending
  /\ cancelled \/ Len(updChan) = ChanSize
  /\ sending' = sending \ {n}
  /\ lost' = lost \cup {n}
  /\ UNCHANGED <<sourceVars, subVars, workers, queue, updChan, signal, loopVars, syncRunning,
                 commit, running, environment>>

-----------------------------------------------------------------------------
(* buildTreeSyncWithDatastore *)

LoopStart ==
  /\ loop = "start"
  /\ \/ loop' = "run"
     \/ fault = "tree" /\ loop' = "done"
  /\ UNCHANGED <<sourceVars, subVars, workers, poolVars, updChan, signal, tree, ticker,
                 handled, syncRunning, commit, running, environment>>

LoopCancelled ==
  /\ loop = "run"
  /\ cancelled
  /\ loop' = "done"
  /\ UNCHANGED <<sourceVars, subVars, workers, poolVars, updChan, signal, tree, ticker,
                 handled, syncRunning, commit, running, environment>>

\* AddUpdatesRecursive, then ExplicitDeletes().Add: the tree keeps both, in no order.
AddToTree(t, n) ==
  LET l == note[n].leaf
  IN  [upd  |-> IF note[n].op = "update" THEN [t.upd EXCEPT ![l] = n] ELSE t.upd,
       del  |-> IF note[n].op = "delete" THEN t.del \cup {l} ELSE t.del,
       from |-> t.from \cup {n}]

LoopRecv ==
  /\ loop = "run"
  /\ updChan # <<>>
  /\ tree' = AddToTree(tree, Head(updChan))
  /\ updChan' = Tail(updChan)
  /\ UNCHANGED <<sourceVars, subVars, workers, poolVars, signal, loop, ticker, handled,
                 syncRunning, commit, running, environment>>

\* Mutant of HandOver: the loop goes on with the tree it has handed over.
HandOver_SameTree ==
  /\ \E c \in Slots \ InFlight :
       /\ \A d \in Slots \ InFlight : c <= d
       /\ commit' = [commit EXCEPT ![c] = [pc |-> "apply", tree |-> tree]]
  /\ syncRunning' = TRUE
  /\ UNCHANGED <<loop, lost, tree>>

\* The tree is handed to a new goroutine and replaced by an empty one; when NewEmptyTree
\* fails the loop returns and the tree is not committed.
HandOver ==
  \/ /\ \E c \in Slots \ InFlight :
          /\ \A d \in Slots \ InFlight : c <= d
          /\ commit' = [commit EXCEPT ![c] = [pc |-> "apply", tree |-> tree]]
     /\ tree' = EmptyTree
     /\ syncRunning' = TRUE
     /\ UNCHANGED <<loop, lost>>
  \/ /\ fault = "tree"
     /\ loop' = "done"
     /\ tree' = EmptyTree
     /\ lost' = lost \cup tree.from
     /\ UNCHANGED <<commit, syncRunning>>

LoopSync ==
  /\ loop = "run"
  /\ signal
  /\ signal' = FALSE
  /\ handled' = handled + 1
  /\ HandOver
  /\ ticker' = (ticker \/ loop' = "run")
  /\ UNCHANGED <<sourceVars, subVars, workers, queue, sending, updChan, running, environment>>

\* Mutant of LoopTick: a tick does not look for a commit in flight.
LoopTick_Always ==
  /\ loop = "run"
  /\ ticker
  /\ HandOver
  /\ UNCHANGED <<sourceVars, subVars, workers, queue, sending, updChan, signal, ticker,
                 handled, running, environment>>

LoopTick ==
  /\ loop = "run"
  /\ ticker
  /\ ~syncRunning
  /\ HandOver
  /\ UNCHANGED <<sourceVars, subVars, workers, queue, sending, updChan, signal, ticker,
                 handled, running, environment>>

-----------------------------------------------------------------------------
(* syncToRunning *)

\* ApplyToRunning removes the leafs of the explicit deletes, then imports the updates.
Applied(t) ==
  [l \in Leafs |-> IF t.upd[l] # 0 THEN t.upd[l] ELSE IF l \in t.del THEN 0 ELSE running[l]]

\* A tree with neither updates nor deletes is not applied at all.
CommitApply(c) ==
  /\ commit[c].pc = "apply"
  /\ running' = Applied(commit[c].tree)
  /\ commit' = [commit EXCEPT ![c] = [pc |-> "revert", tree |-> EmptyTree]]
  /\ UNCHANGED <<sourceVars, subVars, workers, poolVars, updChan, signal, loopVars,
                 syncRunning, environment>>

\* An import that fails on the way: part of the tree has reached running.  A leaf that is only
\* marked as deleted counts as absent.
CommitFail(c) ==
  /\ fault = "apply"
  /\ commit[c].pc = "apply"
  /\ LET t == commit[c].tree IN
     \E U \in SUBSET {l \in Leafs : t.upd[l] # 0} :
       running' = Applied([t EXCEPT !.upd = [l \in Leafs |-> IF l \in U THEN @[l] ELSE 0]])
  /\ lost' = lost \cup commit[c].tree.from
  /\ commit' = [commit EXCEPT ![c] = [pc |-> "revert", tree |-> EmptyTree]]
  /\ UNCHANGED <<sourceVars, subVars, workers, queue, sending, updChan, signal, loopVars,
                 syncRunning, environment>>

\* Mutant of CommitReturn: the flag is not reset.
CommitReturn_Keeps(c) ==
  /\ commit[c].pc = "revert"
  /\ commit' = [commit EXCEPT ![c] = NoCommit]
  /\ UNCHANGED <<sourceVars, subVars, workers, poolVars, updChan, signal, loopVars,
                 syncRunning, running, environment>>

\* performRevert has returned; the deferred Store(false) runs whatever it returned.
CommitReturn(c) ==
  /\ commit[c].pc = "revert"
  /\ commit' = [commit EXCEPT ![c] = NoCommit]
  /\ syncRunning' = FALSE
  /\ UNCHANGED <<sourceVars, subVars, workers, poolVars, updChan, signal, loopVars, running,
                 environment>>

-----------------------------------------------------------------------------
Next ==
  \/ \E l \in Leafs, op \in {"update", "delete", "unknown"} : DeviceChange(l, op)
  \/ DeviceSync \/ DeviceError \/ Cancel
  \/ SubscribeRecv \/ SubscribeEnd
  \/ TaskStart
  \/ \E n \in Notes : TaskSend(n) \/ TaskGiveUp(n)
  \/ LoopStart \/ LoopCancelled \/ LoopRecv \/ LoopSync \/ LoopTick
  \/ \E c \in Slots : CommitApply(c) \/ CommitFail(c) \/ CommitReturn(c)

\* Each goroutine goes on while it can, the ticker ticks, and a send that cannot proceed
\* times out.  Nothing is assumed of the commits: performRevert waits for the device.
Fairness ==
  /\ WF_vars(SubscribeRecv) /\ WF_vars(TaskStart)
  /\ \A n \in Notes : WF_vars(TaskSend(n) \/ TaskGiveUp(n))
  /\ WF_vars(LoopStart) /\ WF_vars(LoopRecv) /\ WF_vars(LoopSync) /\ WF_vars(LoopTick)

Spec == Init /\ [][Next]_vars /\ Fairness

-----------------------------------------------------------------------------
(* Properties *)

CommitNotes == UNION {commit[c].tree.from : c \in Slots}

\* The notifications between gnmiSubscribe and running.
Pending == Range(queue) \cup sending \cup Range(updChan) \cup tree.from \cup CommitNotes

Settled == DOMAIN note \ (Range(resp) \cup Pending)

Feed == INSTANCE RunningFeed WITH pending <- Pending, settled <- Settled

\* The goroutines together take every notification at most once and use it at most once: the
\* tree a commit works on is no longer the tree the loop adds to, and running changes only
\* to what the notifications of the committed tree bring.
FeedsRunning == Feed!Spec

\* Commits overlap only because of SyncResponses: there are never more in flight than signals
\* taken, so before a second SyncResponse trees are committed one at a time and in order.
CommitsPerSync == Cardinality(InFlight) <= handled

\* The variables have their types, and commits overlap only because of SyncResponses.
CommitInv == TypeOK /\ CommitsPerSync

\* The comment on syncRunning: "syncRunning is true while a syncToRunning goroutine is in
\* flight".
FlagCoversCommits == InFlight # {} => syncRunning

NotesOf(l) == {n \in DOMAIN note : note[n].leaf = l}

Latest(l) == CHOOSE n \in NotesOf(l) : \A m \in NotesOf(l) : m <= n

\* Nothing is on its way any more, and nothing was given up.
Settling == Pending # {} \/ resp # <<>> \/ lost # {}

\* When everything has been committed, running has what the device reported, for a leaf that
\* changed once; and, with one worker and one SyncResponse, for every leaf whose last change
\* was an update.  (A delete and an earlier update of the same leaf in one tree leave the
\* update; two workers, or two commits in flight, may swap two updates.)
RunningFollowsDevice ==
  ~Settling =>
    \A l \in Leafs : NotesOf(l) # {} =>
      LET n == Latest(l) IN
      /\ NotesOf(l) = {n} => running[l] = IF note[n].op = "update" THEN n ELSE 0
      /\ workers = 1 /\ handled <= 1 /\ note[n].op = "update" => running[l] = n

\* The loop goes on taking notifications while a commit is stuck in performRevert.
LoopKeepsTaking ==
  (loop = "run" /\ updChan # <<>>) ~> (loop = "done" \/ updChan = <<>>)

\* After the initial sync what was reported reaches running or is given up, provided that the
\* commits return.
EveryNoteSettles ==
  []<>(InFlight = {}) => ((ticker /\ Pending # {}) ~> (loop = "done" \/ Pending = {}))

\* The loop does not wait for commits, and what was reported does not stay on its way.
NotesProgress == LoopKeepsTaking /\ EveryNoteSettles
=============================================================================
