----------------------------- MODULE WorkerPool -----------------------------
(***************************************************************************)
(* pkg/pool: a queue, a pool of workers that share it, and the virtual     *)
(* pools (groups) whose tasks the workers run.  The owner of a group       *)
(* submits tasks, closes the group and waits.  A task submits its children *)
(* into its own group, which is how every processor of the configuration   *)
(* tree walks the tree.                                                    *)
(*                                                                         *)
(* A step is one atomic operation or one critical section of the code.     *)
(* The handler of the shared pool never returns an error, so the error     *)
(* path of Pool.Start is not reachable and is left out.                    *)
(***************************************************************************)
EXTENDS Integers, Sequences, FiniteSets

CONSTANTS
  Workers, Groups, Tasks,
  GroupOf,    \* the group of a task, which is the group of its children
  Top,        \* the tasks the owner of a group submits, in order
  Children,   \* the tasks a task submits, in order
  MayFail,    \* tasks that may return an error
  MayCancel,  \* the context of the pool may be cancelled
  MayClose,   \* SharedTaskPool.CloseForSubmit may be called
  Monitor, Closer, NoTask

ASSUME PoolAssumption ==
  /\ IsFiniteSet(Workers) /\ IsFiniteSet(Groups)
  /\ GroupOf \in [Tasks -> Groups]
  /\ Top \in [Groups -> Seq(Tasks)]
  /\ \A g \in Groups : \A i \in DOMAIN Top[g] : GroupOf[Top[g][i]] = g
  /\ Children \in [Tasks -> Seq(Tasks)]
  /\ \A t \in Tasks : \A i \in DOMAIN Children[t] : GroupOf[Children[t][i]] = GroupOf[t]
  /\ MayFail \subseteq Tasks
  /\ MayCancel \in BOOLEAN
  /\ MayClose \in BOOLEAN
  /\ NoTask \notin Tasks
  /\ Workers \cap Groups = {}
  /\ {Monitor, Closer} \cap (Workers \cup Groups) = {}
  /\ Monitor # Closer

\* A group is in mode VirtualFailFast or VirtualTolerant.  The tasks of a lenient group, which is
\* tolerant, ignore the result of submit (validation and GetDeviations).
Kinds == {"failFast", "tolerant", "lenient"}

VARIABLES
  kind,                                      \* the kind of a group
  queue, queueClosed, size,                  \* WorkerPoolQueue
  cancelled, inflight, closedForSubmit,      \* Pool
  closed, failed, errs, vinflight, done,     \* VirtualPool, by group
  pc, task, todo,                            \* the goroutines
  refused,                                   \* groups whose owner got an error from Submit
  ran                                        \* tasks whose Run is over

queueVars == <<queue, queueClosed, size>>
poolVars  == <<cancelled, inflight, closedForSubmit>>
groupVars == <<closed, failed, errs, vinflight, done>>
history   == <<kind, refused, ran>>
vars == <<queueVars, poolVars, groupVars, pc, task, todo, history>>

Submitters == Workers \cup Groups
Processes == Submitters \cup {Monitor, Closer}

\* The group a process works for.
G(p) == IF p \in Groups THEN p ELSE GroupOf[task[p]]

Init ==
  /\ kind \in [Groups -> Kinds]
  /\ queue = <<>> /\ queueClosed = FALSE /\ size = 0
  /\ cancelled = FALSE /\ inflight = 0 /\ closedForSubmit = FALSE
  /\ closed = [g \in Groups |-> FALSE]
  /\ failed = [g \in Groups |-> FALSE]
  /\ errs = [g \in Groups |-> {}]
  /\ vinflight = [g \in Groups |-> 0]
  /\ done = [g \in Groups |-> FALSE]
  /\ pc = [p \in Processes |->
             CASE p \in Workers -> "get" [] p \in Groups -> "submit"
               [] p = Monitor -> "check" [] p = Closer -> "open"]
  /\ task = [w \in Workers |-> NoTask]
  /\ todo = [p \in Submitters |-> IF p \in Groups THEN Top[p] ELSE <<>>]
  /\ refused = {} /\ ran = {}

At(p, l) == pc[p] = l
GoTo(p, l) == pc' = [pc EXCEPT ![p] = l]

-----------------------------------------------------------------------------
(* Wake-ups *)

\* pc after p goes to l and the workers of W, which wait in Get, are woken.
Waking(W, p, l) == [q \in Processes |-> IF q = p THEN l ELSE IF q \in W THEN "get" ELSE pc[q]]

Waiting == {w \in Workers : pc[w] = "waiting"}

\* The monitor holds inflightMu between its checks and gives it back when it waits.
MonitorHoldsMutex == pc[Monitor] \in {"context", "length"}

\* inflightC.Broadcast under inflightMu, as p goes to l.
BroadcastMonitor(p, l) ==
  /\ ~MonitorHoldsMutex
  /\ pc' = [pc EXCEPT ![p] = l,
                      ![Monitor] = CASE @ = "waitClose" -> "check"
                                     [] @ = "waitDrain" -> "drain"
                                     [] OTHER -> @]

-----------------------------------------------------------------------------
(* VirtualPool: the counter of a group *)

\* Mutant of DecrementInflight: the counter is not looked at.
DecrementInflight_AnyCount(p, from, load, next) ==
  /\ At(p, from)
  /\ vinflight' = [vinflight EXCEPT ![G(p)] = @ - 1]
  /\ GoTo(p, load)
  /\ UNCHANGED <<queueVars, poolVars, closed, failed, errs, done, task, todo, history>>

\* decrementInflight: the counter first, and if nothing remains ...
DecrementInflight(p, from, load, next) ==
  /\ At(p, from)
  /\ vinflight' = [vinflight EXCEPT ![G(p)] = @ - 1]
  /\ GoTo(p, IF vinflight[G(p)] = 1 THEN load ELSE next)
  /\ UNCHANGED <<queueVars, poolVars, closed, failed, errs, done, task, todo, history>>

\* ... closed is loaded, and done is closed.
CloseDone(p, load, next) ==
  /\ At(p, load)
  /\ done' = [done EXCEPT ![G(p)] = @ \/ closed[G(p)]]
  /\ GoTo(p, next)
  /\ UNCHANGED <<queueVars, poolVars, closed, failed, errs, vinflight, task, todo, history>>

-----------------------------------------------------------------------------
(* Submit *)

\* Submit of an owner: the counter of the group is incremented before anything is checked.
Submit(g) ==
  /\ At(g, "submit")
  /\ todo[g] # <<>>
  /\ vinflight' = [vinflight EXCEPT ![g] = @ + 1]
  /\ GoTo(g, "loadClosed")
  /\ UNCHANGED <<queueVars, poolVars, closed, failed, errs, done, task, todo, history>>

LoadClosed(g) ==
  /\ At(g, "loadClosed")
  /\ GoTo(g, IF closed[g] THEN "refuse" ELSE "isFailed")
  /\ UNCHANGED <<queueVars, poolVars, groupVars, task, todo, history>>

IsFailed(g) ==
  /\ At(g, "isFailed")
  /\ GoTo(g, IF failed[g] THEN "refuse" ELSE "err")
  /\ UNCHANGED <<queueVars, poolVars, groupVars, task, todo, history>>

\* submitInternal of a running task: only a failure of the group is in the way.
SubmitInternal(w) ==
  /\ At(w, "body")
  /\ todo[w] # <<>>
  /\ GoTo(w, IF failed[G(w)] THEN "refused" ELSE "vadd")
  /\ UNCHANGED <<queueVars, poolVars, groupVars, task, todo, history>>

CountChild(w) ==
  /\ At(w, "vadd")
  /\ vinflight' = [vinflight EXCEPT ![G(w)] = @ + 1]
  /\ GoTo(w, "err")
  /\ UNCHANGED <<queueVars, poolVars, closed, failed, errs, done, task, todo, history>>

\* Pool.Submit: a cancelled pool takes nothing.
ContextErr(p) ==
  /\ At(p, "err")
  /\ GoTo(p, IF cancelled THEN "refuse" ELSE "add")
  /\ UNCHANGED <<queueVars, poolVars, groupVars, task, todo, history>>

AddInflight(p) ==
  /\ At(p, "add")
  /\ inflight' = inflight + 1
  /\ GoTo(p, "put")
  /\ UNCHANGED <<queueVars, cancelled, closedForSubmit, groupVars, task, todo, history>>

\* Mutant of Put: nobody is woken.
Put_NoSignal(p) ==
  /\ At(p, "put")
  /\ ~queueClosed
  /\ queue' = Append(queue, Head(todo[p]))
  /\ size' = size + 1
  /\ todo' = [todo EXCEPT ![p] = Tail(@)]
  /\ GoTo(p, IF p \in Groups THEN "submit" ELSE "body")
  /\ UNCHANGED <<queueClosed, poolVars, groupVars, task, history>>

\* Put: the task is queued and one waiting worker is woken.
Put(p) ==
  /\ At(p, "put")
  /\ ~queueClosed
  /\ queue' = Append(queue, Head(todo[p]))
  /\ size' = size + 1
  /\ todo' = [todo EXCEPT ![p] = Tail(@)]
  /\ \E W \in SUBSET Waiting :
       /\ Cardinality(W) = IF Waiting = {} THEN 0 ELSE 1
       /\ pc' = Waking(W, p, IF p \in Groups THEN "submit" ELSE "body")
  /\ UNCHANGED <<queueClosed, poolVars, groupVars, task, history>>

\* Put on a closed queue: ErrClosed, and inflight is taken back.
PutClosed(p) ==
  /\ At(p, "put")
  /\ queueClosed
  /\ inflight' = inflight - 1
  /\ GoTo(p, "putBack")
  /\ UNCHANGED <<queueVars, cancelled, closedForSubmit, groupVars, task, todo, history>>

\* addInflight(-1): at zero the monitor is woken.
WakeAtZero(p, from, next) ==
  /\ At(p, from)
  /\ IF inflight = 0 THEN BroadcastMonitor(p, next) ELSE GoTo(p, next)
  /\ UNCHANGED <<queueVars, poolVars, groupVars, task, todo, history>>

\* Submit returned an error.  The owner closes the group; a task returns the error, or goes on
\* with its next child.
Refused(p) ==
  /\ At(p, "refused")
  /\ todo' = [todo EXCEPT ![p] = Tail(@)]
  /\ refused' = IF p \in Groups THEN refused \cup {p} ELSE refused
  /\ GoTo(p, IF p \in Groups THEN "close" ELSE IF kind[G(p)] = "lenient" THEN "body" ELSE "error")
  /\ UNCHANGED <<queueVars, poolVars, groupVars, task, kind, ran>>

SubmitStep(p) ==
  \/ ContextErr(p) \/ AddInflight(p) \/ Put(p) \/ PutClosed(p)
  \/ WakeAtZero(p, "putBack", "refuse")
  \/ DecrementInflight(p, "refuse", "refuseLoad", "refused")
  \/ CloseDone(p, "refuseLoad", "refused")
  \/ Refused(p)

-----------------------------------------------------------------------------
(* The owner of a group *)

\* CloseForSubmit: closed first, then the counter is loaded.
CloseForSubmit(g) ==
  /\ \/ At(g, "close")
     \/ At(g, "submit") /\ todo[g] = <<>>
  /\ closed' = [closed EXCEPT ![g] = TRUE]
  /\ GoTo(g, "closeLoad")
  /\ UNCHANGED <<queueVars, poolVars, failed, errs, vinflight, done, task, todo, history>>

CloseLoad(g) ==
  /\ At(g, "closeLoad")
  /\ done' = [done EXCEPT ![g] = @ \/ vinflight[g] = 0]
  /\ GoTo(g, "wait")
  /\ UNCHANGED <<queueVars, poolVars, closed, failed, errs, vinflight, task, todo, history>>

Wait(g) ==
  /\ At(g, "wait")
  /\ done[g]
  /\ GoTo(g, "returned")
  /\ UNCHANGED <<queueVars, poolVars, groupVars, task, todo, history>>

OwnerStep(g) ==
  \/ Submit(g) \/ LoadClosed(g) \/ IsFailed(g) \/ SubmitStep(g)
  \/ CloseForSubmit(g) \/ CloseLoad(g) \/ Wait(g)

-----------------------------------------------------------------------------
(* A worker *)

\* Get: wait while the queue is empty and open.
GetWaits(w) ==
  /\ At(w, "get")
  /\ queue = <<>> /\ ~queueClosed
  /\ GoTo(w, "waiting")
  /\ UNCHANGED <<queueVars, poolVars, groupVars, task, todo, history>>

GetEnds(w) ==
  /\ At(w, "get")
  /\ queue = <<>> /\ queueClosed
  /\ GoTo(w, "exited")
  /\ UNCHANGED <<queueVars, poolVars, groupVars, task, todo, history>>

GetTakes(w) ==
  /\ At(w, "get")
  /\ queue # <<>>
  /\ task' = [task EXCEPT ![w] = Head(queue)]
  /\ queue' = Tail(queue)
  /\ GoTo(w, "taken")
  /\ UNCHANGED <<queueClosed, size, poolVars, groupVars, todo, history>>

\* size is decremented after the mutex of the queue is given back.
GetCounts(w) ==
  /\ At(w, "taken")
  /\ size' = size - 1
  /\ GoTo(w, "run")
  /\ UNCHANGED <<queue, queueClosed, poolVars, groupVars, task, todo, history>>

\* virtualTask.Run: a task of a failed group is skipped.
Run(w) ==
  /\ At(w, "run")
  /\ IF failed[G(w)]
     THEN GoTo(w, "decrement") /\ UNCHANGED todo
     ELSE GoTo(w, "body") /\ todo' = [todo EXCEPT ![w] = Children[task[w]]]
  /\ UNCHANGED <<queueVars, poolVars, groupVars, task, history>>

\* The task has submitted its children and ends without an error ...
TaskEnds(w) ==
  /\ At(w, "body")
  /\ todo[w] = <<>>
  /\ ran' = ran \cup {task[w]}
  /\ GoTo(w, "decrement")
  /\ UNCHANGED <<queueVars, poolVars, groupVars, task, todo, kind, refused>>

\* ... or it fails on the way.
TaskFails(w) ==
  /\ At(w, "body")
  /\ task[w] \in MayFail
  /\ GoTo(w, "error")
  /\ UNCHANGED <<queueVars, poolVars, groupVars, task, todo, history>>

\* Mutant of RecordError: the error of a task is dropped.
RecordError_Dropped(w) ==
  /\ At(w, "error")
  /\ todo' = [todo EXCEPT ![w] = <<>>]
  /\ GoTo(w, "decrement")
  /\ UNCHANGED <<queueVars, poolVars, groupVars, task, history>>

\* The error of a task: the first one fails a fail-fast group, a tolerant group collects it.
RecordError(w) ==
  /\ At(w, "error")
  /\ todo' = [todo EXCEPT ![w] = <<>>]
  /\ IF kind[G(w)] = "failFast"
     THEN /\ failed' = [failed EXCEPT ![G(w)] = TRUE]
          /\ GoTo(w, "fail")
          /\ UNCHANGED errs
     ELSE /\ errs' = [errs EXCEPT ![G(w)] = @ \cup {task[w]}]
          /\ GoTo(w, "decrement")
          /\ UNCHANGED failed
  /\ UNCHANGED <<queueVars, poolVars, closed, vinflight, done, task, history>>

\* A fail-fast group is closed by the task that failed.
FailCloses(w) ==
  /\ At(w, "fail")
  /\ closed' = [closed EXCEPT ![G(w)] = TRUE]
  /\ GoTo(w, "decrement")
  /\ UNCHANGED <<queueVars, poolVars, failed, errs, vinflight, done, task, todo, history>>

\* Pool.Start after the handler: inflight is decremented.
TaskIsOver(w) ==
  /\ At(w, "over")
  /\ inflight' = inflight - 1
  /\ task' = [task EXCEPT ![w] = NoTask]
  /\ GoTo(w, "overLoad")
  /\ UNCHANGED <<queueVars, cancelled, closedForSubmit, groupVars, todo, history>>

WorkerStep(w) ==
  \/ GetWaits(w) \/ GetEnds(w) \/ GetTakes(w) \/ GetCounts(w)
  \/ Run(w) \/ SubmitInternal(w) \/ CountChild(w) \/ SubmitStep(w)
  \/ TaskEnds(w) \/ TaskFails(w) \/ RecordError(w) \/ FailCloses(w)
  \/ DecrementInflight(w, "decrement", "decrementLoad", "over")
  \/ CloseDone(w, "decrementLoad", "over")
  \/ TaskIsOver(w) \/ WakeAtZero(w, "overLoad", "get")

-----------------------------------------------------------------------------
(* The monitor of the pool, and its shutdown *)

MonitorMoves(from, next) ==
  /\ At(Monitor, from)
  /\ GoTo(Monitor, next)
  /\ UNCHANGED <<queueVars, poolVars, groupVars, task, todo, history>>

\* tasks.Close(): every waiting worker is woken.
CloseQueue(from) ==
  /\ At(Monitor, from)
  /\ queueClosed' = TRUE
  /\ pc' = Waking(Waiting, Monitor, "exited")
  /\ UNCHANGED <<queue, size, poolVars, groupVars, task, todo, history>>

\* inflight is loaded, then the length of the queue.
MonitorDrain == MonitorMoves("drain", IF inflight # 0 THEN "waitDrain" ELSE "length")

\* Since the owners submit nothing more, the queue is empty whenever inflight was 0.
MonitorLength ==
  IF size # 0 THEN MonitorMoves("length", "waitDrain") ELSE CloseQueue("length")

MonitorStep ==
  \/ MonitorMoves("check", IF closedForSubmit THEN "drain" ELSE "context")
  \/ MonitorMoves("context", IF cancelled THEN "force" ELSE "waitClose")
  \/ MonitorDrain
  \/ MonitorLength
  \/ CloseQueue("force")

\* SharedTaskPool.CloseForSubmit: "the caller will not submit more external (caller-side) tasks",
\* so the owners have closed their groups; tasks may be queued and running.
CloseShared ==
  /\ MayClose
  /\ At(Closer, "open")
  /\ \A g \in Groups : pc[g] \in {"wait", "returned"}
  /\ closedForSubmit' = TRUE
  /\ GoTo(Closer, "kick")
  /\ UNCHANGED <<queueVars, cancelled, inflight, groupVars, task, todo, history>>

\* Mutant of Kick: the monitor is not woken.
Kick_Silent ==
  /\ At(Closer, "kick")
  /\ GoTo(Closer, "exited")
  /\ UNCHANGED <<queueVars, poolVars, groupVars, task, todo, history>>

\* The second half of CloseForSubmit wakes the monitor.
Kick ==
  /\ At(Closer, "kick")
  /\ BroadcastMonitor(Closer, "exited")
  /\ UNCHANGED <<queueVars, poolVars, groupVars, task, todo, history>>

\* The context of the pool's creator is cancelled; no condition is signalled.
Cancel ==
  /\ MayCancel
  /\ ~cancelled
  /\ cancelled' = TRUE
  /\ UNCHANGED <<queueVars, inflight, closedForSubmit, groupVars, pc, task, todo, history>>

Next ==
  \/ \E g \in Groups : OwnerStep(g)
  \/ \E w \in Workers : WorkerStep(w)
  \/ MonitorStep \/ CloseShared \/ Kick \/ Cancel

Spec == Init /\ [][Next]_vars

\* Go schedules every goroutine that can go on; nobody has to cancel or to close the pool.
Fairness ==
  /\ \A g \in Groups : WF_vars(OwnerStep(g))
  /\ \A w \in Workers : WF_vars(WorkerStep(w))
  /\ WF_vars(MonitorStep)
  /\ WF_vars(Kick)

FairSpec == Spec /\ Fairness

-----------------------------------------------------------------------------
(* Properties *)

SubmitLabels == {"err", "add", "put", "putBack", "refuse", "refuseLoad", "refused"}
OwnerLabels == SubmitLabels \cup
  {"submit", "loadClosed", "isFailed", "close", "closeLoad", "wait", "returned"}
TaskLabels == SubmitLabels \cup
  {"taken", "run", "body", "vadd", "error", "fail", "decrement", "decrementLoad", "over"}
WorkerLabels == TaskLabels \cup {"get", "waiting", "exited", "overLoad"}
MonitorLabels == {"check", "context", "waitClose", "waitDrain", "drain", "length", "force", "exited"}

\* Types: counters are never negative, a worker has a task exactly where Run of the task is called.
TypeOK ==
  /\ kind \in [Groups -> Kinds]
  /\ queue \in Seq(Tasks) /\ queueClosed \in BOOLEAN /\ size \in Int
  /\ cancelled \in BOOLEAN /\ inflight \in Nat /\ closedForSubmit \in BOOLEAN
  /\ closed \in [Groups -> BOOLEAN] /\ failed \in [Groups -> BOOLEAN]
  /\ errs \in [Groups -> SUBSET Tasks] /\ vinflight \in [Groups -> Nat]
  /\ done \in [Groups -> BOOLEAN]
  /\ DOMAIN pc = Processes /\ task \in [Workers -> Tasks \cup {NoTask}]
  /\ \A g \in Groups : pc[g] \in OwnerLabels
  /\ \A w \in Workers : pc[w] \in WorkerLabels /\ (task[w] # NoTask <=> pc[w] \in TaskLabels)
  /\ pc[Monitor] \in MonitorLabels /\ pc[Closer] \in {"open", "kick", "exited"}
  /\ todo \in [Submitters -> Seq(Tasks)]
  /\ refused \subseteq Groups /\ ran \subseteq Tasks

\* The elements of a sequence.
Elements(s) == {s[i] : i \in DOMAIN s}

\* Tasks of group g that are queued, or held by a worker that has not counted them off yet.
Pending(g) ==
  {t \in Tasks : GroupOf[t] = g /\ t \in Elements(queue)} \cup
  {task[w] : w \in {v \in Workers :
     pc[v] \in TaskLabels \ {"decrementLoad", "over"} /\ GroupOf[task[v]] = g}}

\* VirtualPool.Wait "blocks until the virtual has been closed for submit and all inflight tasks
\* have completed": once done is closed no task of the group is queued or running.
WaitMeansDrained == \A g \in Groups : done[g] => closed[g] /\ Pending(g) = {}

\* A walk that returns without an error has run every task: not one child of the tree is missed,
\* even if the pool is cancelled meanwhile.  Lenient walks (validation, deviations) promise it only
\* if the pool is not cancelled.
WalkIsComplete ==
  \A g \in Groups :
    /\ pc[g] = "returned" /\ g \notin refused /\ ~failed[g] /\ errs[g] = {}
    /\ kind[g] = "lenient" => ~cancelled
    => /\ Elements(Top[g]) \subseteq ran
       /\ \A t \in ran : GroupOf[t] = g => Elements(Children[t]) \subseteq ran

\* The queue is closed without force only when nothing is queued or running.
DrainedBeforeClose ==
  queueClosed /\ ~cancelled => queue = <<>> /\ \A w \in Workers : task[w] = NoTask

\* The variables have their types, done means drained, and the queue closes empty.
PoolInv == TypeOK /\ WaitMeansDrained /\ DrainedBeforeClose

\* Every owner that waits for its group returns, whether or not the pool is cancelled or a task
\* fails.
WaitReturns == \A g \in Groups : <>(pc[g] = "returned")

WorkersExited == \A w \in Workers : pc[w] = "exited"

\* After SharedTaskPool.CloseForSubmit the workers end.
CloseEndsWorkers == closedForSubmit ~> WorkersExited

\* Pool.Start, monitor: "Also handle ctx cancellation (force-close)": after the context of the pool
\* is cancelled the workers end.
CancelEndsWorkers == cancelled ~> WorkersExited
=============================================================================
