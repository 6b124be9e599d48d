-------------------------- MODULE WorkerPoolProofs --------------------------
(***************************************************************************)
(* Proofs about WorkerPool, for any number of workers, groups and tasks,   *)
(* any tree of children and any tasks that fail: Wait returns only when    *)
(* the group is drained, the queue is closed only when the pool is idle or *)
(* cancelled, and a walk that reports nothing has run every task.          *)
(*                                                                         *)
(* They hold for groups whose owner submits one task, as every walk of the *)
(* configuration tree does (OneRoot).  With two, a worker that counted the *)
(* first task off and loads closed late closes done while the second runs. *)
(*                                                                         *)
(* Here are the invariants and what keeps them, given what the counters    *)
(* count (Covered); WorkerCountProofs counts, and has the theorems.        *)
(***************************************************************************)
EXTENDS WorkerPool, TLAPS

\* Every walk submits one task, the root of the tree, and closes its group.
OneRoot == \A g \in Groups : Len(Top[g]) <= 1

-----------------------------------------------------------------------------
(* The inductive invariant *)

\* Where a submitter has counted the task it submits, and has not queued it.
ChildLabels == {"err", "add", "put", "putBack", "refuse"}
OwnerCounted == ChildLabels \cup {"loadClosed", "isFailed"}

\* Where a worker has a task that is not counted off.
Counted == TaskLabels \ {"decrementLoad", "over"}

\* Where a worker may have children to submit.
BodyLabels == SubmitLabels \cup {"body", "vadd", "error"}

\* What p, at l, has left to submit for group g: something where it submits, nothing where a worker
\* has no task, and tasks of the group only.
TodoFits(p, l, d, g) ==
  /\ l \in SubmitLabels \cup {"loadClosed", "isFailed", "vadd"} => d # <<>>
  /\ p \in Workers /\ l \notin BodyLabels => d = <<>>
  /\ \A i \in DOMAIN d : GroupOf[d[i]] = g

TodoInv == \A p \in Submitters : TodoFits(p, pc[p], todo[p], G(p))

\* What the counters cover: the tasks queued, held and being submitted.
Covered ==
  /\ \A w \in Workers :
       /\ pc[w] \in Counted => vinflight[GroupOf[task[w]]] > 0
       /\ pc[w] \in ChildLabels => vinflight[GroupOf[task[w]]] > 1
       /\ pc[w] \in TaskLabels => inflight > 0
  /\ \A g \in Groups :
       /\ pc[g] \in OwnerCounted => vinflight[g] > 0
       /\ vinflight[g] = 0 => \A i \in DOMAIN queue : GroupOf[queue[i]] # g
  /\ \A p \in Submitters : pc[p] = "put" => inflight > 0
  /\ inflight = 0 => queue = <<>>

\* While the root is not queued, no task of the group is anywhere.
RootInv ==
  \A g \in Groups :
    /\ Len(todo[g]) <= 1
    /\ todo[g] # <<>> =>
         /\ \A i \in DOMAIN queue : GroupOf[queue[i]] # g
         /\ \A w \in Workers : pc[w] \in TaskLabels => GroupOf[task[w]] # g

\* A worker, at l with task t: who finds the counter at zero is right for good, and no child that is
\* refused was the last task.
WorkerDone(l, t, v) == l # "refuseLoad" /\ (l = "decrementLoad" => v[GroupOf[t]] = 0)

\* An owner, at l with d left to submit, and the closed and the counter of its group.
OwnerDone(l, d, c, v) ==
  /\ l = "refuseLoad" => v = 0
  /\ l \in {"close", "closeLoad", "wait", "returned"} => d = <<>>
  /\ l \in {"closeLoad", "wait", "returned"} => c

\* A group that is closed, counts nothing and gets nothing more.
Drained(l, d, c, v) == c /\ v = 0 /\ (d = <<>> \/ l = "refused")

DoneInv ==
  /\ \A w \in Workers : WorkerDone(pc[w], task[w], vinflight)
  /\ \A g \in Groups : OwnerDone(pc[g], todo[g], closed[g], vinflight[g])
  /\ \A g \in Groups : done[g] => Drained(pc[g], todo[g], closed[g], vinflight[g])

\* What the monitor has seen stays true: nobody submits once the pool is closed and idle.
MonitorInv ==
  /\ closedForSubmit => \A g \in Groups : pc[g] \in {"wait", "returned"}
  /\ pc[Monitor] \in {"drain", "waitDrain", "length"} => closedForSubmit
  /\ pc[Monitor] = "length" => inflight = 0
  /\ pc[Monitor] = "force" => cancelled
  /\ queueClosed => cancelled \/ (closedForSubmit /\ inflight = 0)

\* The group has something to report: an error, a refused root, or a cancelled lenient walk.
Excused(g) ==
  \/ g \in refused \/ failed[g] \/ errs[g] # {}
  \/ kind[g] = "lenient" /\ cancelled

\* Where a worker has a task that can still run.
AliveLabels == BodyLabels \cup {"taken", "run"}

\* The tasks that have run, or are queued or held and can still run.
Alive == ran \cup Elements(queue) \cup {task[w] : w \in {v \in Workers : pc[v] \in AliveLabels}}

\* Each task of X is still to be submitted, in d, or alive, unless the group has something to report.
Accounted(g, X, d) == Excused(g) \/ X \subseteq Elements(d) \cup Alive

\* Why a worker at l is refused a child.
RefusedFor(l, g) == l \in {"putBack", "refuse", "refused"} => cancelled \/ failed[g]

\* No task of a walk that has nothing to report is lost.
WalkInv ==
  /\ \A g \in Groups : /\ pc[g] = "close" => g \in refused
                       /\ pc[g] = "returned" => done[g]
                       /\ failed[g] => kind[g] = "failFast"
                       /\ Accounted(g, Elements(Top[g]), todo[g])
  /\ \A w \in Workers :
       /\ RefusedFor(pc[w], GroupOf[task[w]])
       /\ pc[w] \in BodyLabels \ {"error"} =>
            Accounted(GroupOf[task[w]], Elements(Children[task[w]]), todo[w])
  /\ \A t \in ran : Accounted(GroupOf[t], Elements(Children[t]), <<>>)

-----------------------------------------------------------------------------
(* Who moves in a step *)

\* Workers, groups, the monitor and the closer differ.
LEMMA Names ==
  /\ \A w \in Workers : w \in Processes /\ w \in Submitters /\ w \notin Groups /\ w # Monitor /\ w # Closer
  /\ \A g \in Groups : g \in Processes /\ g \in Submitters /\ g \notin Workers /\ g # Monitor /\ g # Closer
  /\ Monitor \in Processes /\ Closer \in Processes /\ Monitor # Closer
  /\ \A p \in Submitters : p \in Workers \/ p \in Groups
BY Zenon, PoolAssumption DEF Processes, Submitters

\* Nobody but p moves, except that waiting workers are woken.
Others(p) ==
  /\ DOMAIN pc' = Processes
  /\ \A q \in Submitters \ {p} : pc'[q] = pc[q] \/ (pc[q] = "waiting" /\ pc'[q] = "get")
  /\ \A w \in Workers \ {p} : task'[w] = task[w]
  /\ \A q \in Submitters \ {p} : todo'[q] = todo[q]

\* The monitor goes on waiting, or is woken.
Woken(m) == m = pc[Monitor] \/ (pc[Monitor] = "waitClose" /\ m = "check") \/ (pc[Monitor] = "waitDrain" /\ m = "drain")

\* A step of p from a label in F to one in T.
Moves(p, F, T) ==
  /\ Others(p)
  /\ pc[p] \in F /\ pc'[p] \in T
  /\ Woken(pc'[Monitor]) /\ pc'[Closer] = pc[Closer]

LEMMA GoToMoves ==
  ASSUME DOMAIN pc = Processes, DOMAIN task = Workers, DOMAIN todo = Submitters,
         NEW p \in Submitters, NEW F, pc[p] \in F, NEW T, NEW l \in T, NEW m, NEW t, NEW d,
         pc' = [pc EXCEPT ![p] = l] \/ (Woken(m) /\ pc' = [pc EXCEPT ![p] = l, ![Monitor] = m]),
         task' = task \/ task' = [task EXCEPT ![p] = t],
         todo' = todo \/ todo' = [todo EXCEPT ![p] = d]
  PROVE  Moves(p, F, T)
<1> USE Names
<1>1. /\ DOMAIN pc' = Processes /\ pc'[p] = l /\ pc'[Closer] = pc[Closer]
      /\ Woken(pc'[Monitor])
      /\ \A q \in Submitters \ {p} : pc'[q] = pc[q]
  BY Zenon DEF Woken
<1>2. \A w \in Workers \ {p} : task'[w] = task[w] BY Zenon
<1>3. \A q \in Submitters \ {p} : todo'[q] = todo[q] BY Zenon
<1> QED BY Zenon, <1>1, <1>2, <1>3 DEF Moves, Others

\* What GoToMoves needs of the types.
LEMMA Domains ==
  ASSUME TypeOK
  PROVE  /\ DOMAIN pc = Processes /\ DOMAIN task = Workers /\ DOMAIN todo = Submitters
         /\ pc[Monitor] \in MonitorLabels
BY Zenon DEF TypeOK

\* The steps of submit, of an owner or of a task.
LEMMA SubmitMoves ==
  ASSUME TypeOK, NEW p \in Submitters
  PROVE  /\ ContextErr(p) => Moves(p, {"err"}, {"refuse", "add"})
         /\ AddInflight(p) => Moves(p, {"add"}, {"put"})
         /\ Put(p) => Moves(p, {"put"}, IF p \in Groups THEN {"submit"} ELSE {"body"})
         /\ PutClosed(p) => Moves(p, {"put"}, {"putBack"})
         /\ WakeAtZero(p, "putBack", "refuse") => Moves(p, {"putBack"}, {"refuse"})
         /\ DecrementInflight(p, "refuse", "refuseLoad", "refused") => Moves(p, {"refuse"}, {"refuseLoad", "refused"})
         /\ CloseDone(p, "refuseLoad", "refused") => Moves(p, {"refuseLoad"}, {"refused"})
         /\ Refused(p) => Moves(p, {"refused"}, IF p \in Groups THEN {"close"} ELSE {"body", "error"})
<1> USE Names, Domains, GoToMoves DEF queueVars, poolVars, groupVars, history, At, GoTo
<1>1. ASSUME ContextErr(p) PROVE Moves(p, {"err"}, {"refuse", "add"})
  BY Zenon, <1>1 DEF ContextErr
<1>2. ASSUME AddInflight(p) PROVE Moves(p, {"add"}, {"put"})
  BY Zenon, <1>2 DEF AddInflight
<1>3. ASSUME Put(p) PROVE Moves(p, {"put"}, IF p \in Groups THEN {"submit"} ELSE {"body"})
  BY Zenon, <1>3 DEF Put, Waking, Waiting, Moves, Others, Woken
<1>4. ASSUME PutClosed(p) PROVE Moves(p, {"put"}, {"putBack"})
  BY Zenon, <1>4 DEF PutClosed
<1>5. ASSUME WakeAtZero(p, "putBack", "refuse") PROVE Moves(p, {"putBack"}, {"refuse"})
  BY Zenon, <1>5 DEF WakeAtZero, BroadcastMonitor, Woken
<1>6. ASSUME DecrementInflight(p, "refuse", "refuseLoad", "refused") PROVE Moves(p, {"refuse"}, {"refuseLoad", "refused"})
  BY Zenon, <1>6 DEF DecrementInflight
<1>7. ASSUME CloseDone(p, "refuseLoad", "refused") PROVE Moves(p, {"refuseLoad"}, {"refused"})
  BY Zenon, <1>7 DEF CloseDone
<1>8. ASSUME Refused(p) PROVE Moves(p, {"refused"}, IF p \in Groups THEN {"close"} ELSE {"body", "error"})
  BY Zenon, <1>8 DEF Refused
<1> QED BY Zenon, <1>1, <1>2, <1>3, <1>4, <1>5, <1>6, <1>7, <1>8

\* The steps of an owner.
LEMMA OwnerMoves ==
  ASSUME TypeOK, NEW g \in Groups
  PROVE  /\ Submit(g) => Moves(g, {"submit"}, {"loadClosed"})
         /\ LoadClosed(g) => Moves(g, {"loadClosed"}, {"refuse", "isFailed"})
         /\ IsFailed(g) => Moves(g, {"isFailed"}, {"refuse", "err"})
         /\ CloseForSubmit(g) => Moves(g, {"close", "submit"}, {"closeLoad"})
         /\ CloseLoad(g) => Moves(g, {"closeLoad"}, {"wait"})
         /\ Wait(g) => Moves(g, {"wait"}, {"returned"})
<1> USE Names, Domains, GoToMoves DEF queueVars, poolVars, groupVars, history, At, GoTo
<1>1. ASSUME Submit(g) PROVE Moves(g, {"submit"}, {"loadClosed"})
  BY Zenon, <1>1 DEF Submit
<1>2. ASSUME LoadClosed(g) PROVE Moves(g, {"loadClosed"}, {"refuse", "isFailed"})
  BY Zenon, <1>2 DEF LoadClosed
<1>3. ASSUME IsFailed(g) PROVE Moves(g, {"isFailed"}, {"refuse", "err"})
  BY Zenon, <1>3 DEF IsFailed
<1>4. ASSUME CloseForSubmit(g) PROVE Moves(g, {"close", "submit"}, {"closeLoad"})
  BY Zenon, <1>4 DEF CloseForSubmit
<1>5. ASSUME CloseLoad(g) PROVE Moves(g, {"closeLoad"}, {"wait"})
  BY Zenon, <1>5 DEF CloseLoad
<1>6. ASSUME Wait(g) PROVE Moves(g, {"wait"}, {"returned"})
  BY Zenon, <1>6 DEF Wait
<1> QED BY Zenon, <1>1, <1>2, <1>3, <1>4, <1>5, <1>6

\* The steps of a worker.
LEMMA WorkerMoves ==
  ASSUME TypeOK, NEW w \in Workers
  PROVE  /\ GetWaits(w) => Moves(w, {"get"}, {"waiting"})
         /\ GetEnds(w) => Moves(w, {"get"}, {"exited"})
         /\ GetTakes(w) => Moves(w, {"get"}, {"taken"})
         /\ GetCounts(w) => Moves(w, {"taken"}, {"run"})
         /\ Run(w) => Moves(w, {"run"}, {"decrement", "body"})
         /\ SubmitInternal(w) => Moves(w, {"body"}, {"refused", "vadd"})
         /\ CountChild(w) => Moves(w, {"vadd"}, {"err"})
         /\ TaskEnds(w) => Moves(w, {"body"}, {"decrement"})
         /\ TaskFails(w) => Moves(w, {"body"}, {"error"})
         /\ RecordError(w) => Moves(w, {"error"}, {"fail", "decrement"})
         /\ FailCloses(w) => Moves(w, {"fail"}, {"decrement"})
         /\ DecrementInflight(w, "decrement", "decrementLoad", "over") => Moves(w, {"decrement"}, {"decrementLoad", "over"})
         /\ CloseDone(w, "decrementLoad", "over") => Moves(w, {"decrementLoad"}, {"over"})
         /\ TaskIsOver(w) => Moves(w, {"over"}, {"overLoad"})
         /\ WakeAtZero(w, "overLoad", "get") => Moves(w, {"overLoad"}, {"get"})
<1> USE Names, Domains, GoToMoves DEF queueVars, poolVars, groupVars, history, At, GoTo
<1>1. ASSUME GetWaits(w) PROVE Moves(w, {"get"}, {"waiting"})
  BY Zenon, <1>1 DEF GetWaits
<1>2. ASSUME GetEnds(w) PROVE Moves(w, {"get"}, {"exited"})
  BY Zenon, <1>2 DEF GetEnds
<1>3. ASSUME GetTakes(w) PROVE Moves(w, {"get"}, {"taken"})
  BY Zenon, <1>3 DEF GetTakes
<1>4. ASSUME GetCounts(w) PROVE Moves(w, {"taken"}, {"run"})
  BY Zenon, <1>4 DEF GetCounts
<1>5. ASSUME Run(w) PROVE Moves(w, {"run"}, {"decrement", "body"})
  BY Zenon, <1>5 DEF Run
<1>6. ASSUME SubmitInternal(w) PROVE Moves(w, {"body"}, {"refused", "vadd"})
  BY Zenon, <1>6 DEF SubmitInternal
<1>7. ASSUME CountChild(w) PROVE Moves(w, {"vadd"}, {"err"})
  BY Zenon, <1>7 DEF CountChild
<1>8. ASSUME TaskEnds(w) PROVE Moves(w, {"body"}, {"decrement"})
  BY Zenon, <1>8 DEF TaskEnds
<1>9. ASSUME TaskFails(w) PROVE Moves(w, {"body"}, {"error"})
  BY Zenon, <1>9 DEF TaskFails
<1>10. ASSUME RecordError(w) PROVE Moves(w, {"error"}, {"fail", "decrement"})
  BY Zenon, <1>10 DEF RecordError
<1>11. ASSUME FailCloses(w) PROVE Moves(w, {"fail"}, {"decrement"})
  BY Zenon, <1>11 DEF FailCloses
<1>12. ASSUME DecrementInflight(w, "decrement", "decrementLoad", "over") PROVE Moves(w, {"decrement"}, {"decrementLoad", "over"})
  BY Zenon, <1>12 DEF DecrementInflight
<1>13. ASSUME CloseDone(w, "decrementLoad", "over") PROVE Moves(w, {"decrementLoad"}, {"over"})
  BY Zenon, <1>13 DEF CloseDone
<1>14. ASSUME TaskIsOver(w) PROVE Moves(w, {"over"}, {"overLoad"})
  BY Zenon, <1>14 DEF TaskIsOver
<1>15. ASSUME WakeAtZero(w, "overLoad", "get") PROVE Moves(w, {"overLoad"}, {"get"})
  BY Zenon, <1>15 DEF WakeAtZero, BroadcastMonitor, Woken
<1> QED BY Zenon, <1>1, <1>2, <1>3, <1>4, <1>5, <1>6, <1>7, <1>8, <1>9, <1>10, <1>11, <1>12, <1>13, <1>14, <1>15

\* The steps of the monitor, of who closes the pool and of who cancels it.
LEMMA RestMoves ==
  ASSUME TypeOK
  PROVE  /\ MonitorStep => Others(Monitor) /\ pc'[Monitor] \in MonitorLabels /\ pc'[Closer] = pc[Closer]
         /\ CloseShared \/ Kick =>
              Others(Closer) /\ pc'[Monitor] \in MonitorLabels /\ pc'[Closer] \in {"open", "kick", "exited"}
         /\ Cancel \/ UNCHANGED vars => Others(Monitor) /\ pc' = pc /\ task' = task
<1> USE Names, Domains DEF queueVars, poolVars, groupVars, history, At, GoTo
<1> DEFINE M == Others(Monitor) /\ pc'[Monitor] \in MonitorLabels /\ pc'[Closer] = pc[Closer]
<1>1. ASSUME NEW from, NEW next \in MonitorLabels, MonitorMoves(from, next) PROVE M
  BY Zenon, <1>1 DEF MonitorMoves, Others
<1>2. ASSUME NEW from, CloseQueue(from) PROVE M
  BY Zenon, <1>2 DEF CloseQueue, Waking, Waiting, Others, MonitorLabels
<1>3. ASSUME MonitorStep PROVE M
  BY Zenon, <1>1, <1>2, <1>3 DEF MonitorStep, MonitorDrain, MonitorLength, MonitorLabels
<1>4. ASSUME CloseShared
      PROVE  Others(Closer) /\ pc'[Monitor] \in MonitorLabels /\ pc'[Closer] \in {"open", "kick", "exited"}
  BY Zenon, <1>4 DEF CloseShared, Others
<1>5. ASSUME Kick
      PROVE  Others(Closer) /\ pc'[Monitor] \in MonitorLabels /\ pc'[Closer] \in {"open", "kick", "exited"}
  BY Zenon, <1>5 DEF Kick, BroadcastMonitor, Others, MonitorLabels
<1>6. ASSUME Cancel PROVE Others(Monitor) /\ pc' = pc /\ task' = task
  BY Zenon, <1>6 DEF Cancel, Others
<1>7. ASSUME UNCHANGED vars PROVE Others(Monitor) /\ pc' = pc /\ task' = task
  BY Zenon, <1>7 DEF vars, Others
<1> QED BY Zenon, <1>3, <1>4, <1>5, <1>6, <1>7

-----------------------------------------------------------------------------
(* Types *)

\* The parts of TypeOK.
QueueOK(q, c, s) == q \in Seq(Tasks) /\ c \in BOOLEAN /\ s \in Int
CountersOK(x, i, c) == x \in BOOLEAN /\ i \in Nat /\ c \in BOOLEAN
GroupsOK(c, f, e, v, d) ==
  /\ c \in [Groups -> BOOLEAN] /\ f \in [Groups -> BOOLEAN] /\ e \in [Groups -> SUBSET Tasks]
  /\ v \in [Groups -> Nat] /\ d \in [Groups -> BOOLEAN]
HistoryOK(k, r, a) == k \in [Groups -> Kinds] /\ r \subseteq Groups /\ a \subseteq Tasks
TodoOK(d) == d \in [Submitters -> Seq(Tasks)]
LabelsOK(c, t) ==
  /\ DOMAIN c = Processes /\ t \in [Workers -> Tasks \cup {NoTask}]
  /\ \A g \in Groups : c[g] \in OwnerLabels
  /\ \A w \in Workers : c[w] \in WorkerLabels /\ (t[w] # NoTask <=> c[w] \in TaskLabels)
  /\ c[Monitor] \in MonitorLabels /\ c[Closer] \in {"open", "kick", "exited"}

LEMMA TypeSplit ==
  ASSUME TypeOK
  PROVE  /\ QueueOK(queue, queueClosed, size) /\ CountersOK(cancelled, inflight, closedForSubmit)
         /\ GroupsOK(closed, failed, errs, vinflight, done) /\ HistoryOK(kind, refused, ran)
         /\ TodoOK(todo) /\ LabelsOK(pc, task)
BY Zenon DEF TypeOK, QueueOK, CountersOK, GroupsOK, HistoryOK, TodoOK, LabelsOK

LEMMA TypeJoin ==
  ASSUME QueueOK(queue', queueClosed', size'), CountersOK(cancelled', inflight', closedForSubmit'),
         GroupsOK(closed', failed', errs', vinflight', done'), HistoryOK(kind', refused', ran'),
         TodoOK(todo'), LabelsOK(pc', task')
  PROVE  TypeOK'
BY Zenon DEF TypeOK, QueueOK, CountersOK, GroupsOK, HistoryOK, TodoOK, LabelsOK

\* The group of a submitter.
LEMMA GroupTypes ==
  ASSUME TypeOK
  PROVE  /\ \A g \in Groups : G(g) = g
         /\ \A w \in Workers : G(w) = GroupOf[task[w]] /\ (pc[w] \in TaskLabels => task[w] \in Tasks /\ G(w) \in Groups)
BY TypeSplit, Names, PoolAssumption DEF G, LabelsOK

\* Counting keeps a counter a counter.
LEMMA CounterType ==
  ASSUME NEW f \in [Groups -> Nat], NEW g, g \in Groups => f[g] > 0
  PROVE  /\ [f EXCEPT ![g] = @ + 1] \in [Groups -> Nat]
         /\ [f EXCEPT ![g] = @ - 1] \in [Groups -> Nat]
<1>1. \A h \in Groups : f[h] + 1 \in Nat OBVIOUS
<1>2. g \in Groups => f[g] - 1 \in Nat OBVIOUS
<1> QED BY Zenon, <1>1, <1>2

LEMMA LabelsStep ==
  ASSUME LabelsOK(pc, task), NEW p \in Submitters, NEW F, NEW T, Moves(p, F, T),
         task' \in [Workers -> Tasks \cup {NoTask}],
         p \in Groups => T \subseteq OwnerLabels,
         p \in Workers => T \subseteq WorkerLabels /\ (task'[p] # NoTask <=> pc'[p] \in TaskLabels)
  PROVE  LabelsOK(pc', task')
<1> USE Names
<1>1. /\ DOMAIN pc' = Processes /\ pc'[Monitor] \in MonitorLabels /\ pc'[Closer] \in {"open", "kick", "exited"}
      /\ pc'[p] \in T
  BY Zenon DEF Moves, Others, Woken, LabelsOK, MonitorLabels
<1>2. ASSUME NEW g \in Groups PROVE pc'[g] \in OwnerLabels
  <2>1. CASE g = p BY Zenon, <1>1, <2>1
  <2>2. CASE g # p
    BY Zenon, <1>2, <2>2 DEF Moves, Others, LabelsOK, OwnerLabels, SubmitLabels
  <2> QED BY Zenon, <2>1, <2>2
<1>3. ASSUME NEW w \in Workers PROVE pc'[w] \in WorkerLabels /\ (task'[w] # NoTask <=> pc'[w] \in TaskLabels)
  <2>1. CASE w = p BY Zenon, <1>1, <2>1
  <2>2. CASE w # p
    <3>1. task'[w] = task[w] /\ (pc'[w] = pc[w] \/ (pc[w] = "waiting" /\ pc'[w] = "get"))
      BY Zenon, <1>3, <2>2 DEF Moves, Others
    <3> QED BY Zenon, <1>3, <3>1 DEF LabelsOK, WorkerLabels, TaskLabels, SubmitLabels
  <2> QED BY Zenon, <2>1, <2>2
<1> QED BY Zenon, <1>1, <1>2, <1>3 DEF LabelsOK

LEMMA SubmitTypes ==
  ASSUME TypeOK, TodoInv, Covered, NEW p \in Submitters, SubmitStep(p)
  PROVE  TypeOK'
<1> USE Names DEF queueVars, poolVars, groupVars, history, At, GoTo
<1>1. ASSUME ContextErr(p) PROVE TypeOK'
  <2>1. Moves(p, {"err"}, {"refuse", "add"}) BY Zenon, <1>1, SubmitMoves
  <2>2. LabelsOK(pc', task')
    <3>1. task' = task BY Zenon, <1>1 DEF ContextErr
    <3> QED BY Zenon, <2>1, <3>1, TypeSplit, LabelsStep DEF Moves, LabelsOK, OwnerLabels, WorkerLabels, TaskLabels, SubmitLabels
  <2> QED BY Zenon, <1>1, <2>2, TypeSplit, TypeJoin DEF ContextErr
<1>2. ASSUME AddInflight(p) PROVE TypeOK'
  <2>1. Moves(p, {"add"}, {"put"}) BY Zenon, <1>2, SubmitMoves
  <2>3. CountersOK(cancelled', inflight', closedForSubmit') BY <1>2, TypeSplit DEF AddInflight, CountersOK
  <2>2. LabelsOK(pc', task')
    <3>1. task' = task BY Zenon, <1>2 DEF AddInflight
    <3> QED BY Zenon, <2>1, <3>1, TypeSplit, LabelsStep DEF Moves, LabelsOK, OwnerLabels, WorkerLabels, TaskLabels, SubmitLabels
  <2> QED BY Zenon, <1>2, <2>2, <2>3, TypeSplit, TypeJoin DEF AddInflight
<1>3. ASSUME Put(p) PROVE TypeOK'
  <2>1. Moves(p, {"put"}, IF p \in Groups THEN {"submit"} ELSE {"body"}) BY Zenon, <1>3, SubmitMoves
  <2>4. todo[p] # <<>> BY Zenon, <1>3 DEF Put, TodoInv, TodoFits, SubmitLabels
  <2>5. todo[p] \in Seq(Tasks) /\ Head(todo[p]) \in Tasks /\ Tail(todo[p]) \in Seq(Tasks) BY <2>4, TypeSplit DEF TodoOK
  <2>3. QueueOK(queue', queueClosed', size') /\ TodoOK(todo') BY <1>3, <2>5, TypeSplit DEF Put, QueueOK, TodoOK
  <2>2. LabelsOK(pc', task')
    <3>1. task' = task BY Zenon, <1>3 DEF Put
    <3> QED BY Zenon, <2>1, <3>1, TypeSplit, LabelsStep DEF Moves, LabelsOK, OwnerLabels, WorkerLabels, TaskLabels, SubmitLabels
  <2> QED BY Zenon, <1>3, <2>2, <2>3, TypeSplit, TypeJoin DEF Put
<1>4. ASSUME PutClosed(p) PROVE TypeOK'
  <2>1. Moves(p, {"put"}, {"putBack"}) BY Zenon, <1>4, SubmitMoves
  <2>3. CountersOK(cancelled', inflight', closedForSubmit') BY <1>4, TypeSplit DEF PutClosed, CountersOK, Covered
  <2>2. LabelsOK(pc', task')
    <3>1. task' = task BY Zenon, <1>4 DEF PutClosed
    <3> QED BY Zenon, <2>1, <3>1, TypeSplit, LabelsStep DEF Moves, LabelsOK, OwnerLabels, WorkerLabels, TaskLabels, SubmitLabels
  <2> QED BY Zenon, <1>4, <2>2, <2>3, TypeSplit, TypeJoin DEF PutClosed
<1>5. ASSUME WakeAtZero(p, "putBack", "refuse") PROVE TypeOK'
  <2>1. Moves(p, {"putBack"}, {"refuse"}) BY Zenon, <1>5, SubmitMoves
  <2>2. LabelsOK(pc', task')
    <3>1. task' = task BY Zenon, <1>5 DEF WakeAtZero
    <3> QED BY Zenon, <2>1, <3>1, TypeSplit, LabelsStep DEF Moves, LabelsOK, OwnerLabels, WorkerLabels, TaskLabels, SubmitLabels
  <2> QED BY Zenon, <1>5, <2>2, TypeSplit, TypeJoin DEF WakeAtZero
<1>6. ASSUME DecrementInflight(p, "refuse", "refuseLoad", "refused") PROVE TypeOK'
  <2>1. Moves(p, {"refuse"}, {"refuseLoad", "refused"}) BY Zenon, <1>6, SubmitMoves
  <2>4. G(p) \in Groups /\ vinflight[G(p)] > 0
    <3>1. CASE p \in Workers BY Zenon, <2>1, <3>1, GroupTypes DEF Moves, TaskLabels, SubmitLabels, Counted, Covered
    <3>2. CASE p \in Groups BY Zenon, <2>1, <3>2, GroupTypes DEF Moves, OwnerCounted, ChildLabels, Covered
    <3> QED BY Zenon, <3>1, <3>2, Names
  <2>5. vinflight' \in [Groups -> Nat] BY Zenon, <1>6, <2>4, TypeSplit, CounterType DEF DecrementInflight, GroupsOK
  <2>3. GroupsOK(closed', failed', errs', vinflight', done') BY Zenon, <1>6, <2>5, TypeSplit DEF DecrementInflight, GroupsOK
  <2>2. LabelsOK(pc', task')
    <3>1. task' = task BY Zenon, <1>6 DEF DecrementInflight
    <3> QED BY Zenon, <2>1, <3>1, TypeSplit, LabelsStep DEF Moves, LabelsOK, OwnerLabels, WorkerLabels, TaskLabels, SubmitLabels
  <2> QED BY Zenon, <1>6, <2>2, <2>3, TypeSplit, TypeJoin DEF DecrementInflight
<1>7. ASSUME CloseDone(p, "refuseLoad", "refused") PROVE TypeOK'
  <2>1. Moves(p, {"refuseLoad"}, {"refused"}) BY Zenon, <1>7, SubmitMoves
  <2>3. GroupsOK(closed', failed', errs', vinflight', done') BY Zenon, <1>7, TypeSplit DEF CloseDone, GroupsOK
  <2>2. LabelsOK(pc', task')
    <3>1. task' = task BY Zenon, <1>7 DEF CloseDone
    <3> QED BY Zenon, <2>1, <3>1, TypeSplit, LabelsStep DEF Moves, LabelsOK, OwnerLabels, WorkerLabels, TaskLabels, SubmitLabels
  <2> QED BY Zenon, <1>7, <2>2, <2>3, TypeSplit, TypeJoin DEF CloseDone
<1>8. ASSUME Refused(p) PROVE TypeOK'
  <2>1. Moves(p, {"refused"}, IF p \in Groups THEN {"close"} ELSE {"body", "error"}) BY Zenon, <1>8, SubmitMoves
  <2>4. todo[p] # <<>> BY Zenon, <1>8 DEF Refused, TodoInv, TodoFits, SubmitLabels
  <2>5. todo[p] \in Seq(Tasks) /\ Tail(todo[p]) \in Seq(Tasks) BY <2>4, TypeSplit DEF TodoOK
  <2>6. TodoOK(todo') BY Zenon, <1>8, <2>5, TypeSplit DEF Refused, TodoOK
  <2>7. HistoryOK(kind', refused', ran') BY Zenon, <1>8, TypeSplit DEF Refused, HistoryOK
  <2>3. HistoryOK(kind', refused', ran') /\ TodoOK(todo') BY Zenon, <2>6, <2>7
  <2>2. LabelsOK(pc', task')
    <3>1. task' = task BY Zenon, <1>8 DEF Refused
    <3> QED BY Zenon, <2>1, <3>1, TypeSplit, LabelsStep DEF Moves, LabelsOK, OwnerLabels, WorkerLabels, TaskLabels, SubmitLabels
  <2> QED BY Zenon, <1>8, <2>2, <2>3, TypeSplit, TypeJoin DEF Refused
<1> QED BY Zenon, <1>1, <1>2, <1>3, <1>4, <1>5, <1>6, <1>7, <1>8 DEF SubmitStep

LEMMA OwnerTypes ==
  ASSUME TypeOK, TodoInv, Covered, NEW g \in Groups, OwnerStep(g)
  PROVE  TypeOK'
<1> USE Names DEF queueVars, poolVars, groupVars, history, At, GoTo
<1>1. ASSUME Submit(g) PROVE TypeOK'
  <2>1. Moves(g, {"submit"}, {"loadClosed"}) BY Zenon, <1>1, OwnerMoves
  <2>3. GroupsOK(closed', failed', errs', vinflight', done') BY <1>1, TypeSplit DEF Submit, GroupsOK
  <2>2. LabelsOK(pc', task')
    <3>1. task' = task BY Zenon, <1>1 DEF Submit
    <3> QED BY Zenon, <2>1, <3>1, TypeSplit, LabelsStep DEF Moves, LabelsOK, OwnerLabels, WorkerLabels, TaskLabels, SubmitLabels
  <2> QED BY Zenon, <1>1, <2>2, <2>3, TypeSplit, TypeJoin DEF Submit
<1>2. ASSUME LoadClosed(g) PROVE TypeOK'
  <2>1. Moves(g, {"loadClosed"}, {"refuse", "isFailed"}) BY Zenon, <1>2, OwnerMoves
  <2>2. LabelsOK(pc', task')
    <3>1. task' = task BY Zenon, <1>2 DEF LoadClosed
    <3> QED BY Zenon, <2>1, <3>1, TypeSplit, LabelsStep DEF Moves, LabelsOK, OwnerLabels, WorkerLabels, TaskLabels, SubmitLabels
  <2> QED BY Zenon, <1>2, <2>2, TypeSplit, TypeJoin DEF LoadClosed
<1>3. ASSUME IsFailed(g) PROVE TypeOK'
  <2>1. Moves(g, {"isFailed"}, {"refuse", "err"}) BY Zenon, <1>3, OwnerMoves
  <2>2. LabelsOK(pc', task')
    <3>1. task' = task BY Zenon, <1>3 DEF IsFailed
    <3> QED BY Zenon, <2>1, <3>1, TypeSplit, LabelsStep DEF Moves, LabelsOK, OwnerLabels, WorkerLabels, TaskLabels, SubmitLabels
  <2> QED BY Zenon, <1>3, <2>2, TypeSplit, TypeJoin DEF IsFailed
<1>4. ASSUME CloseForSubmit(g) PROVE TypeOK'
  <2>1. Moves(g, {"close", "submit"}, {"closeLoad"}) BY Zenon, <1>4, OwnerMoves
  <2>3. GroupsOK(closed', failed', errs', vinflight', done') BY Zenon, <1>4, TypeSplit DEF CloseForSubmit, GroupsOK
  <2>2. LabelsOK(pc', task')
    <3>1. task' = task BY Zenon, <1>4 DEF CloseForSubmit
    <3> QED BY Zenon, <2>1, <3>1, TypeSplit, LabelsStep DEF Moves, LabelsOK, OwnerLabels, WorkerLabels, TaskLabels, SubmitLabels
  <2> QED BY Zenon, <1>4, <2>2, <2>3, TypeSplit, TypeJoin DEF CloseForSubmit
<1>5. ASSUME CloseLoad(g) PROVE TypeOK'
  <2>1. Moves(g, {"closeLoad"}, {"wait"}) BY Zenon, <1>5, OwnerMoves
  <2>3. GroupsOK(closed', failed', errs', vinflight', done') BY Zenon, <1>5, TypeSplit DEF CloseLoad, GroupsOK
  <2>2. LabelsOK(pc', task')
    <3>1. task' = task BY Zenon, <1>5 DEF CloseLoad
    <3> QED BY Zenon, <2>1, <3>1, TypeSplit, LabelsStep DEF Moves, LabelsOK, OwnerLabels, WorkerLabels, TaskLabels, SubmitLabels
  <2> QED BY Zenon, <1>5, <2>2, <2>3, TypeSplit, TypeJoin DEF CloseLoad
<1>6. ASSUME Wait(g) PROVE TypeOK'
  <2>1. Moves(g, {"wait"}, {"returned"}) BY Zenon, <1>6, OwnerMoves
  <2>2. LabelsOK(pc', task')
    <3>1. task' = task BY Zenon, <1>6 DEF Wait
    <3> QED BY Zenon, <2>1, <3>1, TypeSplit, LabelsStep DEF Moves, LabelsOK, OwnerLabels, WorkerLabels, TaskLabels, SubmitLabels
  <2> QED BY Zenon, <1>6, <2>2, TypeSplit, TypeJoin DEF Wait
<1> QED BY Zenon, <1>1, <1>2, <1>3, <1>4, <1>5, <1>6, SubmitTypes DEF OwnerStep

LEMMA WorkerTypes ==
  ASSUME TypeOK, TodoInv, Covered, NEW w \in Workers, WorkerStep(w)
  PROVE  TypeOK'
<1> USE Names DEF queueVars, poolVars, groupVars, history, At, GoTo
<1>1. ASSUME GetWaits(w) PROVE TypeOK'
  <2>1. Moves(w, {"get"}, {"waiting"}) BY Zenon, <1>1, WorkerMoves
  <2>2. LabelsOK(pc', task')
    <3>1. task' = task BY Zenon, <1>1 DEF GetWaits
    <3> QED BY Zenon, <2>1, <3>1, TypeSplit, LabelsStep DEF Moves, LabelsOK, OwnerLabels, WorkerLabels, TaskLabels, SubmitLabels
  <2> QED BY Zenon, <1>1, <2>2, TypeSplit, TypeJoin DEF GetWaits
<1>2. ASSUME GetEnds(w) PROVE TypeOK'
  <2>1. Moves(w, {"get"}, {"exited"}) BY Zenon, <1>2, WorkerMoves
  <2>2. LabelsOK(pc', task')
    <3>1. task' = task BY Zenon, <1>2 DEF GetEnds
    <3> QED BY Zenon, <2>1, <3>1, TypeSplit, LabelsStep DEF Moves, LabelsOK, OwnerLabels, WorkerLabels, TaskLabels, SubmitLabels
  <2> QED BY Zenon, <1>2, <2>2, TypeSplit, TypeJoin DEF GetEnds
<1>3. ASSUME GetTakes(w) PROVE TypeOK'
  <2>1. Moves(w, {"get"}, {"taken"}) BY Zenon, <1>3, WorkerMoves
  <2>4. Head(queue) \in Tasks BY <1>3, TypeSplit DEF GetTakes, QueueOK
  <2>3. QueueOK(queue', queueClosed', size') BY <1>3, TypeSplit DEF GetTakes, QueueOK
  <2>5. task'[w] \in Tasks /\ task' \in [Workers -> Tasks \cup {NoTask}] BY Zenon, <1>3, <2>4, TypeSplit DEF GetTakes, LabelsOK
  <2>2. LabelsOK(pc', task')
    <3>1. task'[w] # NoTask BY Zenon, <2>5, PoolAssumption
    <3> QED BY Zenon, <2>1, <2>5, <3>1, TypeSplit, LabelsStep DEF Moves, OwnerLabels, WorkerLabels, TaskLabels, SubmitLabels
  <2> QED BY Zenon, <1>3, <2>2, <2>3, TypeSplit, TypeJoin DEF GetTakes
<1>4. ASSUME GetCounts(w) PROVE TypeOK'
  <2>1. Moves(w, {"taken"}, {"run"}) BY Zenon, <1>4, WorkerMoves
  <2>3. QueueOK(queue', queueClosed', size') BY <1>4, TypeSplit DEF GetCounts, QueueOK
  <2>2. LabelsOK(pc', task')
    <3>1. task' = task BY Zenon, <1>4 DEF GetCounts
    <3> QED BY Zenon, <2>1, <3>1, TypeSplit, LabelsStep DEF Moves, LabelsOK, OwnerLabels, WorkerLabels, TaskLabels, SubmitLabels
  <2> QED BY Zenon, <1>4, <2>2, <2>3, TypeSplit, TypeJoin DEF GetCounts
<1>5. ASSUME Run(w) PROVE TypeOK'
  <2>1. Moves(w, {"run"}, {"decrement", "body"}) BY Zenon, <1>5, WorkerMoves
  <2>4. task[w] \in Tasks BY Zenon, <2>1, GroupTypes DEF Moves, TaskLabels
  <2>5. Children[task[w]] \in Seq(Tasks) BY Zenon, <2>4, PoolAssumption
  <2>6. todo' = todo \/ todo' = [todo EXCEPT ![w] = Children[task[w]]] BY Zenon, <1>5 DEF Run
  <2>3. TodoOK(todo') BY Zenon, <2>5, <2>6, TypeSplit DEF TodoOK
  <2>2. LabelsOK(pc', task')
    <3>1. task' = task BY Zenon, <1>5 DEF Run
    <3> QED BY Zenon, <2>1, <3>1, TypeSplit, LabelsStep DEF Moves, LabelsOK, OwnerLabels, WorkerLabels, TaskLabels, SubmitLabels
  <2> QED BY Zenon, <1>5, <2>2, <2>3, TypeSplit, TypeJoin DEF Run
<1>6. ASSUME SubmitInternal(w) PROVE TypeOK'
  <2>1. Moves(w, {"body"}, {"refused", "vadd"}) BY Zenon, <1>6, WorkerMoves
  <2>2. LabelsOK(pc', task')
    <3>1. task' = task BY Zenon, <1>6 DEF SubmitInternal
    <3> QED BY Zenon, <2>1, <3>1, TypeSplit, LabelsStep DEF Moves, LabelsOK, OwnerLabels, WorkerLabels, TaskLabels, SubmitLabels
  <2> QED BY Zenon, <1>6, <2>2, TypeSplit, TypeJoin DEF SubmitInternal
<1>7. ASSUME CountChild(w) PROVE TypeOK'
  <2>1. Moves(w, {"vadd"}, {"err"}) BY Zenon, <1>7, WorkerMoves
  <2>4. G(w) \in Groups => vinflight[G(w)] > 0
    BY Zenon, <2>1, GroupTypes DEF Moves, TaskLabels, Counted, Covered
  <2>5. vinflight' \in [Groups -> Nat] BY Zenon, <1>7, <2>4, TypeSplit, CounterType DEF CountChild, GroupsOK
  <2>3. GroupsOK(closed', failed', errs', vinflight', done') BY Zenon, <1>7, <2>5, TypeSplit DEF CountChild, GroupsOK
  <2>2. LabelsOK(pc', task')
    <3>1. task' = task BY Zenon, <1>7 DEF CountChild
    <3> QED BY Zenon, <2>1, <3>1, TypeSplit, LabelsStep DEF Moves, LabelsOK, OwnerLabels, WorkerLabels, TaskLabels, SubmitLabels
  <2> QED BY Zenon, <1>7, <2>2, <2>3, TypeSplit, TypeJoin DEF CountChild
<1>8. ASSUME TaskEnds(w) PROVE TypeOK'
  <2>1. Moves(w, {"body"}, {"decrement"}) BY Zenon, <1>8, WorkerMoves
  <2>4. task[w] \in Tasks BY Zenon, <2>1, GroupTypes DEF Moves, TaskLabels
  <2>3. HistoryOK(kind', refused', ran') BY Zenon, <1>8, <2>4, TypeSplit DEF TaskEnds, HistoryOK
  <2>2. LabelsOK(pc', task')
    <3>1. task' = task BY Zenon, <1>8 DEF TaskEnds
    <3> QED BY Zenon, <2>1, <3>1, TypeSplit, LabelsStep DEF Moves, LabelsOK, OwnerLabels, WorkerLabels, TaskLabels, SubmitLabels
  <2> QED BY Zenon, <1>8, <2>2, <2>3, TypeSplit, TypeJoin DEF TaskEnds
<1>9. ASSUME TaskFails(w) PROVE TypeOK'
  <2>1. Moves(w, {"body"}, {"error"}) BY Zenon, <1>9, WorkerMoves
  <2>2. LabelsOK(pc', task')
    <3>1. task' = task BY Zenon, <1>9 DEF TaskFails
    <3> QED BY Zenon, <2>1, <3>1, TypeSplit, LabelsStep DEF Moves, LabelsOK, OwnerLabels, WorkerLabels, TaskLabels, SubmitLabels
  <2> QED BY Zenon, <1>9, <2>2, TypeSplit, TypeJoin DEF TaskFails
<1>10. ASSUME RecordError(w) PROVE TypeOK'
  <2>1. Moves(w, {"error"}, {"fail", "decrement"}) BY Zenon, <1>10, WorkerMoves
  <2>4. task[w] \in Tasks BY Zenon, <2>1, GroupTypes DEF Moves, TaskLabels, SubmitLabels
  <2>5. TodoOK(todo')
    <3>1. todo' = [todo EXCEPT ![w] = <<>>] BY Zenon, <1>10 DEF RecordError
    <3>2. <<>> \in Seq(Tasks) OBVIOUS
    <3> QED BY Zenon, <3>1, <3>2, TypeSplit DEF TodoOK
  <2>6. failed' = failed \/ failed' = [failed EXCEPT ![G(w)] = TRUE] BY Zenon, <1>10 DEF RecordError
  <2>7. errs' = errs \/ errs' = [errs EXCEPT ![G(w)] = @ \cup {task[w]}] BY Zenon, <1>10 DEF RecordError
  <2>8. failed' \in [Groups -> BOOLEAN] BY Zenon, <2>6, TypeSplit DEF GroupsOK
  <2>9. errs' \in [Groups -> SUBSET Tasks]
    <3>1. errs \in [Groups -> SUBSET Tasks] BY Zenon, TypeSplit DEF GroupsOK
    <3>2. \A g \in Groups : errs[g] \cup {task[w]} \in SUBSET Tasks BY Zenon, <2>4, <3>1
    <3>3. CASE errs' = [errs EXCEPT ![G(w)] = @ \cup {task[w]}] BY Zenon, <3>1, <3>2, <3>3
    <3> QED BY Zenon, <2>7, <3>1, <3>3
  <2>10. GroupsOK(closed', failed', errs', vinflight', done') BY Zenon, <1>10, <2>8, <2>9, TypeSplit DEF RecordError, GroupsOK
  <2>3. GroupsOK(closed', failed', errs', vinflight', done') /\ TodoOK(todo') BY Zenon, <2>5, <2>10
  <2>2. LabelsOK(pc', task')
    <3>1. task' = task BY Zenon, <1>10 DEF RecordError
    <3> QED BY Zenon, <2>1, <3>1, TypeSplit, LabelsStep DEF Moves, LabelsOK, OwnerLabels, WorkerLabels, TaskLabels, SubmitLabels
  <2> QED BY Zenon, <1>10, <2>2, <2>3, TypeSplit, TypeJoin DEF RecordError
<1>11. ASSUME FailCloses(w) PROVE TypeOK'
  <2>1. Moves(w, {"fail"}, {"decrement"}) BY Zenon, <1>11, WorkerMoves
  <2>3. GroupsOK(closed', failed', errs', vinflight', done') BY Zenon, <1>11, TypeSplit DEF FailCloses, GroupsOK
  <2>2. LabelsOK(pc', task')
    <3>1. task' = task BY Zenon, <1>11 DEF FailCloses
    <3> QED BY Zenon, <2>1, <3>1, TypeSplit, LabelsStep DEF Moves, LabelsOK, OwnerLabels, WorkerLabels, TaskLabels, SubmitLabels
  <2> QED BY Zenon, <1>11, <2>2, <2>3, TypeSplit, TypeJoin DEF FailCloses
<1>12. ASSUME DecrementInflight(w, "decrement", "decrementLoad", "over") PROVE TypeOK'
  <2>1. Moves(w, {"decrement"}, {"decrementLoad", "over"}) BY Zenon, <1>12, WorkerMoves
  <2>4. G(w) \in Groups /\ vinflight[G(w)] > 0
    BY Zenon, <2>1, GroupTypes DEF Moves, TaskLabels, Counted, Covered
  <2>5. vinflight' \in [Groups -> Nat] BY Zenon, <1>12, <2>4, TypeSplit, CounterType DEF DecrementInflight, GroupsOK
  <2>3. GroupsOK(closed', failed', errs', vinflight', done') BY Zenon, <1>12, <2>5, TypeSplit DEF DecrementInflight, GroupsOK
  <2>2. LabelsOK(pc', task')
    <3>1. task' = task BY Zenon, <1>12 DEF DecrementInflight
    <3> QED BY Zenon, <2>1, <3>1, TypeSplit, LabelsStep DEF Moves, LabelsOK, OwnerLabels, WorkerLabels, TaskLabels, SubmitLabels
  <2> QED BY Zenon, <1>12, <2>2, <2>3, TypeSplit, TypeJoin DEF DecrementInflight
<1>13. ASSUME CloseDone(w, "decrementLoad", "over") PROVE TypeOK'
  <2>1. Moves(w, {"decrementLoad"}, {"over"}) BY Zenon, <1>13, WorkerMoves
  <2>3. GroupsOK(closed', failed', errs', vinflight', done') BY Zenon, <1>13, TypeSplit DEF CloseDone, GroupsOK
  <2>2. LabelsOK(pc', task')
    <3>1. task' = task BY Zenon, <1>13 DEF CloseDone
    <3> QED BY Zenon, <2>1, <3>1, TypeSplit, LabelsStep DEF Moves, LabelsOK, OwnerLabels, WorkerLabels, TaskLabels, SubmitLabels
  <2> QED BY Zenon, <1>13, <2>2, <2>3, TypeSplit, TypeJoin DEF CloseDone
<1>14. ASSUME TaskIsOver(w) PROVE TypeOK'
  <2>1. Moves(w, {"over"}, {"overLoad"}) BY Zenon, <1>14, WorkerMoves
  <2>3. CountersOK(cancelled', inflight', closedForSubmit') BY <1>14, <2>1, TypeSplit DEF TaskIsOver, CountersOK, Covered, Moves, TaskLabels
  <2>5. task'[w] = NoTask /\ task' \in [Workers -> Tasks \cup {NoTask}] BY Zenon, <1>14, TypeSplit DEF TaskIsOver, LabelsOK
  <2>2. LabelsOK(pc', task') BY Zenon, <2>1, <2>5, TypeSplit, LabelsStep DEF Moves, OwnerLabels, WorkerLabels, TaskLabels, SubmitLabels
  <2> QED BY Zenon, <1>14, <2>2, <2>3, TypeSplit, TypeJoin DEF TaskIsOver
<1>15. ASSUME WakeAtZero(w, "overLoad", "get") PROVE TypeOK'
  <2>1. Moves(w, {"overLoad"}, {"get"}) BY Zenon, <1>15, WorkerMoves
  <2>2. LabelsOK(pc', task')
    <3>1. task' = task BY Zenon, <1>15 DEF WakeAtZero
    <3> QED BY Zenon, <2>1, <3>1, TypeSplit, LabelsStep DEF Moves, LabelsOK, OwnerLabels, WorkerLabels, TaskLabels, SubmitLabels
  <2> QED BY Zenon, <1>15, <2>2, TypeSplit, TypeJoin DEF WakeAtZero
<1> QED BY Zenon, <1>1, <1>2, <1>3, <1>4, <1>5, <1>6, <1>7, <1>8, <1>9, <1>10, <1>11, <1>12, <1>13, <1>14, <1>15, SubmitTypes DEF WorkerStep

LEMMA TypesKept ==
  TypeOK /\ TodoInv /\ Covered /\ [Next]_vars => TypeOK'
<1> SUFFICES ASSUME TypeOK, TodoInv, Covered, [Next]_vars PROVE TypeOK'
  BY Zenon
<1> USE Names DEF queueVars, poolVars, groupVars, history
<1>1. ASSUME NEW p \in {Monitor, Closer}, Others(p), task' = task, pc'[Monitor] \in MonitorLabels,
             pc'[Closer] \in {"open", "kick", "exited"}
      PROVE  LabelsOK(pc', task')
  <2>1. \A q \in Submitters : pc'[q] = pc[q] \/ (pc[q] = "waiting" /\ pc'[q] = "get") BY Zenon, <1>1 DEF Others
  <2>2. \A g \in Groups : pc'[g] \in OwnerLabels
    BY Zenon, <2>1, TypeSplit DEF LabelsOK, OwnerLabels, SubmitLabels
  <2>3. \A w \in Workers : pc'[w] \in WorkerLabels /\ (task'[w] # NoTask <=> pc'[w] \in TaskLabels)
    BY Zenon, <1>1, <2>1, TypeSplit DEF LabelsOK, WorkerLabels, TaskLabels, SubmitLabels
  <2> QED BY Zenon, <1>1, <2>2, <2>3, TypeSplit DEF LabelsOK, Others
<1>2. CASE MonitorStep
  <2>1. LabelsOK(pc', task')
    BY Zenon, <1>1, <1>2, RestMoves, TypeSplit
    DEF MonitorStep, MonitorDrain, MonitorLength, MonitorMoves, CloseQueue, LabelsOK
  <2>2. QueueOK(queue', queueClosed', size')
    BY Zenon, <1>2, TypeSplit DEF MonitorStep, MonitorDrain, MonitorLength, MonitorMoves, CloseQueue, QueueOK
  <2> QED BY Zenon, <1>2, <2>1, <2>2, TypeSplit, TypeJoin DEF MonitorStep, MonitorDrain, MonitorLength, MonitorMoves, CloseQueue
<1>3. CASE CloseShared
  <2>1. LabelsOK(pc', task') BY Zenon, <1>1, <1>3, RestMoves DEF CloseShared
  <2>2. CountersOK(cancelled', inflight', closedForSubmit') BY Zenon, <1>3, TypeSplit DEF CloseShared, CountersOK
  <2> QED BY Zenon, <1>3, <2>1, <2>2, TypeSplit, TypeJoin DEF CloseShared
<1>4. CASE Kick
  <2>1. LabelsOK(pc', task') BY Zenon, <1>1, <1>4, RestMoves DEF Kick
  <2> QED BY Zenon, <1>4, <2>1, TypeSplit, TypeJoin DEF Kick
<1>5. CASE Cancel
  <2>1. CountersOK(cancelled', inflight', closedForSubmit') BY Zenon, <1>5, TypeSplit DEF Cancel, CountersOK
  <2> QED BY Zenon, <1>5, <2>1, TypeSplit, TypeJoin DEF Cancel
<1>6. CASE UNCHANGED vars BY Zenon, <1>6, TypeSplit, TypeJoin DEF vars
<1> QED BY Zenon, <1>2, <1>3, <1>4, <1>5, <1>6, OwnerTypes, WorkerTypes DEF Next

-----------------------------------------------------------------------------
(* What is left to submit *)

LEMMA TodoStep ==
  ASSUME TodoInv, NEW p \in Processes, Others(p),
         p \in Submitters => TodoFits(p, pc'[p], todo'[p], G(p)')
  PROVE  TodoInv'
<1> SUFFICES ASSUME NEW q \in Submitters PROVE TodoFits(q, pc'[q], todo'[q], G(q)')
  BY Zenon DEF TodoInv
<1>1. CASE q = p BY Zenon, <1>1
<1>2. CASE q # p
  <2>1. G(q)' = G(q) /\ todo'[q] = todo[q] BY Zenon, <1>2, Names DEF G, Others
  <2>2. TodoFits(q, pc[q], todo[q], G(q)) BY Zenon DEF TodoInv
  <2>3. pc'[q] = pc[q] \/ (pc[q] = "waiting" /\ pc'[q] = "get") BY Zenon, <1>2 DEF Others
  <2>4. CASE pc'[q] = pc[q] BY Zenon, <2>1, <2>2, <2>4
  <2>5. CASE pc[q] = "waiting" /\ pc'[q] = "get"
    BY Zenon, <2>1, <2>2, <2>5 DEF TodoFits, SubmitLabels, BodyLabels
  <2> QED BY Zenon, <2>3, <2>4, <2>5
<1> QED BY Zenon, <1>1, <1>2

\* Where a process has something to submit.
NeedLabels == SubmitLabels \cup {"loadClosed", "isFailed", "vadd"}

\* A step that submits nothing: only the labels matter.
LEMMA TodoQuiet ==
  ASSUME TodoInv, NEW p \in Submitters, NEW F, NEW T, Moves(p, F, T), todo' = todo, task' = task,
         T \cap NeedLabels = {} \/ F \subseteq NeedLabels \/ todo[p] # <<>>,
         p \notin Workers \/ T \subseteq BodyLabels \/ F \cap BodyLabels = {} \/ todo[p] = <<>>
  PROVE  TodoInv'
<1>1. G(p)' = G(p) /\ p \in Processes BY Zenon DEF G, Processes
<1>2. TodoFits(p, pc[p], todo[p], G(p)) BY Zenon DEF TodoInv
<1>3. TodoFits(p, pc'[p], todo'[p], G(p)') BY Zenon, <1>1, <1>2 DEF TodoFits, Moves, NeedLabels
<1> QED BY Zenon, <1>1, <1>3, TodoStep DEF Moves

LEMMA TailFits ==
  ASSUME NEW d \in Seq(Tasks), d # <<>>, NEW g, \A i \in DOMAIN d : GroupOf[d[i]] = g
  PROVE  /\ GroupOf[Head(d)] = g /\ Head(d) \in Tasks /\ Tail(d) \in Seq(Tasks)
         /\ \A i \in DOMAIN Tail(d) : GroupOf[Tail(d)[i]] = g
OBVIOUS

\* The first task to submit is submitted or refused.
LEMMA TodoTail ==
  ASSUME TypeOK, TodoInv, NEW p \in Submitters, NEW F, NEW T, Moves(p, F, T), task' = task,
         todo' = [todo EXCEPT ![p] = Tail(@)],
         F \subseteq NeedLabels, T \cap NeedLabels = {}, p \in Workers => T \subseteq BodyLabels
  PROVE  TodoInv'
<1>1. G(p)' = G(p) /\ p \in Processes BY Zenon DEF G, Processes
<1>2. TodoFits(p, pc[p], todo[p], G(p)) BY Zenon DEF TodoInv
<1>3. todo[p] # <<>> /\ \A i \in DOMAIN todo[p] : GroupOf[todo[p][i]] = G(p)
  BY Zenon, <1>2 DEF TodoFits, Moves, NeedLabels
<1>4. todo[p] \in Seq(Tasks) /\ todo'[p] = Tail(todo[p]) BY Zenon, TypeSplit DEF TodoOK
<1>5. \A i \in DOMAIN todo'[p] : GroupOf[todo'[p][i]] = G(p) BY <1>3, <1>4, TailFits
<1>6. TodoFits(p, pc'[p], todo'[p], G(p)') BY Zenon, <1>1, <1>5 DEF TodoFits, Moves, NeedLabels
<1> QED BY Zenon, <1>1, <1>6, TodoStep DEF Moves

LEMMA SubmitTodo ==
  ASSUME TypeOK, TodoInv, NEW p \in Submitters, SubmitStep(p)
  PROVE  TodoInv'
<1> USE Names DEF queueVars, poolVars, groupVars, history, At, GoTo
<1>1. ASSUME ContextErr(p) PROVE TodoInv'
  <2>1. Moves(p, {"err"}, {"refuse", "add"}) BY Zenon, <1>1, SubmitMoves
  <2>2. todo' = todo /\ task' = task BY Zenon, <1>1 DEF ContextErr
  <2> QED BY Zenon, <2>1, <2>2, TodoQuiet DEF NeedLabels, SubmitLabels, BodyLabels
<1>2. ASSUME AddInflight(p) PROVE TodoInv'
  <2>1. Moves(p, {"add"}, {"put"}) BY Zenon, <1>2, SubmitMoves
  <2>2. todo' = todo /\ task' = task BY Zenon, <1>2 DEF AddInflight
  <2> QED BY Zenon, <2>1, <2>2, TodoQuiet DEF NeedLabels, SubmitLabels, BodyLabels
<1>3. ASSUME Put(p) PROVE TodoInv'
  <2>1. Moves(p, {"put"}, IF p \in Groups THEN {"submit"} ELSE {"body"}) BY Zenon, <1>3, SubmitMoves
  <2>2. task' = task /\ todo' = [todo EXCEPT ![p] = Tail(@)] BY Zenon, <1>3 DEF Put
  <2> QED BY Zenon, <2>1, <2>2, TodoTail DEF NeedLabels, SubmitLabels, BodyLabels
<1>4. ASSUME PutClosed(p) PROVE TodoInv'
  <2>1. Moves(p, {"put"}, {"putBack"}) BY Zenon, <1>4, SubmitMoves
  <2>2. todo' = todo /\ task' = task BY Zenon, <1>4 DEF PutClosed
  <2> QED BY Zenon, <2>1, <2>2, TodoQuiet DEF NeedLabels, SubmitLabels, BodyLabels
<1>5. ASSUME WakeAtZero(p, "putBack", "refuse") PROVE TodoInv'
  <2>1. Moves(p, {"putBack"}, {"refuse"}) BY Zenon, <1>5, SubmitMoves
  <2>2. todo' = todo /\ task' = task BY Zenon, <1>5 DEF WakeAtZero
  <2> QED BY Zenon, <2>1, <2>2, TodoQuiet DEF NeedLabels, SubmitLabels, BodyLabels
<1>6. ASSUME DecrementInflight(p, "refuse", "refuseLoad", "refused") PROVE TodoInv'
  <2>1. Moves(p, {"refuse"}, {"refuseLoad", "refused"}) BY Zenon, <1>6, SubmitMoves
  <2>2. todo' = todo /\ task' = task BY Zenon, <1>6 DEF DecrementInflight
  <2> QED BY Zenon, <2>1, <2>2, TodoQuiet DEF NeedLabels, SubmitLabels, BodyLabels
<1>7. ASSUME CloseDone(p, "refuseLoad", "refused") PROVE TodoInv'
  <2>1. Moves(p, {"refuseLoad"}, {"refused"}) BY Zenon, <1>7, SubmitMoves
  <2>2. todo' = todo /\ task' = task BY Zenon, <1>7 DEF CloseDone
  <2> QED BY Zenon, <2>1, <2>2, TodoQuiet DEF NeedLabels, SubmitLabels, BodyLabels
<1>8. ASSUME Refused(p) PROVE TodoInv'
  <2>1. Moves(p, {"refused"}, IF p \in Groups THEN {"close"} ELSE {"body", "error"}) BY Zenon, <1>8, SubmitMoves
  <2>2. task' = task /\ todo' = [todo EXCEPT ![p] = Tail(@)] BY Zenon, <1>8 DEF Refused
  <2> QED BY Zenon, <2>1, <2>2, TodoTail DEF NeedLabels, SubmitLabels, BodyLabels
<1> QED BY Zenon, <1>1, <1>2, <1>3, <1>4, <1>5, <1>6, <1>7, <1>8 DEF SubmitStep

LEMMA OwnerTodo ==
  ASSUME TypeOK, TodoInv, NEW g \in Groups, OwnerStep(g)
  PROVE  TodoInv'
<1> USE Names DEF queueVars, poolVars, groupVars, history, At, GoTo
<1>1. ASSUME Submit(g) PROVE TodoInv'
  <2>1. Moves(g, {"submit"}, {"loadClosed"}) BY Zenon, <1>1, OwnerMoves
  <2>2. todo' = todo /\ task' = task /\ todo[g] # <<>> BY Zenon, <1>1 DEF Submit
  <2> QED BY Zenon, <2>1, <2>2, TodoQuiet DEF NeedLabels, SubmitLabels, BodyLabels
<1>2. ASSUME LoadClosed(g) PROVE TodoInv'
  <2>1. Moves(g, {"loadClosed"}, {"refuse", "isFailed"}) BY Zenon, <1>2, OwnerMoves
  <2>2. todo' = todo /\ task' = task BY Zenon, <1>2 DEF LoadClosed
  <2> QED BY Zenon, <2>1, <2>2, TodoQuiet DEF NeedLabels, SubmitLabels, BodyLabels
<1>3. ASSUME IsFailed(g) PROVE TodoInv'
  <2>1. Moves(g, {"isFailed"}, {"refuse", "err"}) BY Zenon, <1>3, OwnerMoves
  <2>2. todo' = todo /\ task' = task BY Zenon, <1>3 DEF IsFailed
  <2> QED BY Zenon, <2>1, <2>2, TodoQuiet DEF NeedLabels, SubmitLabels, BodyLabels
<1>4. ASSUME CloseForSubmit(g) PROVE TodoInv'
  <2>1. Moves(g, {"close", "submit"}, {"closeLoad"}) BY Zenon, <1>4, OwnerMoves
  <2>2. todo' = todo /\ task' = task BY Zenon, <1>4 DEF CloseForSubmit
  <2> QED BY Zenon, <2>1, <2>2, TodoQuiet DEF NeedLabels, SubmitLabels, BodyLabels
<1>5. ASSUME CloseLoad(g) PROVE TodoInv'
  <2>1. Moves(g, {"closeLoad"}, {"wait"}) BY Zenon, <1>5, OwnerMoves
  <2>2. todo' = todo /\ task' = task BY Zenon, <1>5 DEF CloseLoad
  <2> QED BY Zenon, <2>1, <2>2, TodoQuiet DEF NeedLabels, SubmitLabels, BodyLabels
<1>6. ASSUME Wait(g) PROVE TodoInv'
  <2>1. Moves(g, {"wait"}, {"returned"}) BY Zenon, <1>6, OwnerMoves
  <2>2. todo' = todo /\ task' = task BY Zenon, <1>6 DEF Wait
  <2> QED BY Zenon, <2>1, <2>2, TodoQuiet DEF NeedLabels, SubmitLabels, BodyLabels
<1> QED BY Zenon, <1>1, <1>2, <1>3, <1>4, <1>5, <1>6, SubmitTodo DEF OwnerStep

LEMMA WorkerTodo ==
  ASSUME TypeOK, TodoInv, NEW w \in Workers, WorkerStep(w)
  PROVE  TodoInv'
<1> USE Names DEF queueVars, poolVars, groupVars, history, At, GoTo
<1>1. ASSUME GetWaits(w) PROVE TodoInv'
  <2>1. Moves(w, {"get"}, {"waiting"}) BY Zenon, <1>1, WorkerMoves
  <2>2. todo' = todo /\ task' = task BY Zenon, <1>1 DEF GetWaits
  <2> QED BY Zenon, <2>1, <2>2, TodoQuiet DEF NeedLabels, SubmitLabels, BodyLabels
<1>2. ASSUME GetEnds(w) PROVE TodoInv'
  <2>1. Moves(w, {"get"}, {"exited"}) BY Zenon, <1>2, WorkerMoves
  <2>2. todo' = todo /\ task' = task BY Zenon, <1>2 DEF GetEnds
  <2> QED BY Zenon, <2>1, <2>2, TodoQuiet DEF NeedLabels, SubmitLabels, BodyLabels
<1>3. ASSUME GetTakes(w) PROVE TodoInv'
  <2>1. Moves(w, {"get"}, {"taken"}) BY Zenon, <1>3, WorkerMoves
  <2>2. todo' = todo BY Zenon, <1>3 DEF GetTakes
  <2>3. todo'[w] = <<>> BY Zenon, <2>1, <2>2 DEF TodoInv, TodoFits, Moves, SubmitLabels, BodyLabels
  <2>4. TodoFits(w, pc'[w], todo'[w], G(w)') BY <2>1, <2>3 DEF TodoFits, Moves, SubmitLabels, BodyLabels
  <2> QED BY Zenon, <2>1, <2>4, TodoStep DEF Moves
<1>4. ASSUME GetCounts(w) PROVE TodoInv'
  <2>1. Moves(w, {"taken"}, {"run"}) BY Zenon, <1>4, WorkerMoves
  <2>2. todo' = todo /\ task' = task BY Zenon, <1>4 DEF GetCounts
  <2> QED BY Zenon, <2>1, <2>2, TodoQuiet DEF NeedLabels, SubmitLabels, BodyLabels
<1>5. ASSUME Run(w) PROVE TodoInv'
  <2>1. Moves(w, {"run"}, {"decrement", "body"}) BY Zenon, <1>5, WorkerMoves
  <2>2. task[w] \in Tasks BY Zenon, <2>1, GroupTypes DEF Moves, TaskLabels
  <2>3. task' = task BY Zenon, <1>5 DEF Run
  <2>5. G(w)' = GroupOf[task[w]] BY Zenon, <2>3 DEF G
  <2>6. todo[w] = <<>> BY Zenon, <2>1 DEF TodoInv, TodoFits, Moves, SubmitLabels, BodyLabels
  <2>7. \/ pc'[w] = "decrement" /\ todo'[w] = <<>>
        \/ pc'[w] = "body" /\ todo'[w] = Children[task[w]]
    <3>1. CASE failed[G(w)] BY Zenon, <1>5, <2>6, <3>1, Domains DEF Run
    <3>2. CASE ~failed[G(w)] BY Zenon, <1>5, <3>2, Domains DEF Run
    <3> QED BY Zenon, <3>1, <3>2
  <2>8. \A i \in DOMAIN todo'[w] : GroupOf[todo'[w][i]] = GroupOf[task[w]] BY <2>2, <2>7, PoolAssumption
  <2>4. TodoFits(w, pc'[w], todo'[w], G(w)') BY Zenon, <2>5, <2>7, <2>8 DEF TodoFits, SubmitLabels, BodyLabels
  <2> QED BY Zenon, <2>1, <2>4, TodoStep DEF Moves
<1>6. ASSUME SubmitInternal(w) PROVE TodoInv'
  <2>1. Moves(w, {"body"}, {"refused", "vadd"}) BY Zenon, <1>6, WorkerMoves
  <2>2. todo' = todo /\ task' = task /\ todo[w] # <<>> BY Zenon, <1>6 DEF SubmitInternal
  <2> QED BY Zenon, <2>1, <2>2, TodoQuiet DEF NeedLabels, SubmitLabels, BodyLabels
<1>7. ASSUME CountChild(w) PROVE TodoInv'
  <2>1. Moves(w, {"vadd"}, {"err"}) BY Zenon, <1>7, WorkerMoves
  <2>2. todo' = todo /\ task' = task BY Zenon, <1>7 DEF CountChild
  <2> QED BY Zenon, <2>1, <2>2, TodoQuiet DEF NeedLabels, SubmitLabels, BodyLabels
<1>8. ASSUME TaskEnds(w) PROVE TodoInv'
  <2>1. Moves(w, {"body"}, {"decrement"}) BY Zenon, <1>8, WorkerMoves
  <2>2. todo' = todo /\ task' = task /\ todo[w] = <<>> BY Zenon, <1>8 DEF TaskEnds
  <2> QED BY Zenon, <2>1, <2>2, TodoQuiet DEF NeedLabels, SubmitLabels, BodyLabels
<1>9. ASSUME TaskFails(w) PROVE TodoInv'
  <2>1. Moves(w, {"body"}, {"error"}) BY Zenon, <1>9, WorkerMoves
  <2>2. todo' = todo /\ task' = task BY Zenon, <1>9 DEF TaskFails
  <2> QED BY Zenon, <2>1, <2>2, TodoQuiet DEF NeedLabels, SubmitLabels, BodyLabels
<1>10. ASSUME RecordError(w) PROVE TodoInv'
  <2>1. Moves(w, {"error"}, {"fail", "decrement"}) BY Zenon, <1>10, WorkerMoves
  <2>2. todo' = [todo EXCEPT ![w] = <<>>] BY Zenon, <1>10 DEF RecordError
  <2>3. todo'[w] = <<>> BY Zenon, <2>2, TypeSplit DEF TodoOK
  <2>4. TodoFits(w, pc'[w], todo'[w], G(w)') BY <2>1, <2>3 DEF TodoFits, Moves, SubmitLabels, BodyLabels
  <2> QED BY Zenon, <2>1, <2>4, TodoStep DEF Moves
<1>11. ASSUME FailCloses(w) PROVE TodoInv'
  <2>1. Moves(w, {"fail"}, {"decrement"}) BY Zenon, <1>11, WorkerMoves
  <2>2. todo' = todo /\ task' = task BY Zenon, <1>11 DEF FailCloses
  <2> QED BY Zenon, <2>1, <2>2, TodoQuiet DEF NeedLabels, SubmitLabels, BodyLabels
<1>12. ASSUME DecrementInflight(w, "decrement", "decrementLoad", "over") PROVE TodoInv'
  <2>1. Moves(w, {"decrement"}, {"decrementLoad", "over"}) BY Zenon, <1>12, WorkerMoves
  <2>2. todo' = todo /\ task' = task BY Zenon, <1>12 DEF DecrementInflight
  <2> QED BY Zenon, <2>1, <2>2, TodoQuiet DEF NeedLabels, SubmitLabels, BodyLabels
<1>13. ASSUME CloseDone(w, "decrementLoad", "over") PROVE TodoInv'
  <2>1. Moves(w, {"decrementLoad"}, {"over"}) BY Zenon, <1>13, WorkerMoves
  <2>2. todo' = todo /\ task' = task BY Zenon, <1>13 DEF CloseDone
  <2> QED BY Zenon, <2>1, <2>2, TodoQuiet DEF NeedLabels, SubmitLabels, BodyLabels
<1>14. ASSUME TaskIsOver(w) PROVE TodoInv'
  <2>1. Moves(w, {"over"}, {"overLoad"}) BY Zenon, <1>14, WorkerMoves
  <2>2. todo' = todo BY Zenon, <1>14 DEF TaskIsOver
  <2>3. todo'[w] = <<>> BY Zenon, <2>1, <2>2 DEF TodoInv, TodoFits, Moves, SubmitLabels, BodyLabels
  <2>4. TodoFits(w, pc'[w], todo'[w], G(w)') BY <2>1, <2>3 DEF TodoFits, Moves, SubmitLabels, BodyLabels
  <2> QED BY Zenon, <2>1, <2>4, TodoStep DEF Moves
<1>15. ASSUME WakeAtZero(w, "overLoad", "get") PROVE TodoInv'
  <2>1. Moves(w, {"overLoad"}, {"get"}) BY Zenon, <1>15, WorkerMoves
  <2>2. todo' = todo /\ task' = task BY Zenon, <1>15 DEF WakeAtZero
  <2> QED BY Zenon, <2>1, <2>2, TodoQuiet DEF NeedLabels, SubmitLabels, BodyLabels
<1> QED BY Zenon, <1>1, <1>2, <1>3, <1>4, <1>5, <1>6, <1>7, <1>8, <1>9, <1>10, <1>11, <1>12, <1>13, <1>14, <1>15, SubmitTodo DEF WorkerStep

LEMMA TodoKept ==
  ASSUME TypeOK, TodoInv, [Next]_vars
  PROVE  TodoInv'
<1>1. CASE MonitorStep \/ CloseShared \/ Kick \/ Cancel \/ UNCHANGED vars
  BY Zenon, <1>1, RestMoves, TodoStep, Names
<1> QED BY Zenon, <1>1, OwnerTodo, WorkerTodo DEF Next

-----------------------------------------------------------------------------
(* Steps that count nothing *)

Same(p, S) == pc[p] \in S <=> pc'[p] \in S

\* A step of p that counts nothing: what p stands for in the counters does not change.
Quiet(p) ==
  /\ Others(p) /\ queue' = queue /\ inflight' = inflight /\ vinflight' = vinflight
  /\ p \in Submitters => Same(p, {"put"})
  /\ p \in Workers => /\ Same(p, Counted) /\ Same(p, ChildLabels) /\ Same(p, TaskLabels)
                      /\ task'[p] = task[p]
  /\ p \in Groups => /\ Same(p, OwnerCounted)
                     /\ todo'[p] = todo[p] \/ (todo[p] # <<>> /\ todo'[p] = Tail(todo[p]))

\* Quiet steps of submit.
LEMMA SubmitQuiet ==
  ASSUME TypeOK, TodoInv, NEW p \in Submitters,
         \/ ContextErr(p)
         \/ WakeAtZero(p, "putBack", "refuse")
         \/ CloseDone(p, "refuseLoad", "refused")
         \/ Refused(p)
  PROVE  Quiet(p)
<1> USE Names DEF queueVars, poolVars, groupVars, history, At, GoTo
<1>1. CASE ContextErr(p)
  <2>1. Moves(p, {"err"}, {"refuse", "add"}) BY Zenon, <1>1, SubmitMoves
  <2>2. queue' = queue /\ inflight' = inflight /\ vinflight' = vinflight /\ task' = task BY Zenon, <1>1 DEF ContextErr
  <2>3. todo' = todo BY Zenon, <1>1 DEF ContextErr
  <2> QED BY Zenon, <2>1, <2>2, <2>3 DEF Quiet, Same, Moves, Counted, ChildLabels, OwnerCounted, TaskLabels, SubmitLabels
<1>2. CASE WakeAtZero(p, "putBack", "refuse")
  <2>1. Moves(p, {"putBack"}, {"refuse"}) BY Zenon, <1>2, SubmitMoves
  <2>2. queue' = queue /\ inflight' = inflight /\ vinflight' = vinflight /\ task' = task BY Zenon, <1>2 DEF WakeAtZero
  <2>3. todo' = todo BY Zenon, <1>2 DEF WakeAtZero
  <2> QED BY Zenon, <2>1, <2>2, <2>3 DEF Quiet, Same, Moves, Counted, ChildLabels, OwnerCounted, TaskLabels, SubmitLabels
<1>3. CASE CloseDone(p, "refuseLoad", "refused")
  <2>1. Moves(p, {"refuseLoad"}, {"refused"}) BY Zenon, <1>3, SubmitMoves
  <2>2. queue' = queue /\ inflight' = inflight /\ vinflight' = vinflight /\ task' = task BY Zenon, <1>3 DEF CloseDone
  <2>3. todo' = todo BY Zenon, <1>3 DEF CloseDone
  <2> QED BY Zenon, <2>1, <2>2, <2>3 DEF Quiet, Same, Moves, Counted, ChildLabels, OwnerCounted, TaskLabels, SubmitLabels
<1>4. CASE Refused(p)
  <2>1. Moves(p, {"refused"}, IF p \in Groups THEN {"close"} ELSE {"body", "error"}) BY Zenon, <1>4, SubmitMoves
  <2>2. queue' = queue /\ inflight' = inflight /\ vinflight' = vinflight /\ task' = task BY Zenon, <1>4 DEF Refused
  <2>3. todo'[p] = Tail(todo[p]) /\ todo[p] # <<>>
    BY Zenon, <1>4, <2>1, Domains DEF Refused, Moves, TodoInv, TodoFits, SubmitLabels
  <2> QED BY Zenon, <2>1, <2>2, <2>3 DEF Quiet, Same, Moves, Counted, ChildLabels, OwnerCounted, TaskLabels, SubmitLabels
<1> QED BY Zenon, <1>1, <1>2, <1>3, <1>4

\* Quiet steps of an owner.
LEMMA OwnerQuiet ==
  ASSUME TypeOK, TodoInv, NEW g \in Groups,
         \/ LoadClosed(g)
         \/ IsFailed(g)
         \/ CloseForSubmit(g)
         \/ CloseLoad(g)
         \/ Wait(g)
  PROVE  Quiet(g)
<1> USE Names DEF queueVars, poolVars, groupVars, history, At, GoTo
<1>1. CASE LoadClosed(g)
  <2>1. Moves(g, {"loadClosed"}, {"refuse", "isFailed"}) BY Zenon, <1>1, OwnerMoves
  <2>2. queue' = queue /\ inflight' = inflight /\ vinflight' = vinflight /\ task' = task BY Zenon, <1>1 DEF LoadClosed
  <2>3. todo' = todo BY Zenon, <1>1 DEF LoadClosed
  <2> QED BY Zenon, <2>1, <2>2, <2>3 DEF Quiet, Same, Moves, Counted, ChildLabels, OwnerCounted, TaskLabels, SubmitLabels
<1>2. CASE IsFailed(g)
  <2>1. Moves(g, {"isFailed"}, {"refuse", "err"}) BY Zenon, <1>2, OwnerMoves
  <2>2. queue' = queue /\ inflight' = inflight /\ vinflight' = vinflight /\ task' = task BY Zenon, <1>2 DEF IsFailed
  <2>3. todo' = todo BY Zenon, <1>2 DEF IsFailed
  <2> QED BY Zenon, <2>1, <2>2, <2>3 DEF Quiet, Same, Moves, Counted, ChildLabels, OwnerCounted, TaskLabels, SubmitLabels
<1>3. CASE CloseForSubmit(g)
  <2>1. Moves(g, {"close", "submit"}, {"closeLoad"}) BY Zenon, <1>3, OwnerMoves
  <2>2. queue' = queue /\ inflight' = inflight /\ vinflight' = vinflight /\ task' = task BY Zenon, <1>3 DEF CloseForSubmit
  <2>3. todo' = todo BY Zenon, <1>3 DEF CloseForSubmit
  <2> QED BY Zenon, <2>1, <2>2, <2>3 DEF Quiet, Same, Moves, Counted, ChildLabels, OwnerCounted, TaskLabels, SubmitLabels
<1>4. CASE CloseLoad(g)
  <2>1. Moves(g, {"closeLoad"}, {"wait"}) BY Zenon, <1>4, OwnerMoves
  <2>2. queue' = queue /\ inflight' = inflight /\ vinflight' = vinflight /\ task' = task BY Zenon, <1>4 DEF CloseLoad
  <2>3. todo' = todo BY Zenon, <1>4 DEF CloseLoad
  <2> QED BY Zenon, <2>1, <2>2, <2>3 DEF Quiet, Same, Moves, Counted, ChildLabels, OwnerCounted, TaskLabels, SubmitLabels
<1>5. CASE Wait(g)
  <2>1. Moves(g, {"wait"}, {"returned"}) BY Zenon, <1>5, OwnerMoves
  <2>2. queue' = queue /\ inflight' = inflight /\ vinflight' = vinflight /\ task' = task BY Zenon, <1>5 DEF Wait
  <2>3. todo' = todo BY Zenon, <1>5 DEF Wait
  <2> QED BY Zenon, <2>1, <2>2, <2>3 DEF Quiet, Same, Moves, Counted, ChildLabels, OwnerCounted, TaskLabels, SubmitLabels
<1> QED BY Zenon, <1>1, <1>2, <1>3, <1>4, <1>5

\* Quiet steps of a worker.
LEMMA WorkerQuiet ==
  ASSUME TypeOK, TodoInv, NEW w \in Workers,
         \/ GetWaits(w)
         \/ GetEnds(w)
         \/ GetCounts(w)
         \/ Run(w)
         \/ SubmitInternal(w)
         \/ TaskEnds(w)
         \/ TaskFails(w)
         \/ RecordError(w)
         \/ FailCloses(w)
         \/ CloseDone(w, "decrementLoad", "over")
         \/ WakeAtZero(w, "overLoad", "get")
  PROVE  Quiet(w)
<1> USE Names DEF queueVars, poolVars, groupVars, history, At, GoTo
<1>1. CASE GetWaits(w)
  <2>1. Moves(w, {"get"}, {"waiting"}) BY Zenon, <1>1, WorkerMoves
  <2>2. queue' = queue /\ inflight' = inflight /\ vinflight' = vinflight /\ task' = task BY Zenon, <1>1 DEF GetWaits
  <2> QED BY Zenon, <2>1, <2>2 DEF Quiet, Same, Moves, Counted, ChildLabels, OwnerCounted, TaskLabels, SubmitLabels
<1>2. CASE GetEnds(w)
  <2>1. Moves(w, {"get"}, {"exited"}) BY Zenon, <1>2, WorkerMoves
  <2>2. queue' = queue /\ inflight' = inflight /\ vinflight' = vinflight /\ task' = task BY Zenon, <1>2 DEF GetEnds
  <2> QED BY Zenon, <2>1, <2>2 DEF Quiet, Same, Moves, Counted, ChildLabels, OwnerCounted, TaskLabels, SubmitLabels
<1>3. CASE GetCounts(w)
  <2>1. Moves(w, {"taken"}, {"run"}) BY Zenon, <1>3, WorkerMoves
  <2>2. queue' = queue /\ inflight' = inflight /\ vinflight' = vinflight /\ task' = task BY Zenon, <1>3 DEF GetCounts
  <2> QED BY Zenon, <2>1, <2>2 DEF Quiet, Same, Moves, Counted, ChildLabels, OwnerCounted, TaskLabels, SubmitLabels
<1>4. CASE Run(w)
  <2>1. Moves(w, {"run"}, {"decrement", "body"}) BY Zenon, <1>4, WorkerMoves
  <2>2. queue' = queue /\ inflight' = inflight /\ vinflight' = vinflight /\ task' = task BY Zenon, <1>4 DEF Run
  <2> QED BY Zenon, <2>1, <2>2 DEF Quiet, Same, Moves, Counted, ChildLabels, OwnerCounted, TaskLabels, SubmitLabels
<1>5. CASE SubmitInternal(w)
  <2>1. Moves(w, {"body"}, {"refused", "vadd"}) BY Zenon, <1>5, WorkerMoves
  <2>2. queue' = queue /\ inflight' = inflight /\ vinflight' = vinflight /\ task' = task BY Zenon, <1>5 DEF SubmitInternal
  <2> QED BY Zenon, <2>1, <2>2 DEF Quiet, Same, Moves, Counted, ChildLabels, OwnerCounted, TaskLabels, SubmitLabels
<1>6. CASE TaskEnds(w)
  <2>1. Moves(w, {"body"}, {"decrement"}) BY Zenon, <1>6, WorkerMoves
  <2>2. queue' = queue /\ inflight' = inflight /\ vinflight' = vinflight /\ task' = task BY Zenon, <1>6 DEF TaskEnds
  <2> QED BY Zenon, <2>1, <2>2 DEF Quiet, Same, Moves, Counted, ChildLabels, OwnerCounted, TaskLabels, SubmitLabels
<1>7. CASE TaskFails(w)
  <2>1. Moves(w, {"body"}, {"error"}) BY Zenon, <1>7, WorkerMoves
  <2>2. queue' = queue /\ inflight' = inflight /\ vinflight' = vinflight /\ task' = task BY Zenon, <1>7 DEF TaskFails
  <2> QED BY Zenon, <2>1, <2>2 DEF Quiet, Same, Moves, Counted, ChildLabels, OwnerCounted, TaskLabels, SubmitLabels
<1>8. CASE RecordError(w)
  <2>1. Moves(w, {"error"}, {"fail", "decrement"}) BY Zenon, <1>8, WorkerMoves
  <2>2. queue' = queue /\ inflight' = inflight /\ vinflight' = vinflight /\ task' = task BY Zenon, <1>8 DEF RecordError
  <2> QED BY Zenon, <2>1, <2>2 DEF Quiet, Same, Moves, Counted, ChildLabels, OwnerCounted, TaskLabels, SubmitLabels
<1>9. CASE FailCloses(w)
  <2>1. Moves(w, {"fail"}, {"decrement"}) BY Zenon, <1>9, WorkerMoves
  <2>2. queue' = queue /\ inflight' = inflight /\ vinflight' = vinflight /\ task' = task BY Zenon, <1>9 DEF FailCloses
  <2> QED BY Zenon, <2>1, <2>2 DEF Quiet, Same, Moves, Counted, ChildLabels, OwnerCounted, TaskLabels, SubmitLabels
<1>10. CASE CloseDone(w, "decrementLoad", "over")
  <2>1. Moves(w, {"decrementLoad"}, {"over"}) BY Zenon, <1>10, WorkerMoves
  <2>2. queue' = queue /\ inflight' = inflight /\ vinflight' = vinflight /\ task' = task BY Zenon, <1>10 DEF CloseDone
  <2> QED BY Zenon, <2>1, <2>2 DEF Quiet, Same, Moves, Counted, ChildLabels, OwnerCounted, TaskLabels, SubmitLabels
<1>11. CASE WakeAtZero(w, "overLoad", "get")
  <2>1. Moves(w, {"overLoad"}, {"get"}) BY Zenon, <1>11, WorkerMoves
  <2>2. queue' = queue /\ inflight' = inflight /\ vinflight' = vinflight /\ task' = task BY Zenon, <1>11 DEF WakeAtZero
  <2> QED BY Zenon, <2>1, <2>2 DEF Quiet, Same, Moves, Counted, ChildLabels, OwnerCounted, TaskLabels, SubmitLabels
<1> QED BY Zenon, <1>1, <1>2, <1>3, <1>4, <1>5, <1>6, <1>7, <1>8, <1>9, <1>10, <1>11

\* Steps of the monitor, of the closer, and of who cancels.
LEMMA RestQuiet ==
  ASSUME TypeOK, MonitorStep \/ CloseShared \/ Kick \/ Cancel \/ UNCHANGED vars
  PROVE  \E p \in {Monitor, Closer} : Quiet(p)
<1> USE Names DEF queueVars, poolVars, groupVars, history
<1>1. Others(Monitor) \/ Others(Closer) BY Zenon, RestMoves
<1>2. queue' = queue /\ inflight' = inflight /\ vinflight' = vinflight
  BY Zenon DEF MonitorStep, MonitorDrain, MonitorLength, MonitorMoves, CloseQueue, CloseShared, Kick, Cancel, vars
<1> QED BY Zenon, <1>1, <1>2 DEF Quiet

\* Every other step counts.
Counts ==
  \/ \E p \in Submitters : \/ AddInflight(p) \/ Put(p) \/ PutClosed(p)
                           \/ DecrementInflight(p, "refuse", "refuseLoad", "refused")
  \/ \E g \in Groups : Submit(g)
  \/ \E w \in Workers : \/ GetTakes(w) \/ CountChild(w) \/ TaskIsOver(w)
                        \/ DecrementInflight(w, "decrement", "decrementLoad", "over")

LEMMA QuietOrCounts ==
  ASSUME TypeOK, TodoInv, [Next]_vars
  PROVE  Counts \/ \E p \in Processes : Quiet(p)
<1> USE Names
<1>1. ASSUME NEW p \in Submitters, SubmitStep(p) PROVE Counts \/ Quiet(p)
  BY Zenon, <1>1, SubmitQuiet DEF SubmitStep, Counts
<1>2. ASSUME NEW g \in Groups, OwnerStep(g) PROVE Counts \/ Quiet(g)
  BY Zenon, <1>1, <1>2, OwnerQuiet DEF OwnerStep, Counts
<1>3. ASSUME NEW w \in Workers, WorkerStep(w) PROVE Counts \/ Quiet(w)
  BY Zenon, <1>1, <1>3, WorkerQuiet DEF WorkerStep, Counts
<1> QED BY Zenon, <1>2, <1>3, RestQuiet DEF Next

-----------------------------------------------------------------------------
(* The root of a walk *)

\* Nothing is left of a single task to submit once it is taken.
LEMMA LastTail ==
  ASSUME NEW s \in Seq(Tasks), s # <<>>, Len(s) <= 1
  PROVE  Tail(s) = <<>>
<1>1. Len(s) \in Nat /\ Len(s) # 0 /\ Len(s) <= 1 OBVIOUS
<1>2. \A n \in Nat : n # 0 /\ n <= 1 => n = 1 OBVIOUS
<1>4. Len(s) = 1 BY <1>1, <1>2, Zenon
<1>3. Tail(s) \in Seq(Tasks) /\ Len(Tail(s)) = 0 BY <1>4
<1> QED BY <1>3

\* While the root is to be submitted its group has no task, and once it is there is nothing more: a
\* worker submits children only of a task that runs.
LEMMA RootKept ==
  ASSUME TypeOK, TodoInv, RootInv, [Next]_vars
  PROVE  RootInv'
<1> USE Names DEF queueVars, poolVars, groupVars, history, At, GoTo
<1> DEFINE Clear(g) == /\ \A i \in DOMAIN queue : GroupOf[queue[i]] # g
                       /\ \A w \in Workers : pc[w] \in TaskLabels => GroupOf[task[w]] # g
<1>0. \A g \in Groups : todo[g] \in Seq(Tasks) /\ Len(todo[g]) <= 1 /\ (todo[g] # <<>> => Clear(g))
  BY Zenon, TypeSplit DEF RootInv, TodoOK
<1> HIDE DEF Clear
\* Enough: no group gets more to submit, and what is new in the queue or at a worker was there.
<1>1. ASSUME \A g \in Groups : /\ todo'[g] = todo[g] \/ (todo[g] # <<>> /\ todo'[g] = Tail(todo[g]))
                               /\ Clear(g) => Clear(g)'
      PROVE  RootInv'
  <2> SUFFICES ASSUME NEW g \in Groups PROVE Len(todo'[g]) <= 1 /\ (todo'[g] # <<>> => Clear(g)')
    BY Zenon DEF RootInv, Clear
  <2>1. CASE todo'[g] = todo[g] BY Zenon, <1>0, <1>1, <2>1
  <2>2. CASE todo[g] # <<>> /\ todo'[g] = Tail(todo[g])
    <3>1. todo'[g] = <<>> BY Zenon, <1>0, <2>2, LastTail
    <3> QED BY <3>1
  <2> QED BY Zenon, <1>1, <2>1, <2>2
<1>2. ASSUME NEW p \in Processes, Others(p), queue' = queue,
             p \in Workers => (pc'[p] \in TaskLabels => pc[p] \in TaskLabels /\ task'[p] = task[p]),
             p \in Groups => todo'[p] = todo[p] \/ (todo[p] # <<>> /\ todo'[p] = Tail(todo[p]))
      PROVE  RootInv'
  <2>1. \A w \in Workers : pc'[w] \in TaskLabels => pc[w] \in TaskLabels /\ task'[w] = task[w]
    BY Zenon, <1>2 DEF Others, TaskLabels, SubmitLabels
  <2>2. \A g \in Groups : Clear(g) => Clear(g)' BY Zenon, <1>2, <2>1 DEF Clear
  <2> QED BY Zenon, <1>1, <1>2, <2>2 DEF Others
<1>3. ASSUME NEW p \in Processes, Quiet(p) PROVE RootInv'
  BY Zenon, <1>2, <1>3 DEF Quiet, Same
<1>4. ASSUME NEW p \in Submitters, Put(p) PROVE RootInv'
  <2>1. Moves(p, {"put"}, IF p \in Groups THEN {"submit"} ELSE {"body"}) BY Zenon, <1>4, SubmitMoves
  <2>2. todo[p] \in Seq(Tasks) /\ todo[p] # <<>> /\ todo'[p] = Tail(todo[p]) /\ task' = task
    BY Zenon, <1>4, TypeSplit DEF Put, TodoInv, TodoFits, SubmitLabels, TodoOK
  <2>3. GroupOf[Head(todo[p])] = G(p) BY Zenon, <2>2, TailFits DEF TodoInv, TodoFits
  <2>4. queue \in Seq(Tasks) /\ queue' = Append(queue, Head(todo[p])) BY Zenon, <1>4, TypeSplit DEF Put, QueueOK
  <2>5. \A i \in DOMAIN queue' : GroupOf[queue'[i]] = G(p) \/ (i \in DOMAIN queue /\ queue'[i] = queue[i])
    BY <2>2, <2>3, <2>4
  <2>6. \A w \in Workers : pc'[w] \in TaskLabels => pc[w] \in TaskLabels
    BY Zenon, <2>1 DEF Moves, Others, TaskLabels, SubmitLabels
  <2>7. \A g \in Groups \ {G(p)} : Clear(g) => Clear(g)' BY Zenon, <2>2, <2>5, <2>6 DEF Clear
  <2>8. CASE p \in Workers
    <3>1. ~Clear(G(p)) BY Zenon, <2>1, <2>8 DEF Clear, G, Moves, TaskLabels, SubmitLabels
    <3> QED BY Zenon, <1>1, <2>1, <2>7, <2>8, <3>1 DEF Moves, Others
  <2>9. CASE p \in Groups
    <3>1. G(p) = p BY Zenon, <2>9, GroupTypes
    <3>3. todo'[p] = <<>> BY Zenon, <1>0, <2>2, <2>9, LastTail
    <3>4. \A g \in Groups \ {p} : todo'[g] = todo[g] BY Zenon, <2>1 DEF Moves, Others
    <3> QED BY <1>0, <2>7, <3>1, <3>3, <3>4 DEF RootInv, Clear
  <2> QED BY Zenon, <2>8, <2>9
<1>5. ASSUME NEW w \in Workers, GetTakes(w) PROVE RootInv'
  <2>1. Moves(w, {"get"}, {"taken"}) BY Zenon, <1>5, WorkerMoves
  <2>2. queue \in Seq(Tasks) /\ queue # <<>> /\ queue' = Tail(queue) /\ task'[w] = Head(queue)
    BY Zenon, <1>5, TypeSplit, Domains DEF GetTakes, QueueOK
  <2>3. \A i \in DOMAIN queue' : i + 1 \in DOMAIN queue /\ queue'[i] = queue[i + 1] BY <2>2
  <2>4. 1 \in DOMAIN queue /\ task'[w] = queue[1] BY <2>2
  <2>5. \A v \in Workers \ {w} : pc'[v] \in TaskLabels => pc[v] \in TaskLabels /\ task'[v] = task[v]
    BY Zenon, <2>1 DEF Moves, Others, TaskLabels, SubmitLabels
  <2>6. \A g \in Groups : Clear(g) => Clear(g)' BY <2>3, <2>4, <2>5 DEF Clear
  <2>7. \A g \in Groups : todo'[g] = todo[g] BY Zenon, <2>1 DEF Moves, Others
  <2> QED BY Zenon, <1>1, <2>6, <2>7
<1>6. ASSUME NEW p \in Submitters,
             \/ AddInflight(p) \/ PutClosed(p) \/ DecrementInflight(p, "refuse", "refuseLoad", "refused")
      PROVE  RootInv'
  <2>1. Others(p) /\ pc[p] \in SubmitLabels BY Zenon, <1>6, SubmitMoves DEF Moves, SubmitLabels
  <2>2. queue' = queue /\ task' = task /\ todo' = todo BY Zenon, <1>6 DEF AddInflight, PutClosed, DecrementInflight
  <2> QED BY Zenon, <1>2, <2>1, <2>2 DEF TaskLabels
<1>7. ASSUME NEW g \in Groups, Submit(g) PROVE RootInv'
  <2>1. Others(g) BY Zenon, <1>7, OwnerMoves DEF Moves
  <2> QED BY Zenon, <1>2, <1>7, <2>1 DEF Submit
<1>8. ASSUME NEW w \in Workers, CountChild(w) \/ DecrementInflight(w, "decrement", "decrementLoad", "over")
      PROVE  RootInv'
  <2>1. Others(w) /\ pc[w] \in TaskLabels BY Zenon, <1>8, WorkerMoves DEF Moves, TaskLabels
  <2>2. queue' = queue /\ task' = task BY Zenon, <1>8 DEF CountChild, DecrementInflight
  <2> QED BY Zenon, <1>2, <2>1, <2>2
<1>9. ASSUME NEW w \in Workers, TaskIsOver(w) PROVE RootInv'
  <2>1. Moves(w, {"over"}, {"overLoad"}) BY Zenon, <1>9, WorkerMoves
  <2>2. pc'[w] \notin TaskLabels BY Zenon, <2>1 DEF Moves, TaskLabels, SubmitLabels
  <2> QED BY Zenon, <1>2, <1>9, <2>1, <2>2 DEF TaskIsOver, Moves
<1> QED BY Zenon, <1>3, <1>4, <1>5, <1>6, <1>7, <1>8, <1>9, QuietOrCounts DEF Counts

-----------------------------------------------------------------------------
(* done means drained *)

\* A group that counts nothing counts nothing until its owner submits.
LEMMA ZeroStays ==
  ASSUME TypeOK, TodoInv, Covered, [Next]_vars, NEW g \in Groups, vinflight[g] = 0,
         pc[g] # "submit" \/ todo[g] = <<>>
  PROVE  vinflight'[g] = 0
<1> USE Names DEF At
<1>1. ASSUME NEW p \in Submitters, AddInflight(p) \/ Put(p) \/ PutClosed(p) PROVE vinflight' = vinflight
  BY ZenonT(30), <1>1 DEF AddInflight, Put, PutClosed, groupVars
<1>2. ASSUME NEW w \in Workers, GetTakes(w) \/ TaskIsOver(w) PROVE vinflight' = vinflight
  BY Zenon, <1>2 DEF GetTakes, TaskIsOver, groupVars
<1>3. ASSUME NEW h \in Groups, Submit(h) PROVE h # g /\ vinflight' = [vinflight EXCEPT ![h] = @ + 1]
  BY Zenon, <1>3 DEF Submit
<1>4. ASSUME NEW w \in Workers, CountChild(w)
      PROVE  G(w) # g /\ vinflight' = [vinflight EXCEPT ![G(w)] = @ + 1]
  <2>1. vinflight[G(w)] > 0 BY Zenon, <1>4, GroupTypes DEF CountChild, Covered, Counted, TaskLabels
  <2> QED BY <1>4, <2>1 DEF CountChild
<1>5. ASSUME NEW w \in Workers, DecrementInflight(w, "decrement", "decrementLoad", "over")
      PROVE  G(w) # g /\ vinflight' = [vinflight EXCEPT ![G(w)] = @ - 1]
  <2>1. vinflight[G(w)] > 0 BY Zenon, <1>5, GroupTypes DEF DecrementInflight, Covered, Counted, TaskLabels
  <2> QED BY <1>5, <2>1 DEF DecrementInflight
<1>6. ASSUME NEW p \in Submitters, DecrementInflight(p, "refuse", "refuseLoad", "refused")
      PROVE  G(p) # g /\ vinflight' = [vinflight EXCEPT ![G(p)] = @ - 1]
  <2>1. p \in Workers => vinflight[G(p)] > 0
    BY Zenon, <1>6, GroupTypes DEF DecrementInflight, Covered, Counted, TaskLabels, SubmitLabels
  <2>2. p \in Groups => vinflight[G(p)] > 0
    BY Zenon, <1>6, GroupTypes DEF DecrementInflight, Covered, OwnerCounted, ChildLabels
  <2> QED BY SMTT(20), <1>6, <2>1, <2>2 DEF DecrementInflight
<1>7. \A p \in Processes : Quiet(p) => vinflight' = vinflight BY Zenon DEF Quiet
<1>8. DOMAIN vinflight = Groups BY Zenon, TypeSplit DEF GroupsOK
<1> QED BY Zenon, <1>1, <1>2, <1>3, <1>4, <1>5, <1>6, <1>7, <1>8, QuietOrCounts DEF Counts

\* A closed group stays closed.
LEMMA ClosedStays ==
  ASSUME TypeOK, [Next]_vars, NEW g \in Groups, closed[g]
  PROVE  closed'[g]
<1> USE DEF groupVars
<1>1. DOMAIN closed = Groups BY Zenon, TypeSplit DEF GroupsOK
<1>2. ASSUME NEW p \in Submitters, SubmitStep(p) PROVE closed' = closed
  BY Zenon, <1>2 DEF SubmitStep, ContextErr, AddInflight, Put, PutClosed, WakeAtZero, DecrementInflight, CloseDone, Refused
<1>3. ASSUME NEW h \in Groups, OwnerStep(h) PROVE closed' = closed \/ closed' = [closed EXCEPT ![h] = TRUE]
  BY Zenon, <1>2, <1>3, Names DEF OwnerStep, Submit, LoadClosed, IsFailed, CloseForSubmit, CloseLoad, Wait
<1>4. ASSUME NEW w \in Workers, WorkerStep(w) PROVE closed' = closed \/ closed' = [closed EXCEPT ![G(w)] = TRUE]
  BY Zenon, <1>2, <1>4, Names DEF WorkerStep, GetWaits, GetEnds, GetTakes, GetCounts, Run, SubmitInternal, CountChild,
     TaskEnds, TaskFails, RecordError, FailCloses, DecrementInflight, CloseDone, TaskIsOver, WakeAtZero
<1>5. ASSUME MonitorStep \/ CloseShared \/ Kick \/ Cancel \/ UNCHANGED vars PROVE closed' = closed
  BY ZenonT(30), <1>5 DEF MonitorStep, MonitorDrain, MonitorLength, MonitorMoves, CloseQueue, CloseShared, Kick, Cancel, vars
<1> QED BY Zenon, <1>1, <1>3, <1>4, <1>5 DEF Next

\* done is closed by who finds the counter at zero, after closed is loaded.
LEMMA DoneSets ==
  ASSUME TypeOK, [Next]_vars, NEW g \in Groups, done'[g], ~done[g]
  PROVE  \/ CloseLoad(g) /\ vinflight[g] = 0
         \/ \E p \in Submitters : CloseDone(p, "refuseLoad", "refused") /\ G(p) = g /\ closed[g]
         \/ \E w \in Workers : CloseDone(w, "decrementLoad", "over") /\ G(w) = g /\ closed[g]
<1> USE DEF groupVars
<1>1. DOMAIN done = Groups BY Zenon, TypeSplit DEF GroupsOK
<1>2. ASSUME NEW p \in Submitters, SubmitStep(p) PROVE done' = done \/ CloseDone(p, "refuseLoad", "refused")
  BY Zenon, <1>2 DEF SubmitStep, ContextErr, AddInflight, Put, PutClosed, WakeAtZero, DecrementInflight, Refused
<1>3. ASSUME NEW h \in Groups, OwnerStep(h)
      PROVE  done' = done \/ CloseLoad(h) \/ CloseDone(h, "refuseLoad", "refused")
  BY Zenon, <1>2, <1>3, Names DEF OwnerStep, Submit, LoadClosed, IsFailed, CloseForSubmit, Wait
<1>4. ASSUME NEW w \in Workers, WorkerStep(w)
      PROVE  done' = done \/ CloseDone(w, "decrementLoad", "over") \/ CloseDone(w, "refuseLoad", "refused")
  BY Zenon, <1>2, <1>4, Names DEF WorkerStep, GetWaits, GetEnds, GetTakes, GetCounts, Run, SubmitInternal, CountChild,
     TaskEnds, TaskFails, RecordError, FailCloses, DecrementInflight, TaskIsOver, WakeAtZero
<1>5. ASSUME MonitorStep \/ CloseShared \/ Kick \/ Cancel \/ UNCHANGED vars PROVE done' = done
  BY Zenon, <1>5 DEF MonitorStep, MonitorDrain, MonitorLength, MonitorMoves, CloseQueue, CloseShared, Kick, Cancel, vars
<1>6. ASSUME NEW h \in Groups, CloseLoad(h) PROVE h = g /\ vinflight[g] = 0
  BY Zenon, <1>1, <1>6 DEF CloseLoad
<1>7. ASSUME NEW p, NEW load, NEW next, CloseDone(p, load, next) PROVE G(p) = g /\ closed[g]
  BY Zenon, <1>1, <1>7 DEF CloseDone
<1> QED BY Zenon, <1>3, <1>4, <1>5, <1>6, <1>7, Names DEF Next

\* Every step is one of an owner, of a worker, or of neither.
LEMMA Movers ==
  ASSUME TypeOK, [Next]_vars
  PROVE  \/ \E g \in Groups : OwnerStep(g) /\ Others(g)
         \/ \E w \in Workers : WorkerStep(w) /\ Others(w)
         \/ \E p \in {Monitor, Closer} : Others(p)
<1>1. ASSUME NEW p \in Submitters, SubmitStep(p) PROVE Others(p)
  BY Zenon, <1>1, SubmitMoves DEF SubmitStep, Moves
<1>2. ASSUME NEW g \in Groups, OwnerStep(g) PROVE Others(g)
  BY Zenon, <1>1, <1>2, OwnerMoves, Names DEF OwnerStep, Moves
<1>3. ASSUME NEW w \in Workers, WorkerStep(w) PROVE Others(w)
  BY Zenon, <1>1, <1>3, WorkerMoves, Names DEF WorkerStep, Moves
<1> QED BY Zenon, <1>2, <1>3, RestMoves DEF Next

\* Where the steps of an owner and of a worker may lead.
LEMMA OwnerLeads ==
  ASSUME TypeOK, NEW g \in Groups, OwnerStep(g)
  PROVE  /\ pc'[g] = "refuseLoad" => DecrementInflight(g, "refuse", "refuseLoad", "refused")
         /\ pc'[g] = "close" \/ pc[g] = "refused" => Refused(g)
         /\ pc'[g] = "closeLoad" => CloseForSubmit(g)
         /\ pc'[g] = "wait" => CloseLoad(g)
         /\ pc'[g] = "returned" => Wait(g)
BY Zenon, SubmitMoves, OwnerMoves, Names DEF OwnerStep, SubmitStep, Moves

LEMMA WorkerLeads ==
  ASSUME TypeOK, NEW w \in Workers, WorkerStep(w)
  PROVE  /\ pc'[w] = "refuseLoad" => DecrementInflight(w, "refuse", "refuseLoad", "refused")
         /\ pc'[w] = "decrementLoad" => DecrementInflight(w, "decrement", "decrementLoad", "over")
BY Zenon, SubmitMoves, WorkerMoves, Names DEF WorkerStep, SubmitStep, Moves

\* Counting off the last task leaves nothing.
LEMMA LastOne ==
  ASSUME TypeOK, NEW p, NEW from, NEW load, NEW next, load # next, G(p) \in Groups,
         DecrementInflight(p, from, load, next), pc'[p] = load, p \in Processes
  PROVE  vinflight[G(p)] = 1 /\ vinflight'[G(p)] = 0 /\ task' = task
<1>1. vinflight[G(p)] = 1 /\ task' = task /\ vinflight' = [vinflight EXCEPT ![G(p)] = @ - 1]
  BY Zenon, Domains DEF DecrementInflight, GoTo
<1>2. DOMAIN vinflight = Groups BY Zenon, TypeSplit DEF GroupsOK
<1> QED BY <1>1, <1>2

\* Nothing is submitted, queued or running in a group whose done is closed.
LEMMA DoneKept ==
  ASSUME TypeOK, TodoInv, Covered, RootInv, DoneInv, [Next]_vars
  PROVE  DoneInv'
<1> USE Names
<1>1. \A g \in Groups : /\ vinflight[g] = 0 /\ (pc[g] # "submit" \/ todo[g] = <<>>) => vinflight'[g] = 0
                        /\ closed[g] => closed'[g]
  BY Zenon, ZeroStays, ClosedStays
<1>2. \A w \in Workers : pc[w] \in TaskLabels => todo[G(w)] = <<>> /\ G(w) \in Groups
  BY SMTT(20), GroupTypes DEF RootInv
<1>3. \A w \in Workers : pc[w] # "refuseLoad" /\ (pc[w] = "decrementLoad" => vinflight[G(w)] = 0)
  BY Zenon, GroupTypes DEF DoneInv, WorkerDone
<1>4. ASSUME NEW w \in Workers, NEW p \in Processes, Others(p), w # p
      PROVE  WorkerDone(pc'[w], task'[w], vinflight')
  <2>1. task'[w] = task[w] /\ (pc'[w] = pc[w] \/ pc'[w] = "get") BY Zenon, <1>4 DEF Others
  <2>2. pc[w] = "decrementLoad" => vinflight'[GroupOf[task[w]]] = 0
    BY SMTT(20), <1>1, <1>2, <1>3, GroupTypes DEF TaskLabels
  <2> QED BY Zenon, <1>3, <2>1, <2>2 DEF WorkerDone
<1>5. ASSUME NEW g \in Groups, NEW p \in Processes, Others(p), g # p
      PROVE  OwnerDone(pc'[g], todo'[g], closed'[g], vinflight'[g])
  <2>1. todo'[g] = todo[g] /\ (pc'[g] = pc[g] \/ pc'[g] = "get") BY Zenon, <1>5 DEF Others
  <2> QED BY Zenon, <1>1, <2>1 DEF OwnerDone, DoneInv
<1>6. ASSUME NEW g \in Groups, NEW p \in Processes, Others(p), g # p,
             Drained(pc[g], todo[g], closed[g], vinflight[g])
      PROVE  Drained(pc'[g], todo'[g], closed'[g], vinflight'[g])
  <2>1. todo'[g] = todo[g] /\ (pc'[g] = pc[g] \/ (pc[g] = "waiting" /\ pc'[g] = "get")) BY Zenon, <1>6 DEF Others
  <2> QED BY Zenon, <1>1, <1>6, <2>1 DEF Drained
<1>7. ASSUME NEW w \in Workers, WorkerStep(w) PROVE WorkerDone(pc'[w], task'[w], vinflight')
  <2>1. pc'[w] # "refuseLoad"
    <3> SUFFICES ASSUME DecrementInflight(w, "refuse", "refuseLoad", "refused"), pc'[w] = "refuseLoad" PROVE FALSE
      BY Zenon, <1>7, WorkerLeads
    <3>1. pc[w] = "refuse" BY ZenonT(30), SubmitMoves DEF Moves
    <3>2. G(w) \in Groups /\ vinflight[G(w)] > 1
      BY Zenon, <3>1, <1>2, GroupTypes DEF Covered, ChildLabels, TaskLabels, SubmitLabels
    <3>3. vinflight[G(w)] = 1 BY Zenon, <3>2, LastOne
    <3> QED BY <3>2, <3>3
  <2>2. ASSUME pc'[w] = "decrementLoad" PROVE vinflight'[GroupOf[task'[w]]] = 0
    <3>1. DecrementInflight(w, "decrement", "decrementLoad", "over") BY Zenon, <1>7, <2>2, WorkerLeads
    <3>2. G(w) \in Groups BY Zenon, <3>1, <1>2 DEF DecrementInflight, At, TaskLabels
    <3>3. vinflight'[G(w)] = 0 /\ task' = task BY Zenon, <2>2, <3>1, <3>2, LastOne
    <3> QED BY Zenon, <3>3, GroupTypes
  <2> QED BY Zenon, <2>1, <2>2 DEF WorkerDone
<1>8. ASSUME NEW g \in Groups, OwnerStep(g) PROVE OwnerDone(pc'[g], todo'[g], closed'[g], vinflight'[g])
  <2>1. pc'[g] = "refuseLoad" => vinflight'[g] = 0 BY <1>8, OwnerLeads, LastOne, GroupTypes
  <2>2. ASSUME pc'[g] = "close" PROVE todo'[g] = <<>>
    <3>1. Refused(g) BY Zenon, <1>8, <2>2, OwnerLeads
    <3>2. todo'[g] = Tail(todo[g]) /\ todo[g] # <<>>
      BY Zenon, <3>1, Domains DEF Refused, At, TodoInv, TodoFits, SubmitLabels
    <3> QED BY ZenonT(30), <3>2, LastTail, TypeSplit DEF RootInv, TodoOK
  <2>3. ASSUME pc'[g] = "closeLoad" PROVE todo'[g] = <<>> /\ closed'[g]
    <3>1. CloseForSubmit(g) BY Zenon, <1>8, <2>3, OwnerLeads
    <3>2. todo[g] = <<>> BY Zenon, <3>1 DEF CloseForSubmit, At, DoneInv, OwnerDone
    <3>3. DOMAIN closed = Groups BY Zenon, TypeSplit DEF GroupsOK
    <3> QED BY Zenon, <3>1, <3>2, <3>3 DEF CloseForSubmit
  <2>4. ASSUME pc'[g] \in {"wait", "returned"} PROVE todo'[g] = <<>> /\ closed'[g]
    <3>1. todo' = todo /\ pc[g] \in {"closeLoad", "wait"} BY Zenon, <1>8, <2>4, OwnerLeads DEF CloseLoad, Wait, At
    <3> QED BY Zenon, <1>1, <3>1 DEF DoneInv, OwnerDone
  <2> QED BY Zenon, <2>1, <2>2, <2>3, <2>4 DEF OwnerDone
<1>9. ASSUME NEW g \in Groups, OwnerStep(g), Drained(pc[g], todo[g], closed[g], vinflight[g])
      PROVE  Drained(pc'[g], todo'[g], closed'[g], vinflight'[g])
  <2>1. closed'[g] /\ vinflight'[g] = 0 BY Zenon, <1>1, <1>9 DEF Drained
  <2>2. CASE pc[g] = "refused"
    <3>1. pc'[g] = "close" BY Zenon, <1>9, <2>2, OwnerLeads, SubmitMoves DEF Moves
    <3>2. OwnerDone(pc'[g], todo'[g], closed'[g], vinflight'[g]) BY Zenon, <1>8, <1>9
    <3> QED BY Zenon, <2>1, <3>1, <3>2 DEF Drained, OwnerDone
  <2>3. CASE pc[g] # "refused"
    <3>1. todo[g] = <<>> BY Zenon, <1>9, <2>3 DEF Drained
    <3>2. todo'[g] = todo[g]
      <4>1. ASSUME SubmitStep(g) PROVE todo' = todo
        <5>1. pc[g] \in SubmitLabels BY Zenon, <4>1, SubmitMoves DEF SubmitStep, Moves, SubmitLabels
        <5> QED BY Zenon, <3>1, <5>1 DEF TodoInv, TodoFits
      <4> QED BY ZenonT(30), <1>9, <4>1 DEF OwnerStep, Submit, LoadClosed, IsFailed, CloseForSubmit, CloseLoad, Wait
    <3> QED BY Zenon, <2>1, <3>1, <3>2 DEF Drained
  <2> QED BY Zenon, <2>2, <2>3
<1>10. ASSUME NEW g \in Groups, done'[g], ~done[g] PROVE Drained(pc'[g], todo'[g], closed'[g], vinflight'[g])
  <2>1. CASE CloseLoad(g) /\ vinflight[g] = 0
    <3>1. pc[g] = "closeLoad" /\ todo' = todo /\ closed' = closed /\ vinflight' = vinflight
      BY Zenon, <2>1 DEF CloseLoad, At
    <3> QED BY Zenon, <2>1, <3>1 DEF Drained, DoneInv, OwnerDone
  <2>2. ASSUME NEW p \in Submitters, CloseDone(p, "refuseLoad", "refused"), G(p) = g, closed[g]
        PROVE  Drained(pc'[g], todo'[g], closed'[g], vinflight'[g])
    <3>1. Moves(p, {"refuseLoad"}, {"refused"}) BY Zenon, <2>2, SubmitMoves
    <3>2. p \in Groups BY Zenon, <1>3, <3>1 DEF Moves
    <3>3. p = g BY Zenon, <2>2, <3>2, GroupTypes
    <3>4. closed' = closed /\ vinflight' = vinflight BY Zenon, <2>2 DEF CloseDone
    <3> QED BY Zenon, <2>2, <3>1, <3>3, <3>4 DEF Moves, Drained, DoneInv, OwnerDone
  <2>3. ASSUME NEW w \in Workers, CloseDone(w, "decrementLoad", "over"), G(w) = g, closed[g]
        PROVE  Drained(pc'[g], todo'[g], closed'[g], vinflight'[g])
    <3>1. pc[w] = "decrementLoad" /\ closed' = closed /\ vinflight' = vinflight /\ todo' = todo
      BY Zenon, <2>3 DEF CloseDone, At
    <3>2. todo[g] = <<>> BY Zenon, <1>2, <2>3, <3>1 DEF TaskLabels
    <3> QED BY Zenon, <1>3, <2>3, <3>1, <3>2 DEF Drained
  <2> QED BY ZenonT(30), <1>10, <2>1, <2>2, <2>3, DoneSets
<1>11. ASSUME NEW p \in Processes, Others(p),
              p \in Workers => WorkerStep(p), p \in Groups => OwnerStep(p)
       PROVE  DoneInv'
  <2>1. \A w \in Workers : WorkerDone(pc'[w], task'[w], vinflight') BY Zenon, <1>4, <1>7, <1>11
  <2>2. \A g \in Groups : OwnerDone(pc'[g], todo'[g], closed'[g], vinflight'[g]) BY Zenon, <1>5, <1>8, <1>11
  <2>3. \A g \in Groups : done'[g] => Drained(pc'[g], todo'[g], closed'[g], vinflight'[g])
    <3> SUFFICES ASSUME NEW g \in Groups, done'[g] PROVE Drained(pc'[g], todo'[g], closed'[g], vinflight'[g])
      BY Zenon
    <3>1. CASE ~done[g] BY Zenon, <1>10, <3>1
    <3>2. CASE done[g]
      <4>1. Drained(pc[g], todo[g], closed[g], vinflight[g]) BY ZenonT(30), <3>2 DEF DoneInv
      <4> QED BY Zenon, <1>6, <1>9, <1>11, <4>1
    <3> QED BY Zenon, <3>1, <3>2
  <2> QED BY Zenon, <2>1, <2>2, <2>3 DEF DoneInv
<1> QED BY Zenon, <1>11, Movers

-----------------------------------------------------------------------------
(* The monitor *)

\* Neither owners nor workers cancel the pool, close it or close its queue; they may wake the monitor.
LEMMA MonitorLeft ==
  ASSUME TypeOK, NEW p \in Submitters, (p \in Groups /\ OwnerStep(p)) \/ (p \in Workers /\ WorkerStep(p))
  PROVE  /\ cancelled' = cancelled /\ closedForSubmit' = closedForSubmit /\ queueClosed' = queueClosed
         /\ Woken(pc'[Monitor])
<1> USE Names DEF poolVars, queueVars
<1> DEFINE Left == cancelled' = cancelled /\ closedForSubmit' = closedForSubmit /\ queueClosed' = queueClosed
<1>1. ASSUME SubmitStep(p) PROVE Left
  BY Zenon, <1>1 DEF SubmitStep, ContextErr, AddInflight, Put, PutClosed, WakeAtZero, DecrementInflight, CloseDone, Refused
<1>2. ASSUME p \in Groups, OwnerStep(p) PROVE Left
  BY Zenon, <1>1, <1>2 DEF OwnerStep, Submit, LoadClosed, IsFailed, CloseForSubmit, CloseLoad, Wait
<1>3. ASSUME p \in Workers, WorkerStep(p) PROVE Left
  BY Zenon, <1>1, <1>3 DEF WorkerStep, GetWaits, GetEnds, GetTakes, GetCounts, Run, SubmitInternal, CountChild,
     TaskEnds, TaskFails, RecordError, FailCloses, DecrementInflight, CloseDone, TaskIsOver, WakeAtZero
<1>4. ASSUME SubmitStep(p) PROVE Woken(pc'[Monitor])
  BY Zenon, <1>4, SubmitMoves DEF SubmitStep, Moves
<1>5. ASSUME p \in Groups, OwnerStep(p) PROVE Woken(pc'[Monitor])
  BY Zenon, <1>4, <1>5, OwnerMoves DEF OwnerStep, Moves
<1>6. ASSUME p \in Workers, WorkerStep(p) PROVE Woken(pc'[Monitor])
  BY Zenon, <1>4, <1>6, WorkerMoves DEF WorkerStep, Moves
<1> QED BY Zenon, <1>2, <1>3, <1>5, <1>6

\* A pool that is closed and idle stays idle.
LEMMA IdleStays ==
  ASSUME TypeOK, TodoInv, Covered, MonitorInv, [Next]_vars, closedForSubmit, inflight = 0
  PROVE  inflight' = 0
<1> USE Names DEF At
<1>1. ASSUME NEW p \in Submitters, AddInflight(p) \/ PutClosed(p) PROVE FALSE
  <2>1. pc[p] \in {"add", "put"} BY Zenon, <1>1 DEF AddInflight, PutClosed
  <2>2. p \notin Groups BY Zenon, <2>1 DEF MonitorInv
  <2>3. p \in Workers /\ pc[p] \in TaskLabels BY Zenon, <2>1, <2>2 DEF TaskLabels, SubmitLabels
  <2> QED BY <2>3 DEF Covered
<1>2. ASSUME NEW w \in Workers, TaskIsOver(w) PROVE FALSE
  BY <1>2 DEF TaskIsOver, TaskLabels, Covered
<1>3. ASSUME NEW p \in Submitters, Put(p) \/ DecrementInflight(p, "refuse", "refuseLoad", "refused")
      PROVE  inflight' = inflight
  BY ZenonT(30), <1>3 DEF Put, DecrementInflight, poolVars
<1>4. ASSUME NEW g \in Groups, Submit(g) PROVE inflight' = inflight BY Zenon, <1>4 DEF Submit, poolVars
<1>5. ASSUME NEW w \in Workers,
             GetTakes(w) \/ CountChild(w) \/ DecrementInflight(w, "decrement", "decrementLoad", "over")
      PROVE  inflight' = inflight
  BY Zenon, <1>5 DEF GetTakes, CountChild, DecrementInflight, poolVars
<1>6. \A p \in Processes : Quiet(p) => inflight' = inflight BY Zenon DEF Quiet
<1> QED BY Zenon, <1>1, <1>2, <1>3, <1>4, <1>5, <1>6, QuietOrCounts DEF Counts

LEMMA MonitorKept ==
  ASSUME TypeOK, TodoInv, Covered, MonitorInv, [Next]_vars
  PROVE  MonitorInv'
<1> USE Names DEF At, GoTo, poolVars, queueVars
<1>1. closedForSubmit /\ inflight = 0 => inflight' = 0 BY Zenon, IdleStays
<1>2. ASSUME NEW p \in Submitters, (p \in Groups /\ OwnerStep(p)) \/ (p \in Workers /\ WorkerStep(p)), Others(p)
      PROVE  MonitorInv'
  <2>1. /\ cancelled' = cancelled /\ closedForSubmit' = closedForSubmit /\ queueClosed' = queueClosed
        /\ Woken(pc'[Monitor])
    BY Zenon, <1>2, MonitorLeft
  <2>2. \A g \in Groups \ {p} : pc[g] \in {"wait", "returned"} => pc'[g] = pc[g] BY Zenon, <1>2 DEF Others
  <2>3. p \in Groups /\ pc[p] \in {"wait", "returned"} => pc'[p] = "returned"
    <3>1. ASSUME p \in Groups, pc[p] \in {"wait", "returned"}, SubmitStep(p) PROVE FALSE
      BY ZenonT(30), <3>1, SubmitMoves DEF SubmitStep, Moves
    <3> QED BY Zenon, <1>2, <3>1, OwnerMoves DEF OwnerStep, Moves
  <2>4. closedForSubmit' => \A g \in Groups : pc'[g] \in {"wait", "returned"}
    BY Zenon, <2>1, <2>2, <2>3 DEF MonitorInv
  <2> QED BY Zenon, <1>1, <2>1, <2>4 DEF MonitorInv, Woken
<1>3. ASSUME NEW from, NEW next \in MonitorLabels, MonitorMoves(from, next),
             next \in {"drain", "waitDrain", "length"} => closedForSubmit,
             next = "length" => inflight = 0, next = "force" => cancelled
      PROVE  MonitorInv'
  <2>1. /\ pc'[Monitor] = next /\ \A g \in Groups : pc'[g] = pc[g]
        /\ cancelled' = cancelled /\ closedForSubmit' = closedForSubmit /\ queueClosed' = queueClosed
        /\ inflight' = inflight
    BY Zenon, <1>3, Domains DEF MonitorMoves
  <2> QED BY Zenon, <1>3, <2>1 DEF MonitorInv
<1>4. ASSUME NEW from, CloseQueue(from), cancelled \/ (closedForSubmit /\ inflight = 0) PROVE MonitorInv'
  <2>1. pc'[Monitor] = "exited" BY Zenon, <1>4 DEF CloseQueue, Waking
  <2>2. \A g \in Groups : pc'[g] = pc[g] BY Zenon, <1>4 DEF CloseQueue, Waking, Waiting
  <2>3. cancelled' = cancelled /\ closedForSubmit' = closedForSubmit /\ inflight' = inflight BY Zenon, <1>4 DEF CloseQueue
  <2> QED BY Zenon, <1>4, <2>1, <2>2, <2>3 DEF MonitorInv
<1>5. ASSUME MonitorStep PROVE MonitorInv'
  <2>1. CASE MonitorMoves("check", IF closedForSubmit THEN "drain" ELSE "context")
    BY Zenon, <1>3, <2>1 DEF MonitorLabels
  <2>2. CASE MonitorMoves("context", IF cancelled THEN "force" ELSE "waitClose")
    BY Zenon, <1>3, <2>2 DEF MonitorLabels
  <2>3. CASE MonitorDrain
    <3>1. closedForSubmit BY Zenon, <2>3 DEF MonitorDrain, MonitorMoves, MonitorInv
    <3> QED BY Zenon, <1>3, <2>3, <3>1 DEF MonitorLabels, MonitorDrain
  <2>4. CASE MonitorLength
    <3>1. closedForSubmit /\ inflight = 0 BY Zenon, <2>4 DEF MonitorLength, MonitorMoves, CloseQueue, MonitorInv
    <3> QED BY Zenon, <1>3, <1>4, <2>4, <3>1 DEF MonitorLabels, MonitorLength
  <2>5. CASE CloseQueue("force")
    <3>1. cancelled BY Zenon, <2>5 DEF CloseQueue, MonitorInv
    <3> QED BY Zenon, <1>4, <2>5, <3>1
  <2> QED BY Zenon, <1>5, <2>1, <2>2, <2>3, <2>4, <2>5 DEF MonitorStep
<1>6. ASSUME CloseShared PROVE MonitorInv'
  <2>1. pc'[Monitor] = pc[Monitor] /\ \A g \in Groups : pc'[g] = pc[g] BY Zenon, <1>6, Domains DEF CloseShared
  <2> QED BY Zenon, <1>6, <2>1 DEF CloseShared, MonitorInv
<1>7. ASSUME Kick PROVE MonitorInv'
  <2>1. Woken(pc'[Monitor]) /\ \A g \in Groups : pc'[g] = pc[g]
    BY Zenon, <1>7, Domains DEF Kick, BroadcastMonitor, Woken
  <2> QED BY Zenon, <1>7, <2>1 DEF Kick, MonitorInv, Woken
<1>8. ASSUME Cancel PROVE MonitorInv' BY Zenon, <1>8 DEF Cancel, MonitorInv
<1>9. ASSUME UNCHANGED vars PROVE MonitorInv' BY Zenon, <1>9 DEF vars, MonitorInv
<1>10. ASSUME NEW g \in Groups, OwnerStep(g) PROVE Others(g)
  BY Zenon, <1>10, SubmitMoves, OwnerMoves DEF OwnerStep, SubmitStep, Moves
<1>11. ASSUME NEW w \in Workers, WorkerStep(w) PROVE Others(w)
  BY ZenonT(30), <1>11, SubmitMoves, WorkerMoves DEF WorkerStep, SubmitStep, Moves
<1> QED BY Zenon, <1>2, <1>5, <1>6, <1>7, <1>8, <1>9, <1>10, <1>11 DEF Next

-----------------------------------------------------------------------------
(* No task is lost *)

\* Errors, refusals, cancellation and the tasks that ran are never forgotten, done stays closed.
LEMMA Grows ==
  ASSUME TypeOK, [Next]_vars
  PROVE  /\ kind' = kind /\ refused \subseteq refused' /\ ran \subseteq ran' /\ (cancelled => cancelled')
         /\ \A g \in Groups : (failed[g] => failed'[g]) /\ errs[g] \subseteq errs'[g] /\ (done[g] => done'[g])
<1> USE Names DEF groupVars, history, poolVars
<1> DEFINE Same3 == failed' = failed /\ errs' = errs
           Hist == kind' = kind /\ refused \subseteq refused' /\ ran \subseteq ran'
           Grown == \A g \in Groups : (failed[g] => failed'[g]) /\ errs[g] \subseteq errs'[g]
           DoneGrown == \A g \in Groups : done[g] => done'[g]
<1>1. DOMAIN failed = Groups /\ DOMAIN errs = Groups /\ DOMAIN done = Groups BY Zenon, TypeSplit DEF GroupsOK
<1>2. ASSUME NEW p \in Submitters, SubmitStep(p)
      PROVE  Same3 /\ Hist /\ (done' = done \/ \E load, next : CloseDone(p, load, next))
  BY Zenon, <1>2 DEF SubmitStep, ContextErr, AddInflight, Put, PutClosed, WakeAtZero, DecrementInflight, CloseDone, Refused
<1>3. ASSUME NEW g \in Groups, OwnerStep(g)
      PROVE  Same3 /\ Hist /\ (done' = done \/ CloseLoad(g) \/ \E load, next : CloseDone(g, load, next))
  BY Zenon, <1>2, <1>3 DEF OwnerStep, Submit, LoadClosed, IsFailed, CloseForSubmit, CloseLoad, Wait
<1>4. ASSUME NEW w \in Workers, WorkerStep(w)
      PROVE  Hist /\ (done' = done \/ \E load, next : CloseDone(w, load, next))
  BY Zenon, <1>2, <1>4 DEF WorkerStep, GetWaits, GetEnds, GetTakes, GetCounts, Run, SubmitInternal, CountChild,
     TaskEnds, TaskFails, RecordError, FailCloses, DecrementInflight, CloseDone, TaskIsOver, WakeAtZero
<1>5. ASSUME NEW w \in Workers, WorkerStep(w) PROVE Same3 \/ RecordError(w)
  BY Zenon, <1>2, <1>5 DEF WorkerStep, GetWaits, GetEnds, GetTakes, GetCounts, Run, SubmitInternal, CountChild,
     TaskEnds, TaskFails, FailCloses, DecrementInflight, CloseDone, TaskIsOver, WakeAtZero
<1>6. ASSUME NEW w \in Workers, RecordError(w) PROVE Grown BY Zenon, <1>1, <1>6 DEF RecordError
<1>7. ASSUME NEW p, NEW load, NEW next, CloseDone(p, load, next) PROVE DoneGrown BY Zenon, <1>1, <1>7 DEF CloseDone
<1>8. ASSUME NEW g \in Groups, CloseLoad(g) PROVE DoneGrown BY ZenonT(30), <1>1, <1>8 DEF CloseLoad
<1>9. ASSUME MonitorStep \/ CloseShared \/ Kick \/ Cancel \/ UNCHANGED vars
      PROVE  Same3 /\ Hist /\ done' = done /\ (cancelled => cancelled')
  <2>1. CASE MonitorStep
    BY SMTT(20), <2>1 DEF MonitorStep, MonitorDrain, MonitorLength, MonitorMoves, CloseQueue
  <2>2. CASE CloseShared \/ Kick \/ Cancel BY SMTT(20), <2>2 DEF CloseShared, Kick, Cancel
  <2>3. CASE UNCHANGED vars BY Zenon, <2>3 DEF vars
  <2> QED BY Zenon, <1>9, <2>1, <2>2, <2>3
<1>10. ASSUME NEW g \in Groups, OwnerStep(g) PROVE cancelled' = cancelled BY Zenon, <1>10, MonitorLeft
<1>11. ASSUME NEW w \in Workers, WorkerStep(w) PROVE cancelled' = cancelled BY Zenon, <1>11, MonitorLeft
<1>12. Hist /\ (cancelled => cancelled') BY Zenon, <1>3, <1>4, <1>9, <1>10, <1>11 DEF Next
<1>13. Grown BY Zenon, <1>3, <1>5, <1>6, <1>9 DEF Next
<1>14. DoneGrown BY Zenon, <1>3, <1>4, <1>7, <1>8, <1>9 DEF Next
<1> QED BY Zenon, <1>12, <1>13, <1>14

LEMMA ExcusedStays ==
  ASSUME TypeOK, [Next]_vars, NEW g \in Groups, Excused(g)
  PROVE  Excused(g)'
<1>1. errs[g] \subseteq errs'[g] BY Zenon, Grows
<1>2. errs[g] # {} => errs'[g] # {} BY Zenon, <1>1
<1> QED BY Zenon, <1>2, Grows DEF Excused

\* Where a worker goes from a task that can still run, and how it comes to submit or to be refused.
LEMMA WorkerLeaves ==
  ASSUME TypeOK, NEW w \in Workers, WorkerStep(w)
  PROVE  /\ pc[w] \in AliveLabels => task' = task
         /\ pc[w] \in AliveLabels /\ pc'[w] \notin AliveLabels => Run(w) \/ TaskEnds(w) \/ RecordError(w)
         /\ pc'[w] \in BodyLabels \ {"error"} => Run(w) \/ pc[w] \in BodyLabels \ {"error"}
         /\ pc'[w] = "putBack" => PutClosed(w)
         /\ pc'[w] = "refuse" => ContextErr(w) \/ pc[w] = "putBack"
         /\ pc'[w] = "refused" => SubmitInternal(w) \/ pc[w] \in {"refuse", "refuseLoad"}
<1> USE Names DEF SubmitLabels, BodyLabels, AliveLabels
<1>1. ASSUME SubmitStep(w)
      PROVE  /\ task' = task /\ pc'[w] \in AliveLabels /\ pc[w] \in BodyLabels \ {"error"}
             /\ pc'[w] = "putBack" => PutClosed(w)
             /\ pc'[w] = "refuse" => ContextErr(w) \/ pc[w] = "putBack"
             /\ pc'[w] = "refused" => pc[w] \in {"refuse", "refuseLoad"}
  <2>1. task' = task
    BY Zenon, <1>1 DEF SubmitStep, ContextErr, AddInflight, Put, PutClosed, WakeAtZero, DecrementInflight, CloseDone, Refused
  <2> QED BY Zenon, <1>1, <2>1, SubmitMoves DEF SubmitStep, Moves
<1>2. ASSUME pc[w] \in AliveLabels PROVE task' = task
  BY Zenon, <1>1, <1>2 DEF WorkerStep, GetWaits, GetEnds, GetTakes, GetCounts, Run, SubmitInternal, CountChild, At,
     TaskEnds, TaskFails, RecordError, FailCloses, DecrementInflight, CloseDone, TaskIsOver, WakeAtZero
<1>3. pc[w] \in AliveLabels /\ pc'[w] \notin AliveLabels => Run(w) \/ TaskEnds(w) \/ RecordError(w)
  BY Zenon, <1>1, WorkerMoves DEF WorkerStep, Moves
<1>4. pc'[w] \in BodyLabels \ {"error"} => Run(w) \/ pc[w] \in BodyLabels \ {"error"}
  BY Zenon, <1>1, WorkerMoves DEF WorkerStep, Moves
<1>5. /\ pc'[w] = "putBack" => PutClosed(w)
      /\ pc'[w] = "refuse" => ContextErr(w) \/ pc[w] = "putBack"
      /\ pc'[w] = "refused" => SubmitInternal(w) \/ pc[w] \in {"refuse", "refuseLoad"}
  BY Zenon, <1>1, WorkerMoves DEF WorkerStep, Moves
<1> QED BY Zenon, <1>2, <1>3, <1>4, <1>5

\* What is left to submit changes when a task is queued or refused, and when a worker runs or ends one.
LEMMA TodoLeaves ==
  ASSUME TypeOK, NEW p \in Submitters,
         \/ (p \in Groups /\ OwnerStep(p))
         \/ p \in Workers /\ WorkerStep(p) /\ pc[p] \in BodyLabels \ {"error"}
  PROVE  todo' = todo \/ Put(p) \/ Refused(p)
<1> USE Names
<1>1. ASSUME SubmitStep(p) PROVE todo' = todo \/ Put(p) \/ Refused(p)
  BY Zenon, <1>1 DEF SubmitStep, ContextErr, AddInflight, PutClosed, WakeAtZero, DecrementInflight, CloseDone
<1>2. CASE p \in Groups /\ OwnerStep(p)
  BY Zenon, <1>1, <1>2 DEF OwnerStep, Submit, LoadClosed, IsFailed, CloseForSubmit, CloseLoad, Wait
<1>3. CASE p \in Workers /\ WorkerStep(p) /\ pc[p] \in BodyLabels \ {"error"}
  BY Zenon, <1>1, <1>3 DEF WorkerStep, GetWaits, GetEnds, GetTakes, GetCounts, Run, SubmitInternal, CountChild, At,
     TaskEnds, TaskFails, RecordError, FailCloses, DecrementInflight, CloseDone, TaskIsOver, WakeAtZero,
     BodyLabels, SubmitLabels
<1> QED BY Zenon, <1>2, <1>3

\* A group fails only by RecordError.
LEMMA FailedLeaves ==
  ASSUME TypeOK, [Next]_vars
  PROVE  failed' = failed \/ \E w \in Workers : RecordError(w)
<1> USE Names DEF groupVars
<1>1. ASSUME NEW p \in Submitters, SubmitStep(p) PROVE failed' = failed
  BY Zenon, <1>1 DEF SubmitStep, ContextErr, AddInflight, Put, PutClosed, WakeAtZero, DecrementInflight, CloseDone, Refused
<1>2. ASSUME NEW g \in Groups, OwnerStep(g) PROVE failed' = failed
  BY Zenon, <1>1, <1>2 DEF OwnerStep, Submit, LoadClosed, IsFailed, CloseForSubmit, CloseLoad, Wait
<1>3. ASSUME NEW w \in Workers, WorkerStep(w) PROVE failed' = failed \/ RecordError(w)
  BY Zenon, <1>1, <1>3 DEF WorkerStep, GetWaits, GetEnds, GetTakes, GetCounts, Run, SubmitInternal, CountChild,
     TaskEnds, TaskFails, FailCloses, DecrementInflight, CloseDone, TaskIsOver, WakeAtZero
<1>4. ASSUME MonitorStep \/ CloseShared \/ Kick \/ Cancel \/ UNCHANGED vars PROVE failed' = failed
  BY Zenon, <1>4 DEF MonitorStep, MonitorDrain, MonitorLength, MonitorMoves, CloseQueue, CloseShared, Kick, Cancel, vars
<1> QED BY Zenon, <1>2, <1>3, <1>4 DEF Next

\* Tasks run to their end only by TaskEnds.
LEMMA RanLeaves ==
  ASSUME TypeOK, [Next]_vars
  PROVE  ran' = ran \/ \E w \in Workers : TaskEnds(w)
<1> USE Names DEF history
<1>1. ASSUME NEW p \in Submitters, SubmitStep(p) PROVE ran' = ran
  BY Zenon, <1>1 DEF SubmitStep, ContextErr, AddInflight, Put, PutClosed, WakeAtZero, DecrementInflight, CloseDone, Refused
<1>2. ASSUME NEW g \in Groups, OwnerStep(g) PROVE ran' = ran
  BY Zenon, <1>1, <1>2 DEF OwnerStep, Submit, LoadClosed, IsFailed, CloseForSubmit, CloseLoad, Wait
<1>3. ASSUME NEW w \in Workers, WorkerStep(w) PROVE ran' = ran \/ TaskEnds(w)
  BY Zenon, <1>1, <1>3 DEF WorkerStep, GetWaits, GetEnds, GetTakes, GetCounts, Run, SubmitInternal, CountChild,
     TaskFails, RecordError, FailCloses, DecrementInflight, CloseDone, TaskIsOver, WakeAtZero
<1>4. ASSUME MonitorStep \/ CloseShared \/ Kick \/ Cancel \/ UNCHANGED vars PROVE ran' = ran
  BY Zenon, <1>4 DEF MonitorStep, MonitorDrain, MonitorLength, MonitorMoves, CloseQueue, CloseShared, Kick, Cancel, vars
<1> QED BY Zenon, <1>2, <1>3, <1>4 DEF Next

\* The queue changes by Put and by Get.
LEMMA QueueLeaves ==
  ASSUME TypeOK, TodoInv, [Next]_vars
  PROVE  queue' = queue \/ (\E p \in Submitters : Put(p)) \/ (\E w \in Workers : GetTakes(w))
<1> USE Names DEF queueVars
<1>1. ASSUME Counts
      PROVE  queue' = queue \/ (\E p \in Submitters : Put(p)) \/ (\E w \in Workers : GetTakes(w))
  BY Zenon, <1>1 DEF Counts, AddInflight, PutClosed, DecrementInflight, Submit, CountChild, TaskIsOver
<1> QED BY Zenon, <1>1, QuietOrCounts DEF Quiet

\* A task that can still run goes on, has run, or is given up with something to report.
LEMMA AliveStays ==
  ASSUME TypeOK, TodoInv, [Next]_vars, NEW x \in Alive
  PROVE  x \in Alive' \/ (GroupOf[x] \in Groups /\ Excused(GroupOf[x])')
<1> USE Names
<1>1. CASE x \in ran BY ZenonT(30), <1>1, Grows DEF Alive
<1>2. CASE x \in Elements(queue)
  <2>0. queue \in Seq(Tasks) BY Zenon, TypeSplit DEF QueueOK
  <2>1. CASE queue' = queue BY Zenon, <1>2, <2>1 DEF Alive
  <2>2. ASSUME NEW p \in Submitters, Put(p) PROVE x \in Elements(queue')
    <3>1. queue' = Append(queue, Head(todo[p])) BY Zenon, <2>2 DEF Put
    <3>2. PICK i \in DOMAIN queue : x = queue[i] BY Zenon, <1>2 DEF Elements
    <3>3. i \in DOMAIN queue' /\ queue'[i] = x BY <2>0, <3>1, <3>2
    <3> QED BY Zenon, <3>3 DEF Elements
  <2>3. ASSUME NEW w \in Workers, GetTakes(w) PROVE x \in Alive'
    <3>1. pc'[w] = "taken" BY Zenon, <2>3, WorkerMoves DEF Moves
    <3>2. queue # <<>> /\ queue' = Tail(queue) /\ task'[w] = Head(queue) BY Zenon, <2>3, Domains DEF GetTakes
    <3>3. PICK i \in DOMAIN queue : x = queue[i] BY Zenon, <1>2 DEF Elements
    <3>4. CASE i = 1
      <4>1. task'[w] = x BY SMTT(20), <2>0, <3>2, <3>3, <3>4
      <4> QED BY Zenon, <3>1, <4>1 DEF Alive, AliveLabels
    <3>5. CASE i # 1
      <4>1. i - 1 \in DOMAIN queue' /\ queue'[i - 1] = x BY <2>0, <3>2, <3>3, <3>5
      <4> QED BY Zenon, <4>1 DEF Alive, Elements
    <3> QED BY Zenon, <3>4, <3>5
  <2> QED BY Zenon, <2>1, <2>2, <2>3, QueueLeaves DEF Alive
<1>3. ASSUME NEW w \in Workers, pc[w] \in AliveLabels, x = task[w]
      PROVE  x \in Alive' \/ (GroupOf[x] \in Groups /\ Excused(GroupOf[x])')
  <2>0. GroupOf[x] = G(w) /\ GroupOf[x] \in Groups
    BY Zenon, <1>3, GroupTypes DEF AliveLabels, BodyLabels, TaskLabels, SubmitLabels
  <2>1. ASSUME NEW p \in Processes, Others(p), p # w PROVE x \in Alive'
    <3>1. task'[w] = task[w] /\ pc'[w] = pc[w]
      BY Zenon, <1>3, <2>1 DEF Others, AliveLabels, BodyLabels, SubmitLabels
    <3> QED BY Zenon, <1>3, <3>1 DEF Alive
  <2>2. ASSUME WorkerStep(w), pc'[w] \in AliveLabels PROVE x \in Alive'
    <3>1. task' = task BY Zenon, <1>3, <2>2, WorkerLeaves
    <3> QED BY Zenon, <1>3, <2>2, <3>1 DEF Alive
  <2>3. ASSUME Run(w), pc'[w] \notin AliveLabels PROVE Excused(GroupOf[x])'
    <3>1. failed[G(w)] BY Zenon, <2>3, Domains DEF Run, GoTo, AliveLabels, BodyLabels
    <3>2. Excused(GroupOf[x]) BY Zenon, <2>0, <3>1 DEF Excused
    <3> QED BY Zenon, <2>0, <3>2, ExcusedStays
  <2>4. ASSUME TaskEnds(w) PROVE x \in Alive' BY Zenon, <1>3, <2>4 DEF TaskEnds, Alive
  <2>5. ASSUME RecordError(w) PROVE Excused(GroupOf[x])'
    <3>1. failed'[G(w)] \/ errs'[G(w)] # {}
      <4>1. DOMAIN failed = Groups /\ DOMAIN errs = Groups BY Zenon, TypeSplit DEF GroupsOK
      <4> QED BY SMTT(20), <2>0, <2>5, <4>1 DEF RecordError
    <3> QED BY Zenon, <2>0, <3>1 DEF Excused
  <2> QED BY ZenonT(30), <1>3, <2>0, <2>1, <2>2, <2>3, <2>4, <2>5, Movers, WorkerLeaves
<1> QED BY Zenon, <1>1, <1>2, <1>3 DEF Alive

\* So the tasks accounted for stay accounted for.
LEMMA AccountStays ==
  ASSUME TypeOK, TodoInv, [Next]_vars, NEW g \in Groups, NEW X, NEW d, NEW e,
         \A x \in X : GroupOf[x] = g, Accounted(g, X, d),
         Excused(g)' \/ Elements(d) \subseteq Elements(e) \cup Alive'
  PROVE  Excused(g)' \/ X \subseteq Elements(e) \cup Alive'
<1>1. CASE Excused(g) BY Zenon, <1>1, ExcusedStays
<1>2. CASE X \subseteq Elements(d) \cup Alive /\ ~Excused(g)'
  <2>1. \A x \in X : x \in Alive => x \in Alive' BY Zenon, <1>2, AliveStays
  <2> QED BY Zenon, <1>2, <2>1
<1> QED BY Zenon, <1>1, <1>2 DEF Accounted

\* A task that is taken from what is left to submit is queued, or the group has something to report.
LEMMA SubmittedStays ==
  ASSUME TypeOK, TodoInv, NEW p \in Submitters, Put(p)
  PROVE  Elements(todo[p]) \subseteq Elements(todo'[p]) \cup Alive'
<1>1. todo[p] \in Seq(Tasks) /\ queue \in Seq(Tasks) BY Zenon, TypeSplit DEF TodoOK, QueueOK
<1>2. todo[p] # <<>> /\ todo'[p] = Tail(todo[p]) /\ queue' = Append(queue, Head(todo[p]))
  BY Zenon, Domains DEF Put, At, TodoInv, TodoFits, SubmitLabels
<1>3. ASSUME NEW i \in DOMAIN todo[p] PROVE todo[p][i] \in Elements(todo'[p]) \cup Elements(queue')
  <2>1. CASE i = 1
    <3>1. Head(todo[p]) \in Tasks /\ todo[p][i] = Head(todo[p]) BY <1>1, <1>2, <2>1
    <3>2. Len(queue) + 1 \in DOMAIN queue' /\ queue'[Len(queue) + 1] = Head(todo[p]) BY <1>1, <1>2, <3>1
    <3> QED BY Zenon, <3>1, <3>2 DEF Elements
  <2>2. CASE i # 1
    <3>1. i - 1 \in DOMAIN todo'[p] /\ todo'[p][i - 1] = todo[p][i] BY SMTT(20), <1>1, <1>2, <2>2
    <3> QED BY Zenon, <3>1 DEF Elements
  <2> QED BY Zenon, <2>1, <2>2
<1> QED BY Zenon, <1>3 DEF Elements, Alive

\* The elements of what the owner and the tasks submit belong to their group.
LEMMA OfTheGroup ==
  /\ \A g \in Groups : \A x \in Elements(Top[g]) : GroupOf[x] = g
  /\ \A t \in Tasks : \A x \in Elements(Children[t]) : GroupOf[x] = GroupOf[t]
BY PoolAssumption DEF Elements

LEMMA NothingIn == Elements(<<>>) = {}
BY DEF Elements

\* The owners' part of WalkInv.
LEMMA WalkOwner ==
  ASSUME TypeOK, TodoInv, WalkInv, [Next]_vars, NEW g \in Groups
  PROVE  /\ pc'[g] = "close" => g \in refused'
         /\ pc'[g] = "returned" => done'[g]
         /\ failed'[g] => kind'[g] = "failFast"
         /\ Accounted(g, Elements(Top[g]), todo[g])'
<1> USE Names
<1>1. ASSUME NEW p \in Processes, Others(p), p # g
      PROVE  /\ pc'[g] = "close" => g \in refused'
             /\ pc'[g] = "returned" => done'[g]
             /\ todo'[g] = todo[g]
  <2>1. todo'[g] = todo[g] /\ (pc'[g] = pc[g] \/ pc'[g] = "get") BY Zenon, <1>1 DEF Others
  <2> QED BY Zenon, <2>1, Grows DEF WalkInv
<1>2. ASSUME OwnerStep(g)
      PROVE  /\ pc'[g] = "close" => g \in refused'
             /\ pc'[g] = "returned" => done'[g]
  BY Zenon, <1>2, OwnerLeads DEF Refused, Wait, groupVars
<1>3. ASSUME failed'[g] PROVE kind'[g] = "failFast"
  <2>1. CASE failed[g] BY Zenon, <2>1, Grows DEF WalkInv
  <2>2. CASE ~failed[g]
    <3>1. ASSUME NEW w \in Workers, RecordError(w) PROVE kind[g] = "failFast"
      <4>1. DOMAIN failed = Groups BY Zenon, TypeSplit DEF GroupsOK
      <4> QED BY Zenon, <1>3, <2>2, <3>1, <4>1 DEF RecordError
    <3>2. failed' = failed \/ \E w \in Workers : RecordError(w) BY Zenon, FailedLeaves
    <3> QED BY ZenonT(30), <1>3, <2>2, <3>1, <3>2, Grows
  <2> QED BY Zenon, <2>1, <2>2
<1>4. Excused(g)' \/ Elements(todo[g]) \subseteq Elements(todo'[g]) \cup Alive'
  <2>1. CASE todo'[g] = todo[g] BY Zenon, <2>1
  <2>2. CASE Put(g) BY Zenon, <2>2, SubmittedStays
  <2>3. CASE Refused(g) BY Zenon, <2>3 DEF Refused, Excused
  <2> QED BY Zenon, <1>1, <2>1, <2>2, <2>3, Movers, TodoLeaves
<1>5. Accounted(g, Elements(Top[g]), todo[g])'
  <2>1. Accounted(g, Elements(Top[g]), todo[g]) BY Zenon DEF WalkInv
  <2>2. Excused(g)' \/ Elements(Top[g]) \subseteq Elements(todo'[g]) \cup Alive'
    BY ZenonT(30), <1>4, <2>1, OfTheGroup, AccountStays
  <2> QED BY ZenonT(30), <2>2 DEF Accounted
<1> QED BY Zenon, <1>1, <1>2, <1>3, <1>5, Movers

\* The queue closes under a submitter only when the pool is cancelled.
LEMMA ClosedUnder ==
  ASSUME Covered, MonitorInv, queueClosed, NEW p \in Submitters, pc[p] = "put"
  PROVE  cancelled
<1>1. inflight > 0 BY Zenon DEF Covered
<1> QED BY <1>1 DEF MonitorInv

\* The workers' part of WalkInv: why a child is refused.
LEMMA WalkRefused ==
  ASSUME TypeOK, TodoInv, Covered, DoneInv, MonitorInv, WalkInv, [Next]_vars, NEW w \in Workers,
         pc'[w] \in {"putBack", "refuse", "refused"}
  PROVE  cancelled' \/ failed'[GroupOf[task'[w]]]
<1> USE Names
<1>1. ASSUME pc[w] \in TaskLabels, task'[w] = task[w], cancelled \/ failed[GroupOf[task[w]]]
      PROVE  cancelled' \/ failed'[GroupOf[task'[w]]]
  BY ZenonT(30), <1>1, Grows, GroupTypes
<1>2. ASSUME NEW p \in Processes, Others(p), p # w PROVE cancelled' \/ failed'[GroupOf[task'[w]]]
  <2>1. task'[w] = task[w] /\ pc'[w] = pc[w] BY Zenon, <1>2 DEF Others
  <2> QED BY Zenon, <1>1, <2>1 DEF WalkInv, RefusedFor, TaskLabels, SubmitLabels
<1>3. ASSUME WorkerStep(w) PROVE cancelled' \/ failed'[GroupOf[task'[w]]]
  <2>1. CASE pc[w] \in {"putBack", "refuse"}
    <3>1. task' = task BY ZenonT(30), <1>3, <2>1, WorkerLeaves DEF AliveLabels, BodyLabels, SubmitLabels
    <3> QED BY Zenon, <1>1, <2>1, <3>1 DEF WalkInv, RefusedFor, TaskLabels, SubmitLabels
  <2>2. CASE PutClosed(w)
    <3>1. pc[w] = "put" /\ queueClosed /\ task' = task BY Zenon, <2>2 DEF PutClosed, At
    <3>2. cancelled BY Zenon, <3>1, ClosedUnder DEF Submitters
    <3> QED BY ZenonT(30), <3>2, Grows
  <2>3. CASE ContextErr(w)
    <3>1. cancelled
      <4>1. pc'[w] = IF cancelled THEN "refuse" ELSE "add" BY Zenon, <2>3, Domains DEF ContextErr, GoTo
      <4> QED BY Zenon, <4>1
    <3> QED BY Zenon, <3>1, Grows
  <2>4. CASE SubmitInternal(w)
    <3>1. pc[w] = "body" /\ task' = task /\ pc'[w] = IF failed[G(w)] THEN "refused" ELSE "vadd"
      BY Zenon, <2>4, Domains DEF SubmitInternal, At, GoTo
    <3>2. failed[GroupOf[task[w]]] BY Zenon, <3>1, GroupTypes
    <3> QED BY ZenonT(30), <1>1, <3>1, <3>2 DEF TaskLabels
  <2>5. pc[w] # "refuseLoad" BY Zenon DEF DoneInv, WorkerDone
  <2> QED BY ZenonT(30), <1>3, <2>1, <2>2, <2>3, <2>4, <2>5, WorkerLeaves
<1> QED BY ZenonT(30), <1>2, <1>3, Movers

\* The workers' part of WalkInv: the children of a task that runs.
LEMMA WalkChildren ==
  ASSUME TypeOK, TodoInv, WalkInv, [Next]_vars, NEW w \in Workers, pc'[w] \in BodyLabels \ {"error"}
  PROVE  Accounted(GroupOf[task[w]], Elements(Children[task[w]]), todo[w])'
<1> USE Names
<1>0. ASSUME pc[w] \in BodyLabels \ {"error"} PROVE task[w] \in Tasks /\ GroupOf[task[w]] \in Groups
  BY Zenon, <1>0, GroupTypes DEF BodyLabels, TaskLabels, SubmitLabels
<1>1. ASSUME pc[w] \in BodyLabels \ {"error"}, task'[w] = task[w], NEW g \in Groups, g = GroupOf[task[w]],
             Excused(g)' \/ Elements(todo[w]) \subseteq Elements(todo'[w]) \cup Alive'
      PROVE  Accounted(GroupOf[task[w]], Elements(Children[task[w]]), todo[w])'
  <2>1. Accounted(g, Elements(Children[task[w]]), todo[w]) BY ZenonT(30), <1>1 DEF WalkInv
  <2>2. \A x \in Elements(Children[task[w]]) : GroupOf[x] = g BY Zenon, <1>0, <1>1, OfTheGroup
  <2>3. Excused(g)' \/ Elements(Children[task[w]]) \subseteq Elements(todo'[w]) \cup Alive'
    BY Zenon, <1>1, <2>1, <2>2, AccountStays
  <2> QED BY Zenon, <1>1, <2>3 DEF Accounted
<1>2. ASSUME NEW p \in Processes, Others(p), p # w
      PROVE  Accounted(GroupOf[task[w]], Elements(Children[task[w]]), todo[w])'
  <2>1. task'[w] = task[w] /\ pc'[w] = pc[w] /\ todo'[w] = todo[w]
    BY ZenonT(30), <1>2 DEF Others, BodyLabels, SubmitLabels
  <2> QED BY Zenon, <1>0, <1>1, <2>1
<1>3. CASE Run(w)
  <2>1. todo'[w] = Children[task[w]] /\ task' = task
    BY Zenon, <1>3, Domains DEF Run, GoTo, BodyLabels, SubmitLabels
  <2> QED BY Zenon, <2>1 DEF Accounted
<1>4. ASSUME WorkerStep(w), pc[w] \in BodyLabels \ {"error"}
      PROVE  Accounted(GroupOf[task[w]], Elements(Children[task[w]]), todo[w])'
  <2>1. task' = task BY ZenonT(30), <1>4, WorkerLeaves DEF AliveLabels
  <2>2. PICK g \in Groups : g = GroupOf[task[w]] BY Zenon, <1>0, <1>4
  <2>3. CASE todo' = todo BY Zenon, <1>1, <1>4, <2>1, <2>2, <2>3
  <2>4. CASE Put(w) BY ZenonT(30), <1>1, <1>4, <2>1, <2>2, <2>4, SubmittedStays
  <2>5. CASE Refused(w)
    <3>1. pc[w] = "refused" /\ kind[G(w)] = "lenient" BY Zenon, <2>5, Domains DEF Refused, At, GoTo
    <3>2. kind[g] = "lenient" BY Zenon, <2>2, <3>1, GroupTypes
    <3>3. cancelled \/ failed[g] BY Zenon, <2>2, <3>1 DEF WalkInv, RefusedFor
    <3>4. Excused(g) BY Zenon, <3>2, <3>3 DEF Excused
    <3>5. Excused(g)' BY Zenon, <3>4, ExcusedStays
    <3> QED BY Zenon, <1>1, <1>4, <2>1, <2>2, <3>5
  <2> QED BY Zenon, <1>4, <2>3, <2>4, <2>5, TodoLeaves
<1> QED BY ZenonT(30), <1>2, <1>3, <1>4, Movers, WorkerLeaves

\* The children of the tasks that have run.
LEMMA WalkRan ==
  ASSUME TypeOK, TodoInv, WalkInv, [Next]_vars, NEW t \in ran'
  PROVE  Accounted(GroupOf[t], Elements(Children[t]), <<>>)'
<1> USE Names
<1>1. ASSUME t \in Tasks, Accounted(GroupOf[t], Elements(Children[t]), <<>>)
      PROVE  Accounted(GroupOf[t], Elements(Children[t]), <<>>)'
  <2>1. GroupOf[t] \in Groups BY ZenonT(30), <1>1, PoolAssumption
  <2>2. Excused(GroupOf[t])' \/ Elements(Children[t]) \subseteq Elements(<<>>) \cup Alive'
    BY Zenon, <1>1, <2>1, OfTheGroup, AccountStays
  <2> QED BY Zenon, <2>2 DEF Accounted
<1>2. CASE t \in ran
  <2>1. t \in Tasks BY Zenon, <1>2, TypeSplit DEF HistoryOK
  <2> QED BY Zenon, <1>1, <1>2, <2>1 DEF WalkInv
<1>3. ASSUME NEW w \in Workers, TaskEnds(w), t = task[w]
      PROVE  Accounted(GroupOf[t], Elements(Children[t]), <<>>)'
  <2>1. pc[w] = "body" /\ todo[w] = <<>> BY Zenon, <1>3 DEF TaskEnds, At
  <2>2. t \in Tasks BY Zenon, <1>3, <2>1, GroupTypes DEF TaskLabels
  <2> QED BY Zenon, <1>1, <1>3, <2>1, <2>2 DEF WalkInv, BodyLabels
<1> QED BY ZenonT(30), <1>2, <1>3, RanLeaves DEF TaskEnds

LEMMA WalkKept ==
  ASSUME TypeOK, TodoInv, Covered, DoneInv, MonitorInv, WalkInv, [Next]_vars
  PROVE  WalkInv'
BY Zenon, WalkOwner, WalkRefused, WalkChildren, WalkRan DEF WalkInv, RefusedFor
=============================================================================
