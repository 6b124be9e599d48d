-------------------------- MODULE DatastoreProofs --------------------------
(***************************************************************************)
(* Proofs about Datastore: the two locks and the registered transaction    *)
(* keep transactions, cancels and automatic rollbacks apart, for every     *)
(* value of the constants.                                                 *)
(*                                                                         *)
(* The first lemmas treat the kinds of control steps (a client moves on, a *)
(* handler returns, a timer passes Stop(), ...), the next ones reduce      *)
(* every action of Next to one of them, and the theorems follow from the   *)
(* invariant.                                                              *)
(***************************************************************************)
EXTENDS DatastoreHistory, TLAPS

\* The inductive invariant: the control has its types, ControlInv relates the places of the
\* processes to the locks and the manager, and req is a function (its values are data).
Inductive ==
  /\ ControlOK
  /\ ControlInv
  /\ req = [p \in Procs |-> req[p]]

\* The assumptions on the constants the proofs below use: processes, locks and nil differ.
LEMMA Constants ==
  /\ NoTx \notin TxIds
  /\ Free \notin Clients /\ Free \notin Syncs /\ Free \notin TxIds
  /\ Clients \cap Syncs = {} /\ Clients \cap TxIds = {} /\ Syncs \cap TxIds = {}
BY Zenon, ConstantsAssumption DEF Procs

\* The dryRun flag of a request of a client is a Boolean.
LEMMA RequestsDry == \A r \in Requests : r.dryRun \in BOOLEAN
BY Zenon, ConstantsAssumption DEF Request

\* Where a client is after RegisterTransaction and before it returns.
MidLabels == LowlevelLabels \cup
  {"replace", "replaceApply", "replaceWriteBack", "replaceStore", "cleanup"}

\* A client goes on inside TransactionSet or TransactionCancel; locks and manager stay.
LEMMA ClientMoves ==
  ASSUME Inductive, NEW c \in Clients, NEW label \in MidLabels,
         pc[c] \in MidLabels,
         label \in LowlevelLabels \/ op[c] = "set",
         req[c].dryRun => label \in DryLabels,
         pc' = [pc EXCEPT ![c] = label],
         UNCHANGED <<dmutex, tmMutex, transaction, used, done, op, arg, req>>
  PROVE  Inductive'
<1> USE Constants DEF Inductive, Procs
<1>1. ControlOK'
  BY DEF ControlOK, MidLabels, ClientLabels, LowlevelLabels
<1>2. ASSUME NEW t \in TxIds PROVE pc'[t] = pc[t]
  BY Zenon DEF ControlOK
<1>3. ClientInv(c)'
  <2>1. ClientInv(c) BY Zenon DEF ControlInv
  <2>2. op[c] \in {"set", "cancel"} /\ pc'[c] = label
    BY Zenon, <2>1 DEF ClientInv, ControlOK, MidLabels, ClientLabels, LowlevelLabels
  <2>3. op[c] = "set" => arg[c] \in TxIds
    BY Zenon, <2>1 DEF ClientInv, ControlOK
  <2>4. op[c] = "cancel" => pc[c] \in LowlevelLabels
    BY Zenon, <2>1 DEF ClientInv, MidLabels, ClientLabels, LowlevelLabels
  <2>5. transaction # NoTx => pc'[transaction] = pc[transaction]
    BY Zenon, <1>2 DEF ControlOK
  <2> QED
    BY Zenon, <1>2, <2>1, <2>2, <2>3, <2>4, <2>5
    DEF ClientInv, MidLabels, ClientLabels, LowlevelLabels, DryLabels
<1>4. ASSUME NEW d \in Clients, d # c PROVE ClientInv(d)'
  <2>1. ClientInv(d) /\ pc'[d] = pc[d]
    BY Zenon, <1>4 DEF ControlInv, ControlOK
  <2> QED BY Zenon, <1>2, <2>1 DEF ClientInv, ControlOK
<1>5. ASSUME NEW t \in TxIds PROVE TimerInv(t)'
  BY Zenon, <1>2 DEF ControlInv, TimerInv
<1>6. LockInv'
  <2>1. tmMutex = c => label \in LowlevelLabels
    BY Zenon DEF ControlInv, LockInv
  <2> QED BY Zenon, <2>1 DEF ControlInv, LockInv, ControlOK
<1>7. (req = [p \in Procs |-> req[p]])'
  BY Zenon
<1> QED BY Zenon, <1>1, <1>3, <1>4, <1>5, <1>6, <1>7 DEF ControlInv

\* A handler returns: it gives back dmutex, and tmMutex if it has it.  It removes the registered
\* transaction only when no timer is past Stop() and none can get there.
LEMMA ClientReturns ==
  ASSUME Inductive, NEW c \in Clients,
         pc' = [pc EXCEPT ![c] = "idle"],
         op' = [op EXCEPT ![c] = "none"],
         arg' = [arg EXCEPT ![c] = NoTx],
         req' = [req EXCEPT ![c] = NoRequest],
         dmutex' = IF dmutex = c THEN Free ELSE dmutex,
         tmMutex' = IF tmMutex = c THEN Free ELSE tmMutex,
         used' = used,
         done' \in [TxIds -> {"nil", "open", "closed"}],
         \A t \in TxIds : done'[t] = done[t] \/ (done[t] = "open" /\ done'[t] = "closed"),
         transaction' = transaction \/ transaction' = NoTx,
         transaction' # transaction \/ done' # done => dmutex = c,
         transaction' # transaction =>
           \A t \in TxIds : done'[t] # "open" /\ pc[t] \notin {"rollback"} \cup LowlevelLabels
  PROVE  Inductive'
<1> USE Constants DEF Inductive, Procs
<1>1. ControlOK'
  BY DEF ControlOK, ClientLabels
<1>2. ASSUME NEW t \in TxIds PROVE pc'[t] = pc[t]
  BY DEF ControlOK
<1>3. ClientInv(c)'
  BY Zenon DEF ClientInv, ControlOK, NoRequest, ClientLabels, LowlevelLabels
<1>4. ASSUME NEW d \in Clients, d # c PROVE ClientInv(d)'
  <2>1. ClientInv(d) BY Zenon DEF ControlInv
  <2>2. pc'[d] = pc[d] /\ op'[d] = op[d] /\ arg'[d] = arg[d] /\ req'[d] = req[d]
    BY Zenon, <1>4 DEF ControlOK
  <2>3. op[d] = "set" => arg[d] \in TxIds
    BY Zenon, <2>1 DEF ClientInv, ControlOK
  <2>4. CASE dmutex = c
    <3>1. pc[d] = "idle" \/ req[d].dryRun
      BY Zenon, <1>4, <2>1, <2>4 DEF ClientInv
    <3> QED BY <1>2, <2>1, <2>2, <2>3, <2>4, <3>1 DEF ClientInv, LowlevelLabels
  <2>5. CASE dmutex # c
    <3>1. op[d] = "cancel" /\ pc[d] \in LowlevelLabels => tmMutex' = tmMutex
      BY Zenon, <1>4, <2>1, <2>5 DEF ClientInv
    <3>2. transaction # NoTx => pc'[transaction] = pc[transaction]
      BY Zenon, <1>2 DEF ControlOK
    <3> QED BY <1>2, <2>1, <2>2, <2>3, <2>5, <3>1, <3>2 DEF ClientInv
  <2> QED BY Zenon, <2>4, <2>5
<1>5. ASSUME NEW t \in TxIds PROVE TimerInv(t)'
  <2>1. TimerInv(t) /\ pc'[t] = pc[t] /\ req'[t] = req[t]
    BY Zenon, <1>2 DEF ControlInv
  <2>2. pc[t] \in LowlevelLabels => tmMutex' = tmMutex
    BY Zenon, <2>1 DEF TimerInv
  <2> QED BY Zenon, <2>1, <2>2 DEF TimerInv
<1>6. LockInv'
  <2>1. tmMutex # Free /\ tmMutex # c => pc'[tmMutex] = pc[tmMutex]
    BY Zenon DEF ControlOK
  <2> QED BY <2>1 DEF ControlInv, LockInv, ControlOK, NoRequest
<1>7. (req = [p \in Procs |-> req[p]])'
  BY Zenon
<1> QED BY Zenon, <1>1, <1>3, <1>4, <1>5, <1>6, <1>7 DEF ControlInv

\* A timer goroutine goes on without taking a lock: the timeout expires, it sees its channel
\* closed, or its rollback advances.
LEMMA TimerMoves ==
  ASSUME Inductive, NEW t \in TxIds, NEW label \in {"select", "fired", "exited"} \cup LowlevelLabels,
         pc[t] \notin {"none", "rollback"},
         pc[t] \in LowlevelLabels => label \in LowlevelLabels,
         pc[t] \notin LowlevelLabels => label \notin LowlevelLabels,
         label \in {"select", "fired"} => done'[t] # "nil",
         pc' = [pc EXCEPT ![t] = label],
         done' = done \/ (done[t] = "closed" /\ done' = [done EXCEPT ![t] = "nil"]),
         label \in LowlevelLabels => done' = done,
         UNCHANGED <<dmutex, tmMutex, transaction, used, op, arg, req>>
  PROVE  Inductive'
<1> USE Constants DEF Inductive, Procs
<1>1. ControlOK'
  BY DEF ControlOK, TimerLabels, LowlevelLabels
<1>2. /\ \A q \in Procs \ {t} : pc'[q] = pc[q]
      /\ pc'[t] = label
      /\ \A u \in TxIds : done'[u] = done[u] \/ (done[u] = "closed" /\ done'[u] = "nil")
      /\ \A u \in TxIds \ {t} : done'[u] = done[u]
  <2>1. pc'[t] = label
    BY Zenon DEF ControlOK
  <2>2. ASSUME NEW q \in Procs \ {t} PROVE pc'[q] = pc[q]
    BY Zenon, <2>2 DEF ControlOK
  <2>3. ASSUME NEW u \in TxIds
        PROVE  done'[u] = done[u] \/ (u = t /\ done[u] = "closed" /\ done'[u] = "nil")
    <3>1. done \in [TxIds -> {"nil", "open", "closed"}]
      BY Zenon DEF ControlOK
    <3> QED BY Zenon, <3>1
  <2> QED BY Zenon, <2>1, <2>2, <2>3
<1>3. ASSUME NEW c \in Clients PROVE ClientInv(c)'
  <2>1. ClientInv(c) /\ pc'[c] = pc[c]
    BY Zenon, <1>2 DEF ControlInv
  <2>2. op[c] = "set" => arg[c] \in TxIds
    BY Zenon, <2>1 DEF ClientInv, ControlOK
  <2>3. op[c] = "set" /\ pc[c] # "finish" => pc'[arg[c]] = "none"
    BY Zenon, <1>2, <2>1, <2>2 DEF ClientInv
  <2>4. op[c] = "cancel" /\ pc[c] \in LowlevelLabels =>
          /\ done'[transaction] # "open"
          /\ pc'[transaction] \in {"none", "select", "fired", "exited"}
    BY Zenon, <1>2, <2>1 DEF ClientInv, ControlOK, LowlevelLabels
  <2> QED BY Zenon, <2>1, <2>3, <2>4 DEF ClientInv
<1>4. ASSUME NEW u \in TxIds PROVE TimerInv(u)'
  BY <1>2 DEF ControlInv, TimerInv, LowlevelLabels
<1>5. LockInv'
  BY <1>2 DEF ControlInv, LockInv, ControlOK
<1>6. (req = [p \in Procs |-> req[p]])'
  BY Zenon
<1> QED BY Zenon, <1>1, <1>3, <1>4, <1>5, <1>6 DEF ControlInv

\* A timer passes Stop() in GetRollbackTransaction: its channel was open, so its transaction is
\* the registered one and no cancel is under way.
LEMMA TimerRollsBack ==
  ASSUME Inductive, NEW t \in TxIds, TimerRollback(t)
  PROVE  Inductive'
<1> USE Constants DEF Inductive, Procs
<1>1. done[t] = "open" /\ transaction = t
  BY Zenon DEF TimerRollback, StopTimer, ControlInv, TimerInv, ControlOK
<1>2. /\ pc' = [pc EXCEPT ![t] = "rollback"]
      /\ done' = [done EXCEPT ![t] = "closed"]
      /\ req' = [req EXCEPT ![t] = RollbackRequest(t)]
      /\ UNCHANGED <<dmutex, tmMutex, transaction, used, op, arg>>
  BY Zenon, <1>1 DEF TimerRollback, StopTimer, GoTo, locks
<1>3. RollbackRequest(t).dryRun = FALSE
  BY Zenon DEF RollbackRequest, NoRequest
<1>4. ControlOK'
  BY Zenon, <1>2 DEF ControlOK, TimerLabels
<1>5. ASSUME NEW c \in Clients PROVE ClientInv(c)'
  <2>1. ClientInv(c) /\ pc'[c] = pc[c] /\ req'[c] = req[c]
    BY Zenon, <1>2 DEF ControlInv, ControlOK
  <2>2. op[c] = "set" => arg[c] \in TxIds
    BY Zenon, <2>1 DEF ClientInv, ControlOK
  <2>3. op[c] = "set" /\ pc[c] # "finish" => pc'[arg[c]] = "none"
    BY Zenon, <1>2, <2>1, <2>2 DEF ClientInv, ControlOK, TimerRollback
  <2>4. ~(op[c] = "cancel" /\ pc[c] \in LowlevelLabels)
    BY Zenon, <1>1, <2>1 DEF ClientInv
  <2> QED BY Zenon, <1>2, <2>1, <2>3, <2>4 DEF ClientInv
<1>6. ASSUME NEW u \in TxIds PROVE TimerInv(u)'
  <2>1. TimerInv(u) BY Zenon DEF ControlInv
  <2>2. CASE u = t
    BY Zenon, <1>1, <1>2, <1>3, <2>1, <2>2 DEF TimerInv, ControlOK, LowlevelLabels, TimerRollback
  <2>3. CASE u # t
    BY Zenon, <1>2, <2>1, <2>3 DEF TimerInv, ControlOK
  <2> QED BY Zenon, <2>2, <2>3
<1>7. LockInv'
  <2>1. tmMutex # t
    BY Zenon DEF TimerRollback, ControlInv, LockInv, LowlevelLabels
  <2> QED BY Zenon, <1>2, <1>3, <2>1 DEF ControlInv, LockInv, ControlOK
<1>8. (req = [p \in Procs |-> req[p]])'
  BY Zenon, <1>2
<1> QED BY Zenon, <1>4, <1>5, <1>6, <1>7, <1>8 DEF ControlInv

\* The rollback of a timer takes tmMutex.
LEMMA RollbackLocks ==
  ASSUME Inductive, NEW t \in TxIds, RollbackLock(t)
  PROVE  Inductive'
<1> USE Constants DEF Inductive, Procs
<1>1. /\ pc' = [pc EXCEPT ![t] = "copy"]
      /\ tmMutex = Free /\ tmMutex' = t
      /\ UNCHANGED <<dmutex, transaction, used, done, op, arg, req>>
      /\ pc[t] = "rollback"
  BY Zenon DEF RollbackLock, GoTo, manager, locals
<1>2. ControlOK'
  BY Zenon, <1>1 DEF ControlOK, LowlevelLabels
<1>3. ASSUME NEW c \in Clients PROVE ClientInv(c)'
  <2>1. ClientInv(c) /\ pc'[c] = pc[c]
    BY Zenon, <1>1 DEF ControlInv, ControlOK
  <2>2. op[c] = "set" => arg[c] \in TxIds
    BY Zenon, <2>1 DEF ClientInv, ControlOK
  <2>3. op[c] = "set" /\ pc[c] # "finish" => pc'[arg[c]] = "none"
    BY Zenon, <1>1, <2>1, <2>2 DEF ClientInv, ControlOK
  <2>4. ~(op[c] = "cancel" /\ pc[c] \in LowlevelLabels)
    BY Zenon, <1>1, <2>1 DEF ClientInv
  <2> QED BY Zenon, <1>1, <2>1, <2>3, <2>4 DEF ClientInv
<1>4. ASSUME NEW u \in TxIds PROVE TimerInv(u)'
  BY Zenon, <1>1 DEF ControlInv, TimerInv, ControlOK, LowlevelLabels
<1>5. LockInv'
  BY <1>1 DEF ControlInv, LockInv, ControlOK, LowlevelLabels
<1>6. (req = [p \in Procs |-> req[p]])'
  BY Zenon, <1>1
<1> QED BY Zenon, <1>2, <1>3, <1>4, <1>5, <1>6 DEF ControlInv

\* TransactionManager.Rollback ends: tmMutex is free and nothing is registered.
LEMMA RollbackReturns ==
  ASSUME Inductive, NEW t \in TxIds, pc[t] \in LowlevelLabels, RollbackEnds(t),
         UNCHANGED <<used, done>>
  PROVE  Inductive'
<1> USE Constants DEF Inductive, Procs
<1>1. /\ pc' = [pc EXCEPT ![t] = "exited"]
      /\ req' = [req EXCEPT ![t] = NoRequest]
      /\ tmMutex' = Free /\ transaction' = NoTx
      /\ UNCHANGED <<dmutex, op, arg>>
      /\ tmMutex = t /\ transaction = t
  BY Zenon DEF RollbackEnds, GoTo, Clear, ControlInv, TimerInv
<1>2. ControlOK'
  BY <1>1 DEF ControlOK, TimerLabels
<1>3. ASSUME NEW c \in Clients PROVE ClientInv(c)'
  <2>1. ClientInv(c) /\ pc'[c] = pc[c] /\ req'[c] = req[c]
    BY Zenon, <1>1 DEF ControlInv, ControlOK
  <2>2. op[c] = "set" => arg[c] \in TxIds
    BY Zenon, <2>1 DEF ClientInv, ControlOK
  <2>3. op[c] = "set" /\ pc[c] # "finish" => arg[c] # t /\ pc'[arg[c]] = "none"
    BY Zenon, <1>1, <2>1, <2>2 DEF ClientInv, ControlOK, LowlevelLabels
  <2>4. ~(op[c] = "cancel" /\ pc[c] \in LowlevelLabels)
    BY Zenon, <1>1, <2>1 DEF ClientInv
  <2> QED BY Zenon, <1>1, <2>1, <2>3, <2>4 DEF ClientInv
<1>4. ASSUME NEW u \in TxIds PROVE TimerInv(u)'
  <2>1. TimerInv(u) /\ TimerInv(t) BY Zenon DEF ControlInv
  <2>2. done[u] # "open"
    BY Zenon, <1>1, <2>1 DEF TimerInv
  <2>3. CASE u = t
    BY Zenon, <1>1, <2>1, <2>2, <2>3 DEF TimerInv, ControlOK, LowlevelLabels, NoRequest
  <2>4. CASE u # t
    BY Zenon, <1>1, <2>1, <2>2, <2>4 DEF TimerInv, ControlOK
  <2> QED BY Zenon, <2>3, <2>4
<1>5. LockInv'
  BY Zenon, <1>1 DEF ControlInv, LockInv, ControlOK, NoRequest
<1>6. (req = [p \in Procs |-> req[p]])'
  BY Zenon, <1>1
<1> QED BY Zenon, <1>2, <1>3, <1>4, <1>5, <1>6 DEF ControlInv

\* TransactionSet begins with a new transaction; a real one takes dmutex, which was free.
LEMMA TransactionStarts ==
  ASSUME Inductive, NEW c \in Clients, NEW t \in TxIds, NEW r \in Requests,
         TransactionSet(c, t, r)
  PROVE  Inductive'
<1> USE Constants DEF Inductive, Procs
<1> DEFINE label == IF r.dryRun THEN "replace" ELSE "register"
<1>1. /\ pc[c] = "idle" /\ t \notin used
      /\ pc' = [pc EXCEPT ![c] = label]
      /\ op' = [op EXCEPT ![c] = "set"]
      /\ arg' = [arg EXCEPT ![c] = t]
      /\ req' = [req EXCEPT ![c] = r]
      /\ used' = used \cup {t}
      /\ dmutex' = IF r.dryRun THEN dmutex ELSE c
      /\ r.dryRun \/ dmutex = Free
      /\ UNCHANGED <<tmMutex, transaction, done>>
  BY Zenon DEF TransactionSet, GoTo
<1>2. r.dryRun \in BOOLEAN
  BY Zenon, RequestsDry
<1>3. ControlOK'
  BY Zenon, <1>1 DEF ControlOK, ClientLabels
<1>4. ClientInv(c)'
  <2>1. pc'[c] = label /\ op'[c] = "set" /\ arg'[c] = t /\ req'[c] = r /\ pc'[t] = "none"
    BY Zenon, <1>1 DEF ControlOK, ControlInv, TimerInv
  <2> QED BY <1>1, <1>2, <2>1 DEF ClientInv, ClientLabels, LowlevelLabels, DryLabels
<1>5. ASSUME NEW d \in Clients, d # c PROVE ClientInv(d)'
  <2>1. ClientInv(d) BY Zenon DEF ControlInv
  <2>2. pc'[d] = pc[d] /\ op'[d] = op[d] /\ arg'[d] = arg[d] /\ req'[d] = req[d]
    BY Zenon, <1>1, <1>5 DEF ControlOK
  <2>3. op[d] = "set" => arg[d] \in TxIds /\ pc'[arg[d]] = pc[arg[d]]
    BY <1>1, <2>1 DEF ClientInv, ControlOK
  <2>4. transaction # NoTx => pc'[transaction] = pc[transaction]
    BY Zenon, <1>1 DEF ControlOK
  <2>5. pc[d] # "idle" /\ ~req[d].dryRun => dmutex' = dmutex
    BY Zenon, <1>1, <2>1 DEF ClientInv
  <2> QED BY <1>1, <2>1, <2>2, <2>3, <2>4, <2>5 DEF ClientInv
<1>6. ASSUME NEW u \in TxIds PROVE TimerInv(u)'
  <2>1. TimerInv(u) /\ pc'[u] = pc[u] /\ req'[u] = req[u]
    BY Zenon, <1>1 DEF ControlInv, ControlOK
  <2> QED BY Zenon, <1>1, <2>1 DEF TimerInv
<1>7. LockInv'
  <2>1. tmMutex # c
    BY Zenon, <1>1 DEF ControlInv, LockInv, LowlevelLabels
  <2>2. ASSUME NEW d \in Clients, op[d] = "set" PROVE arg[d] # t
    BY <1>1, <2>2 DEF ControlInv, ClientInv
  <2>3. \A s \in Syncs : dmutex' = s <=> pc'[s] = "revert"
    BY <1>1 DEF ControlInv, LockInv, ControlOK
  <2>4. \A d, e \in Clients : op'[d] = "set" /\ op'[e] = "set" /\ d # e => arg'[d] # arg'[e]
    BY <1>1, <2>2 DEF ControlInv, LockInv, ControlOK
  <2> QED BY <1>1, <2>1, <2>3, <2>4 DEF ControlInv, LockInv, ControlOK
<1>8. (req = [p \in Procs |-> req[p]])'
  BY Zenon, <1>1
<1> QED BY Zenon, <1>3, <1>4, <1>5, <1>6, <1>7, <1>8 DEF ControlInv

\* RegisterTransaction succeeds: nothing was registered before.
LEMMA Registers ==
  ASSUME Inductive, NEW c \in Clients, pc[c] = "register", transaction = NoTx,
         transaction' = arg[c],
         pc' = [pc EXCEPT ![c] = "replace"],
         UNCHANGED <<dmutex, tmMutex, used, done, op, arg, req>>
  PROVE  Inductive'
<1> USE Constants DEF Inductive, Procs
<1>1. /\ op[c] = "set" /\ arg[c] \in used /\ arg[c] \in TxIds /\ pc[arg[c]] = "none"
      /\ dmutex = c
  BY Zenon DEF ControlInv, ClientInv, ControlOK, ClientLabels, DryLabels
<1>2. ControlOK'
  BY <1>1 DEF ControlOK, ClientLabels
<1>3. \A u \in TxIds : pc'[u] = pc[u]
  BY Zenon DEF ControlOK
<1>4. ClientInv(c)'
  <2>1. ClientInv(c) /\ pc'[c] = "replace" BY Zenon DEF ControlInv, ControlOK
  <2> QED BY Zenon, <1>1, <1>3, <2>1 DEF ClientInv, ClientLabels, LowlevelLabels, DryLabels
<1>5. ASSUME NEW d \in Clients, d # c PROVE ClientInv(d)'
  <2>1. ClientInv(d) /\ pc'[d] = pc[d] BY Zenon, <1>5 DEF ControlInv, ControlOK
  <2>2. pc[d] = "idle" \/ req[d].dryRun
    BY Zenon, <1>1, <1>5, <2>1 DEF ClientInv
  <2>3. op[d] = "set" => arg[d] \in TxIds
    BY Zenon, <2>1 DEF ClientInv, ControlOK
  <2> QED BY Zenon, <1>3, <2>1, <2>2, <2>3 DEF ClientInv, LowlevelLabels
<1>6. ASSUME NEW u \in TxIds PROVE TimerInv(u)'
  <2>1. TimerInv(u) /\ pc'[u] = pc[u] /\ u # NoTx
    BY Zenon, <1>3 DEF ControlInv
  <2> QED BY Zenon, <2>1 DEF TimerInv
<1>7. LockInv'
  <2>1. tmMutex # c
    BY Zenon DEF ControlInv, LockInv, LowlevelLabels
  <2> QED BY Zenon, <1>1, <2>1 DEF ControlInv, LockInv, ControlOK
<1>8. (req = [p \in Procs |-> req[p]])'
  BY Zenon
<1> QED BY Zenon, <1>2, <1>4, <1>5, <1>6, <1>7, <1>8 DEF ControlInv

\* TransactionConfirm and TransactionCancel begin by taking dmutex.
LEMMA CallStarts ==
  ASSUME Inductive, NEW c \in Clients, NEW t \in TxIds, NEW name \in {"confirm", "cancel"},
         Call(c, name, t)
  PROVE  Inductive'
<1> USE Constants DEF Inductive, Procs
<1>1. /\ pc[c] = "idle" /\ dmutex = Free
      /\ pc' = [pc EXCEPT ![c] = name]
      /\ op' = [op EXCEPT ![c] = name]
      /\ arg' = [arg EXCEPT ![c] = t]
      /\ dmutex' = c
      /\ UNCHANGED <<tmMutex, transaction, used, done, req>>
  BY Zenon DEF Call, GoTo, manager
<1>2. ControlOK'
  BY Zenon, <1>1 DEF ControlOK, ClientLabels
<1>3. \A u \in TxIds : pc'[u] = pc[u]
  BY Zenon, <1>1 DEF ControlOK
<1>4. ClientInv(c)'
  <2>1. ClientInv(c) /\ pc'[c] = name /\ op'[c] = name BY Zenon, <1>1 DEF ControlInv, ControlOK
  <2> QED BY Zenon, <1>1, <2>1 DEF ClientInv, ClientLabels, LowlevelLabels, DryLabels
<1>5. ASSUME NEW d \in Clients, d # c PROVE ClientInv(d)'
  <2>1. ClientInv(d) /\ pc'[d] = pc[d] /\ op'[d] = op[d] /\ arg'[d] = arg[d]
    BY Zenon, <1>1, <1>5 DEF ControlInv, ControlOK
  <2>2. pc[d] = "idle" \/ req[d].dryRun
    BY Zenon, <1>1, <2>1 DEF ClientInv
  <2>3. op[d] = "set" => arg[d] \in TxIds
    BY Zenon, <2>1 DEF ClientInv, ControlOK
  <2> QED BY <1>1, <1>3, <2>1, <2>2, <2>3 DEF ClientInv, LowlevelLabels
<1>6. ASSUME NEW u \in TxIds PROVE TimerInv(u)'
  BY Zenon, <1>1, <1>3 DEF ControlInv, TimerInv
<1>7. LockInv'
  <2>1. tmMutex # c
    BY Zenon, <1>1 DEF ControlInv, LockInv, LowlevelLabels
  <2>2. \A s \in Syncs : dmutex' = s <=> pc'[s] = "revert"
    BY Zenon, <1>1 DEF ControlInv, LockInv, ControlOK
  <2> QED BY <1>1, <2>1, <2>2 DEF ControlInv, LockInv, ControlOK
<1>8. (req = [p \in Procs |-> req[p]])'
  BY Zenon, <1>1
<1> QED BY Zenon, <1>2, <1>4, <1>5, <1>6, <1>7, <1>8 DEF ControlInv

\* TransactionManager.Cancel stops the timer of the registered transaction and starts to roll
\* back under tmMutex: that timer can no longer pass Stop().
LEMMA CancelStarts ==
  ASSUME Inductive, NEW c \in Clients, Cancel(c)
  PROVE  Inductive'
<1> USE Constants DEF Inductive, Procs
<1>1. /\ pc[c] = "cancel" /\ op[c] = "cancel" /\ dmutex = c
      /\ transaction \in TxIds
      /\ done[transaction] # "closed"
      /\ tmMutex = Free
  BY Zenon DEF Cancel, StopTimer, ControlInv, ClientInv, ControlOK, ClientLabels, DryLabels
<1>2. /\ pc' = [pc EXCEPT ![c] = "copy"]
      /\ req' = [req EXCEPT ![c] = RollbackRequest(transaction)]
      /\ tmMutex' = c
      /\ UNCHANGED <<dmutex, transaction, used, op, arg>>
  BY Zenon DEF Cancel, GoTo
<1>3. /\ done' \in [TxIds -> {"nil", "open", "closed"}]
      /\ done'[transaction] # "open"
      /\ \A u \in TxIds : done'[u] = done[u] \/ (done[u] = "open" /\ done'[u] = "closed")
  <2>1. done \in [TxIds -> {"nil", "open", "closed"}]
    BY Zenon DEF ControlOK
  <2>2. done' = IF done[transaction] = "open" THEN [done EXCEPT ![transaction] = "closed"] ELSE done
    BY Zenon DEF Cancel, StopTimer
  <2>3. CASE done[transaction] = "open"
    BY Zenon, <1>1, <2>1, <2>2, <2>3
  <2>4. CASE done[transaction] # "open"
    BY Zenon, <1>1, <2>1, <2>2, <2>4
  <2> QED BY Zenon, <2>3, <2>4
<1>4. RollbackRequest(transaction).dryRun = FALSE
  BY Zenon DEF RollbackRequest, NoRequest
<1>5. ControlOK'
  BY Zenon, <1>1, <1>2, <1>3 DEF ControlOK, LowlevelLabels
<1>6. \A u \in TxIds : pc'[u] = pc[u]
  BY Zenon, <1>2 DEF ControlOK
<1>7. ClientInv(c)'
  <2>1. pc[transaction] \in {"none", "select", "fired", "exited"}
    BY Zenon, <1>1 DEF ControlInv, TimerInv, ControlOK, TimerLabels
  <2>2. pc'[c] = "copy" /\ op'[c] = "cancel" /\ req'[c].dryRun = FALSE
    BY Zenon, <1>1, <1>2, <1>4 DEF ControlOK
  <2> QED BY Zenon, <1>1, <1>2, <1>3, <1>6, <2>1, <2>2 DEF ClientInv, ClientLabels, LowlevelLabels
<1>8. ASSUME NEW d \in Clients, d # c PROVE ClientInv(d)'
  <2>1. ClientInv(d) /\ pc'[d] = pc[d] /\ req'[d] = req[d]
    BY Zenon, <1>2, <1>8 DEF ControlInv, ControlOK
  <2>2. pc[d] = "idle" \/ req[d].dryRun
    BY Zenon, <1>1, <1>8, <2>1 DEF ClientInv
  <2>3. op[d] = "set" => arg[d] \in TxIds
    BY Zenon, <2>1 DEF ClientInv, ControlOK
  <2> QED BY Zenon, <1>2, <1>6, <2>1, <2>2, <2>3 DEF ClientInv, LowlevelLabels
<1>9. ASSUME NEW u \in TxIds PROVE TimerInv(u)'
  <2>1. TimerInv(u) /\ pc'[u] = pc[u] /\ req'[u] = req[u]
    BY Zenon, <1>2, <1>6 DEF ControlInv
  <2>2. pc[u] \notin {"rollback"} \cup LowlevelLabels
    BY Zenon, <1>1, <2>1 DEF TimerInv
  <2> QED BY Zenon, <1>2, <1>3, <2>1, <2>2 DEF TimerInv
<1>10. LockInv'
  BY <1>1, <1>2, <1>4 DEF ControlInv, LockInv, ControlOK, LowlevelLabels
<1>11. (req = [p \in Procs |-> req[p]])'
  BY Zenon, <1>2
<1> QED BY Zenon, <1>5, <1>7, <1>8, <1>9, <1>10, <1>11 DEF ControlInv

\* TransactionManager.Confirm stops the timer and may remove the transaction.
LEMMA ConfirmReturns ==
  ASSUME Inductive, NEW c \in Clients, Confirm(c)
  PROVE  Inductive'
<1> USE Constants DEF Inductive, Procs
<1>1. /\ pc[c] = "confirm" /\ op[c] = "confirm" /\ dmutex = c
      /\ transaction \in TxIds
      /\ done[transaction] # "closed"
      /\ tmMutex = Free /\ tmMutex' = Free
  BY Zenon DEF Confirm, StopTimer, ControlInv, ClientInv, ControlOK, ClientLabels, DryLabels
<1>2. /\ pc' = [pc EXCEPT ![c] = "idle"]
      /\ op' = [op EXCEPT ![c] = "none"]
      /\ arg' = [arg EXCEPT ![c] = NoTx]
      /\ req' = [req EXCEPT ![c] = NoRequest]
      /\ dmutex' = IF dmutex = c THEN Free ELSE dmutex
      /\ used' = used
  BY Zenon DEF Confirm, Return, GoTo, Clear
<1>3. transaction' = transaction \/ transaction' = NoTx
  BY Zenon DEF Confirm, CleanupTransaction
<1>4. /\ done' \in [TxIds -> {"nil", "open", "closed"}]
      /\ done'[transaction] # "open"
      /\ \A u \in TxIds : done'[u] = done[u] \/ (done[u] = "open" /\ done'[u] = "closed")
  <2>1. done \in [TxIds -> {"nil", "open", "closed"}]
    BY Zenon DEF ControlOK
  <2>2. done' = IF done[transaction] = "open" THEN [done EXCEPT ![transaction] = "closed"] ELSE done
    BY Zenon DEF Confirm, StopTimer
  <2>3. CASE done[transaction] = "open"
    BY Zenon, <1>1, <2>1, <2>2, <2>3
  <2>4. CASE done[transaction] # "open"
    BY Zenon, <1>1, <2>1, <2>2, <2>4
  <2> QED BY Zenon, <2>3, <2>4
<1>5. ASSUME NEW t \in TxIds PROVE done'[t] # "open" /\ pc[t] \notin {"rollback"} \cup LowlevelLabels
  <2>1. TimerInv(t) BY Zenon DEF ControlInv
  <2> QED BY Zenon, <1>1, <1>4, <2>1 DEF TimerInv
<1>6. tmMutex' = IF tmMutex = c THEN Free ELSE tmMutex
  BY Zenon, <1>1
<1> HIDE DEF Inductive, Procs
<1> QED BY Zenon, <1>1, <1>2, <1>3, <1>4, <1>5, <1>6, ClientReturns

\* The cleanup of a failed TransactionSet removes its own transaction, which has no timer yet.
LEMMA CleanupReturns ==
  ASSUME Inductive, NEW c \in Clients, Cleanup(c)
  PROVE  Inductive'
<1> USE Constants DEF Inductive, Procs
<1>1. /\ pc' = [pc EXCEPT ![c] = "idle"]
      /\ op' = [op EXCEPT ![c] = "none"]
      /\ arg' = [arg EXCEPT ![c] = NoTx]
      /\ req' = [req EXCEPT ![c] = NoRequest]
      /\ dmutex' = IF dmutex = c THEN Free ELSE dmutex
      /\ used' = used /\ done' = done /\ tmMutex' = tmMutex
      /\ pc[c] = "cleanup"
      /\ transaction' = transaction \/ transaction' = NoTx
      /\ req[c].dryRun => transaction' = transaction
  BY Zenon DEF Cleanup, Return, GoTo, Clear, CleanupTransaction
<1>2. tmMutex' = IF tmMutex = c THEN Free ELSE tmMutex
  BY Zenon, <1>1 DEF ControlInv, LockInv, LowlevelLabels
<1>3. /\ done' \in [TxIds -> {"nil", "open", "closed"}]
      /\ \A t \in TxIds : done'[t] = done[t]
  BY Zenon, <1>1 DEF ControlOK
<1>4. CASE transaction' = transaction
  <2> HIDE DEF Inductive, Procs
  <2> QED BY Zenon, <1>1, <1>2, <1>3, <1>4, ClientReturns
<1>5. CASE transaction' # transaction
  <2>1. /\ dmutex = c
        /\ transaction = arg[c] /\ arg[c] \in TxIds /\ pc[arg[c]] = "none"
    BY Zenon, <1>1, <1>5 DEF ControlInv, ClientInv, ControlOK, ClientLabels
  <2>2. ASSUME NEW t \in TxIds PROVE done'[t] # "open" /\ pc[t] \notin {"rollback"} \cup LowlevelLabels
    <3>1. TimerInv(t) BY Zenon DEF ControlInv
    <3> QED BY Zenon, <1>3, <2>1, <3>1 DEF TimerInv, LowlevelLabels
  <2> HIDE DEF Inductive, Procs
  <2> QED BY Zenon, <1>1, <1>2, <1>3, <2>1, <2>2, ClientReturns
<1> QED BY Zenon, <1>4, <1>5

\* The rollback of a cancel ends and both locks are given back.
LEMMA CancelReturns ==
  ASSUME Inductive, NEW c \in Clients, pc[c] \in LowlevelLabels, op[c] = "cancel",
         tmMutex' = Free, Return(c),
         transaction' = transaction \/ transaction' = NoTx,
         UNCHANGED <<used, done>>
  PROVE  Inductive'
<1> USE Constants DEF Inductive, Procs
<1>1. /\ pc' = [pc EXCEPT ![c] = "idle"]
      /\ op' = [op EXCEPT ![c] = "none"]
      /\ arg' = [arg EXCEPT ![c] = NoTx]
      /\ req' = [req EXCEPT ![c] = NoRequest]
      /\ dmutex' = IF dmutex = c THEN Free ELSE dmutex
  BY Zenon DEF Return, GoTo, Clear
<1>2. /\ tmMutex = c /\ dmutex = c
      /\ transaction \in TxIds /\ done[transaction] # "open"
      /\ pc[transaction] \in {"none", "select", "fired", "exited"}
  BY Zenon DEF ControlInv, ClientInv, ControlOK, LowlevelLabels
<1>3. /\ done' \in [TxIds -> {"nil", "open", "closed"}]
      /\ \A t \in TxIds : done'[t] = done[t]
  BY Zenon DEF ControlOK
<1>4. ASSUME NEW t \in TxIds PROVE done'[t] # "open" /\ pc[t] \notin {"rollback"} \cup LowlevelLabels
  <2>1. TimerInv(t) BY Zenon DEF ControlInv
  <2> QED BY Zenon, <1>2, <1>3, <2>1 DEF TimerInv, LowlevelLabels
<1> HIDE DEF Inductive, Procs
<1> QED BY Zenon, <1>1, <1>2, <1>3, <1>4, ClientReturns

\* A client returns and leaves the manager alone.
LEMMA JustReturns ==
  ASSUME Inductive, NEW c \in Clients, pc[c] \notin LowlevelLabels \/ req[c].dryRun,
         Return(c), UNCHANGED <<tmMutex, transaction, used, done>>
  PROVE  Inductive'
<1> USE Constants DEF Inductive, Procs
<1>1. /\ pc' = [pc EXCEPT ![c] = "idle"]
      /\ op' = [op EXCEPT ![c] = "none"]
      /\ arg' = [arg EXCEPT ![c] = NoTx]
      /\ req' = [req EXCEPT ![c] = NoRequest]
      /\ dmutex' = IF dmutex = c THEN Free ELSE dmutex
  BY Zenon DEF Return, GoTo, Clear
<1>2. tmMutex # c
  BY DEF ControlInv, LockInv, ClientInv
<1>3. /\ done' \in [TxIds -> {"nil", "open", "closed"}]
      /\ \A t \in TxIds : done'[t] = done[t]
  BY Zenon DEF ControlOK
<1> HIDE DEF Inductive, Procs
<1> QED BY Zenon, <1>1, <1>2, <1>3, ClientReturns

\* lowlevelTransactionSet starts the rollback timer of the transaction it has applied.
LEMMA Arms ==
  ASSUME Inductive, NEW c \in Clients, pc[c] = "store", op[c] = "set",
         done' = [done EXCEPT ![arg[c]] = "open"],
         pc' = [pc EXCEPT ![c] = "finish", ![arg[c]] = "select"],
         UNCHANGED <<dmutex, tmMutex, transaction, used, op, arg, req>>
  PROVE  Inductive'
<1> USE Constants DEF Inductive, Procs
<1>1. /\ arg[c] \in used /\ arg[c] \in TxIds /\ pc[arg[c]] = "none"
      /\ ~req[c].dryRun /\ dmutex = c /\ transaction = arg[c]
  BY Zenon DEF ControlInv, ClientInv, ControlOK, ClientLabels, DryLabels
<1>2. /\ pc'[c] = "finish" /\ pc'[arg[c]] = "select"
      /\ \A q \in Procs \ {c, arg[c]} : pc'[q] = pc[q]
      /\ pc' \in [Procs -> ClientLabels \cup LowlevelLabels \cup TimerLabels \cup SyncLabels]
  BY Zenon, <1>1 DEF ControlOK, ClientLabels, TimerLabels
<1>3. /\ done'[arg[c]] = "open"
      /\ \A u \in TxIds \ {arg[c]} : done'[u] = done[u]
      /\ done' \in [TxIds -> {"nil", "open", "closed"}]
  BY Zenon, <1>1 DEF ControlOK
<1>4. ControlOK'
  BY <1>1, <1>2, <1>3 DEF ControlOK, ClientLabels, TimerLabels
<1>5. ClientInv(c)'
  <2>1. ClientInv(c) BY Zenon DEF ControlInv
  <2> QED BY Zenon, <1>1, <1>2, <2>1 DEF ClientInv, ClientLabels, LowlevelLabels
<1>6. ASSUME NEW d \in Clients, d # c PROVE ClientInv(d)'
  <2>1. ClientInv(d) /\ pc'[d] = pc[d]
    BY <1>1, <1>2, <1>6 DEF ControlInv
  <2>2. pc[d] = "idle" \/ req[d].dryRun
    BY Zenon, <1>1, <1>6, <2>1 DEF ClientInv
  <2>3. op[d] = "set" => arg[d] \in TxIds /\ arg[d] # arg[c]
    BY <1>6, <2>1 DEF ClientInv, ControlOK, ControlInv, LockInv
  <2>4. op[d] = "set" => pc'[arg[d]] = pc[arg[d]]
    BY <1>2, <2>3
  <2> QED BY Zenon, <2>1, <2>2, <2>3, <2>4 DEF ClientInv, LowlevelLabels
<1>7. ASSUME NEW u \in TxIds PROVE TimerInv(u)'
  <2>1. TimerInv(u) BY Zenon DEF ControlInv
  <2>2. CASE u = arg[c]
    BY Zenon, <1>1, <1>2, <1>3, <2>1, <2>2 DEF TimerInv, LowlevelLabels
  <2>3. CASE u # arg[c]
    BY <1>1, <1>2, <1>3, <2>1, <2>3 DEF TimerInv
  <2> QED BY Zenon, <2>2, <2>3
<1>8. LockInv'
  <2>1. tmMutex # c /\ tmMutex # arg[c]
    BY Zenon, <1>1 DEF ControlInv, LockInv, LowlevelLabels
  <2>2. tmMutex # Free => pc'[tmMutex] = pc[tmMutex]
    BY Zenon, <1>2, <2>1 DEF ControlOK
  <2>3. \A s \in Syncs : pc'[s] = pc[s]
    BY <1>1, <1>2
  <2> QED BY Zenon, <2>1, <2>2, <2>3 DEF ControlInv, LockInv
<1>9. (req = [p \in Procs |-> req[p]])'
  BY Zenon
<1> QED BY Zenon, <1>4, <1>5, <1>6, <1>7, <1>8, <1>9 DEF ControlInv

\* A sync goroutine goes on; it may take a free dmutex for its Set and gives it back.
LEMMA SyncMoves ==
  ASSUME Inductive, NEW s \in Syncs, NEW label \in SyncLabels,
         pc' = [pc EXCEPT ![s] = label],
         dmutex' \in Clients \cup Syncs \cup {Free},
         \A c \in Clients : dmutex = c => dmutex' = c,
         \A r \in Syncs \ {s} : dmutex' = r <=> dmutex = r,
         dmutex' = s <=> label = "revert",
         req' = req \/ req' = [req EXCEPT ![s] = NoRequest],
         UNCHANGED <<tmMutex, transaction, used, done, op, arg>>
  PROVE  Inductive'
<1> USE Constants DEF Inductive, Procs
<1>1. /\ pc'[s] = label
      /\ \A q \in Procs \ {s} : pc'[q] = pc[q] /\ req'[q] = req[q]
      /\ req'[s].dryRun = req[s].dryRun \/ req'[s].dryRun = FALSE
  <2>1. pc'[s] = label BY Zenon DEF ControlOK
  <2>2. ASSUME NEW q \in Procs \ {s} PROVE pc'[q] = pc[q]
    BY Zenon DEF ControlOK
  <2>3. ASSUME NEW q \in Procs \ {s} PROVE req'[q] = req[q]
    BY Zenon
  <2>4. req'[s].dryRun = req[s].dryRun \/ req'[s].dryRun = FALSE
    BY DEF NoRequest
  <2> QED BY Zenon, <2>1, <2>2, <2>3, <2>4
<1>2. ControlOK'
  BY DEF ControlOK
<1>3. ASSUME NEW c \in Clients PROVE ClientInv(c)'
  <2>1. ClientInv(c) /\ pc'[c] = pc[c] /\ req'[c] = req[c]
    BY Zenon, <1>1 DEF ControlInv
  <2>2. op[c] = "set" => arg[c] \in TxIds /\ pc'[arg[c]] = pc[arg[c]]
    BY <1>1, <2>1 DEF ClientInv, ControlOK
  <2>3. transaction # NoTx => pc'[transaction] = pc[transaction]
    BY <1>1 DEF ControlOK
  <2> QED BY Zenon, <2>1, <2>2, <2>3 DEF ClientInv
<1>4. ASSUME NEW u \in TxIds PROVE TimerInv(u)'
  <2>1. TimerInv(u) /\ pc'[u] = pc[u] /\ req'[u] = req[u]
    BY Zenon, <1>1 DEF ControlInv
  <2> QED BY Zenon, <2>1 DEF TimerInv
<1>5. LockInv'
  <2>1. tmMutex # Free => pc'[tmMutex] = pc[tmMutex]
    BY <1>1 DEF ControlOK
  <2>2. ASSUME NEW r \in Syncs PROVE (dmutex' = r <=> pc'[r] = "revert") /\ ~req'[r].dryRun
    <3>1. (dmutex = r <=> pc[r] = "revert") /\ ~req[r].dryRun
      BY Zenon DEF ControlInv, LockInv
    <3>2. CASE r = s
      BY Zenon, <1>1, <3>1, <3>2
    <3>3. CASE r # s
      BY Zenon, <1>1, <3>1, <3>3
    <3> QED BY Zenon, <3>2, <3>3
  <2> QED BY <2>1, <2>2 DEF ControlInv, LockInv
<1>6. (req = [p \in Procs |-> req[p]])'
  BY Zenon
<1> QED BY Zenon, <1>2, <1>3, <1>4, <1>5, <1>6 DEF ControlInv

\* A restart after a crash or a panic leaves locks, manager and processes as at the start.
LEMMA Restarts == ASSUME Inductive, Restart PROVE Inductive'
<1> USE Constants DEF Inductive, Procs
<1>1. /\ dmutex' = Free /\ tmMutex' = Free /\ transaction' = NoTx /\ used' = used
      /\ done' = [t \in TxIds |-> "nil"]
      /\ pc' = [p \in Procs |-> IF p \in used THEN "exited" ELSE IF p \in TxIds THEN "none" ELSE "idle"]
      /\ op' = [c \in Clients |-> "none"]
      /\ arg' = [p \in Procs |-> IF p \in TxIds THEN p ELSE NoTx]
      /\ req' = [p \in Procs |-> NoRequest]
      /\ used \subseteq TxIds
  BY Zenon DEF Restart, ControlOK
<1>2. ControlOK'
  BY Zenon, <1>1 DEF ControlOK, ClientLabels, TimerLabels, SyncLabels
<1>3. ASSUME NEW c \in Clients PROVE ClientInv(c)'
  <2>1. pc'[c] = "idle" /\ op'[c] = "none" /\ ~req'[c].dryRun
    BY Zenon, <1>1 DEF NoRequest
  <2> QED BY Zenon, <1>1, <2>1 DEF ClientInv, ClientLabels, LowlevelLabels
<1>4. ASSUME NEW u \in TxIds PROVE TimerInv(u)'
  BY Zenon, <1>1 DEF TimerInv, LowlevelLabels, NoRequest
<1>5. LockInv'
  BY Zenon, <1>1 DEF LockInv, NoRequest
<1>6. (req = [p \in Procs |-> req[p]])'
  BY Zenon, <1>1
<1> QED BY Zenon, <1>2, <1>3, <1>4, <1>5, <1>6 DEF ControlInv

\* The initial states satisfy the inductive invariant.
LEMMA Initially == Init => Inductive
<1> SUFFICES ASSUME Init PROVE Inductive
  BY Zenon
<1> USE Constants DEF Init, Procs
<1>1. ControlOK
  BY Zenon DEF ControlOK, ClientLabels, TimerLabels, SyncLabels
<1>2. ASSUME NEW c \in Clients PROVE ClientInv(c)
  <2>1. pc[c] = "idle" /\ op[c] = "none" /\ ~req[c].dryRun
    BY Zenon DEF NoRequest
  <2> QED BY Zenon, <2>1 DEF ClientInv, ClientLabels, LowlevelLabels
<1>3. ASSUME NEW u \in TxIds PROVE TimerInv(u)
  BY Zenon DEF TimerInv, LowlevelLabels, NoRequest
<1>4. LockInv
  BY Zenon DEF LockInv, NoRequest
<1>5. req = [p \in Procs |-> req[p]]
  BY Zenon
<1> QED BY Zenon, <1>1, <1>2, <1>3, <1>4, <1>5 DEF Inductive, ControlInv

\* The control of no process changes.
LEMMA ControlStays ==
  ASSUME Inductive, UNCHANGED <<dmutex, tmMutex, transaction, used, done, pc, op, arg, req>>
  PROVE  Inductive'
<1> USE DEF Inductive
<1>1. ControlOK'
  BY Zenon DEF ControlOK
<1>2. ASSUME NEW c \in Clients PROVE ClientInv(c)'
  BY Zenon DEF ControlInv, ClientInv
<1>3. ASSUME NEW u \in TxIds PROVE TimerInv(u)'
  BY Zenon DEF ControlInv, TimerInv
<1>4. LockInv'
  BY Zenon DEF ControlInv, LockInv
<1> QED BY Zenon, <1>1, <1>2, <1>3, <1>4 DEF ControlInv

\* An error return of lowlevelTransactionSet or replaceIntent.
LEMMA Aborts ==
  ASSUME Inductive, NEW p \in Clients \cup TxIds, pc[p] \in MidLabels \ {"cleanup"}, Abort(p),
         UNCHANGED <<used, done>>
  PROVE  Inductive'
<1> USE Constants
<1>1. CASE /\ p \in Clients /\ op[p] = "set" /\ GoTo(p, "cleanup")
           /\ UNCHANGED <<locks, transaction, locals, ctxDone>>
  <2>1. "cleanup" \in MidLabels /\ "cleanup" \in DryLabels
    BY Zenon DEF MidLabels, DryLabels
  <2>2. /\ pc' = [pc EXCEPT ![p] = "cleanup"]
        /\ UNCHANGED <<dmutex, tmMutex, transaction, used, done, op, arg, req>>
    BY Zenon, <1>1 DEF GoTo, locks, locals
  <2> QED BY Zenon, <1>1, <2>1, <2>2, ClientMoves
<1>2. CASE p \in Clients /\ op[p] = "cancel" /\ tmMutex' = Free /\ Return(p) /\ UNCHANGED transaction
  <2>1. pc[p] \in LowlevelLabels
    BY Zenon, <1>2 DEF Inductive, ControlInv, ClientInv, MidLabels, ClientLabels
  <2> QED BY Zenon, <1>2, <2>1, CancelReturns
<1>3. CASE p \in TxIds /\ RollbackEnds(p)
  <2>1. pc[p] \in LowlevelLabels
    BY Zenon, <1>3 DEF Inductive, ControlOK, MidLabels, TimerLabels
  <2> QED BY Zenon, <1>3, <2>1, RollbackReturns
<1> QED BY Zenon, <1>1, <1>2, <1>3 DEF Abort

\* A step inside lowlevelTransactionSet that changes nothing of the locks and the manager.
LEMMA LowlevelMoves ==
  ASSUME Inductive, NEW p \in Clients \cup TxIds, NEW label \in LowlevelLabels,
         pc[p] \in LowlevelLabels,
         req[p].dryRun => label \in DryLabels,
         pc' = [pc EXCEPT ![p] = label],
         UNCHANGED <<dmutex, tmMutex, transaction, used, done, op, arg, req>>
  PROVE  Inductive'
<1>1. CASE p \in Clients
  BY Zenon, <1>1, ClientMoves DEF MidLabels
<1>2. CASE p \in TxIds
  <2>1. pc[p] \notin {"none", "rollback"} /\ label \notin {"select", "fired"}
    BY Zenon DEF LowlevelLabels
  <2> QED BY Zenon, <1>2, <2>1, TimerMoves
<1> QED BY Zenon, <1>1, <1>2

\* Every step of lowlevelTransactionSet preserves the inductive invariant.
LEMMA LowlevelSteps ==
  ASSUME Inductive, NEW p \in Clients \cup TxIds, LowlevelStep(p)
  PROVE  Inductive'
<1> USE DEF GoTo, locks, manager, locals
<1>1. CASE CopySyncTree(p)
  <2>1. pc[p] \in LowlevelLabels /\ "load" \in LowlevelLabels /\ "load" \in DryLabels
    BY Zenon, <1>1 DEF CopySyncTree, LowlevelLabels, DryLabels
  <2> QED BY Zenon, <1>1, <2>1, LowlevelMoves DEF CopySyncTree
<1>2. CASE LoadAllButRunningIntents(p)
  <2>1. pc[p] \in LowlevelLabels /\ "merge" \in LowlevelLabels /\ "merge" \in DryLabels
    BY Zenon, <1>2 DEF LoadAllButRunningIntents, LowlevelLabels, DryLabels
  <2> QED BY Zenon, <1>2, <2>1, LowlevelMoves DEF LoadAllButRunningIntents
<1>3. CASE MergeAndValidate(p)
  <2>1. pc[p] \in LowlevelLabels /\ "apply" \in LowlevelLabels
    BY Zenon, <1>3 DEF MergeAndValidate, LowlevelLabels
  <2>2. CASE req[p].dryRun
    BY Zenon, <1>3, <2>2, JustReturns DEF MergeAndValidate
  <2>3. CASE ~req[p].dryRun
    BY Zenon, <1>3, <2>1, <2>3, LowlevelMoves DEF MergeAndValidate
  <2> QED BY Zenon, <2>2, <2>3
<1>4. CASE MergeInvalid(p)
  BY Zenon, <1>4, Aborts DEF MergeInvalid, MidLabels, LowlevelLabels
<1>5. CASE ApplyIntent(p)
  <2>1. pc[p] \in LowlevelLabels /\ "persist" \in LowlevelLabels
    BY Zenon, <1>5 DEF ApplyIntent, LowlevelLabels
  <2>2. ~req[p].dryRun
    BY Zenon, <1>5 DEF ApplyIntent, Inductive, ControlInv, ClientInv, TimerInv, DryLabels
  <2> QED BY Zenon, <1>5, <2>1, <2>2, LowlevelMoves DEF ApplyIntent
<1>6. CASE \E i \in Intents : PersistIntent(p, i)
  BY Zenon, <1>6, ControlStays DEF PersistIntent
<1>7. CASE WriteBackSyncTree(p)
  <2>1. pc[p] \in LowlevelLabels /\ "store" \in LowlevelLabels
    BY Zenon, <1>7 DEF WriteBackSyncTree, LowlevelLabels
  <2>2. ~req[p].dryRun
    BY Zenon, <1>7 DEF WriteBackSyncTree, Inductive, ControlInv, ClientInv, TimerInv, DryLabels
  <2> QED BY ZenonT(30), <1>7, <2>1, <2>2, LowlevelMoves DEF WriteBackSyncTree
<1>8. CASE StoreAndFinish(p)
  <2>1. pc[p] = "store" /\ pc[p] \in LowlevelLabels /\ used' = used
    BY Zenon, <1>8 DEF StoreAndFinish, LowlevelLabels
  <2>2. CASE /\ p \in Clients /\ op[p] = "set"
             /\ done' = [done EXCEPT ![arg[p]] = "open"]
             /\ pc' = [pc EXCEPT ![p] = "finish", ![arg[p]] = "select"]
             /\ UNCHANGED <<locks, transaction, locals, ctxDone>>
    BY Zenon, <2>1, <2>2, Arms
  <2>3. CASE /\ p \in Clients /\ op[p] = "cancel"
             /\ CleanupTransaction(arg[p])
             /\ tmMutex' = Free
             /\ Return(p)
             /\ UNCHANGED done
    BY Zenon, <2>1, <2>3, CancelReturns DEF CleanupTransaction
  <2>4. CASE p \in TxIds /\ RollbackEnds(p) /\ UNCHANGED done
    BY Zenon, <2>1, <2>4, RollbackReturns
  <2> QED BY Zenon, <1>8, <2>2, <2>3, <2>4 DEF StoreAndFinish
<1> QED BY Zenon, <1>1, <1>2, <1>3, <1>4, <1>5, <1>6, <1>7, <1>8 DEF LowlevelStep

\* Every other step of a handler preserves the inductive invariant.
LEMMA ClientSteps ==
  ASSUME Inductive, NEW c \in Clients, ClientStep(c)
  PROVE  Inductive'
<1> USE DEF GoTo, locks, manager, locals
<1>1. CASE RegisterTransaction(c)
  <2>1. CASE transaction = NoTx
    BY Zenon, <1>1, <2>1, Registers DEF RegisterTransaction
  <2>2. CASE transaction # NoTx
    BY Zenon, <1>1, <2>2, JustReturns DEF RegisterTransaction, LowlevelLabels
  <2> QED BY Zenon, <2>1, <2>2
<1>2. CASE RegisterContextDone(c)
  BY Zenon, <1>2, JustReturns DEF RegisterContextDone, LowlevelLabels
<1>3. CASE NoOp(c)
  BY Zenon, <1>3, JustReturns DEF NoOp, LowlevelLabels
<1>4. CASE SkipReplace(c)
  BY Zenon, <1>4, ClientMoves DEF SkipReplace, MidLabels, LowlevelLabels, DryLabels
<1>5. CASE ReplaceIntent(c)
  <2>1. pc[c] = "replace" /\ op[c] = "set"
    BY Zenon, <1>5 DEF ReplaceIntent, Inductive, ControlInv, ClientInv, ClientLabels
  <2>2. CASE Abort(c)
    BY Zenon, <1>5, <2>1, <2>2, Aborts DEF ReplaceIntent, MidLabels
  <2>3. CASE ~Abort(c)
    BY Zenon, <1>5, <2>1, <2>3, ClientMoves DEF ReplaceIntent, MidLabels, DryLabels
  <2> QED BY Zenon, <2>2, <2>3
<1>6. CASE ReplaceApply(c)
  <2>1. pc[c] = "replaceApply" /\ op[c] = "set"
    BY Zenon, <1>6 DEF ReplaceApply, Inductive, ControlInv, ClientInv, ClientLabels
  <2> QED BY Zenon, <1>6, <2>1, ClientMoves DEF ReplaceApply, MidLabels, DryLabels
<1>7. CASE ReplaceWriteBack(c)
  <2>1. pc[c] = "replaceWriteBack" /\ op[c] = "set"
    BY Zenon, <1>7 DEF ReplaceWriteBack, Inductive, ControlInv, ClientInv, ClientLabels
  <2> QED BY Zenon, <1>7, <2>1, ClientMoves DEF ReplaceWriteBack, MidLabels, DryLabels
<1>8. CASE ReplaceStore(c)
  BY Zenon, <1>8, ClientMoves DEF ReplaceStore, MidLabels, DryLabels, LowlevelLabels
<1>9. CASE Cleanup(c)
  BY Zenon, <1>9, CleanupReturns
<1>10. CASE Finish(c)
  BY Zenon, <1>10, JustReturns DEF Finish, LowlevelLabels
<1>11. CASE NoOngoingTransaction(c)
  BY Zenon, <1>11, JustReturns DEF NoOngoingTransaction, LowlevelLabels
<1>12. CASE Confirm(c)
  BY Zenon, <1>12, ConfirmReturns
<1>13. CASE Cancel(c)
  BY Zenon, <1>13, CancelStarts
<1> QED
  BY Zenon, <1>1, <1>2, <1>3, <1>4, <1>5, <1>6, <1>7, <1>8, <1>9, <1>10, <1>11, <1>12, <1>13 DEF ClientStep

\* Every step of a timer goroutine preserves the inductive invariant.
LEMMA TimerSteps ==
  ASSUME Inductive, NEW t \in TxIds, TimerStep(t)
  PROVE  Inductive'
<1> USE DEF GoTo, locks, manager, locals
<1>1. CASE TimerFires(t)
  <2>1. pc[t] = "select" /\ done[t] # "nil"
    BY Zenon, <1>1 DEF TimerFires, Inductive, ControlInv, TimerInv
  <2> QED BY Zenon, <1>1, <2>1, TimerMoves DEF TimerFires, LowlevelLabels
<1>2. CASE TimerStopped(t)
  BY Zenon, <1>2, TimerMoves DEF TimerStopped, LowlevelLabels
<1>3. CASE TimerRollback(t)
  BY Zenon, <1>3, TimerRollsBack
<1>4. CASE RollbackLock(t)
  BY Zenon, <1>4, RollbackLocks
<1> QED BY Zenon, <1>1, <1>2, <1>3, <1>4 DEF TimerStep

\* Every step of a sync goroutine preserves the inductive invariant.
LEMMA SyncSteps ==
  ASSUME Inductive, NEW s \in Syncs, SyncStep(s) \/ SyncFails(s)
  PROVE  Inductive'
<1> USE Constants DEF GoTo, locks, manager, locals, SyncReturns, Clear, SyncLabels
<1>1. /\ dmutex \in Clients \cup Syncs \cup {Free}
      /\ dmutex = s <=> pc[s] = "revert"
  BY Zenon DEF Inductive, ControlOK, ControlInv, LockInv
<1>2. CASE SyncGet(s)
  <2>1. (IF EmptyGetAborts /\ device = EmptyConfig THEN "idle" ELSE "got") \in SyncLabels \ {"revert"}
    BY Zenon
  <2> QED BY Zenon, <1>1, <1>2, <2>1, SyncMoves DEF SyncGet
<1>3. CASE ApplyToRunning(s)
  BY Zenon, <1>1, <1>3, SyncMoves DEF ApplyToRunning
<1>4. CASE RevertLoad(s)
  BY Zenon, <1>1, <1>4, SyncMoves DEF RevertLoad
<1>5. CASE RevertSkip(s)
  BY Zenon, <1>1, <1>5, SyncMoves DEF RevertSkip
<1>6. CASE RevertLock(s)
  BY Zenon, <1>1, <1>6, SyncMoves DEF RevertLock
<1>7. CASE RevertApply(s)
  BY Zenon, <1>1, <1>7, SyncMoves DEF RevertApply
<1>8. CASE SyncFails(s)
  <2>1. dmutex' = (IF dmutex = s THEN Free ELSE dmutex)
    BY Zenon, <1>8 DEF SyncFails
  <2> QED BY Zenon, <1>1, <1>8, <2>1, SyncMoves DEF SyncFails
<1> QED BY Zenon, <1>2, <1>3, <1>4, <1>5, <1>6, <1>7, <1>8 DEF SyncStep

\* Every call of a client preserves the inductive invariant.
LEMMA CallSteps ==
  ASSUME Inductive, NEW c \in Clients, Calls(c)
  PROVE  Inductive'
BY Zenon, TransactionStarts, CallStarts DEF Calls, TransactionConfirm, TransactionCancel

\* Failing calls, cancelled contexts, changes of the device, crashes and panics preserve the
\* inductive invariant.
LEMMA FailureSteps ==
  ASSUME Inductive, Failures
  PROVE  Inductive'
<1> USE DEF locks, manager, locals
<1>1. ASSUME NEW p \in Clients \cup TxIds, CallFails(p) PROVE Inductive'
  BY Zenon, <1>1, Aborts DEF CallFails, MidLabels, LowlevelLabels
<1>2. ASSUME NEW p \in Clients \cup TxIds, NEW i \in Intents, PersistDeleteFails(p, i) PROVE Inductive'
  BY Zenon, <1>2, ControlStays DEF PersistDeleteFails
<1>3. ASSUME NEW p \in Clients \cup TxIds, NEW i \in Intents, PersistModifyFails(p, i) PROVE Inductive'
  BY Zenon, <1>3, Aborts DEF PersistModifyFails, MidLabels, LowlevelLabels
<1>4. ASSUME NEW c \in Clients, CancelContext(c) PROVE Inductive'
  BY Zenon, <1>4, ControlStays DEF CancelContext
<1>5. ASSUME NEW p \in Paths, NEW v \in Values \cup {NoValue}, DeviceChanges(p, v) PROVE Inductive'
  BY Zenon, <1>5, ControlStays DEF DeviceChanges
<1> QED BY Zenon, <1>1, <1>2, <1>3, <1>4, <1>5, SyncSteps, Restarts DEF Failures, Crash, Panic

\* Every step preserves the inductive invariant.
LEMMA Stepwise == Inductive /\ [Next]_vars => Inductive'
<1>1. ASSUME Inductive, Next PROVE Inductive'
  BY Zenon, <1>1, CallSteps, ClientSteps, LowlevelSteps, TimerSteps, SyncSteps, FailureSteps DEF Next
<1>2. ASSUME Inductive, UNCHANGED vars PROVE Inductive'
  BY Zenon, <1>2, ControlStays DEF vars, locks, manager, locals
<1> QED BY Zenon, <1>1, <1>2

\* The inductive invariant holds in every reachable state, for any number of clients, syncs and
\* transactions, any requests and any number of faults, crashes and changes of the device.
THEOREM Invariance == Spec => []Inductive
BY Initially, Stepwise, PTL DEF Spec

\* Locks, manager, timers and program counters have their types, and what the place of a handler
\* or timer says about dmutex, tmMutex, the registered transaction and the timer's channel always
\* holds.
THEOREM Discipline == Spec => []LockDiscipline
<1>1. Inductive => LockDiscipline
  BY Zenon DEF Inductive, LockDiscipline
<1> QED BY Invariance, <1>1, PTL

\* Two processes inside a transaction would both hold dmutex, both hold tmMutex, or be a client
\* and the timer of the transaction registered for that client.
LEMMA ExclusionFromInductive == Inductive => TransactionExclusion
<1> SUFFICES ASSUME Inductive, NEW p \in Clients \cup TxIds, NEW q \in Clients \cup TxIds,
                    InTransaction(p), InTransaction(q)
             PROVE  p = q
  BY Zenon DEF TransactionExclusion
<1> USE Constants DEF Inductive, ControlInv, InTransaction
<1>1. CASE p \in Clients /\ q \in Clients
  BY <1>1 DEF ClientInv, LowlevelLabels
<1>2. CASE p \in TxIds /\ q \in TxIds
  BY Zenon, <1>2 DEF TimerInv, LowlevelLabels, ControlOK, TimerLabels
<1>3. ASSUME NEW c \in Clients, NEW t \in TxIds, InTransaction(c), InTransaction(t) PROVE FALSE
  <2>1. pc[t] \in LowlevelLabels BY Zenon, <1>3 DEF ControlOK, TimerLabels
  <2>2. transaction = t /\ tmMutex = t BY Zenon, <2>1 DEF TimerInv
  <2>3. op[c] \in {"set", "cancel"} BY Zenon, <1>3 DEF ClientInv, ClientLabels, LowlevelLabels
  <2>4. CASE op[c] = "set"
    <3>1. transaction = arg[c] /\ pc[arg[c]] = "none" BY Zenon, <1>3, <2>4 DEF ClientInv, LowlevelLabels
    <3> QED BY Zenon, <3>1, <2>1, <2>2 DEF LowlevelLabels
  <2>5. CASE op[c] = "cancel"
    <3>1. pc[c] \in LowlevelLabels BY Zenon, <2>5, <1>3 DEF ClientInv, ClientLabels, LowlevelLabels
    <3>2. tmMutex = c BY Zenon, <3>1, <2>5 DEF ClientInv
    <3> QED BY Zenon, <3>2, <2>2
  <2> QED BY Zenon, <2>3, <2>4, <2>5
<1> QED BY Zenon, <1>1, <1>2, <1>3

\* At most one TransactionSet, TransactionCancel or automatic rollback works on the tree, the
\* device and the cache at any time.
THEOREM Exclusion == Spec => []TransactionExclusion
BY Invariance, ExclusionFromInductive, PTL

\* A client in the cleanup has dmutex and its transaction registered without a timer.
LEMMA CleanupFromInductive == Inductive => CleanupIsAlone
<1> SUFFICES ASSUME Inductive, NEW c \in Clients, pc[c] = "cleanup", ~req[c].dryRun
             PROVE  /\ tmMutex = Free
                    /\ transaction = arg[c]
                    /\ \A q \in (Clients \cup TxIds) \ {c} :
                         pc[q] \notin {"register", "confirm", "cancel", "rollback"}
  BY Zenon DEF CleanupIsAlone
<1> USE Constants DEF Inductive, ControlInv
<1>1. /\ op[c] = "set" /\ dmutex = c /\ transaction = arg[c]
      /\ arg[c] \in TxIds /\ pc[arg[c]] = "none"
  BY Zenon DEF ClientInv, ClientLabels, ControlOK
<1>2. ASSUME NEW d \in Clients \ {c} PROVE pc[d] = "idle" \/ (op[d] = "set" /\ pc[d] \in DryLabels)
  BY Zenon, <1>1 DEF ClientInv
<1>3. ASSUME NEW t \in TxIds PROVE pc[t] \notin {"rollback"} \cup LowlevelLabels
  BY Zenon, <1>1, <1>3 DEF TimerInv, LowlevelLabels
<1>4. tmMutex = Free
  <2>1. tmMutex \in Clients => tmMutex # c /\ op[tmMutex] = "cancel" /\ pc[tmMutex] \in LowlevelLabels
    BY Zenon, <1>1 DEF LockInv, LowlevelLabels
  <2>2. tmMutex \notin Clients
    BY Zenon, <1>2, <2>1 DEF LowlevelLabels
  <2>3. tmMutex \notin TxIds
    BY Zenon, <1>3 DEF LockInv
  <2> QED BY Zenon, <2>2, <2>3 DEF ControlOK
<1>5. ASSUME NEW q \in (Clients \cup TxIds) \ {c}
      PROVE  pc[q] \notin {"register", "confirm", "cancel", "rollback"}
  <2>1. CASE q \in Clients
    BY Zenon, <1>2, <2>1 DEF DryLabels
  <2>2. CASE q \in TxIds
    BY Zenon, <1>3, <2>2 DEF ControlOK, TimerLabels, LowlevelLabels
  <2> QED BY Zenon, <2>1, <2>2
<1> QED BY Zenon, <1>1, <1>4, <1>5

\* TransactionGuard.Done() changes the manager without tmMutex while nobody else is inside it.
THEOREM CleanupAlone == Spec => []CleanupIsAlone
BY Invariance, CleanupFromInductive, PTL

\* Whoever is about to call Set for a real transaction or a revert holds dmutex.
LEMMA DmutexFromInductive == Inductive => DmutexSerializes
<1> SUFFICES ASSUME Inductive, NEW p \in Clients \cup Syncs, NEW q \in Clients \cup Syncs,
                    InSet(p), InSet(q), ~req[p].dryRun, ~req[q].dryRun
             PROVE  p = q
  BY Zenon DEF DmutexSerializes
<1>1. ASSUME NEW r \in Clients \cup Syncs, InSet(r), ~req[r].dryRun PROVE dmutex = r
  <2>1. CASE r \in Clients
    BY Zenon, <1>1, <2>1 DEF Inductive, ControlInv, ClientInv, InSet
  <2>2. CASE r \in Syncs
    BY Zenon, <1>1, <2>2 DEF Inductive, ControlInv, LockInv, InSet, ControlOK, SyncLabels
  <2> QED BY Zenon, <2>1, <2>2
<1> QED BY Zenon, <1>1

\* Of clients and syncs at most one is about to call the target's Set.
THEOREM DmutexExclusion == Spec => []DmutexSerializes
BY Invariance, DmutexFromInductive, PTL

\* Where a process still has intents to store.
Storing == {"apply", "persist"}

\* What a process has left to store is named by its request.
TodoInv ==
  /\ todo = [p \in Procs |-> todo[p]]
  /\ \A p \in Clients \cup TxIds : pc[p] \in Storing => todo[p] \subseteq Named(req[p])

\* p goes where nothing is left to store; only its own request and list change.
LEMMA NotStoring ==
  ASSUME Inductive, TodoInv, NEW p \in Procs, NEW label, label \notin Storing,
         pc' = [pc EXCEPT ![p] = label],
         req' = req \/ \E r : req' = [req EXCEPT ![p] = r],
         todo' = todo \/ \E S : todo' = [todo EXCEPT ![p] = S]
  PROVE  TodoInv'
<1> USE DEF Inductive
<1>1. pc \in [Procs -> ClientLabels \cup LowlevelLabels \cup TimerLabels \cup SyncLabels]
  BY Zenon DEF ControlOK
<1>2. ASSUME NEW q \in Procs \ {p} PROVE pc'[q] = pc[q] /\ req'[q] = req[q] /\ todo'[q] = todo[q]
  <2>1. pc'[q] = pc[q] BY Zenon, <1>1
  <2>2. req'[q] = req[q] BY Zenon
  <2>3. todo'[q] = todo[q] BY Zenon DEF TodoInv
  <2> QED BY Zenon, <2>1, <2>2, <2>3
<1>3. pc'[p] = label
  BY Zenon, <1>1
<1>4. (todo = [q \in Procs |-> todo[q]])'
  BY Zenon DEF TodoInv
<1>5. ASSUME NEW q \in Clients \cup TxIds, pc'[q] \in Storing PROVE todo'[q] \subseteq Named(req'[q])
  <2>1. q # p BY Zenon, <1>3, <1>5
  <2> QED BY Zenon, <1>2, <1>5, <2>1 DEF TodoInv, Procs
<1> QED BY Zenon, <1>4, <1>5 DEF TodoInv, Named

\* p stores what its request names, or less than what was left.
LEMMA KeepsStoring ==
  ASSUME Inductive, TodoInv, NEW p \in Clients \cup TxIds, NEW label, NEW S,
         pc' = [pc EXCEPT ![p] = label],
         req' = req,
         todo' = [todo EXCEPT ![p] = S],
         S \subseteq Named(req[p])
  PROVE  TodoInv'
<1>1. pc \in [Procs -> ClientLabels \cup LowlevelLabels \cup TimerLabels \cup SyncLabels]
  BY Zenon DEF Inductive, ControlOK
<1>2. (todo = [q \in Procs |-> todo[q]])'
  BY Zenon DEF TodoInv
<1>3. ASSUME NEW q \in Clients \cup TxIds, pc'[q] \in Storing PROVE todo'[q] \subseteq Named(req[q])
  <2>1. CASE q = p
    BY Zenon, <2>1 DEF TodoInv, Procs
  <2>2. CASE q # p
    BY Zenon, <1>1, <1>3, <2>2 DEF TodoInv, Procs
  <2> QED BY Zenon, <2>1, <2>2
<1> QED BY Zenon, <1>2, <1>3 DEF TodoInv, Named

\* Every step preserves TodoInv.
LEMMA TodoStep == Inductive /\ TodoInv /\ [Next]_vars => TodoInv'
<1> SUFFICES ASSUME Inductive, TodoInv, [Next]_vars PROVE TodoInv'
  BY Zenon
<1> USE DEF GoTo, locals, Storing, Procs
<1>1. ASSUME NEW c \in Clients, Calls(c) PROVE TodoInv'
  <2>1. ASSUME NEW t \in TxIds, NEW r \in Requests, TransactionSet(c, t, r) PROVE TodoInv'
    <3>1. (IF r.dryRun THEN "replace" ELSE "register") \notin Storing
      BY Zenon
    <3> QED BY Zenon, <2>1, <3>1, NotStoring DEF TransactionSet
  <2>2. ASSUME NEW t \in TxIds, Call(c, "confirm", t) \/ Call(c, "cancel", t) PROVE TodoInv'
    BY Zenon, <2>2, NotStoring DEF Call
  <2> QED BY Zenon, <1>1, <2>1, <2>2 DEF Calls, TransactionConfirm, TransactionCancel
<1>2. ASSUME NEW c \in Clients, Return(c) PROVE TodoInv'
  BY Zenon, <1>2, NotStoring DEF Return, Clear
<1>3. ASSUME NEW t \in TxIds, RollbackEnds(t) PROVE TodoInv'
  BY Zenon, <1>3, NotStoring DEF RollbackEnds, Clear
<1>4. ASSUME NEW p \in Clients \cup TxIds, Abort(p) PROVE TodoInv'
  <2>1. CASE GoTo(p, "cleanup") /\ UNCHANGED locals
    BY Zenon, <2>1, NotStoring
  <2> QED BY Zenon, <1>2, <1>3, <1>4, <2>1 DEF Abort
<1>5. ASSUME NEW c \in Clients, ClientStep(c) PROVE TodoInv'
  <2>1. CASE Return(c)
    BY Zenon, <1>2, <2>1
  <2>2. CASE Abort(c)
    BY Zenon, <1>4, <2>2
  <2>3. CASE Cancel(c)
    BY Zenon, <2>3, NotStoring DEF Cancel
  <2>4. CASE \E label \in {"replace", "copy", "replaceApply", "replaceWriteBack", "replaceStore"} :
               GoTo(c, label) /\ UNCHANGED locals
    BY Zenon, <2>4, NotStoring
  <2> QED
    BY Zenon, <1>5, <2>1, <2>2, <2>3, <2>4
    DEF ClientStep, RegisterTransaction, RegisterContextDone, NoOp, SkipReplace, ReplaceIntent,
        ReplaceApply, ReplaceWriteBack, ReplaceStore, Cleanup, Finish, NoOngoingTransaction, Confirm
<1>6. ASSUME NEW p \in Clients \cup TxIds, LowlevelStep(p) PROVE TodoInv'
  <2>1. CASE CopySyncTree(p)
    BY Zenon, <2>1, NotStoring DEF CopySyncTree
  <2>2. CASE LoadAllButRunningIntents(p)
    BY Zenon, <2>2, NotStoring DEF LoadAllButRunningIntents
  <2>3. CASE MergeAndValidate(p)
    <3>1. CASE req[p].dryRun
      BY Zenon, <1>2, <2>3, <3>1 DEF MergeAndValidate
    <3>2. CASE ~req[p].dryRun
      BY Zenon, <2>3, <3>2, KeepsStoring DEF MergeAndValidate
    <3> QED BY Zenon, <3>1, <3>2
  <2>4. CASE MergeInvalid(p)
    BY Zenon, <1>4, <2>4 DEF MergeInvalid
  <2>5. CASE ApplyIntent(p)
    <3>1. pc[p] = "apply" /\ todo[p] \subseteq Named(req[p])
      BY Zenon, <2>5 DEF ApplyIntent, TodoInv
    <3>2. todo' = [todo EXCEPT ![p] = todo[p]]
      BY Zenon, <2>5 DEF ApplyIntent, TodoInv
    <3> QED BY Zenon, <2>5, <3>1, <3>2, KeepsStoring DEF ApplyIntent
  <2>6. ASSUME NEW i \in Intents, PersistIntent(p, i) PROVE TodoInv'
    <3>1. pc[p] = "persist" /\ todo[p] \ {i} \subseteq Named(req[p])
      BY Zenon, <2>6 DEF PersistIntent, TodoInv
    <3>2. pc' = [pc EXCEPT ![p] = pc[p]]
      BY Zenon, <2>6 DEF PersistIntent, Inductive, ControlOK
    <3>3. todo' = [todo EXCEPT ![p] = todo[p] \ {i}]
      BY Zenon, <2>6 DEF PersistIntent
    <3> QED BY Zenon, <2>6, <3>1, <3>2, <3>3, KeepsStoring DEF PersistIntent
  <2>7. CASE WriteBackSyncTree(p)
    BY ZenonT(30), <2>7, NotStoring DEF WriteBackSyncTree
  <2>8. CASE StoreAndFinish(p)
    <3>1. CASE /\ p \in Clients /\ op[p] = "set"
               /\ pc' = [pc EXCEPT ![p] = "finish", ![arg[p]] = "select"]
               /\ UNCHANGED locals
      <4>1. /\ arg[p] \in TxIds
            /\ pc \in [Procs -> ClientLabels \cup LowlevelLabels \cup TimerLabels \cup SyncLabels]
        BY Zenon, <3>1 DEF Inductive, ControlOK, ControlInv, ClientInv
      <4>2. ASSUME NEW q \in Clients \cup TxIds, pc'[q] \in Storing PROVE pc[q] \in Storing
        BY Zenon, <3>1, <4>1, <4>2
      <4> QED BY ZenonT(30), <3>1, <4>2 DEF TodoInv, Named
    <3> QED BY Zenon, <1>2, <1>3, <2>8, <3>1 DEF StoreAndFinish
  <2> QED BY Zenon, <1>6, <2>1, <2>2, <2>3, <2>4, <2>5, <2>6, <2>7, <2>8 DEF LowlevelStep
<1>7. ASSUME NEW t \in TxIds, TimerStep(t) PROVE TodoInv'
  BY ZenonT(30), <1>7, NotStoring DEF TimerStep, TimerFires, TimerStopped, TimerRollback, RollbackLock
<1>8. ASSUME NEW s \in Syncs, SyncStep(s) \/ SyncFails(s) PROVE TodoInv'
  <2>1. CASE SyncReturns(s)
    BY Zenon, <2>1, NotStoring DEF SyncReturns, Clear
  <2>2. CASE SyncGet(s)
    <3>1. (IF EmptyGetAborts /\ device = EmptyConfig THEN "idle" ELSE "got") \notin Storing
      BY Zenon
    <3> QED BY Zenon, <2>2, <3>1, NotStoring DEF SyncGet
  <2>3. CASE \E label \in {"revertLoad", "decide", "revert"} : GoTo(s, label) /\ UNCHANGED <<req, todo>>
    BY Zenon, <2>3, NotStoring
  <2> QED
    BY Zenon, <1>8, <2>1, <2>2, <2>3
    DEF SyncStep, ApplyToRunning, RevertLoad, RevertSkip, RevertLock, RevertApply, SyncFails
<1>9. CASE Restart
  <2>1. /\ todo' = [p \in Procs |-> {}]
        /\ pc' = [p \in Procs |-> IF p \in used THEN "exited" ELSE IF p \in TxIds THEN "none" ELSE "idle"]
    BY Zenon, <1>9 DEF Restart
  <2> QED BY Zenon, <2>1 DEF TodoInv
<1>10. CASE UNCHANGED <<pc, req, todo>>
  BY Zenon, <1>10 DEF TodoInv, Named
<1>11. CASE Failures
  <2>1. ASSUME NEW p \in Clients \cup TxIds, NEW i \in Intents, PersistDeleteFails(p, i) PROVE TodoInv'
    <3>1. pc[p] = "persist" /\ todo[p] \ {i} \subseteq Named(req[p])
      BY Zenon, <2>1 DEF PersistDeleteFails, TodoInv
    <3>2. pc' = [pc EXCEPT ![p] = pc[p]]
      BY Zenon, <2>1 DEF PersistDeleteFails, Inductive, ControlOK
    <3>3. todo' = [todo EXCEPT ![p] = todo[p] \ {i}]
      BY Zenon, <2>1 DEF PersistDeleteFails
    <3> QED BY Zenon, <2>1, <3>1, <3>2, <3>3, KeepsStoring DEF PersistDeleteFails
  <2>2. CASE \E c \in Clients : CancelContext(c)
    BY Zenon, <1>10, <2>2 DEF CancelContext
  <2>3. CASE \E p \in Paths, v \in Values \cup {NoValue} : DeviceChanges(p, v)
    BY Zenon, <1>10, <2>3 DEF DeviceChanges
  <2> QED
    BY Zenon, <1>4, <1>8, <1>9, <1>11, <2>1, <2>2, <2>3
    DEF Failures, CallFails, PersistModifyFails, Crash, Panic
<1>12. CASE UNCHANGED vars
  BY Zenon, <1>10, <1>12 DEF vars
<1> QED BY Zenon, <1>1, <1>5, <1>6, <1>7, <1>8, <1>11, <1>12 DEF Next

\* The intents of the cache change only in PersistIntent.
LEMMA OnlyPersistStores ==
  ASSUME [Next]_vars
  PROVE  intents' = intents \/ \E p \in Clients \cup TxIds, i \in Intents : PersistIntent(p, i)
<1> USE DEF stores, cache
<1>1. ASSUME NEW c \in Clients, Calls(c) \/ ClientStep(c) PROVE intents' = intents
  BY Zenon, <1>1
  DEF Calls, TransactionSet, TransactionConfirm, TransactionCancel, Call, ClientStep,
      RegisterTransaction, RegisterContextDone, NoOp, SkipReplace, ReplaceIntent, ReplaceApply,
      ReplaceWriteBack, ReplaceStore, StoreRunning, Cleanup, Finish, NoOngoingTransaction, Confirm, Cancel
<1>2. ASSUME NEW p \in Clients \cup TxIds, LowlevelStep(p)
      PROVE  intents' = intents \/ \E i \in Intents : PersistIntent(p, i)
  BY Zenon, <1>2
  DEF LowlevelStep, CopySyncTree, LoadAllButRunningIntents, MergeAndValidate, MergeInvalid,
      ApplyIntent, WriteBackSyncTree, StoreAndFinish, StoreRunning
<1>3. ASSUME NEW t \in TxIds, TimerStep(t) PROVE intents' = intents
  BY Zenon, <1>3 DEF TimerStep, TimerFires, TimerStopped, TimerRollback, RollbackLock
<1>4. ASSUME NEW s \in Syncs, SyncStep(s) \/ SyncFails(s) PROVE intents' = intents
  BY Zenon, <1>4
  DEF SyncStep, SyncGet, ApplyToRunning, RevertLoad, RevertSkip, RevertLock, RevertApply, SyncFails
<1>5. CASE Failures
  BY Zenon, <1>4, <1>5
  DEF Failures, CallFails, PersistDeleteFails, PersistModifyFails, CancelContext, DeviceChanges,
      Crash, Panic, Restart
<1>6. CASE UNCHANGED vars
  BY Zenon, <1>6 DEF vars
<1> QED BY Zenon, <1>1, <1>2, <1>3, <1>4, <1>5, <1>6 DEF Next

\* An intent that changes is stored by a process whose transaction is registered and names it.
LEMMA StoreStep ==
  ASSUME Inductive, TodoInv, [Next]_vars, NEW i \in Intents, intents'[i] # intents[i]
  PROVE  /\ transaction # NoTx
         /\ \E p \in Clients \cup TxIds : pc[p] = "persist" /\ i \in Named(req[p])
<1>1. PICK p \in Clients \cup TxIds, j \in Intents : PersistIntent(p, j)
  BY Zenon, OnlyPersistStores
<1>2. pc[p] = "persist" /\ j \in todo[p] /\ intents' = [intents EXCEPT ![j] = Exported(req[p].new[j])]
  BY Zenon, <1>1 DEF PersistIntent, Stored
<1>3. i = j
  BY <1>2
<1>4. i \in Named(req[p])
  BY Zenon, <1>2, <1>3 DEF TodoInv, Storing
<1>5. transaction # NoTx
  <2>1. CASE p \in Clients
    <3>1. op[p] \in {"set", "cancel"} /\ ~req[p].dryRun /\ ClientInv(p)
      BY Zenon, <1>2, <2>1 DEF Inductive, ControlInv, ClientInv, LowlevelLabels, DryLabels
    <3>2. op[p] = "set" => arg[p] \in TxIds
      BY Zenon, <2>1, <3>1 DEF Inductive, ControlOK, ClientInv
    <3> QED BY ZenonT(30), <1>2, <3>1, <3>2, Constants DEF ClientInv, LowlevelLabels
  <2>2. CASE p \in TxIds
    BY Zenon, <1>2, <2>2, Constants DEF Inductive, ControlInv, TimerInv, LowlevelLabels
  <2> QED BY Zenon, <2>1, <2>2
<1> QED BY Zenon, <1>2, <1>4, <1>5

\* The cache's intents change only inside a registered transaction that names them: no sync,
\* confirm, crash or failure path writes an intent.
THEOREM StoreChanges == Spec => StoreChangesOnlyInTransaction
<1>1. Init => TodoInv
  BY Zenon, Constants DEF Init, TodoInv, Storing, Procs
<1>2. Spec => [](Inductive /\ TodoInv)
  BY <1>1, Initially, Stepwise, TodoStep, PTL DEF Spec
<1>3. Inductive /\ TodoInv /\ [Next]_vars =>
        [\A i \in Intents : intents'[i] # intents[i] =>
           /\ transaction # NoTx
           /\ \E p \in Clients \cup TxIds : pc[p] = "persist" /\ i \in Named(req[p])]_vars
  BY Zenon, StoreStep
<1> QED BY <1>2, <1>3, PTL DEF Spec, StoreChangesOnlyInTransaction
=============================================================================
