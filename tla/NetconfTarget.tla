---------------------------- MODULE NetconfTarget ----------------------------
(***************************************************************************)
(* The NETCONF target: Set and the two goroutines of its sync share one    *)
(* driver.  A transport error closes the driver the target has at that     *)
(* time and starts a goroutine that replaces it.                           *)
(*                                                                         *)
(* Sets are numbered in the order they begin.  They come from callers that *)
(* do not exclude each other: a transaction or a revert holds dmutex, the  *)
(* rollback of a timer holds tmMutex only.  A configuration, on the device *)
(* or in the datastore, is the set of the Sets it contains.  The device    *)
(* keeps one candidate for all its sessions; nobody locks it.              *)
(***************************************************************************)
EXTENDS Naturals, FiniteSets

CONSTANTS Callers,   \* who may be in Set at a time: one per lock that is held around it
          MaxSets,   \* bound on the calls of Set
          MaxDrops,  \* bound on the failures of the transport
          Modes,     \* the values of commit-datastore to consider
          Faults     \* what goes wrong in a behaviour: a subset of
                     \* {"none", "restart", "refuse", "stop"}

ASSUME BoundsAssumption == MaxSets \in Nat /\ MaxDrops \in Nat

VARIABLES mode,      \* NetconfOptions.CommitDatastore
          driver,    \* t.driver: "up", "broken" (transport gone, not closed), "closed" or "nil"
          leaked,    \* a driver was replaced that was not closed
          waiting,   \* reconnect goroutines in front of t.m
          opening,   \* a reconnect goroutine holds t.m and is in its loop
          calls,     \* how many Sets have begun
          set,       \* per caller: the number of its Set and where it is
          result,    \* what the Sets returned
          overlap,   \* history: the Sets that were in progress at the same time as a Set
          devRunning, candidate, \* the device
          get,       \* internalSync per goroutine of the sync: where it is and what it got
          running,   \* the running configuration of the datastore
          drops, stopped, panicked, fault

connection == <<driver, leaked, waiting, opening>>
device == <<devRunning, candidate>>
syncing == <<get, running>>
environment == <<mode, fault>>
calling == <<calls, set, result, overlap>>
vars == <<connection, calling, device, syncing, drops, stopped, panicked, environment>>

Sets == 1..MaxSets
Gets == {"initial", "ticker"}
Results == {"none", "ok", "notConnected", "editError", "discardError", "commitError", "transport"}

TypeOK ==
  /\ mode \in Modes /\ fault \in Faults
  /\ driver \in {"up", "broken", "closed", "nil"}
  /\ waiting \in Nat
  /\ leaked \in BOOLEAN /\ opening \in BOOLEAN /\ stopped \in BOOLEAN /\ panicked \in BOOLEAN
  /\ calls \in 0..MaxSets
  /\ set \in [Callers -> [pc : {"idle", "edit", "discard", "commit", "close"}, id : 0..MaxSets]]
  /\ result \in [Sets -> Results]
  /\ overlap \in [Sets -> SUBSET Sets]
  /\ devRunning \subseteq Sets /\ candidate \subseteq Sets /\ running \subseteq Sets
  /\ get \in [Gets -> [pc : {"check", "call", "close", "apply", "done"}, got : SUBSET Sets]]
  /\ drops \in 0..MaxDrops

Init ==
  /\ mode \in Modes /\ fault \in Faults
  /\ driver = "up" /\ leaked = FALSE /\ waiting = 0 /\ opening = FALSE
  /\ calls = 0
  /\ set = [c \in Callers |-> [pc |-> "idle", id |-> 0]]
  /\ result = [k \in Sets |-> "none"]
  /\ overlap = [k \in Sets |-> {}]
  /\ devRunning = {} /\ candidate = {} /\ running = {}
  /\ get = [g \in Gets |-> [pc |-> "check", got |-> {}]]
  /\ drops = 0 /\ stopped = FALSE /\ panicked = FALSE

Alive == ~panicked

\* Status: only Close makes IsAlive false, and a driver that could not be created.
Connected == driver \in {"up", "broken"}

\* A call through the nil driver a failed reconnect leaves behind.
NilDriver ==
  /\ driver = "nil"
  /\ panicked' = TRUE

-----------------------------------------------------------------------------
(* The transport and the device (external). *)

\* The session is gone; a device that restarts also forgets its candidate.
Drop ==
  /\ Alive
  /\ fault # "none" /\ drops < MaxDrops
  /\ drops' = drops + 1
  /\ driver = "up" /\ driver' = "broken"
  /\ candidate' = IF fault = "restart" THEN devRunning ELSE candidate
  /\ UNCHANGED <<leaked, waiting, opening, calling, devRunning, syncing, stopped, panicked,
                 environment>>

\* A call the device executed may lose its answer with the session.
Answered ==
  /\ driver = "up"
  /\ UNCHANGED <<driver, drops>>

AnswerLost ==
  /\ fault # "none" /\ drops < MaxDrops
  /\ drops' = drops + 1
  /\ driver = "up" /\ driver' = "broken"

NoAnswer ==
  /\ driver \in {"broken", "closed"}
  /\ UNCHANGED <<driver, drops>>

-----------------------------------------------------------------------------
(* Set and setToDevice *)

Return(c, r) ==
  /\ result' = [result EXCEPT ![set[c].id] = r]
  /\ set' = [set EXCEPT ![c].pc = "idle"]
  /\ UNCHANGED <<calls, overlap>>

SetGoto(c, pc) ==
  /\ set' = [set EXCEPT ![c].pc = pc]
  /\ UNCHANGED <<calls, result, overlap>>

\* The Sets in progress.
InProgress == {set[c].id : c \in {d \in Callers : set[d].pc # "idle"}}

\* Set fails at once without a connection.
SetBegin(c) ==
  /\ Alive
  /\ set[c].pc = "idle" /\ calls < MaxSets
  /\ calls' = calls + 1
  /\ \/ /\ Connected
        /\ set' = [set EXCEPT ![c] = [pc |-> "edit", id |-> calls + 1]]
        /\ overlap' = [k \in Sets |-> IF k = calls + 1 THEN InProgress
                                     ELSE IF k \in InProgress THEN overlap[k] \cup {calls + 1}
                                     ELSE overlap[k]]
        /\ UNCHANGED result
     \/ /\ ~Connected
        /\ result' = [result EXCEPT ![calls + 1] = "notConnected"]
        /\ UNCHANGED <<set, overlap>>
  /\ UNCHANGED <<connection, device, syncing, drops, stopped, panicked, environment>>

\* The datastore the edit goes to.
Edited == IF mode = "candidate" THEN candidate ELSE devRunning

Edit(config) ==
  IF mode = "candidate" THEN candidate' = config /\ UNCHANGED devRunning
                        ELSE devRunning' = config /\ UNCHANGED candidate

\* Mutant of EditRefused: the error is returned without discarding the candidate.
EditRefused_NoDiscard(c) == Return(c, "editError")

EditRefused(c) == IF mode = "candidate" THEN SetGoto(c, "discard") ELSE Return(c, "editError")

\* EditConfig.  A refused edit may have changed a part of the configuration.
SetEdit(c) ==
  /\ Alive
  /\ set[c].pc = "edit"
  /\ \/ /\ Answered
        /\ Edit(Edited \cup {set[c].id})
        /\ IF mode = "candidate" THEN SetGoto(c, "commit") ELSE Return(c, "ok")
        /\ UNCHANGED panicked
     \/ /\ Answered
        /\ Edit(Edited) \/ Edit(Edited \cup {set[c].id})
        /\ EditRefused(c)
        /\ UNCHANGED panicked
     \/ /\ AnswerLost
        /\ Edit(Edited \cup {set[c].id})
        /\ SetGoto(c, "close")
        /\ UNCHANGED panicked
     \/ /\ NoAnswer
        /\ SetGoto(c, "close")
        /\ UNCHANGED <<device, panicked>>
     \/ /\ NilDriver
        /\ UNCHANGED <<driver, drops, device, calling>>
  /\ UNCHANGED <<leaked, waiting, opening, syncing, stopped, environment>>

\* Discard, whose error is only logged.
SetDiscard(c) ==
  /\ Alive
  /\ set[c].pc = "discard"
  /\ \/ /\ Answered
        /\ candidate' = devRunning
        /\ Return(c, "editError")
        /\ UNCHANGED panicked
     \/ /\ Answered \/ NoAnswer
        /\ Return(c, "discardError")
        /\ UNCHANGED <<candidate, panicked>>
     \/ /\ NilDriver
        /\ UNCHANGED <<driver, drops, candidate, calling>>
  /\ UNCHANGED <<leaked, waiting, opening, devRunning, syncing, stopped, environment>>

\* Mutant of Committed: the commit is confirmed later.
Committed_Later == UNCHANGED devRunning

Committed == devRunning' = candidate

\* Commit, on the driver the target has by now.  When the device refuses, the candidate stays.
SetCommit(c) ==
  /\ Alive
  /\ set[c].pc = "commit"
  /\ \/ /\ Answered
        /\ \/ Committed /\ Return(c, "ok")
           \/ Return(c, "commitError") /\ UNCHANGED devRunning
        /\ UNCHANGED panicked
     \/ /\ AnswerLost
        /\ Committed
        /\ SetGoto(c, "close")
        /\ UNCHANGED panicked
     \/ /\ NoAnswer
        /\ SetGoto(c, "close")
        /\ UNCHANGED <<devRunning, panicked>>
     \/ /\ NilDriver
        /\ UNCHANGED <<driver, drops, devRunning, calling>>
  /\ UNCHANGED <<leaked, waiting, opening, candidate, syncing, stopped, environment>>

-----------------------------------------------------------------------------
(* handleTransportError and reconnect *)

Close == driver' = IF driver = "nil" THEN "nil" ELSE "closed"

\* Mutant of HandleTransportError: the next call is left to reconnect.
HandleTransportError_CloseOnly ==
  /\ Close
  /\ UNCHANGED <<waiting, leaked, opening>>

\* Close is called on the driver of the moment, which may be a new one.
HandleTransportError ==
  /\ Close
  /\ waiting' = waiting + 1
  /\ UNCHANGED <<leaked, opening>>

SetClose(c) ==
  /\ Alive
  /\ set[c].pc = "close"
  /\ HandleTransportError
  /\ Return(c, "transport")
  /\ UNCHANGED <<device, syncing, drops, stopped, panicked, environment>>

ReconnectNeeded == ~Connected

\* The mutex is free: whoever finds the target connected returns.
ReconnectLock ==
  /\ Alive
  /\ waiting > 0 /\ ~opening
  /\ waiting' = waiting - 1
  /\ opening' = ReconnectNeeded
  /\ UNCHANGED <<driver, leaked, calling, device, syncing, drops, stopped, panicked,
                 environment>>

\* The constructor's result is assigned to t.driver; the driver before is dropped.
NewDriver(d) ==
  /\ driver' = d
  /\ leaked' = (leaked \/ Connected)

\* Opened whatever has become of the context.
ReconnectOpen ==
  /\ Alive
  /\ opening
  /\ NewDriver("up")
  /\ opening' = FALSE
  /\ UNCHANGED <<waiting, calling, device, syncing, drops, stopped, panicked, environment>>

\* Mutant of ReconnectAgain: reconnect returns when the device cannot be reached.
ReconnectAgain_Not == opening' = FALSE

ReconnectAgain == UNCHANGED opening

\* A failed constructor returns nil, which is assigned all the same.
ReconnectFails ==
  /\ Alive
  /\ opening /\ fault = "refuse"
  /\ NewDriver("nil")
  /\ ReconnectAgain
  /\ UNCHANGED <<waiting, calling, device, syncing, drops, stopped, panicked, environment>>

-----------------------------------------------------------------------------
(* NetconfSyncImpl: one goroutine syncs at once, the other on every tick. *)

GetGoto(g, pc) == get' = [get EXCEPT ![g].pc = pc]

Over(g) == IF g = "initial" THEN "done" ELSE "check"

GetBegin(g) ==
  /\ Alive
  /\ get[g].pc = "check"
  /\ GetGoto(g, IF Connected THEN "call" ELSE Over(g))
  /\ UNCHANGED <<connection, calling, device, running, drops, stopped, panicked,
                 environment>>

\* The loop looks at the context between two syncs only, and may still take a tick first.
GetEnd ==
  /\ Alive
  /\ stopped /\ get["ticker"].pc = "check"
  /\ GetGoto("ticker", "done")
  /\ UNCHANGED <<connection, calling, device, running, drops, stopped, panicked,
                 environment>>

GetConfig(g) == get' = [get EXCEPT ![g] = [pc |-> "apply", got |-> devRunning]]

\* internalGet; a device may also answer with an error.
GetCall(g) ==
  /\ Alive
  /\ get[g].pc = "call"
  /\ \/ /\ Answered
        /\ GetConfig(g)
        /\ UNCHANGED panicked
     \/ /\ Answered
        /\ GetGoto(g, Over(g))
        /\ UNCHANGED panicked
     \/ /\ AnswerLost \/ NoAnswer
        /\ GetGoto(g, "close")
        /\ UNCHANGED panicked
     \/ /\ NilDriver
        /\ UNCHANGED <<driver, drops, get>>
  /\ UNCHANGED <<leaked, waiting, opening, calling, device, running, stopped, environment>>

GetClose(g) ==
  /\ Alive
  /\ get[g].pc = "close"
  /\ HandleTransportError
  /\ GetGoto(g, Over(g))
  /\ UNCHANGED <<calling, device, running, drops, stopped, panicked, environment>>

Apply(got) == running' = got

\* ApplyToRunning deletes the paths of the sync and imports the answer.
GetApply(g) ==
  /\ Alive
  /\ get[g].pc = "apply"
  /\ Apply(get[g].got)
  /\ get' = [get EXCEPT ![g] = [pc |-> Over(g), got |-> {}]]
  /\ UNCHANGED <<connection, calling, device, drops, stopped, panicked, environment>>

\* Somebody else changes the device: a Set is gone from its configuration.
Operator(k) ==
  /\ Alive
  /\ fault = "none" /\ calls = MaxSets /\ InProgress = {}
  /\ k \in devRunning
  /\ devRunning' = devRunning \ {k}
  /\ candidate' = candidate \ {k}
  /\ UNCHANGED <<connection, calling, syncing, drops, stopped, panicked, environment>>

\* Stop of the datastore: the context is cancelled and the target closed.
Stop ==
  /\ Alive
  /\ fault = "stop" /\ ~stopped
  /\ stopped' = TRUE
  /\ Close
  /\ UNCHANGED <<leaked, waiting, opening, calling, device, syncing, drops, panicked,
                 environment>>

-----------------------------------------------------------------------------
Next ==
  \/ Drop \/ Stop
  \/ \E c \in Callers : SetBegin(c) \/ SetEdit(c) \/ SetDiscard(c) \/ SetCommit(c) \/ SetClose(c)
  \/ ReconnectLock \/ ReconnectOpen \/ ReconnectFails
  \/ \E g \in Gets : GetBegin(g) \/ GetCall(g) \/ GetClose(g) \/ GetApply(g)
  \/ GetEnd
  \/ \E k \in Sets : Operator(k)

\* The goroutines go on; the device answers a get in the end (it does not refuse for ever), and
\* a driver can be opened again.
Fairness ==
  /\ \A c \in Callers :
       WF_vars(SetEdit(c)) /\ WF_vars(SetDiscard(c)) /\ WF_vars(SetCommit(c)) /\ WF_vars(SetClose(c))
  /\ WF_vars(ReconnectLock) /\ WF_vars(ReconnectOpen)
  /\ \A g \in Gets :
       /\ WF_vars(GetBegin(g)) /\ WF_vars(GetCall(g)) /\ WF_vars(GetClose(g)) /\ WF_vars(GetApply(g))
       /\ SF_vars(GetCall(g) /\ get'[g].pc = "apply")

Spec == Init /\ [][Next]_vars /\ Fairness

-----------------------------------------------------------------------------
(* Properties *)

\* The commit of Set j has gone out to the device.
Carried(j) ==
  result[j] \in {"ok", "transport"} \/ \E c \in Callers : set[c] = [pc |-> "close", id |-> j]

\* A Set that never got to the device is not in its configuration.  One whose edit was refused
\* and discarded is there only if a Set that overlapped it committed the shared candidate in
\* between; no later commit brings it there.
RefusedStaysOut ==
  mode = "candidate" =>
    \A k \in devRunning : /\ result[k] # "notConnected"
                          /\ result[k] = "editError" => \E j \in overlap[k] : Carried(j)

\* No Set that overlapped k has discarded the candidate.
KeptInCandidate(k) == \A j \in overlap[k] : result[j] # "editError"

\* A Set that returns without an error is on the device then, however often the driver was
\* replaced between its edit and its commit, unless a Set that overlapped it was refused and
\* discarded the candidate they share, or the device restarted in between and forgot it: the
\* commit then commits nothing.
OkMeansCommitted ==
  [][\A k \in Sets : result'[k] = "ok" /\ result[k] # "ok" /\ KeptInCandidate(k) /\ fault # "restart"
                       => k \in devRunning']_vars

\* The same whatever overlaps.
EveryOkIsCommitted ==
  [][\A k \in Sets : result'[k] = "ok" /\ result[k] # "ok" => k \in devRunning']_vars

\* No driver is replaced without being closed: reconnect goroutines do not undo each other.
NoDriverLeaks == ~leaked

\* A closed driver does not stay: a reconnect goroutine is on its way.
ClosedMeansReconnecting ==
  driver \in {"closed", "nil"} => stopped \/ waiting > 0 \/ opening

\* The variables have their types, a driver is only replaced once it is closed, and a closed one
\* is being replaced.
DriverInv ==
  /\ TypeOK
  /\ NoDriverLeaks
  /\ ClosedMeansReconnecting
  /\ opening => ~Connected

\* The comment in setToDevice: "candidate should discard on error".
CandidateIsDiscarded ==
  \A k \in Sets : result[k] = "commitError" /\ calls = k /\ InProgress = {} => k \notin candidate

\* The target is connected again after a lost transport, found out by a Set or by a sync.
Reconnects == (driver # "up") ~> (driver = "up" \/ stopped \/ panicked)

\* Whatever order the two goroutines apply their answers in, the running configuration of the
\* datastore follows the device in the end.
SyncCatchesUp == <>[](running = devRunning) \/ <>(stopped \/ panicked)

\* A lost transport ends neither the connection nor the syncs.
Recovers == Reconnects /\ SyncCatchesUp
=============================================================================
