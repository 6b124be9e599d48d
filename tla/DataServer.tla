----------------------------- MODULE DataServer -----------------------------
(***************************************************************************)
(* The gRPC server around the datastores: start-up, the map of datastores, *)
(* their creation, connection and deletion, and the deviation manager each *)
(* of them runs for the streams that watch it.                             *)
(*                                                                         *)
(* Datastores are numbered as they are created.  Calls that create and     *)
(* delete a name may overlap: the map is looked at under its lock, but     *)
(* what a call does in between and afterwards is not.                      *)
(***************************************************************************)
EXTENDS Naturals, FiniteSets

CONSTANTS Names,        \* names of datastores
          Configured,   \* the names that may be in the configuration file
          Admins,       \* who calls CreateDataStore and DeleteDataStore
          Streams,      \* WatchDeviations streams
          MaxDatastores, \* bound on the datastores created
          Scopes,       \* what takes part in a behaviour: the names of the configuration file, the
                        \* clients, the streams, the number of datastores, TransactionSet calls
          Nobody        \* holds no lock and names no datastore

ASSUME ServerAssumption ==
  /\ Configured \subseteq Names /\ Admins \cap Names = {}
  /\ MaxDatastores \in Nat /\ Nobody \notin Names \cup Admins
  /\ Scopes \subseteq [configured : SUBSET Configured, admins : SUBSET Admins, streams : SUBSET Streams,
                      datastores : 0..MaxDatastores, tx : BOOLEAN]

VARIABLES clients,    \* the clients startDataServer has created
          phase,      \* startDataServer: "clients", "datastores" or "ready" (s.ready)
          crashed,    \* the process has ended
          datastores, \* the map: the datastore of a name, 0 if there is none
          md,         \* the holder of the map's write lock, or Nobody
          ds,         \* ds[i]: name, goroutine, context and connection of datastore i
          created,    \* datastores created
          cache,      \* the names that have a cache instance
          admin,      \* the create or delete call of a caller
          overlapped, \* history: the datastores whose creation overlapped another call of the name
          tx,         \* the datastore a TransactionSet call works on, 0 if there is none
          peer,       \* the peer of a stream
          stream,     \* the WatchDeviations calls
          run,        \* the run of the deviation manager of a datastore
          told,       \* the last event sent to a stream
          scope       \* what takes part in this behaviour

startup  == <<clients, phase, crashed>>
mapVars  == <<datastores, md>>
store    == <<ds, created, cache>>
watching == <<peer, stream, run, told, scope>>
vars == <<startup, mapVars, store, admin, overlapped, tx, watching>>

Datastores == 1..MaxDatastores

\* A goroutine of createInitialDatastores per configured name, and the clients.
Callers == Configured \cup Admins

\* with: the callers whose calls of the name have overlapped this one.
Idle == [pc |-> "idle", name |-> Nobody, i |-> 0, with |-> {}]
NoStream == [pc |-> "idle", i |-> 0]
NoRun == [clients |-> {}, todo |-> {}]

DsType == [name : Names \cup {Nobody}, cancelled : BOOLEAN,
           go : {"none", "connect", "retry", "wait", "start", "calc", "update", "end", "ended"},
           sbi : {"nil", "open", "closed"}]
CallType == [pc : {"idle", "initial", "new", "lock", "add", "cancel", "close", "dlock", "delete"},
             name : Names \cup {Nobody}, i : 0..MaxDatastores, with : SUBSET Callers]
StreamType == [pc : {"idle", "register", "watch", "done", "gone"}, i : 0..MaxDatastores]
RunType == [clients : SUBSET Streams, todo : SUBSET Streams]

TypeOK ==
  /\ clients \subseteq {"schema", "cache"} /\ phase \in {"clients", "datastores", "ready"}
  /\ crashed \in BOOLEAN /\ scope \in Scopes
  /\ datastores \in [Names -> 0..MaxDatastores] /\ md \in Callers \cup {Nobody}
  /\ ds \in [Datastores -> DsType] /\ created \in 0..MaxDatastores /\ cache \subseteq Names
  /\ admin \in [Callers -> CallType] /\ overlapped \subseteq Datastores /\ tx \in 0..MaxDatastores
  /\ stream \in [Streams -> StreamType] /\ run \in [Datastores -> RunType]
  /\ told \in [Streams -> {"none", "START", "UPDATE", "END"}]

Init ==
  /\ clients = {} /\ phase = "clients" /\ crashed = FALSE
  /\ datastores = [n \in Names |-> 0] /\ md = Nobody
  /\ ds = [i \in Datastores |-> [name |-> Nobody, cancelled |-> FALSE, go |-> "none",
                                 sbi |-> "nil"]]
  /\ created = 0 /\ cache = {}
  /\ admin = [c \in Callers |-> Idle] /\ overlapped = {}
  /\ tx = 0
  /\ peer \in {[s \in Streams |-> s], [s \in Streams |-> CHOOSE t \in Streams : TRUE]}
  /\ stream = [s \in Streams |-> NoStream]
  /\ run = [i \in Datastores |-> NoRun]
  /\ told = [s \in Streams |-> "none"]
  /\ scope \in Scopes

Running == ~crashed

-----------------------------------------------------------------------------
(* startDataServer *)

\* A local store parses its schemas first and goes on without those that fail; without a store
\* the process exits.  A remote client is dialled until it works.
CreateSchemaClient ==
  /\ Running
  /\ phase = "clients" /\ "schema" \notin clients
  /\ \/ clients' = clients \cup {"schema"} /\ UNCHANGED crashed
     \/ crashed' = TRUE /\ UNCHANGED clients
  /\ UNCHANGED <<phase, mapVars, store, admin, overlapped, tx, watching>>

CreateCacheClient ==
  /\ Running
  /\ phase = "clients" /\ "cache" \notin clients
  /\ clients' = clients \cup {"cache"}
  /\ UNCHANGED <<phase, crashed, mapVars, store, admin, overlapped, tx, watching>>

ClientsCreated == clients = {"schema", "cache"}

CreateInitialDatastores ==
  /\ Running
  /\ phase = "clients" /\ ClientsCreated
  /\ phase' = "datastores"
  /\ admin' = [c \in Callers |->
                 IF c \in scope.configured
                 THEN [pc |-> "initial", name |-> c, i |-> 0, with |-> {}] ELSE Idle]
  /\ UNCHANGED <<clients, crashed, mapVars, store, overlapped, tx, watching>>

Ready ==
  /\ Running
  /\ phase = "datastores"
  /\ \A c \in Callers : admin[c] = Idle
  /\ phase' = "ready"
  /\ UNCHANGED <<clients, crashed, mapVars, store, admin, overlapped, tx, watching>>

-----------------------------------------------------------------------------
\* readyInterceptor lets a unary call through.
Admitted == phase = "ready"

(* CreateDataStore, and datastore.New as CreateDataStore and createInitialDatastores call it *)

Found(n) == datastores[n] # 0

\* The other calls of the name n that are in progress.
Others(c, n) == {d \in Callers \ {c} : admin[d].pc # "idle" /\ admin[d].name = n}

\* A client calls; the calls of the name in progress overlap from now on.
Begin(c, pc, n, i) ==
  admin' = [d \in Callers |->
              IF d = c THEN [pc |-> pc, name |-> n, i |-> i, with |-> Others(c, n)]
              ELSE IF d \in Others(c, n) THEN [admin[d] EXCEPT !.with = @ \cup {c}]
              ELSE admin[d]]

Goto(c, pc, i) == admin' = [admin EXCEPT ![c] = [pc |-> pc, name |-> @.name, i |-> i, with |-> @.with]]

End(c) == admin' = [admin EXCEPT ![c] = Idle]

\* Calls that will create a datastore.
Creating == {c \in Callers : admin[c].pc \in {"new", "initial"}}

\* GetDataStore takes the read lock, and nothing is held when it has returned.
CreateDataStore(c, n) ==
  /\ Running
  /\ c \in scope.admins /\ Admitted /\ admin[c] = Idle
  /\ created + Cardinality(Creating) < scope.datastores
  /\ md = Nobody
  /\ ~Found(n)
  /\ Begin(c, "new", n, 0)
  /\ UNCHANGED <<startup, mapVars, store, overlapped, tx, watching>>

\* NewTreeRoot, then initCache; only then the goroutine that connects is started.  A tree that
\* cannot be created is an error of the call, but at start-up the nil datastore is added.
NewTreeFails(c) ==
  /\ Running
  /\ \/ /\ admin[c].pc = "new"
        /\ End(c)
        /\ UNCHANGED crashed
     \/ /\ admin[c].pc = "initial"
        /\ crashed' = TRUE
        /\ UNCHANGED admin
  /\ UNCHANGED <<clients, phase, mapVars, store, overlapped, tx, watching>>

\* InstanceExists, and InstanceCreate until it works.
InitCache(n) == cache' = cache \cup {n}

NewDatastore(c) ==
  /\ Running
  /\ admin[c].pc \in {"new", "initial"} /\ created < scope.datastores
  /\ InitCache(admin[c].name)
  /\ created' = created + 1
  /\ ds' = [ds EXCEPT ![created'] = [name |-> admin[c].name, cancelled |-> FALSE, go |-> "connect",
                                     sbi |-> "nil"]]
  /\ Goto(c, "lock", created')
  /\ UNCHANGED <<startup, mapVars, overlapped, tx, watching>>

Lock(c, pc) ==
  /\ md = Nobody
  /\ md' = c
  /\ Goto(c, pc, admin[c].i)
  /\ UNCHANGED <<startup, datastores, store, overlapped, tx, watching>>

AddLock(c) == Running /\ admin[c].pc = "lock" /\ Lock(c, "add")

\* A name that is there already is an error, and the new datastore is left running.
Add(n, i) == datastores' = IF Found(n) THEN datastores ELSE [datastores EXCEPT ![n] = i]

AddDatastore(c) ==
  /\ Running
  /\ admin[c].pc = "add"
  /\ Add(admin[c].name, admin[c].i)
  /\ overlapped' = IF admin[c].with # {} THEN overlapped \cup {admin[c].i} ELSE overlapped
  /\ md' = Nobody
  /\ End(c)
  /\ UNCHANGED <<startup, store, tx, watching>>

-----------------------------------------------------------------------------
(* DeleteDataStore *)

DeleteDataStore(c, n) ==
  /\ Running
  /\ c \in scope.admins /\ Admitted /\ admin[c] = Idle
  /\ md = Nobody
  /\ Found(n)
  /\ Begin(c, "cancel", n, datastores[n])
  /\ UNCHANGED <<startup, mapVars, store, overlapped, tx, watching>>

\* Mutant of StopContext: Stop only closes the connection.
StopContext_Keeps(i) == UNCHANGED ds

StopContext(i) == ds' = [ds EXCEPT ![i].cancelled = TRUE]

StopCancel(c) ==
  /\ Running
  /\ admin[c].pc = "cancel"
  /\ StopContext(admin[c].i)
  /\ Goto(c, "close", admin[c].i)
  /\ UNCHANGED <<startup, mapVars, created, cache, overlapped, tx, watching>>

\* d.sbi is nil until target.New has returned: there is nothing to close yet.
StopClose(c) ==
  /\ Running
  /\ admin[c].pc = "close"
  /\ ds' = [ds EXCEPT ![admin[c].i].sbi = IF @ = "open" THEN "closed" ELSE @]
  /\ Goto(c, "dlock", admin[c].i)
  /\ UNCHANGED <<startup, mapVars, created, cache, overlapped, tx, watching>>

DeleteLock(c) == Running /\ admin[c].pc = "dlock" /\ Lock(c, "delete")

\* Whatever is listed under the name by now loses its cache instance and its entry; if nothing is,
\* the call returns an error.
Forget(n) ==
  IF Found(n) THEN cache' = cache \ {n} /\ datastores' = [datastores EXCEPT ![n] = 0]
              ELSE UNCHANGED <<cache, datastores>>

DeleteDatastore(c) ==
  /\ Running
  /\ admin[c].pc = "delete"
  /\ Forget(admin[c].name)
  /\ md' = Nobody
  /\ End(c)
  /\ UNCHANGED <<startup, ds, created, overlapped, tx, watching>>

-----------------------------------------------------------------------------
(* TransactionSet, ListIntent and GetIntent use getDataStore without the lock. *)

TxBegin(n) ==
  /\ Running
  /\ scope.tx /\ Admitted /\ tx = 0
  /\ tx' = datastores[n]
  /\ UNCHANGED <<startup, datastores, md, store, admin, overlapped, watching>>

TxEnd ==
  /\ Running
  /\ tx # 0
  /\ tx' = 0
  /\ UNCHANGED <<startup, mapVars, store, admin, overlapped, watching>>

-----------------------------------------------------------------------------
(* The goroutine of a datastore: connectSBI, then DeviationMgr *)

GoTo(i, pc) == ds' = [ds EXCEPT ![i].go = pc]

Connect(i) ==
  /\ Running
  /\ ds[i].go \in {"connect", "retry"}
  /\ ds' = [ds EXCEPT ![i].go = "wait", ![i].sbi = "open"]
  /\ UNCHANGED <<startup, mapVars, created, cache, admin, overlapped, tx, watching>>

ConnectFails(i) ==
  /\ Running
  /\ ds[i].go = "connect"
  /\ GoTo(i, "retry")
  /\ UNCHANGED <<startup, mapVars, created, cache, admin, overlapped, tx, watching>>

\* The context is looked at between attempts and between runs.
GoroutineEnds(i) ==
  /\ Running
  /\ ds[i].go \in {"retry", "wait"} /\ ds[i].cancelled
  /\ GoTo(i, "ended")
  /\ UNCHANGED <<startup, mapVars, created, cache, admin, overlapped, tx, watching>>

Clients(i) == {s \in Streams : stream[s] \in {[pc |-> "watch", i |-> i], [pc |-> "done", i |-> i]}}

Done(s) == stream[s].pc \in {"done", "gone"}

\* The streams to serve are collected by peer: of two streams of a peer one is kept.
Snapshots(C) ==
  {S \in SUBSET C : {peer[s] : s \in S} = {peer[s] : s \in C}
                    /\ \A s, t \in S : peer[s] = peer[t] => s = t}

Tick(i) ==
  /\ Running
  /\ ds[i].go = "wait"
  /\ \E S \in Snapshots(Clients(i)) :
       /\ S # {}
       /\ run' = [run EXCEPT ![i] = [clients |-> S, todo |-> S]]
  /\ GoTo(i, "start")
  /\ UNCHANGED <<startup, mapVars, created, cache, admin, overlapped, tx, peer, stream, told, scope>>

\* Mutant of Recipients: the streams are looked up again for every event.
Recipients_Live(i) == Clients(i)

Recipients(i) == run[i].clients

\* One event to every client of the run, in any order; clients may leave meanwhile.
SendTo(i, s, pc, event) ==
  /\ Running
  /\ ds[i].go = pc /\ s \in run[i].todo
  /\ run' = [run EXCEPT ![i].todo = @ \ {s}]
  /\ told' = IF Done(s) THEN told ELSE [told EXCEPT ![s] = event]
  /\ UNCHANGED <<startup, mapVars, store, admin, overlapped, tx, peer, stream, scope>>

SendStart(i, s)  == SendTo(i, s, "start", "START")
SendUpdate(i, s) == SendTo(i, s, "update", "UPDATE")
SendEnd(i, s)    == SendTo(i, s, "end", "END")

Sent(i, pc, next, todo) ==
  /\ Running
  /\ ds[i].go = pc /\ run[i].todo = {}
  /\ run' = [run EXCEPT ![i] = IF next = "wait" THEN NoRun ELSE [@ EXCEPT !.todo = todo]]
  /\ GoTo(i, next)
  /\ UNCHANGED <<startup, mapVars, created, cache, admin, overlapped, tx, peer, stream, told, scope>>

StartsSent(i) == Sent(i, "start", "calc", {})

\* Mutant of CalculationFails: the manager returns.
CalculationFails_Returns(i) == Sent(i, "calc", "ended", {})

\* The run ends without an END.
CalculationFails(i) == Sent(i, "calc", "wait", {})

\* There may be no deviations to send.
Calculated(i) == Sent(i, "calc", "update", Recipients(i)) \/ Sent(i, "calc", "end", Recipients(i))

UpdatesSent(i) == Sent(i, "update", "end", Recipients(i))

EndsSent(i) == Sent(i, "end", "wait", {})

-----------------------------------------------------------------------------
(* WatchDeviations: a stream, which the readyInterceptor does not see. *)

At(s, pc, i) == stream' = [stream EXCEPT ![s] = [pc |-> pc, i |-> i]]

WatchBegin(s, n) ==
  /\ Running
  /\ s \in scope.streams /\ stream[s].pc = "idle" /\ md = Nobody
  /\ At(s, IF Found(n) THEN "register" ELSE "gone", datastores[n])
  /\ UNCHANGED <<startup, mapVars, store, admin, overlapped, tx, peer, run, told, scope>>

WatchDeviations(s) ==
  /\ Running
  /\ stream[s].pc = "register"
  /\ At(s, "watch", stream[s].i)
  /\ UNCHANGED <<startup, mapVars, store, admin, overlapped, tx, peer, run, told, scope>>

\* The client is gone; StopDeviationsWatch runs when the handler notices.
StreamDone(s) ==
  /\ Running
  /\ stream[s].pc = "watch"
  /\ At(s, "done", stream[s].i)
  /\ UNCHANGED <<startup, mapVars, store, admin, overlapped, tx, peer, run, told, scope>>

StopDeviationsWatch(s) ==
  /\ Running
  /\ stream[s].pc = "done"
  /\ At(s, "gone", stream[s].i)
  /\ UNCHANGED <<startup, mapVars, store, admin, overlapped, tx, peer, run, told, scope>>

-----------------------------------------------------------------------------
AdminStep(c) ==
  \/ NewDatastore(c) \/ AddLock(c) \/ AddDatastore(c)
  \/ StopCancel(c) \/ StopClose(c) \/ DeleteLock(c) \/ DeleteDatastore(c)

ManagerStep(i) ==
  \/ Tick(i) \/ StartsSent(i) \/ Calculated(i) \/ UpdatesSent(i) \/ EndsSent(i)
  \/ \E s \in Streams : SendStart(i, s) \/ SendUpdate(i, s) \/ SendEnd(i, s)

Next ==
  \/ CreateSchemaClient \/ CreateCacheClient \/ CreateInitialDatastores \/ Ready
  \/ \E c \in Admins, n \in Names : CreateDataStore(c, n) \/ DeleteDataStore(c, n)
  \/ \E c \in Callers : NewTreeFails(c) \/ AdminStep(c)
  \/ \E n \in Names : TxBegin(n)
  \/ TxEnd
  \/ \E i \in Datastores : Connect(i) \/ ConnectFails(i) \/ GoroutineEnds(i)
  \/ \E i \in Datastores : CalculationFails(i) \/ ManagerStep(i)
  \/ \E s \in Streams, n \in Names : WatchBegin(s, n)
  \/ \E s \in Streams : WatchDeviations(s) \/ StreamDone(s) \/ StopDeviationsWatch(s)

\* Handlers and goroutines go on, Send returns, the device can be connected to in the end, and
\* calculateDeviations does not fail for ever.
Fairness ==
  /\ \A c \in Callers : WF_vars(AdminStep(c))
  /\ \A i \in Datastores :
       WF_vars(Connect(i)) /\ WF_vars(GoroutineEnds(i)) /\ WF_vars(ManagerStep(i)) /\ SF_vars(Calculated(i))

Spec == Init /\ [][Next]_vars /\ Fairness

-----------------------------------------------------------------------------
(* Properties *)

\* Nothing that needs the schema client or the cache client, be it a call or a datastore of the
\* configuration file, runs before both exist.
ClientsBeforeUse ==
  created > 0 \/ tx # 0 \/ (\E c \in Callers : admin[c].pc # "idle") => clients = {"schema", "cache"}

\* The call c is about to add the datastore i.
Adding(c, i) == admin[c].pc \in {"lock", "add"} /\ admin[c].i = i

\* Listed, or about to be.
InMap(i) == datastores[ds[i].name] = i \/ \E c \in Callers : Adding(c, i)

\* A datastore whose context is not cancelled is in the map, so that nobody syncs and reverts a
\* device from behind it, unless the call that created it overlapped another call of its name:
\* the map refuses to add it then, or a delete that looked up its predecessor removes its entry.
NoOrphans ==
  Running => \A i \in (1..created) \ overlapped : ds[i].cancelled \/ InMap(i)

\* A listed datastore has its cache instance, with the same exception: a delete that overlaps its
\* creation removes the instance of the name.
ListedHasCache ==
  \A n \in Names : Found(n) /\ datastores[n] \notin overlapped => n \in cache

\* Whatever calls overlap, what is listed under a name was created for it.
OneEntry == \A n \in Names : Found(n) => datastores[n] \in 1..created /\ ds[datastores[n]].name = n

\* The variables have their types, nothing runs before its clients, and the map, the cache and the
\* running datastores agree.
LifeInv == TypeOK /\ ClientsBeforeUse /\ NoOrphans /\ ListedHasCache /\ OneEntry

\* NoOrphans whatever overlaps.
NobodyRunsUnlisted == Running => \A i \in 1..created : ds[i].cancelled \/ InMap(i)

\* The comment on getDataStore: "expects that the mutex d.md is already held".
MapReadHoldsLock == [][tx = 0 /\ tx' # 0 => md = Nobody]_vars

\* A stream sees runs that begin with START, and a run that has sent a deviation ends with END
\* before the next one begins.  (A calculation that fails leaves a START without an END.)
EventsAreBracketed ==
  [][\A s \in Streams : told'[s] # told[s] =>
       <<told[s], told'[s]>> \in {<<"none", "START">>, <<"START", "UPDATE">>, <<"START", "END">>,
                                  <<"UPDATE", "END">>, <<"END", "START">>}]_vars

\* Create and delete calls return: nobody waits for the lock of the map for ever.
CallsReturn == \A c \in Callers : (admin[c].pc # "idle") ~> (admin[c].pc = "idle" \/ crashed)

\* A stream that is the only one of its peer is served as long as it watches a datastore that is
\* not deleted.
WatchersAreServed ==
  \A s \in Streams :
    (stream[s].pc = "watch" /\ \A t \in Streams \ {s} : peer[t] # peer[s])
      ~> (told[s] = "END" \/ stream[s].pc # "watch" \/ ds[stream[s].i].cancelled \/ crashed)

\* Calls return and streams are served.
ServerProgress == CallsReturn /\ WatchersAreServed
=============================================================================
