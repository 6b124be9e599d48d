-------------------------- MODULE DataServerProofs --------------------------
(***************************************************************************)
(* Proofs about DataServer, for any number of names, datastores and        *)
(* streams: the map, the cache and the running datastores agree, and the   *)
(* events of the deviation manager come in brackets.                       *)
(*                                                                         *)
(* LifeInv is not inductive.  MapInv adds what a create or delete call     *)
(* knows at each of its places, alone or next to other calls of its name;  *)
(* EventInv adds what a stream has been told at each place of the run that *)
(* serves it.                                                              *)
(***************************************************************************)
EXTENDS DataServer, TLAPS

CreateLabels == {"new", "initial", "lock", "add"}
DeleteLabels == {"cancel", "close", "dlock", "delete"}

Busy(c) == admin[c].pc # "idle"

\* A call is for a name, and is shared if another call of the name is in progress.
Apart(c) ==
  Busy(c) =>
    /\ admin[c].name \in Names
    /\ \A d \in Callers \ {c} : Busy(d) /\ admin[d].name = admin[c].name => admin[c].with # {}

\* Where a call is tells what it knows of its name.  A shared one may be overtaken: a create by what
\* is listed and by the loss of the cache instance, a delete by a datastore it did not look up,
\* whose creation overlapped it.
Knows(c) ==
  /\ admin[c].pc \in CreateLabels => admin[c].with # {} \/ datastores[admin[c].name] = 0
  /\ admin[c].pc \in {"lock", "add"} =>
       /\ admin[c].i \in 1..created /\ ds[admin[c].i].name = admin[c].name
       /\ admin[c].with # {} \/ admin[c].name \in cache
  /\ admin[c].pc \in DeleteLabels =>
       /\ admin[c].i \in 1..created
       /\ datastores[admin[c].name] \in {0, admin[c].i} \cup overlapped
  /\ admin[c].pc \in {"close", "dlock", "delete"} => ds[admin[c].i].cancelled

\* What is listed was created for the name and has its cache instance.
NameInv(n) ==
  datastores[n] # 0 =>
    /\ datastores[n] \in 1..created /\ ds[datastores[n]].name = n
    /\ datastores[n] \in overlapped \/ n \in cache

\* A datastore belongs to a name, and is stopped, listed or about to be.
DsInv(i) ==
  /\ ds[i].name \in Names
  /\ i \in overlapped \/ ds[i].cancelled \/ InMap(i)

\* Nothing happens before the clients are there.
PhaseInv ==
  /\ phase = "clients" => created = 0 /\ tx = 0 /\ \A c \in Callers : ~Busy(c)
  /\ phase # "clients" => clients = {"schema", "cache"}

MapInv ==
  /\ PhaseInv
  /\ \A c \in Callers : Apart(c) /\ Knows(c)
  /\ \A n \in Names : NameInv(n)
  /\ \A i \in 1..created : DsInv(i)

\* The bounds of a behaviour lie below those of the model.
LEMMA ScopeBound == TypeOK => scope.datastores <= MaxDatastores /\ scope.datastores \in Nat
BY ServerAssumption DEF TypeOK

LEMMA Initially == Init => TypeOK /\ MapInv
<1> SUFFICES ASSUME Init PROVE TypeOK /\ MapInv
  BY Zenon
<1> USE ServerAssumption DEF Init, Idle, NoStream, NoRun, Datastores
<1>1. TypeOK
  <2>1. ds \in [Datastores -> DsType] BY Zenon DEF DsType
  <2>2. admin \in [Callers -> CallType] BY DEF CallType
  <2>3. stream \in [Streams -> StreamType] BY DEF StreamType
  <2>4. run \in [Datastores -> RunType] BY Zenon DEF RunType
  <2>5. told \in [Streams -> {"none", "START", "UPDATE", "END"}] BY Zenon
  <2>6. created \in 0..MaxDatastores /\ tx \in 0..MaxDatastores
        /\ datastores \in [Names -> 0..MaxDatastores]
    OBVIOUS
  <2> QED BY Zenon, <2>1, <2>2, <2>3, <2>4, <2>5, <2>6 DEF TypeOK
<1>2. PhaseInv BY Zenon DEF PhaseInv, Busy
<1>3. ASSUME NEW n \in Names PROVE NameInv(n) BY Zenon DEF NameInv
<1>5. ASSUME NEW c \in Callers PROVE Apart(c) /\ Knows(c)
  <2>1. admin[c].pc = "idle" BY Zenon
  <2> QED BY <2>1 DEF Apart, Knows, Busy, CreateLabels, DeleteLabels
<1>4. 1..created = {} BY SMTT(20)
<1> QED BY Zenon, <1>1, <1>2, <1>3, <1>4, <1>5 DEF MapInv

-----------------------------------------------------------------------------
(* Types *)

\* What the steps of a call do to its record and to those of the others.
LEMMA GotoStep ==
  ASSUME TypeOK, NEW c \in Callers, NEW pc, NEW i, Goto(c, pc, i)
  PROVE  /\ admin'[c].pc = pc /\ admin'[c].i = i /\ admin'[c].name = admin[c].name
         /\ admin'[c].with = admin[c].with
         /\ \A d \in Callers \ {c} : admin'[d] = admin[d]
<1>1. admin'[c] = [pc |-> pc, name |-> admin[c].name, i |-> i, with |-> admin[c].with]
  BY Zenon DEF Goto, TypeOK
<1> QED BY Zenon, <1>1 DEF Goto, TypeOK

LEMMA EndStep ==
  ASSUME TypeOK, NEW c \in Callers, End(c)
  PROVE  admin'[c].pc = "idle" /\ \A d \in Callers \ {c} : admin'[d] = admin[d]
BY DEF End, Idle, TypeOK

LEMMA BeginStep ==
  ASSUME TypeOK, NEW c \in Callers, NEW pc, NEW n, NEW i, Begin(c, pc, n, i)
  PROVE  /\ admin'[c].pc = pc /\ admin'[c].name = n /\ admin'[c].i = i
         /\ admin'[c].with = Others(c, n)
         /\ \A d \in Callers \ {c} :
              /\ admin'[d].pc = admin[d].pc /\ admin'[d].name = admin[d].name
              /\ admin'[d].i = admin[d].i
              /\ (admin[d].with # {} \/ d \in Others(c, n)) => admin'[d].with # {}
<1> USE DEF TypeOK, CallType
<1>1. admin'[c] = [pc |-> pc, name |-> n, i |-> i, with |-> Others(c, n)]
  BY Zenon DEF Begin
<1>2. admin'[c].pc = pc /\ admin'[c].name = n /\ admin'[c].i = i BY <1>1
<1>3. admin'[c].with = Others(c, n) BY <1>1
<1>4. ASSUME NEW d \in Callers \ {c}
      PROVE  /\ admin'[d].pc = admin[d].pc /\ admin'[d].name = admin[d].name
             /\ admin'[d].i = admin[d].i
             /\ (admin[d].with # {} \/ d \in Others(c, n)) => admin'[d].with # {}
  <2>1. CASE d \in Others(c, n)
    <3>1. admin'[d] = [admin[d] EXCEPT !.with = @ \cup {c}] BY Zenon, <2>1 DEF Begin
    <3>2. admin'[d].with = admin[d].with \cup {c} BY <3>1
    <3>3. admin'[d].pc = admin[d].pc /\ admin'[d].name = admin[d].name /\ admin'[d].i = admin[d].i
      BY <3>1
    <3> QED BY Zenon, <3>2, <3>3
  <2>2. CASE d \notin Others(c, n)
    <3>1. admin'[d] = admin[d] BY Zenon, <2>2 DEF Begin
    <3> QED BY Zenon, <2>2, <3>1
  <2> QED BY Zenon, <2>1, <2>2
<1> QED BY Zenon, <1>2, <1>3, <1>4

LEMMA TypesKept == TypeOK /\ MapInv /\ [Next]_vars => TypeOK'
<1> SUFFICES ASSUME TypeOK, MapInv, [Next]_vars PROVE TypeOK'
  BY Zenon
<1> USE DEF TypeOK, startup, mapVars, store, watching
<1>i. Idle \in CallType BY ServerAssumption DEF Idle, CallType
<1>a. ASSUME NEW c \in Callers, NEW pc, NEW i \in 0..MaxDatastores, Goto(c, pc, i),
             pc \in {"lock", "add", "cancel", "close", "dlock", "delete"}
      PROVE  admin' \in [Callers -> CallType]
  <2>1. admin' = [admin EXCEPT ![c] = [pc |-> pc, name |-> admin[c].name, i |-> i,
                                       with |-> admin[c].with]]
    BY Zenon, <1>a DEF Goto
  <2>2. admin[c].name \in Names \cup {Nobody} /\ admin[c].with \in SUBSET Callers BY Zenon DEF CallType
  <2>3. [pc |-> pc, name |-> admin[c].name, i |-> i, with |-> admin[c].with] \in CallType
    BY Zenon, <1>a, <2>2 DEF CallType
  <2> QED BY Zenon, <2>1, <2>3
<1>j. ASSUME NEW c \in Callers, End(c) PROVE admin' \in [Callers -> CallType]
  BY Zenon, <1>i, <1>j DEF End
<1>k. ASSUME NEW c \in Callers, NEW pc \in {"new", "cancel"}, NEW n \in Names,
             NEW i \in 0..MaxDatastores, Begin(c, pc, n, i)
      PROVE  admin' \in [Callers -> CallType]
  <2>1. [pc |-> pc, name |-> n, i |-> i, with |-> Others(c, n)] \in CallType
    BY Zenon DEF CallType, Others
  <2>2. ASSUME NEW d \in Callers PROVE [admin[d] EXCEPT !.with = @ \cup {c}] \in CallType
    BY DEF CallType
  <2> QED BY Zenon, <1>k, <2>1, <2>2 DEF Begin
<1>b. ASSUME NEW i \in Datastores, NEW pc, GoTo(i, pc),
             pc \in {"retry", "wait", "start", "calc", "update", "end", "ended"}
      PROVE  ds' \in [Datastores -> DsType]
  BY <1>b DEF GoTo, DsType
<1>c. ASSUME NEW s \in Streams, NEW pc \in {"register", "watch", "done", "gone"},
             NEW i \in 0..MaxDatastores, At(s, pc, i)
      PROVE  stream' \in [Streams -> StreamType]
  BY Zenon, <1>c DEF At, StreamType
<1>d. \A c \in Callers : admin[c].i \in 0..MaxDatastores BY Zenon DEF CallType
<1>e. \A s \in Streams : stream[s].i \in 0..MaxDatastores BY Zenon DEF StreamType
<1>f. 0 \in 0..MaxDatastores BY ServerAssumption
<1>g. ASSUME NEW c \in Callers, admin[c].pc \in DeleteLabels \cup {"lock", "add"}
      PROVE  admin[c].i \in Datastores
  <2>1. admin[c].i \in 1..created BY Zenon, <1>g DEF MapInv, Knows
  <2> QED BY <2>1, ServerAssumption DEF Datastores
<1>h. ASSUME NEW i \in Datastores, StopContext(i) PROVE ds' \in [Datastores -> DsType]
  <2>1. ASSUME NEW b \in BOOLEAN PROVE [ds EXCEPT ![i].cancelled = b] \in [Datastores -> DsType]
    BY DEF DsType
  <2> QED BY Zenon, <1>h, <2>1 DEF StopContext
<1>1. CASE CreateSchemaClient BY Zenon, <1>1 DEF CreateSchemaClient
<1>2. CASE CreateCacheClient BY Zenon, <1>2 DEF CreateCacheClient
<1>3. CASE CreateInitialDatastores
  <2>1. admin' \in [Callers -> CallType]
    <3>1. ASSUME NEW c \in scope.configured
          PROVE  [pc |-> "initial", name |-> c, i |-> 0, with |-> {}] \in CallType
      <4>1. c \in Names BY ServerAssumption
      <4> QED BY Zenon, <4>1, <1>f DEF CallType
    <3> QED BY Zenon, <1>3, <1>i, <3>1 DEF CreateInitialDatastores
  <2> QED BY Zenon, <1>3, <2>1 DEF CreateInitialDatastores
<1>4. CASE Ready BY Zenon, <1>4 DEF Ready
<1>5. ASSUME NEW c \in Callers, NEW n \in Names, CreateDataStore(c, n) \/ DeleteDataStore(c, n)
      PROVE  TypeOK'
  <2>1. CASE CreateDataStore(c, n) BY Zenon, <2>1, <1>k, <1>f DEF CreateDataStore
  <2>2. CASE DeleteDataStore(c, n) BY Zenon, <2>2, <1>k DEF DeleteDataStore
  <2> QED BY Zenon, <1>5, <2>1, <2>2
<1>13. ASSUME NEW c \in Callers, NewTreeFails(c) \/ AdminStep(c) PROVE TypeOK'
  <2>2. CASE NewTreeFails(c)
    <3>1. admin' \in [Callers -> CallType] BY Zenon, <2>2, <1>j DEF NewTreeFails
    <3>2. crashed' \in BOOLEAN BY Zenon, <2>2 DEF NewTreeFails
    <3> QED BY Zenon, <2>2, <3>1, <3>2 DEF NewTreeFails
  <2>4. CASE NewDatastore(c)
    <3>0. admin[c].name \in Names
      <4>1. Busy(c) BY <2>4 DEF NewDatastore, Busy
      <4> QED BY Zenon, <4>1 DEF MapInv, Apart
    <3>1. created' \in Datastores /\ created' \in 0..MaxDatastores
      BY <2>4, ScopeBound, ServerAssumption DEF NewDatastore, Datastores
    <3>2. ds' \in [Datastores -> DsType] BY Zenon, <2>4, <3>0 DEF NewDatastore, DsType
    <3>3. admin' \in [Callers -> CallType] BY Zenon, <2>4, <3>1, <1>a DEF NewDatastore
    <3> QED BY Zenon, <2>4, <3>0, <3>1, <3>2, <3>3 DEF NewDatastore, InitCache
  <2>5. CASE AddLock(c) BY Zenon, <2>5, <1>a, <1>d DEF AddLock, Lock
  <2>6. CASE AddDatastore(c)
    <3>1. admin[c].i \in Datastores BY Zenon, <2>6, <1>g DEF AddDatastore
    <3>2. overlapped' \subseteq Datastores BY Zenon, <2>6, <3>1 DEF AddDatastore
    <3>3. datastores' \in [Names -> 0..MaxDatastores] BY Zenon, <2>6, <1>d DEF AddDatastore, Add
    <3> QED BY Zenon, <2>6, <3>2, <3>3, <1>j DEF AddDatastore
  <2>7. CASE StopCancel(c)
    <3>0. admin[c].i \in Datastores BY Zenon, <2>7, <1>g DEF StopCancel, DeleteLabels
    <3>1. ds' \in [Datastores -> DsType] BY Zenon, <2>7, <3>0, <1>h DEF StopCancel
    <3> QED BY Zenon, <2>7, <3>1, <1>a, <1>d DEF StopCancel
  <2>8. CASE StopClose(c)
    <3>0. admin[c].i \in Datastores BY Zenon, <2>8, <1>g DEF StopClose, DeleteLabels
    <3>1. ds' \in [Datastores -> DsType] BY SMTT(20), <2>8, <3>0 DEF StopClose, DsType
    <3> QED BY Zenon, <2>8, <3>1, <1>a, <1>d DEF StopClose
  <2>9. CASE DeleteLock(c) BY Zenon, <2>9, <1>a, <1>d DEF DeleteLock, Lock
  <2>10. CASE DeleteDatastore(c)
    <3>1. datastores' \in [Names -> 0..MaxDatastores] /\ cache' \subseteq Names
      <4>1. CASE Found(admin[c].name)
        <5>1. datastores' = [datastores EXCEPT ![admin[c].name] = 0] /\ cache' = cache \ {admin[c].name}
          BY Zenon, <2>10, <4>1 DEF DeleteDatastore, Forget
        <5> QED BY Zenon, <5>1, <1>f
      <4>2. CASE ~Found(admin[c].name) BY Zenon, <2>10, <4>2 DEF DeleteDatastore, Forget
      <4> QED BY Zenon, <4>1, <4>2
    <3> QED BY Zenon, <2>10, <3>1, <1>j DEF DeleteDatastore
  <2> QED
    BY Zenon, <1>13, <2>2, <2>4, <2>5, <2>6, <2>7, <2>8, <2>9, <2>10 DEF AdminStep
<1>6. ASSUME NEW n \in Names, TxBegin(n) PROVE TypeOK' BY Zenon, <1>6 DEF TxBegin
<1>7. CASE TxEnd BY Zenon, <1>7, <1>f DEF TxEnd
<1>8. ASSUME NEW i \in Datastores, Connect(i) \/ ConnectFails(i) \/ GoroutineEnds(i) PROVE TypeOK'
  <2>1. CASE Connect(i)
    <3> DEFINE d == [ds EXCEPT ![i].go = "wait"]
    <3>0. d \in [Datastores -> DsType] BY DEF DsType
    <3>a. ASSUME NEW e \in [Datastores -> DsType]
          PROVE  [e EXCEPT ![i].sbi = "open"] \in [Datastores -> DsType]
      BY SMTT(20) DEF DsType
    <3>b. ds' = [d EXCEPT ![i].sbi = "open"] BY Zenon, <2>1 DEF Connect
    <3> HIDE DEF d
    <3>1. ds' \in [Datastores -> DsType] BY Zenon, <3>0, <3>a, <3>b
    <3> QED BY Zenon, <2>1, <3>1 DEF Connect
  <2>2. CASE ConnectFails(i) BY Zenon, <2>2, <1>b DEF ConnectFails
  <2>3. CASE GoroutineEnds(i) BY Zenon, <2>3, <1>b DEF GoroutineEnds
  <2> QED BY Zenon, <1>8, <2>1, <2>2, <2>3
<1>9. ASSUME NEW i \in Datastores, CalculationFails(i) \/ ManagerStep(i) PROVE TypeOK'
  <2>1. CASE Tick(i)
    <3>1. PICK S \in SUBSET Streams : run' = [run EXCEPT ![i] = [clients |-> S, todo |-> S]]
      BY Zenon, <2>1 DEF Tick, Snapshots, Clients
    <3>2. run' \in [Datastores -> RunType] BY Zenon, <3>1 DEF RunType
    <3> QED BY Zenon, <2>1, <3>2, <1>b DEF Tick
  <2>2. ASSUME NEW pc, NEW next \in {"calc", "update", "end", "wait"}, NEW todo \in SUBSET Streams,
               Sent(i, pc, next, todo)
        PROVE  TypeOK'
    <3>1. run' \in [Datastores -> RunType] BY <2>2 DEF Sent, RunType, NoRun
    <3>2. ds' \in [Datastores -> DsType] BY Zenon, <2>2, <1>b DEF Sent
    <3> QED BY Zenon, <2>2, <3>1, <3>2 DEF Sent
  <2>3. ASSUME NEW s \in Streams, NEW pc, NEW event \in {"START", "UPDATE", "END"},
               SendTo(i, s, pc, event)
        PROVE  TypeOK'
    <3>1. run' \in [Datastores -> RunType] BY Zenon, <2>3 DEF SendTo, RunType
    <3> QED BY Zenon, <2>3, <3>1 DEF SendTo
  <2>4. Recipients(i) \in SUBSET Streams BY Zenon DEF Recipients, RunType
  <2>0. {} \in SUBSET Streams BY Zenon
  <2>5. CASE CalculationFails(i) BY Zenon, <2>0, <2>2, <2>5 DEF CalculationFails
  <2>6. CASE StartsSent(i) BY Zenon, <2>0, <2>2, <2>6 DEF StartsSent
  <2>7. CASE Calculated(i) BY Zenon, <2>2, <2>4, <2>7 DEF Calculated
  <2>8. CASE UpdatesSent(i) BY Zenon, <2>2, <2>4, <2>8 DEF UpdatesSent
  <2>9. CASE EndsSent(i) BY Zenon, <2>0, <2>2, <2>9 DEF EndsSent
  <2>10. ASSUME NEW s \in Streams, SendStart(i, s) \/ SendUpdate(i, s) \/ SendEnd(i, s)
         PROVE  TypeOK'
    BY Zenon, <2>3, <2>10 DEF SendStart, SendUpdate, SendEnd
  <2> QED BY Zenon, <1>9, <2>1, <2>5, <2>6, <2>7, <2>8, <2>9, <2>10 DEF ManagerStep
<1>10. ASSUME NEW s \in Streams, NEW n \in Names, WatchBegin(s, n) PROVE TypeOK'
  BY Zenon, <1>10, <1>c DEF WatchBegin
<1>11. ASSUME NEW s \in Streams, WatchDeviations(s) \/ StreamDone(s) \/ StopDeviationsWatch(s)
       PROVE  TypeOK'
  BY Zenon, <1>11, <1>c, <1>e DEF WatchDeviations, StreamDone, StopDeviationsWatch
<1>12. CASE UNCHANGED vars BY Zenon, <1>12 DEF vars
<1> QED
  BY Zenon, <1>1, <1>2, <1>3, <1>4, <1>5, <1>6, <1>7, <1>8, <1>9, <1>10, <1>11, <1>12, <1>13
  DEF Next, Callers

-----------------------------------------------------------------------------
(* The map, the cache and the datastores *)

\* A step of the goroutine of a datastore, of a stream or of a transaction changes neither the map
\* nor what a datastore is called and whether it is stopped.
LEMMA OthersKeepMap ==
  ASSUME TypeOK, MapInv,
         UNCHANGED <<clients, phase, datastores, created, cache, admin, overlapped>>,
         \A i \in Datastores : ds'[i].name = ds[i].name /\ ds'[i].cancelled = ds[i].cancelled,
         tx' # 0 => tx # 0 \/ phase = "ready"
  PROVE  MapInv'
<1> USE ServerAssumption DEF MapInv, TypeOK, CallType, DsType
<1>1. 1..created \subseteq Datastores BY DEF Datastores
<1>2. PhaseInv' BY Zenon DEF PhaseInv, Busy
<1>3. ASSUME NEW n \in Names PROVE NameInv(n)' BY Zenon, <1>1 DEF NameInv
<1>4. ASSUME NEW c \in Callers PROVE Apart(c)' BY Zenon DEF Apart, Busy
<1>5. ASSUME NEW c \in Callers PROVE Knows(c)'
  <2>1. Knows(c) BY Zenon
  <2>2. \A i \in 1..created : ds'[i].name = ds[i].name /\ ds'[i].cancelled = ds[i].cancelled
    BY Zenon, <1>1
  <2> QED BY <2>1, <2>2 DEF Knows, CreateLabels, DeleteLabels
<1>6. ASSUME NEW i \in 1..created PROVE DsInv(i)' BY Zenon, <1>1 DEF DsInv, InMap, Adding
<1> QED BY Zenon, <1>2, <1>3, <1>4, <1>5, <1>6

\* A step of the call c for the name n: it has to keep what it knows, what is said of n and of the
\* datastores called n, and lists under n nothing that another call does not expect.
LEMMA CallKeepsMap ==
  ASSUME TypeOK, TypeOK', MapInv, NEW c \in Callers, NEW n \in Names, Busy(c), admin[c].name = n,
         UNCHANGED <<clients, phase, created, tx>>,
         \A d \in Callers \ {c} : admin'[d] = admin[d],
         Busy(c)' => admin'[c].name = n /\ admin'[c].with = admin[c].with,
         \A m \in Names \ {n} : datastores'[m] = datastores[m] /\ (m \in cache => m \in cache'),
         \A i \in Datastores :
           /\ ds'[i].name = ds[i].name
           /\ ds[i].cancelled => ds'[i].cancelled,
         overlapped \subseteq overlapped',
         admin[c].with = {} \/ datastores'[n] \in {0, datastores[n]} \cup overlapped',
         Knows(c)', NameInv(n)',
         \A i \in 1..created : ds[i].name = n => DsInv(i)'
  PROVE  MapInv'
<1> USE ServerAssumption DEF MapInv, TypeOK
<1>1. 1..created \subseteq Datastores BY DEF Datastores
<1>2. PhaseInv' BY Zenon DEF PhaseInv
<1>3. ASSUME NEW m \in Names \ {n} PROVE NameInv(m)'
  <2>1. NameInv(m) BY Zenon
  <2>2. datastores'[m] = datastores[m] /\ (m \in cache => m \in cache') BY Zenon
  <2>3. datastores[m] \in 1..created => ds'[datastores[m]].name = ds[datastores[m]].name
    BY Zenon, <1>1
  <2> QED BY Zenon, <2>1, <2>2, <2>3 DEF NameInv
<1>4. ASSUME NEW d \in Callers, d # c PROVE Apart(d)'
  <2>1. Apart(d) /\ admin'[d] = admin[d] BY Zenon, <1>4
  <2>2. ASSUME NEW e \in Callers, Busy(e)', Busy(d)' PROVE Busy(e) /\ admin[e].name = admin'[e].name
    <3>1. CASE e = c BY Zenon, <2>2, <3>1
    <3>2. CASE e # c BY Zenon, <2>2, <3>2 DEF Busy
    <3> QED BY Zenon, <3>1, <3>2
  <2>3. Busy(d)' => Busy(d) BY Zenon, <2>1 DEF Busy
  <2> QED BY <2>1, <2>2, <2>3 DEF Apart
<1>5. Apart(c)'
  <2>1. Apart(c) BY Zenon
  <2>2. \A d \in Callers \ {c} : (Busy(d)' => Busy(d)) /\ admin'[d].name = admin[d].name
    BY Zenon DEF Busy
  <2>3. ASSUME NEW d \in Callers \ {c}, Busy(c)', Busy(d)', (admin[d].name = admin[c].name)'
        PROVE  admin'[c].with # {}
    <3>1. Busy(d) /\ admin[d].name = n BY Zenon, <2>2, <2>3
    <3>2. admin[c].with # {} BY Zenon, <2>1, <3>1 DEF Apart
    <3> QED BY Zenon, <2>3, <3>2
  <2> QED BY Zenon, <2>3 DEF Apart
<1>6. ASSUME NEW d \in Callers, d # c, Busy(d) PROVE Knows(d)'
  <2>1. Knows(d) /\ Apart(d) /\ Apart(c) /\ admin'[d] = admin[d] BY Zenon, <1>6
  <2>2. \A i \in 1..created : ds'[i].name = ds[i].name /\ (ds[i].cancelled => ds'[i].cancelled)
    BY Zenon, <1>1
  <2>3. CASE admin[d].name = n
    <3>1. admin[d].with # {} /\ admin[c].with # {} BY Zenon, <1>6, <2>1, <2>3 DEF Apart
    <3> QED BY <2>1, <2>2, <2>3, <3>1 DEF Knows, CreateLabels, DeleteLabels
  <2>4. CASE admin[d].name # n
    <3>1. admin[d].name \in Names \ {n} BY Zenon, <1>6, <2>1, <2>4 DEF Apart
    <3>2. /\ datastores'[admin[d].name] = datastores[admin[d].name]
          /\ admin[d].name \in cache => admin[d].name \in cache'
      BY Zenon, <3>1
    <3> QED BY <2>1, <2>2, <3>2 DEF Knows, CreateLabels, DeleteLabels
  <2> QED BY Zenon, <2>3, <2>4
<1>7. ASSUME NEW d \in Callers, d # c, ~Busy(d) PROVE Knows(d)'
  <2>1. admin'[d].pc = "idle" BY Zenon, <1>7 DEF Busy
  <2> QED BY <2>1 DEF Knows, CreateLabels, DeleteLabels
<1>8. ASSUME NEW i \in 1..created, ds[i].name # n PROVE DsInv(i)'
  <2>1. DsInv(i) /\ i \in Datastores /\ ds'[i].name = ds[i].name BY Zenon, <1>1
  <2>2. ds[i].name \in Names \ {n} BY Zenon, <2>1, <1>8 DEF DsInv
  <2>3. CASE datastores[ds[i].name] = i BY Zenon, <2>1, <2>2, <2>3 DEF DsInv, InMap
  <2>4. ASSUME NEW d \in Callers, Adding(d, i) PROVE Adding(d, i)'
    <3>1. Knows(c) BY Zenon
    <3>2. d # c BY Zenon, <2>4, <1>8, <3>1 DEF Adding, Knows
    <3> QED BY Zenon, <2>4, <3>2 DEF Adding
  <2> QED BY Zenon, <2>1, <2>3, <2>4 DEF DsInv, InMap
<1>9. ASSUME NEW d \in Callers PROVE Apart(d)' /\ Knows(d)'
  BY Zenon, <1>4, <1>5, <1>6, <1>7
<1>10. ASSUME NEW m \in Names PROVE NameInv(m)' BY Zenon, <1>3
<1>11. ASSUME NEW i \in 1..created' PROVE DsInv(i)' BY Zenon, <1>8
<1> QED BY Zenon, <1>2, <1>9, <1>10, <1>11

\* A call begins: the calls of its name learn of it.
LEMMA BeginKeepsMap ==
  ASSUME TypeOK, MapInv, NEW c \in Callers, NEW n \in Names, NEW pc \in {"new", "cancel"}, NEW i,
         Begin(c, pc, n, i), admin[c].pc = "idle", phase = "ready",
         UNCHANGED <<clients, phase, datastores, ds, created, cache, overlapped, tx>>,
         pc = "new" => datastores[n] = 0,
         pc = "cancel" => i = datastores[n] /\ i # 0
  PROVE  MapInv'
<1> USE DEF MapInv
<1>0. /\ admin'[c].pc = pc /\ admin'[c].name = n /\ admin'[c].i = i
      /\ admin'[c].with = Others(c, n)
      /\ \A d \in Callers \ {c} :
           /\ admin'[d].pc = admin[d].pc /\ admin'[d].name = admin[d].name
           /\ admin'[d].i = admin[d].i
           /\ (admin[d].with # {} \/ d \in Others(c, n)) => admin'[d].with # {}
  BY SMTT(20), BeginStep
<1>1. \A d \in Callers \ {c} :
        /\ admin'[d].pc = admin[d].pc /\ admin'[d].name = admin[d].name
        /\ admin'[d].i = admin[d].i
        /\ (admin[d].with # {} \/ d \in Others(c, n)) => admin'[d].with # {}
  BY Zenon, <1>0
<1>2. \A d \in Callers \ {c} : Busy(d) /\ admin[d].name = n => d \in Others(c, n)
  BY Zenon DEF Others, Busy
<1>3. admin'[c].pc = pc /\ admin'[c].name = n /\ admin'[c].i = i
      /\ admin'[c].with = Others(c, n)
  BY Zenon, <1>0
<1>4. PhaseInv'
  <2>1. phase # "clients" OBVIOUS
  <2> QED BY Zenon, <2>1 DEF PhaseInv
<1>5. Apart(c)' BY Zenon, <1>1, <1>2, <1>3 DEF Apart, Busy
<1>6. ASSUME NEW d \in Callers, d # c PROVE Apart(d)'
  <2>1. Apart(d) BY Zenon
  <2>2. ASSUME NEW e \in Callers \ {d}, Busy(d)', Busy(e)', (admin[e].name = admin[d].name)'
        PROVE  admin'[d].with # {}
    <3>1. CASE e = c BY Zenon, <1>1, <1>2, <1>3, <1>6, <2>2, <3>1 DEF Busy
    <3>2. CASE e # c BY Zenon, <1>1, <1>6, <2>1, <2>2, <3>2 DEF Busy, Apart
    <3> QED BY Zenon, <3>1, <3>2
  <2> QED BY Zenon, <1>1, <1>6, <2>1, <2>2 DEF Apart, Busy
<1>7. Knows(c)'
  <2>1. NameInv(n) BY Zenon
  <2> QED BY <1>3, <2>1 DEF Knows, NameInv, CreateLabels, DeleteLabels
<1>8. ASSUME NEW d \in Callers, d # c PROVE Knows(d)'
  <2>1. Knows(d) BY Zenon
  <2> QED BY Zenon, <1>1, <1>8, <2>1 DEF Knows
<1>9. ASSUME NEW k \in 1..created PROVE DsInv(k)'
  <2>1. ASSUME NEW d \in Callers, Adding(d, k) PROVE Adding(d, k)'
    <3>1. d # c BY <2>1 DEF Adding
    <3> QED BY Zenon, <1>1, <2>1, <3>1 DEF Adding
  <2> QED BY Zenon, <2>1 DEF DsInv, InMap
<1>10. ASSUME NEW m \in Names PROVE NameInv(m)' BY Zenon DEF NameInv
<1>11. ASSUME NEW d \in Callers PROVE Apart(d)' /\ Knows(d)' BY Zenon, <1>5, <1>6, <1>7, <1>8
<1> QED BY Zenon, <1>4, <1>9, <1>10, <1>11

LEMMA MapKept == TypeOK /\ MapInv /\ [Next]_vars => MapInv'
<1> SUFFICES ASSUME TypeOK, MapInv, [Next]_vars PROVE MapInv'
  BY Zenon
<1>0. TypeOK' BY Zenon, TypesKept
<1> USE ServerAssumption DEF startup, mapVars, store, watching
<1> DEFINE Frame == /\ UNCHANGED <<clients, phase, datastores, created, cache, admin, overlapped>>
                    /\ \A i \in Datastores : /\ ds'[i].name = ds[i].name
                                             /\ ds'[i].cancelled = ds[i].cancelled
<1>1. CASE CreateSchemaClient \/ CreateCacheClient
  <2>1. phase = "clients" /\ UNCHANGED <<phase, datastores, ds, created, cache, admin, overlapped, tx>>
    BY Zenon, <1>1 DEF CreateSchemaClient, CreateCacheClient
  <2> QED BY Zenon, <2>1 DEF MapInv, PhaseInv, Apart, Knows, NameInv, DsInv, InMap, Adding, Busy
<1>2. CASE CreateInitialDatastores
  <2>1. created = 0 /\ tx = 0 /\ clients = {"schema", "cache"}
    BY Zenon, <1>2 DEF CreateInitialDatastores, ClientsCreated, MapInv, PhaseInv
  <2>2. UNCHANGED <<clients, datastores, ds, created, cache, overlapped, tx>> /\ phase' = "datastores"
    BY Zenon, <1>2 DEF CreateInitialDatastores
  <2>3. ASSUME NEW c \in Callers
        PROVE  admin'[c].pc = "idle" \/ (admin'[c].pc = "initial" /\ admin'[c].name = c /\ c \in Names)
    <3>1. CASE c \in scope.configured
      <4>1. c \in Names BY <3>1 DEF TypeOK
      <4>2. admin'[c] = [pc |-> "initial", name |-> c, i |-> 0, with |-> {}]
        BY Zenon, <1>2, <3>1 DEF CreateInitialDatastores
      <4> QED BY <4>1, <4>2
    <3>2. CASE c \notin scope.configured
      BY Zenon, <1>2, <3>2 DEF CreateInitialDatastores, Idle
    <3> QED BY Zenon, <3>1, <3>2
  <2>4. ASSUME NEW n \in Names PROVE datastores[n] = 0
    <3>1. NameInv(n) BY Zenon DEF MapInv
    <3> QED BY <2>1, <3>1 DEF NameInv
  <2>5. \A n \in Names : NameInv(n)' BY Zenon, <2>2, <2>4 DEF NameInv
  <2>6. 1..created' = {} BY SMTT(20), <2>1, <2>2
  <2>7. ASSUME NEW c \in Callers PROVE Apart(c)'
    <3>1. ASSUME NEW d \in Callers, Busy(d)' PROVE admin'[d].name = d /\ d \in Names
      BY Zenon, <2>3, <3>1 DEF Busy
    <3> QED BY Zenon, <3>1 DEF Apart
  <2>8. ASSUME NEW c \in Callers PROVE Knows(c)'
    BY <2>2, <2>3, <2>4 DEF Knows, CreateLabels, DeleteLabels
  <2>9. PhaseInv' BY <2>1, <2>2 DEF PhaseInv
  <2> QED BY Zenon, <2>5, <2>6, <2>7, <2>8, <2>9 DEF MapInv
<1>3. CASE Ready
  <2>1. phase = "datastores" /\ phase' = "ready"
        /\ UNCHANGED <<clients, datastores, ds, created, cache, admin, overlapped, tx>>
    BY Zenon, <1>3 DEF Ready
  <2>2. PhaseInv' BY <2>1 DEF MapInv, PhaseInv
  <2> QED BY Zenon, <2>1, <2>2 DEF MapInv, Apart, Knows, NameInv, DsInv, InMap, Adding, Busy
<1>4. ASSUME NEW c \in Callers, NEW n \in Names, CreateDataStore(c, n) \/ DeleteDataStore(c, n)
      PROVE  MapInv'
  <2>1. CASE CreateDataStore(c, n)
    <3>1. Begin(c, "new", n, 0) /\ admin[c].pc = "idle" /\ phase = "ready" /\ datastores[n] = 0
          /\ UNCHANGED <<clients, phase, datastores, ds, created, cache, overlapped, tx>>
      BY <2>1 DEF CreateDataStore, Idle, Admitted, Found
    <3> QED BY Zenon, <3>1, BeginKeepsMap
  <2>2. CASE DeleteDataStore(c, n)
    <3>1. Begin(c, "cancel", n, datastores[n]) /\ admin[c].pc = "idle" /\ phase = "ready"
          /\ datastores[n] # 0
          /\ UNCHANGED <<clients, phase, datastores, ds, created, cache, overlapped, tx>>
      BY <2>2 DEF DeleteDataStore, Idle, Admitted, Found
    <3>2. "cancel" # "new" OBVIOUS
    <3> QED BY Zenon, <3>1, <3>2, BeginKeepsMap
  <2> QED BY Zenon, <1>4, <2>1, <2>2
<1>12. ASSUME NEW c \in Callers, NewTreeFails(c) \/ AdminStep(c) PROVE MapInv'
  <2>0. Busy(c)
    BY <1>12
    DEF Busy, NewTreeFails, AdminStep, NewDatastore, AddLock, AddDatastore, StopCancel, StopClose,
        DeleteLock, DeleteDatastore
  <2>1. PICK n \in Names : n = admin[c].name BY Zenon, <2>0 DEF MapInv, Apart
  <2>2. PhaseInv /\ Apart(c) /\ Knows(c) /\ NameInv(n) BY Zenon DEF MapInv
  <2>3. 1..created \subseteq Datastores BY SMTT(20) DEF TypeOK, Datastores
  <2>4. \A i \in 1..created : DsInv(i) BY Zenon DEF MapInv
  <2>5. \A pc : pc # "idle" => \A i : Goto(c, pc, i) =>
          /\ admin'[c].pc = pc /\ admin'[c].i = i /\ admin'[c].name = n
          /\ admin'[c].with = admin[c].with
          /\ \A d \in Callers \ {c} : admin'[d] = admin[d]
    <3>1. ASSUME NEW pc, NEW i, Goto(c, pc, i)
          PROVE  /\ admin'[c].pc = pc /\ admin'[c].i = i /\ admin'[c].name = n
                 /\ admin'[c].with = admin[c].with
                 /\ \A d \in Callers \ {c} : admin'[d] = admin[d]
      <4>1. /\ admin'[c].pc = pc /\ admin'[c].i = i /\ admin'[c].name = admin[c].name
            /\ admin'[c].with = admin[c].with
            /\ \A d \in Callers \ {c} : admin'[d] = admin[d]
        BY SMTT(20), <3>1, GotoStep
      <4> QED BY Zenon, <2>1, <4>1
    <3> QED BY Zenon, <3>1
  <2>6. End(c) => ~Busy(c)' /\ (\A d \in Callers \ {c} : admin'[d] = admin[d])
                  /\ \A d \in Callers, i \in Datastores : Adding(d, i)' => d # c
    <3>1. End(c) => admin'[c].pc = "idle" /\ \A d \in Callers \ {c} : admin'[d] = admin[d]
      BY Zenon, EndStep
    <3> QED BY <3>1 DEF Busy, Adding
  <2>7. End(c) => Knows(c)'
    <3>1. End(c) => admin'[c].pc = "idle" BY Zenon, <2>6 DEF Busy
    <3> QED BY <3>1 DEF Knows, CreateLabels, DeleteLabels
  <2>8. \A i \in 1..created : i \in Datastores /\ ds[i].name \in Names BY Zenon, <2>3, <2>4 DEF DsInv
  <2>9. CASE NewTreeFails(c) /\ UNCHANGED admin
    <3>1. Frame /\ UNCHANGED tx BY Zenon, <2>9 DEF NewTreeFails
    <3> QED BY Zenon, <3>1, OthersKeepMap
  <2>10. CASE NewTreeFails(c) /\ ~UNCHANGED admin
    <3>1. admin[c].pc = "new" /\ End(c)
          /\ UNCHANGED <<clients, phase, datastores, ds, created, cache, overlapped, tx>>
      BY Zenon, <2>10 DEF NewTreeFails
    <3>2. NameInv(n)' BY Zenon, <2>2, <3>1 DEF NameInv
    <3>3. ASSUME NEW i \in 1..created, ds[i].name = n PROVE DsInv(i)'
      <4>1. ASSUME NEW d \in Callers, Adding(d, i) PROVE Adding(d, i)'
        <5>1. d # c BY <3>1, <4>1 DEF Adding
        <5> QED BY Zenon, <2>6, <3>1, <4>1, <5>1 DEF Adding
      <4> QED BY Zenon, <2>4, <3>1, <4>1 DEF DsInv, InMap
    <3>4. datastores'[n] \in {0, datastores[n]} \cup overlapped' BY Zenon, <3>1
    <3> QED BY Zenon, <1>0, <2>0, <2>1, <2>6, <2>7, <3>1, <3>2, <3>3, <3>4, CallKeepsMap
  <2>11. CASE NewDatastore(c)
    <3> USE DEF TypeOK, Datastores
    <3>1. created' = created + 1 /\ created' \in Datastores /\ cache' = cache \cup {n}
          /\ Goto(c, "lock", created') /\ admin[c].pc \in {"new", "initial"}
          /\ UNCHANGED <<clients, phase, datastores, overlapped, tx>>
      BY SMTT(20), <2>1, <2>11, ScopeBound DEF NewDatastore, InitCache
    <3>2. ds'[created'].name = n /\ \A i \in 1..created : ds'[i] = ds[i]
      BY <2>1, <2>3, <2>11, <3>1 DEF NewDatastore
    <3>3. /\ admin'[c].pc = "lock" /\ admin'[c].i = created' /\ admin'[c].name = n
          /\ admin'[c].with = admin[c].with
          /\ \A d \in Callers \ {c} : admin'[d] = admin[d]
      <4>1. "lock" # "idle" OBVIOUS
      <4> QED BY Zenon, <2>5, <3>1, <4>1
    <3>4. PhaseInv' BY Zenon, <2>0, <2>2, <3>1 DEF PhaseInv
    <3>5. ASSUME NEW d \in Callers PROVE Apart(d)'
      <4>1. Apart(d) BY Zenon DEF MapInv
      <4>2. \A e \in Callers : (Busy(e)' => Busy(e)) /\ admin'[e].name = admin[e].name
                               /\ admin'[e].with = admin[e].with
        BY Zenon, <2>0, <2>1, <3>3 DEF Busy
      <4> QED BY Zenon, <4>1, <4>2 DEF Apart
    <3>6. 1..created \subseteq 1..created' /\ created' \in 1..created' BY SMTT(20), <3>1
    <3>7. Knows(c)'
      <4>1. admin[c].with # {} \/ datastores[n] = 0
        BY Zenon, <2>1, <2>2, <3>1 DEF Knows, CreateLabels
      <4> QED BY <3>1, <3>2, <3>3, <3>6, <4>1 DEF Knows, CreateLabels, DeleteLabels
    <3>8. ASSUME NEW d \in Callers, d # c PROVE Knows(d)'
      <4>1. Knows(d) /\ admin'[d] = admin[d] BY Zenon, <3>3, <3>8 DEF MapInv
      <4>2. admin[d].pc \in {"lock", "add"} \cup DeleteLabels => ds'[admin[d].i] = ds[admin[d].i]
        BY <3>2, <4>1 DEF Knows
      <4> QED BY <3>1, <3>6, <4>1, <4>2 DEF Knows, CreateLabels, DeleteLabels
    <3>9. ASSUME NEW m \in Names PROVE NameInv(m)'
      <4>1. NameInv(m) BY Zenon DEF MapInv
      <4> QED BY Zenon, <3>1, <3>2, <3>6, <4>1 DEF NameInv
    <3>10. ASSUME NEW i \in 1..created PROVE DsInv(i)'
      <4>1. ASSUME NEW d \in Callers, Adding(d, i) PROVE Adding(d, i)'
        <5>1. d # c BY <3>1, <4>1 DEF Adding
        <5> QED BY Zenon, <3>3, <4>1, <5>1 DEF Adding
      <4> QED BY Zenon, <2>4, <3>1, <3>2, <4>1 DEF DsInv, InMap
    <3>11. ASSUME NEW i \in Datastores, i = created' PROVE DsInv(i)'
      <4>1. Adding(c, i)' BY Zenon, <3>3, <3>11 DEF Adding
      <4> QED BY Zenon, <3>2, <3>11, <4>1 DEF DsInv, InMap
    <3>12. \A i \in 1..created' : i \in 1..created \/ (i \in Datastores /\ i = created') BY <3>1
    <3> QED BY Zenon, <3>4, <3>5, <3>7, <3>8, <3>9, <3>10, <3>11, <3>12 DEF MapInv
  <2>12. CASE AddLock(c) \/ DeleteLock(c)
    <3>1. PICK pc \in {"add", "delete"} :
            /\ Goto(c, pc, admin[c].i)
            /\ admin[c].pc = IF pc = "add" THEN "lock" ELSE "dlock"
            /\ UNCHANGED <<clients, phase, datastores, ds, created, cache, overlapped, tx>>
      BY Zenon, <2>12 DEF AddLock, DeleteLock, Lock
    <3>2. /\ admin'[c].pc = pc /\ admin'[c].i = admin[c].i /\ admin'[c].name = n
          /\ admin'[c].with = admin[c].with
          /\ \A d \in Callers \ {c} : admin'[d] = admin[d]
      <4>1. pc # "idle" OBVIOUS
      <4> QED BY Zenon, <2>5, <3>1, <4>1
    <3>3. Knows(c)' BY <2>1, <2>2, <3>1, <3>2 DEF Knows, CreateLabels, DeleteLabels
    <3>4. NameInv(n)' BY Zenon, <2>2, <3>1 DEF NameInv
    <3>5. ASSUME NEW i \in 1..created PROVE DsInv(i)'
      <4>1. ASSUME NEW d \in Callers, Adding(d, i) PROVE Adding(d, i)'
        <5>1. CASE d = c BY <3>1, <3>2, <4>1, <5>1 DEF Adding
        <5>2. CASE d # c BY Zenon, <3>2, <4>1, <5>2 DEF Adding
        <5> QED BY Zenon, <5>1, <5>2
      <4> QED BY Zenon, <2>4, <3>1, <4>1 DEF DsInv, InMap
    <3>6. datastores'[n] \in {0, datastores[n]} \cup overlapped' BY Zenon, <3>1
    <3> QED BY Zenon, <1>0, <2>0, <2>1, <3>1, <3>2, <3>3, <3>4, <3>5, <3>6, CallKeepsMap
  <2>13. CASE AddDatastore(c)
    <3>1. /\ admin[c].pc = "add" /\ End(c) /\ Add(n, admin[c].i)
          /\ overlapped' = IF admin[c].with # {} THEN overlapped \cup {admin[c].i} ELSE overlapped
          /\ UNCHANGED <<clients, phase, ds, created, cache, tx>>
      BY Zenon, <2>1, <2>13 DEF AddDatastore
    <3>2. /\ admin[c].i \in 1..created /\ ds[admin[c].i].name = n
          /\ admin[c].with # {} \/ n \in cache
          /\ admin[c].with # {} \/ datastores[n] = 0
      BY Zenon, <2>1, <2>2, <3>1 DEF Knows, CreateLabels
    <3>3. overlapped \subseteq overlapped' /\ (admin[c].with # {} => admin[c].i \in overlapped')
      BY Zenon, <3>1
    <3>4. \A m \in Names \ {n} : datastores'[m] = datastores[m] BY Zenon, <3>1 DEF Add, TypeOK
    <3>5. datastores'[n] = IF datastores[n] = 0 THEN admin[c].i ELSE datastores[n]
      BY Zenon, <3>1 DEF Add, Found, TypeOK
    <3>6. NameInv(n)' BY Zenon, <2>2, <3>1, <3>2, <3>3, <3>5 DEF NameInv
    <3>7. admin[c].with = {} \/ datastores'[n] \in {0, datastores[n]} \cup overlapped'
      BY Zenon, <3>3, <3>5
    <3>8. ASSUME NEW i \in 1..created, ds[i].name = n PROVE DsInv(i)'
      <4>1. CASE i = admin[c].i BY Zenon, <3>1, <3>2, <3>3, <3>5, <3>8, <4>1 DEF DsInv, InMap
      <4>2. CASE i # admin[c].i
        <5>1. ASSUME NEW d \in Callers, Adding(d, i) PROVE Adding(d, i)'
          <6>1. d # c BY Zenon, <4>2, <5>1 DEF Adding
          <6> QED BY Zenon, <2>6, <3>1, <5>1, <6>1 DEF Adding
        <5>2. datastores[n] = i => datastores'[n] = i BY <3>5
        <5> QED BY Zenon, <2>4, <3>1, <3>3, <3>8, <5>1, <5>2 DEF DsInv, InMap
      <4> QED BY Zenon, <4>1, <4>2
    <3> QED
      BY Zenon, <1>0, <2>0, <2>1, <2>6, <2>7, <3>1, <3>3, <3>4, <3>6, <3>7, <3>8, CallKeepsMap
  <2>14. CASE StopCancel(c) \/ StopClose(c)
    <3>1. PICK pc \in {"close", "dlock"} :
            /\ Goto(c, pc, admin[c].i)
            /\ admin[c].pc = IF pc = "close" THEN "cancel" ELSE "close"
            /\ UNCHANGED <<clients, phase, datastores, created, cache, overlapped, tx>>
      BY Zenon, <2>14 DEF StopCancel, StopClose
    <3>2. /\ admin'[c].pc = pc /\ admin'[c].i = admin[c].i /\ admin'[c].name = n
          /\ admin'[c].with = admin[c].with
          /\ \A d \in Callers \ {c} : admin'[d] = admin[d]
      <4>1. pc # "idle" OBVIOUS
      <4> QED BY Zenon, <2>5, <3>1, <4>1
    <3>3. admin[c].i \in 1..created /\ datastores[n] \in {0, admin[c].i} \cup overlapped
      BY <2>1, <2>2, <3>1 DEF Knows, DeleteLabels
    <3>4. \A i \in Datastores : ds'[i].name = ds[i].name /\ (ds[i].cancelled => ds'[i].cancelled)
      <4>1. CASE StopCancel(c) BY <4>1 DEF StopCancel, StopContext, TypeOK, DsType
      <4>2. CASE StopClose(c) BY <4>2 DEF StopClose, TypeOK, DsType
      <4> QED BY Zenon, <2>14, <4>1, <4>2
    <3>5. ds'[admin[c].i].cancelled
      <4>1. CASE StopCancel(c) BY <2>3, <3>3, <4>1 DEF StopCancel, StopContext, TypeOK, DsType
      <4>2. CASE StopClose(c) BY Zenon, <2>2, <2>3, <3>3, <3>4, <4>2 DEF StopClose, Knows
      <4> QED BY Zenon, <2>14, <4>1, <4>2
    <3>6. Knows(c)' BY <2>1, <3>1, <3>2, <3>3, <3>5 DEF Knows, CreateLabels, DeleteLabels
    <3>7. NameInv(n)' BY Zenon, <2>2, <2>3, <3>1, <3>4 DEF NameInv
    <3>8. ASSUME NEW i \in 1..created, ds[i].name = n PROVE DsInv(i)'
      <4>1. ASSUME NEW d \in Callers, Adding(d, i) PROVE Adding(d, i)'
        <5>1. d # c BY <3>1, <4>1 DEF Adding
        <5> QED BY Zenon, <3>2, <4>1, <5>1 DEF Adding
      <4> QED BY Zenon, <2>4, <2>8, <3>1, <3>4, <4>1 DEF DsInv, InMap
    <3>9. datastores'[n] \in {0, datastores[n]} \cup overlapped' BY Zenon, <3>1
    <3> QED BY Zenon, <1>0, <2>0, <2>1, <3>1, <3>2, <3>4, <3>6, <3>7, <3>8, <3>9, CallKeepsMap
  <2>15. CASE DeleteDatastore(c)
    <3>1. admin[c].pc = "delete" /\ End(c) /\ Forget(n)
          /\ UNCHANGED <<clients, phase, ds, created, overlapped, tx>>
      BY Zenon, <2>1, <2>15 DEF DeleteDatastore
    <3>2. datastores[n] \in {0, admin[c].i} \cup overlapped /\ ds[admin[c].i].cancelled
      BY Zenon, <2>1, <2>2, <3>1 DEF Knows, DeleteLabels
    <3>3. datastores'[n] = 0
          /\ \A m \in Names \ {n} : datastores'[m] = datastores[m] /\ (m \in cache => m \in cache')
      BY Zenon, <3>1 DEF Forget, Found, TypeOK
    <3>4. NameInv(n)' BY Zenon, <3>3 DEF NameInv
    <3>5. ASSUME NEW i \in 1..created, ds[i].name = n PROVE DsInv(i)'
      <4>1. ASSUME NEW d \in Callers, Adding(d, i) PROVE Adding(d, i)'
        <5>1. d # c BY <3>1, <4>1 DEF Adding
        <5> QED BY Zenon, <2>6, <3>1, <4>1, <5>1 DEF Adding
      <4>2. datastores[n] = i => i \in overlapped \/ ds[i].cancelled BY <3>2
      <4> QED BY Zenon, <2>4, <3>1, <3>5, <4>1, <4>2 DEF DsInv, InMap
    <3>6. datastores'[n] \in {0, datastores[n]} \cup overlapped' BY Zenon, <3>3
    <3> QED BY Zenon, <1>0, <2>0, <2>1, <2>6, <2>7, <3>1, <3>3, <3>4, <3>5, <3>6, CallKeepsMap
  <2> QED
    BY Zenon, <1>12, <2>9, <2>10, <2>11, <2>12, <2>13, <2>14, <2>15 DEF AdminStep
<1>5. ASSUME NEW n \in Names, TxBegin(n) PROVE MapInv'
  <2>1. Frame /\ phase = "ready" BY Zenon, <1>5 DEF TxBegin, Admitted
  <2> QED BY Zenon, <2>1, OthersKeepMap
<1>6. CASE TxEnd
  <2>1. Frame /\ tx' = 0 BY Zenon, <1>6 DEF TxEnd
  <2> QED BY Zenon, <2>1, OthersKeepMap
<1>7. ASSUME NEW i \in Datastores, Connect(i) \/ ConnectFails(i) \/ GoroutineEnds(i) PROVE MapInv'
  <2>1. Frame /\ UNCHANGED tx
    BY SMTT(20), <1>7 DEF Connect, ConnectFails, GoroutineEnds, GoTo, TypeOK, DsType
  <2> QED BY Zenon, <2>1, OthersKeepMap
<1>8. ASSUME NEW i \in Datastores, CalculationFails(i) \/ ManagerStep(i) PROVE MapInv'
  <2>1. Frame /\ UNCHANGED tx
    BY <1>8
    DEF CalculationFails, ManagerStep, Tick, StartsSent, Calculated, UpdatesSent, EndsSent, Sent,
        SendStart, SendUpdate, SendEnd, SendTo, GoTo, TypeOK, DsType
  <2> QED BY Zenon, <2>1, OthersKeepMap
<1>9. ASSUME NEW s \in Streams, NEW n \in Names, WatchBegin(s, n) PROVE MapInv'
  <2>1. Frame /\ UNCHANGED tx BY Zenon, <1>9 DEF WatchBegin
  <2> QED BY Zenon, <2>1, OthersKeepMap
<1>10. ASSUME NEW s \in Streams, WatchDeviations(s) \/ StreamDone(s) \/ StopDeviationsWatch(s)
       PROVE  MapInv'
  <2>1. Frame /\ UNCHANGED tx BY Zenon, <1>10 DEF WatchDeviations, StreamDone, StopDeviationsWatch
  <2> QED BY Zenon, <2>1, OthersKeepMap
<1>11. CASE UNCHANGED vars
  <2>1. Frame /\ UNCHANGED tx BY Zenon, <1>11 DEF vars
  <2> QED BY Zenon, <2>1, OthersKeepMap
<1> QED
  BY Zenon, <1>1, <1>2, <1>3, <1>4, <1>5, <1>6, <1>7, <1>8, <1>9, <1>10, <1>11, <1>12
  DEF Next, Callers

\* The inductive invariant gives the invariant.
LEMMA MapMeansLife == TypeOK /\ MapInv => LifeInv
<1> SUFFICES ASSUME TypeOK, MapInv PROVE LifeInv
  BY Zenon
<1>1. ClientsBeforeUse BY SMTT(20) DEF ClientsBeforeUse, MapInv, PhaseInv, Busy, TypeOK
<1>2. NoOrphans BY Zenon DEF NoOrphans, MapInv, DsInv
<1>3. ListedHasCache BY Zenon DEF ListedHasCache, Found, MapInv, NameInv
<1>4. OneEntry BY Zenon DEF OneEntry, Found, MapInv, NameInv
<1> QED BY Zenon, <1>1, <1>2, <1>3, <1>4 DEF LifeInv

LEMMA MapInvariance == Spec => [](TypeOK /\ MapInv)
<1>1. TypeOK /\ MapInv /\ [Next]_vars => (TypeOK /\ MapInv)'
  BY Zenon, TypesKept, MapKept
<1> QED BY <1>1, Initially, PTL DEF Spec

\* Whatever calls, failures and goroutines interleave, calls of the same name included: nothing uses
\* a client that does not exist, what is listed under a name was created for it, and every datastore
\* whose creation overlapped no other call of its name is listed, or about to be, as long as it is
\* not stopped, and has its cache instance as long as it is listed (startDataServer,
\* CreateDataStore, DeleteDataStore).
THEOREM LifeInvariance == Spec => []LifeInv
BY MapInvariance, MapMeansLife, PTL

-----------------------------------------------------------------------------
(* The events of the deviation manager *)

InRun == {"start", "calc", "update", "end"}

\* A run has clients only while it lasts.
RunInv(i) ==
  /\ run[i].todo \subseteq run[i].clients
  /\ ds[i].go \notin InRun => run[i].clients = {}
  /\ ds[i].go = "calc" => run[i].todo = {}
  /\ created < i => ds[i].go = "none"

\* What a client of the run has been told.
ServedInv(i, s) ==
  s \in run[i].clients =>
    /\ stream[s].i = i /\ stream[s].pc \in {"watch", "done", "gone"}
    /\ ~Done(s) =>
         /\ ds[i].go = "start" =>
              told[s] \in IF s \in run[i].todo THEN {"none", "START", "END"} ELSE {"START"}
         /\ ds[i].go = "calc" => told[s] = "START"
         /\ ds[i].go = "update" => told[s] = IF s \in run[i].todo THEN "START" ELSE "UPDATE"
         /\ ds[i].go = "end" =>
              told[s] \in IF s \in run[i].todo THEN {"START", "UPDATE"} ELSE {"END"}

\* What a stream has been told that no run serves.
UnservedInv(s) ==
  /\ stream[s].pc \in {"register", "watch", "done"} => stream[s].i \in Datastores
  /\ stream[s].pc \in {"idle", "register"} => told[s] = "none"
  /\ stream[s].pc = "watch" /\ s \notin run[stream[s].i].clients
       => told[s] \in {"none", "START", "END"}

EventInv ==
  /\ \A i \in Datastores : RunInv(i)
  /\ \A i \in Datastores, s \in Streams : ServedInv(i, s)
  /\ \A s \in Streams : UnservedInv(s)

LEMMA EventInitially == Init => EventInv
<1> SUFFICES ASSUME Init PROVE EventInv
  BY Zenon
<1>1. \A i \in Datastores : run[i] = NoRun /\ ds[i].go = "none" BY Zenon DEF Init
<1>2. \A s \in Streams : stream[s].pc = "idle" /\ told[s] = "none" BY Zenon DEF Init, NoStream
<1> QED BY <1>1, <1>2 DEF EventInv, RunInv, ServedInv, UnservedInv, NoRun, InRun

\* The calls and the transactions touch neither runs nor streams.
LEMMA OthersKeepEvents ==
  ASSUME EventInv, UNCHANGED <<run, stream, told, created>>,
         \A i \in Datastores : ds'[i].go = ds[i].go
  PROVE  EventInv'
BY SMTT(20) DEF EventInv, RunInv, ServedInv, UnservedInv, Done

\* A step of the manager of datastore i: it has to keep what is said of i and of its streams.
LEMMA ManagerKeepsEvents ==
  ASSUME EventInv, NEW i \in Datastores, UNCHANGED <<stream, created>>,
         \A j \in Datastores \ {i} : run'[j] = run[j] /\ ds'[j].go = ds[j].go,
         \A s \in Streams : told'[s] # told[s] => stream[s].i = i,
         RunInv(i)', \A s \in Streams : ServedInv(i, s)',
         \A s \in Streams : stream[s].i = i => UnservedInv(s)'
  PROVE  EventInv'
<1>1. ASSUME NEW j \in Datastores \ {i} PROVE RunInv(j)'
  BY Zenon DEF EventInv, RunInv
<1>2. ASSUME NEW j \in Datastores \ {i}, NEW s \in Streams PROVE ServedInv(j, s)'
  <2>1. ServedInv(j, s) BY Zenon DEF EventInv
  <2> QED BY SMTT(20), <2>1 DEF ServedInv, Done
<1>3. ASSUME NEW s \in Streams, stream[s].i # i PROVE UnservedInv(s)'
  <2>1. UnservedInv(s) /\ told'[s] = told[s] BY Zenon, <1>3 DEF EventInv
  <2> QED BY Zenon, <1>3, <2>1 DEF UnservedInv
<1> QED BY Zenon, <1>1, <1>2, <1>3 DEF EventInv

\* A step of the stream s that changes only where it is.
LEMMA StreamKeepsEvents ==
  ASSUME TypeOK, EventInv, NEW s \in Streams, UNCHANGED <<run, told, created, ds>>,
         \A t \in Streams \ {s} : stream'[t] = stream[t],
         UnservedInv(s)',
         \/ stream[s].pc \in {"idle", "register"}
         \/ stream'[s].i = stream[s].i /\ stream'[s].pc \in {"done", "gone"}
  PROVE  EventInv'
<1>1. ASSUME NEW i \in Datastores PROVE RunInv(i)' BY Zenon DEF EventInv, RunInv
<1>2. ASSUME NEW i \in Datastores, NEW t \in Streams PROVE ServedInv(i, t)'
  <2>1. ServedInv(i, t) BY Zenon DEF EventInv
  <2>2. CASE t = s BY Zenon, <2>1, <2>2 DEF ServedInv, Done
  <2>3. CASE t # s
    <3>1. stream'[t] = stream[t] BY Zenon, <2>3
    <3> QED BY Zenon, <2>1, <3>1 DEF ServedInv, Done
  <2> QED BY Zenon, <2>2, <2>3
<1>3. ASSUME NEW t \in Streams \ {s} PROVE UnservedInv(t)' BY Zenon DEF EventInv, UnservedInv
<1> QED BY Zenon, <1>1, <1>2, <1>3 DEF EventInv

\* Sent, from one place of a run to the next.
LEMMA SentKeepsEvents ==
  ASSUME TypeOK, EventInv, NEW i \in Datastores, NEW pc, NEW next, NEW todo,
         Sent(i, pc, next, todo),
         <<pc, next, todo>> \in
           {<<"start", "calc", {}>>, <<"calc", "wait", {}>>, <<"calc", "update", Recipients(i)>>,
            <<"calc", "end", Recipients(i)>>, <<"update", "end", Recipients(i)>>,
            <<"end", "wait", {}>>}
  PROVE  EventInv'
<1> USE DEF TypeOK, RunType, DsType
<1>1. /\ UNCHANGED <<stream, told, created>> /\ ds[i].go = pc /\ run[i].todo = {}
      /\ run' = [run EXCEPT ![i] = IF next = "wait" THEN NoRun ELSE [@ EXCEPT !.todo = todo]]
      /\ ds'[i].go = next /\ \A j \in Datastores \ {i} : ds'[j].go = ds[j].go
  BY DEF Sent, GoTo
<1>2. RunInv(i) /\ (\A s \in Streams : ServedInv(i, s)) /\ \A s \in Streams : UnservedInv(s)
  BY Zenon DEF EventInv
<1>3. ~(created < i) BY Zenon, <1>1, <1>2 DEF RunInv
<1>4. CASE next = "wait"
  <2>1. run'[i].clients = {} /\ run'[i].todo = {} BY Zenon, <1>1, <1>4 DEF NoRun
  <2>2. RunInv(i)' BY Zenon, <1>1, <1>3, <1>4, <2>1 DEF RunInv
  <2>3. \A s \in Streams : ServedInv(i, s)' BY Zenon, <2>1 DEF ServedInv
  <2>4. ASSUME NEW s \in Streams, stream[s].i = i PROVE UnservedInv(s)'
    BY Zenon, <1>1, <1>2, <1>4, <2>1, <2>4 DEF UnservedInv, ServedInv, Done
  <2> QED BY Zenon, <1>1, <2>2, <2>3, <2>4, ManagerKeepsEvents
<1>5. CASE next # "wait"
  <2>1. run'[i].clients = run[i].clients /\ run'[i].todo = todo BY <1>1, <1>5
  <2>2. RunInv(i)' BY Zenon, <1>1, <1>2, <1>3, <1>5, <2>1 DEF RunInv, Recipients, InRun
  <2>3. ASSUME NEW s \in Streams PROVE ServedInv(i, s)'
    <3>1. ServedInv(i, s) BY Zenon, <1>2
    <3> QED BY Zenon, <1>1, <1>5, <2>1, <3>1 DEF ServedInv, Done, Recipients
  <2>4. ASSUME NEW s \in Streams, stream[s].i = i PROVE UnservedInv(s)'
    BY Zenon, <1>1, <1>2, <2>1, <2>4 DEF UnservedInv
  <2> QED BY Zenon, <1>1, <2>2, <2>3, <2>4, ManagerKeepsEvents
<1> QED BY Zenon, <1>4, <1>5

\* SendTo: the client of the run gets the event that is due.
LEMMA SendKeepsEvents ==
  ASSUME TypeOK, EventInv, NEW i \in Datastores, NEW s \in Streams, NEW pc, NEW event,
         SendTo(i, s, pc, event),
         <<pc, event>> \in {<<"start", "START">>, <<"update", "UPDATE">>, <<"end", "END">>}
  PROVE  EventInv'
<1> USE DEF TypeOK, RunType
<1>1. /\ UNCHANGED <<stream, created, ds>> /\ ds[i].go = pc /\ s \in run[i].todo
      /\ run' = [run EXCEPT ![i].todo = @ \ {s}]
      /\ told' = IF Done(s) THEN told ELSE [told EXCEPT ![s] = event]
  BY Zenon DEF SendTo, store
<1>2. RunInv(i) /\ (\A t \in Streams : ServedInv(i, t)) /\ \A t \in Streams : UnservedInv(t)
  BY Zenon DEF EventInv
<1>3. s \in run[i].clients /\ stream[s].i = i BY Zenon, <1>1, <1>2 DEF RunInv, ServedInv
<1>4. run'[i].clients = run[i].clients /\ run'[i].todo = run[i].todo \ {s}
      /\ \A j \in Datastores \ {i} : run'[j] = run[j]
  BY Zenon, <1>1
<1>5. RunInv(i)' BY Zenon, <1>1, <1>2, <1>4 DEF RunInv
<1>6. ASSUME NEW t \in Streams PROVE ServedInv(i, t)'
  <2>1. ServedInv(i, t) BY Zenon, <1>2
  <2>2. CASE t = s BY Zenon, <1>1, <1>4, <2>1, <2>2 DEF ServedInv, Done
  <2>3. CASE t # s
    <3>1. told'[t] = told[t] BY Zenon, <1>1, <2>3
    <3> QED BY Zenon, <1>1, <1>4, <2>1, <2>3, <3>1 DEF ServedInv, Done
  <2> QED BY Zenon, <2>2, <2>3
<1>7. ASSUME NEW t \in Streams, stream[t].i = i PROVE UnservedInv(t)'
  <2>1. UnservedInv(t) BY Zenon, <1>2
  <2>2. CASE t = s
    <3>1. stream[s].pc \in {"watch", "done", "gone"} BY Zenon, <1>2, <1>3 DEF ServedInv
    <3> QED BY Zenon, <1>1, <1>3, <1>4, <2>1, <2>2, <3>1 DEF UnservedInv
  <2>3. CASE t # s
    <3>1. told'[t] = told[t] BY Zenon, <1>1, <2>3
    <3> QED BY Zenon, <1>1, <1>4, <1>7, <2>1, <3>1 DEF UnservedInv
  <2> QED BY Zenon, <2>2, <2>3
<1>8. \A t \in Streams : told'[t] # told[t] => stream[t].i = i BY Zenon, <1>1, <1>3
<1> QED BY Zenon, <1>1, <1>4, <1>5, <1>6, <1>7, <1>8, ManagerKeepsEvents

LEMMA EventsKept == TypeOK /\ MapInv /\ EventInv /\ [Next]_vars => EventInv'
<1> SUFFICES ASSUME TypeOK, MapInv, EventInv, [Next]_vars PROVE EventInv'
  BY Zenon
<1> USE DEF startup, mapVars, store, watching
<1> DEFINE Frame == /\ UNCHANGED <<run, stream, told, created>>
                    /\ \A i \in Datastores : ds'[i].go = ds[i].go
<1>1. CASE CreateSchemaClient \/ CreateCacheClient \/ CreateInitialDatastores \/ Ready
  <2>1. Frame BY Zenon, <1>1 DEF CreateSchemaClient, CreateCacheClient, CreateInitialDatastores, Ready
  <2> QED BY Zenon, <2>1, OthersKeepEvents
<1>9. ASSUME NEW c \in Callers, NEW n \in Names, CreateDataStore(c, n) \/ DeleteDataStore(c, n)
      PROVE  EventInv'
  <2>1. Frame BY Zenon, <1>9 DEF CreateDataStore, DeleteDataStore
  <2> QED BY Zenon, <2>1, OthersKeepEvents
<1>2. ASSUME NEW c \in Callers, NewTreeFails(c) \/ AdminStep(c) PROVE EventInv'
  <2>1. CASE NewDatastore(c)
    <3>1. PICK k \in Datastores : k = created + 1
      BY SMTT(20), <2>1, ScopeBound, ServerAssumption DEF NewDatastore, Datastores, TypeOK
    <3>2. /\ UNCHANGED <<run, stream, told>> /\ created' = created + 1
          /\ ds'[k].go = "connect" /\ \A j \in Datastores \ {k} : ds'[j].go = ds[j].go
      BY Zenon, <2>1, <3>1 DEF NewDatastore, TypeOK
    <3>3. created \in Nat /\ k > created BY SMTT(20), <3>1 DEF TypeOK
    <3>4. run[k].clients = {} /\ run[k].todo = {} BY Zenon, <3>3 DEF EventInv, RunInv, InRun
    <3>5. ASSUME NEW j \in Datastores PROVE RunInv(j)'
      BY SMTT(20), <3>1, <3>2, <3>3, <3>4 DEF EventInv, RunInv, InRun, Datastores
    <3>6. ASSUME NEW j \in Datastores, NEW s \in Streams PROVE ServedInv(j, s)'
      BY SMTT(20), <3>2, <3>4 DEF EventInv, ServedInv, Done
    <3>7. ASSUME NEW s \in Streams PROVE UnservedInv(s)' BY Zenon, <3>2 DEF EventInv, UnservedInv
    <3> QED BY Zenon, <3>5, <3>6, <3>7 DEF EventInv
  <2>2. CASE StopCancel(c) \/ StopClose(c)
    <3>1. UNCHANGED <<run, stream, told, created>> BY Zenon, <2>2 DEF StopCancel, StopClose
    <3>2. ASSUME NEW i \in Datastores PROVE ds'[i].go = ds[i].go
      <4>1. CASE StopCancel(c) BY <4>1 DEF StopCancel, StopContext, TypeOK, DsType
      <4>2. CASE StopClose(c) BY <4>2 DEF StopClose, TypeOK, DsType
      <4> QED BY Zenon, <2>2, <4>1, <4>2
    <3> QED BY Zenon, <3>1, <3>2, OthersKeepEvents
  <2>3. CASE ~(NewDatastore(c) \/ StopCancel(c) \/ StopClose(c))
    <3>1. Frame
      BY Zenon, <1>2, <2>3
      DEF AdminStep, NewTreeFails, AddLock, DeleteLock, Lock, AddDatastore, DeleteDatastore
    <3> QED BY Zenon, <3>1, OthersKeepEvents
  <2> QED BY Zenon, <2>1, <2>2, <2>3
<1>3. CASE TxEnd \/ \E n \in Names : TxBegin(n)
  <2>1. Frame BY Zenon, <1>3 DEF TxEnd, TxBegin
  <2> QED BY Zenon, <2>1, OthersKeepEvents
<1>4. ASSUME NEW i \in Datastores, Connect(i) \/ ConnectFails(i) \/ GoroutineEnds(i) PROVE EventInv'
  <2>1. /\ UNCHANGED <<run, stream, told, created>> /\ \A j \in Datastores \ {i} : ds'[j].go = ds[j].go
        /\ ds[i].go \in {"connect", "retry", "wait"} /\ ds'[i].go \in {"retry", "wait", "ended"}
    BY <1>4 DEF Connect, ConnectFails, GoroutineEnds, GoTo, TypeOK, DsType
  <2>2. RunInv(i) BY Zenon DEF EventInv
  <2>3. RunInv(i)' /\ run'[i].clients = {} BY Zenon, <2>1, <2>2 DEF RunInv, InRun
  <2>4. \A s \in Streams : ServedInv(i, s)' BY Zenon, <2>3 DEF ServedInv
  <2>5. \A s \in Streams : UnservedInv(s)' BY Zenon, <2>1 DEF EventInv, UnservedInv
  <2> QED BY Zenon, <2>1, <2>3, <2>4, <2>5, ManagerKeepsEvents
<1>5. ASSUME NEW i \in Datastores, CalculationFails(i) \/ ManagerStep(i) PROVE EventInv'
  <2>1. CASE Tick(i)
    <3>1. PICK S \in SUBSET Clients(i) : run' = [run EXCEPT ![i] = [clients |-> S, todo |-> S]]
      BY Zenon, <2>1 DEF Tick, Snapshots
    <3>2. /\ UNCHANGED <<stream, told, created>> /\ ds[i].go = "wait" /\ ds'[i].go = "start"
          /\ \A j \in Datastores \ {i} : ds'[j].go = ds[j].go
      BY <2>1 DEF Tick, GoTo, TypeOK, DsType
    <3>3. /\ run'[i].clients = S /\ run'[i].todo = S
          /\ \A j \in Datastores \ {i} : run'[j] = run[j]
      BY Zenon, <3>1 DEF TypeOK
    <3>4. RunInv(i) /\ \A s \in Streams : UnservedInv(s) BY Zenon DEF EventInv
    <3>5. run[i].clients = {} BY Zenon, <3>2, <3>4 DEF RunInv, InRun
    <3>6. RunInv(i)' BY Zenon, <3>2, <3>3, <3>4 DEF RunInv, InRun
    <3>7. ASSUME NEW s \in Streams PROVE ServedInv(i, s)'
      <4>1. s \in S => stream[s].i = i /\ stream[s].pc \in {"watch", "done"} BY DEF Clients
      <4>2. s \in S /\ ~Done(s) => told[s] \in {"none", "START", "END"}
        BY Zenon, <3>4, <3>5, <4>1 DEF UnservedInv, Done
      <4> QED BY Zenon, <3>2, <3>3, <4>1, <4>2 DEF ServedInv, Done
    <3>8. ASSUME NEW s \in Streams, stream[s].i = i PROVE UnservedInv(s)'
      BY Zenon, <3>2, <3>4, <3>5, <3>8 DEF UnservedInv
    <3> QED BY Zenon, <3>2, <3>3, <3>6, <3>7, <3>8, ManagerKeepsEvents
  <2>2. CASE CalculationFails(i) BY Zenon, <2>2, SentKeepsEvents DEF CalculationFails
  <2>3. CASE StartsSent(i) BY Zenon, <2>3, SentKeepsEvents DEF StartsSent
  <2>4. CASE Calculated(i) BY Zenon, <2>4, SentKeepsEvents DEF Calculated
  <2>5. CASE UpdatesSent(i) BY Zenon, <2>5, SentKeepsEvents DEF UpdatesSent
  <2>6. CASE EndsSent(i) BY Zenon, <2>6, SentKeepsEvents DEF EndsSent
  <2>7. ASSUME NEW s \in Streams, SendStart(i, s) \/ SendUpdate(i, s) \/ SendEnd(i, s)
        PROVE  EventInv'
    BY Zenon, <2>7, SendKeepsEvents DEF SendStart, SendUpdate, SendEnd
  <2> QED BY Zenon, <1>5, <2>1, <2>2, <2>3, <2>4, <2>5, <2>6, <2>7 DEF ManagerStep
<1>6. ASSUME NEW s \in Streams, NEW n \in Names, WatchBegin(s, n) PROVE EventInv'
  <2>1. /\ UNCHANGED <<run, told, created, ds>> /\ stream[s].pc = "idle"
        /\ \A t \in Streams \ {s} : stream'[t] = stream[t]
        /\ stream'[s].i = datastores[n]
        /\ stream'[s].pc = IF datastores[n] # 0 THEN "register" ELSE "gone"
    BY Zenon, <1>6 DEF WatchBegin, At, Found, TypeOK
  <2>2. datastores[n] # 0 => datastores[n] \in Datastores
    BY ServerAssumption DEF TypeOK, Datastores
  <2>3. UnservedInv(s)' BY Zenon, <2>1, <2>2 DEF EventInv, UnservedInv
  <2> QED BY Zenon, <2>1, <2>3, StreamKeepsEvents
<1>7. ASSUME NEW s \in Streams, WatchDeviations(s) \/ StreamDone(s) \/ StopDeviationsWatch(s)
      PROVE  EventInv'
  <2>1. /\ UNCHANGED <<run, told, created, ds>> /\ stream'[s].i = stream[s].i
        /\ \A t \in Streams \ {s} : stream'[t] = stream[t]
        /\ <<stream[s].pc, stream'[s].pc>> \in
             {<<"register", "watch">>, <<"watch", "done">>, <<"done", "gone">>}
    BY <1>7 DEF WatchDeviations, StreamDone, StopDeviationsWatch, At, TypeOK
  <2>2. UnservedInv(s)' BY Zenon, <2>1 DEF EventInv, UnservedInv
  <2> QED BY Zenon, <2>1, <2>2, StreamKeepsEvents
<1>8. CASE UNCHANGED vars
  <2>1. Frame BY Zenon, <1>8 DEF vars
  <2> QED BY Zenon, <2>1, OthersKeepEvents
<1> QED BY Zenon, <1>1, <1>2, <1>3, <1>4, <1>5, <1>6, <1>7, <1>8, <1>9 DEF Next, Callers

\* Whatever streams come and go and however their peers coincide, a stream gets START before
\* anything else of a run, and END before the next run begins (DeviationMgr, SendDeviations).
THEOREM EventBrackets == Spec => EventsAreBracketed
<1> DEFINE Due(s) == told'[s] # told[s] =>
             <<told[s], told'[s]>> \in {<<"none", "START">>, <<"START", "UPDATE">>,
                                        <<"START", "END">>, <<"UPDATE", "END">>, <<"END", "START">>}
<1>1. TypeOK /\ EventInv /\ [Next]_vars => \A s \in Streams : Due(s)
  <2> SUFFICES ASSUME TypeOK, EventInv, [Next]_vars, NEW s \in Streams, told'[s] # told[s]
               PROVE  Due(s)
    BY Zenon
  <2> USE DEF startup, mapVars, store, watching
  <2>1. PICK i \in Datastores, t \in Streams :
          SendTo(i, t, "start", "START") \/ SendTo(i, t, "update", "UPDATE") \/ SendTo(i, t, "end", "END")
    <3>1. ~UNCHANGED told BY Zenon
    <3>2. ASSUME NEW c \in Callers, AdminStep(c) PROVE UNCHANGED told
      BY Zenon, <3>2
      DEF AdminStep, NewDatastore, AddLock, AddDatastore, StopCancel, StopClose, DeleteLock,
          DeleteDatastore, Lock
    <3>3. ASSUME NEW i \in Datastores,
                 CalculationFails(i) \/ Tick(i) \/ StartsSent(i) \/ Calculated(i)
                 \/ UpdatesSent(i) \/ EndsSent(i)
          PROVE  UNCHANGED told
      BY Zenon, <3>3
      DEF CalculationFails, Tick, StartsSent, Calculated, UpdatesSent, EndsSent, Sent
    <3>4. PICK i \in Datastores : CalculationFails(i) \/ ManagerStep(i)
      BY Zenon, <3>1, <3>2
      DEF Next, vars, CreateSchemaClient, CreateCacheClient, CreateInitialDatastores, Ready,
          CreateDataStore, NewTreeFails, DeleteDataStore, TxBegin, TxEnd, Connect, ConnectFails,
          GoroutineEnds, WatchBegin, WatchDeviations, StreamDone, StopDeviationsWatch
    <3> QED BY Zenon, <3>1, <3>3, <3>4 DEF ManagerStep, SendStart, SendUpdate, SendEnd
  <2>2. s = t /\ ~Done(s) BY Zenon, <2>1 DEF SendTo, TypeOK
  <2>3. RunInv(i) /\ ServedInv(i, s) BY Zenon DEF EventInv
  <2>4. s \in run[i].todo /\ s \in run[i].clients BY Zenon, <2>1, <2>2, <2>3 DEF SendTo, RunInv
  <2>5. CASE SendTo(i, t, "start", "START")
    BY Zenon, <2>2, <2>3, <2>4, <2>5 DEF SendTo, ServedInv, TypeOK
  <2>6. CASE SendTo(i, t, "update", "UPDATE")
    BY Zenon, <2>2, <2>3, <2>4, <2>6 DEF SendTo, ServedInv, TypeOK
  <2>7. CASE SendTo(i, t, "end", "END")
    BY Zenon, <2>2, <2>3, <2>4, <2>7 DEF SendTo, ServedInv, TypeOK
  <2> QED BY Zenon, <2>1, <2>5, <2>6, <2>7
<1>2. Spec => [](TypeOK /\ MapInv /\ EventInv)
  <2>1. TypeOK /\ MapInv /\ EventInv /\ [Next]_vars => (TypeOK /\ MapInv /\ EventInv)'
    BY Zenon, TypesKept, MapKept, EventsKept
  <2> QED BY <2>1, Initially, EventInitially, PTL DEF Spec
<1>3. TypeOK /\ EventInv /\ [Next]_vars => [\A s \in Streams : Due(s)]_vars
  BY Zenon, <1>1
<1> QED BY <1>2, <1>3, PTL DEF Spec, EventsAreBracketed
=============================================================================
