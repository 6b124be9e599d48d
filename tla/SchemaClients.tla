--------------------------- MODULE SchemaClients ---------------------------
(***************************************************************************)
(* What stands between the data server and the schema server: the remote   *)
(* client with its cache of responses (pkg/schema/remote.go) and, on top   *)
(* of it, the index a datastore keeps for its own schema                   *)
(* (pkg/datastore/clients/schema).  Callers either come in by the schema   *)
(* calls of the server (pkg/server/schema.go) or through the index.        *)
(*                                                                         *)
(* A response is the version of the schema it was taken from, with or      *)
(* without its description.  Every path of a schema is looked up the same  *)
(* way, so a key of the cache is the schema itself; the index holds one    *)
(* path of the schema Bound.                                               *)
(***************************************************************************)
EXTENDS Naturals, FiniteSets

CONSTANTS
  Callers,
  Schemas,
  Configs,      \* how the client may be configured and used
  Bound,        \* the schema the datastore is bound to
  MaxVersion,   \* bound: schemas created or reloaded
  TTL,          \* ticks an entry of the cache lives
  Nobody

ASSUME SchemaAssumption ==
  /\ Bound \in Schemas /\ Nobody \notin Callers \cup Schemas
  /\ MaxVersion \in Nat \ {0} /\ TTL \in Nat \ {0}
  /\ Configs \subseteq {f \in [cache : BOOLEAN, described : BOOLEAN, refresh : BOOLEAN,
                              bound : BOOLEAN, asks : [Callers -> Schemas]] :
                        f.bound => \A c \in Callers : f.asks[c] = Bound}

VARIABLES
  conf,     \* RemoteSchemaCache: whether there is one, with descriptions, with refresh on hit;
            \* whether the callers go through the index, and what they ask for
  server,   \* version of each schema at the schema server, 0 when it has none
  versions, \* versions given out so far
  cache,    \* schemaCache
  index,    \* the SchemaIndexEntry
  call,     \* what each caller is doing
  admin,    \* DeleteSchema: the schema, and the keys its Range has not visited
  raced     \* a GetSchema overlapped a DeleteSchema

vars == <<conf, server, versions, cache, index, call, admin, raced>>

None == [version |-> 0, described |-> FALSE, ttl |-> 0]
Error == [version |-> 0, described |-> FALSE]
Responses == [version : 0 .. MaxVersion, described : BOOLEAN]

IdleCall ==
  [pc |-> "idle", want |-> FALSE, loaded |-> FALSE,
   put |-> FALSE, rsp |-> Error]

Asked == {conf.asks[c] : c \in Callers}

IdleAdmin == [schema |-> Nobody, left |-> {}]

Init ==
  /\ conf \in Configs
  /\ server = [s \in Schemas |-> 0]
  /\ versions = 0
  /\ cache = [s \in Schemas |-> None]
  /\ index = [stored |-> FALSE, mu |-> Nobody, ready |-> FALSE, rsp |-> Error, fetches |-> 0]
  /\ call = [c \in Callers |-> IdleCall]
  /\ admin = IdleAdmin
  /\ raced = FALSE

Cached(s) == cache[s] # None

\* What a caller that did not ask for the description is given: a clone without it.
removeDescription(c, rsp) ==
  [rsp EXCEPT !.described = @ /\ (call[c].want \/ ~conf.described)]

-----------------------------------------------------------------------------
(* Retrieve of the index: LoadOrStore, the lock of the entry, the result *)

Retrieve(c) ==
  /\ conf.bound /\ call[c].pc = "idle"
  /\ call' = [call EXCEPT ![c] = [IdleCall EXCEPT !.pc = "lock", !.loaded = index.stored]]
  /\ index' = [index EXCEPT !.stored = TRUE]
  /\ UNCHANGED <<conf, server, versions, cache, admin, raced>>

\* An entry that is ready is returned under its lock, anything else is fetched under it.
RetrieveLock(c) ==
  /\ call[c].pc = "lock" /\ index.mu = Nobody
  /\ IF call[c].loaded /\ index.ready
       THEN /\ call' = [call EXCEPT ![c].pc = "done", ![c].rsp = index.rsp]
            /\ UNCHANGED <<index, raced>>
       ELSE /\ call' = [call EXCEPT ![c].pc = "get"]
            /\ index' = [index EXCEPT !.mu = c, !.fetches = @ + 1]
            /\ raced' = (raced \/ admin.schema = Bound)
  /\ UNCHANGED <<conf, server, versions, cache, admin>>

\* Response and error alike are kept for ever.
Settled(rsp) == [index EXCEPT !.mu = Nobody, !.ready = TRUE, !.rsp = rsp]

\* GetSchema returns, to Retrieve or to the caller.
Deliver(c, rsp) ==
  /\ call' = [call EXCEPT ![c].pc = "done", ![c].rsp = rsp]
  /\ index' = IF conf.bound THEN Settled(rsp) ELSE index

Return(c) ==
  /\ call[c].pc = "done"
  /\ call' = [call EXCEPT ![c] = IdleCall]
  /\ UNCHANGED <<conf, server, versions, cache, index, admin, raced>>

-----------------------------------------------------------------------------
(* GetSchema of the remote client *)

ServerGetSchema(c, want) ==
  /\ ~conf.bound /\ call[c].pc = "idle"
  /\ call' = [call EXCEPT ![c] = [IdleCall EXCEPT !.pc = "get", !.want = want]]
  /\ raced' = (raced \/ admin.schema = conf.asks[c])
  /\ UNCHANGED <<conf, server, versions, cache, index, admin>>

Bypassed(c) == ~conf.cache \/ (call[c].want /\ ~conf.described)

\* Mutant: every hit does.
Touched_Always(e) == [e EXCEPT !.ttl = TTL]

\* A hit restarts the life of the entry, unless the cache was built with refresh on hit.
Touched(e) == IF conf.refresh THEN e ELSE [e EXCEPT !.ttl = TTL]

\* Mutant: the cached response itself loses its description.
Hit_NoClone(c) ==
  LET s == conf.asks[c]
      e == cache[s]
      rsp == removeDescription(c, [version |-> e.version, described |-> e.described])
  IN  /\ call[c].pc = "get" /\ ~Bypassed(c) /\ Cached(s)
      /\ cache' = [cache EXCEPT ![s] = [Touched(e) EXCEPT !.described = rsp.described]]
      /\ Deliver(c, rsp)
      /\ UNCHANGED <<conf, server, versions, admin, raced>>

Hit(c) ==
  LET s == conf.asks[c]
      e == cache[s]
  IN  /\ call[c].pc = "get" /\ ~Bypassed(c) /\ Cached(s)
      /\ cache' = [cache EXCEPT ![s] = Touched(e)]
      /\ Deliver(c, removeDescription(c, [version |-> e.version, described |-> e.described]))
      /\ UNCHANGED <<conf, server, versions, admin, raced>>

Miss(c) ==
  /\ call[c].pc = "get" /\ (Bypassed(c) \/ ~Cached(conf.asks[c]))
  /\ call' = [call EXCEPT ![c].pc = "asked", ![c].put = ~Bypassed(c)]
  /\ UNCHANGED <<conf, server, versions, cache, index, admin, raced>>

\* The request that goes out asks for the description the cache is to hold.
ServerAnswers(c) ==
  LET v == server[conf.asks[c]]
      described == IF call[c].put THEN conf.described ELSE call[c].want
  IN  /\ call[c].pc = "asked"
      /\ call' = [call EXCEPT ![c].pc = "answered",
                              ![c].rsp = [version |-> v, described |-> described /\ v # 0]]
      /\ UNCHANGED <<conf, server, versions, cache, index, admin, raced>>

\* The connection broke, or the context of the caller ended.
QueryFails(c) ==
  /\ call[c].pc = "asked"
  /\ call' = [call EXCEPT ![c].pc = "answered"]
  /\ UNCHANGED <<conf, server, versions, cache, index, admin, raced>>

GetSchema(c) ==
  LET rsp == call[c].rsp
      entry == [version |-> rsp.version, described |-> rsp.described, ttl |-> TTL]
  IN  /\ call[c].pc = "answered"
      /\ cache' = IF call[c].put /\ rsp # Error
                    THEN [cache EXCEPT ![conf.asks[c]] = entry] ELSE cache
      /\ Deliver(c, removeDescription(c, rsp))
      /\ UNCHANGED <<conf, server, versions, admin, raced>>

\* The time of the cache: an entry whose time is over is gone.
Tick ==
  /\ \E s \in Schemas : Cached(s)
  /\ cache' = [s \in Schemas |->
                 IF cache[s].ttl > 1 THEN [cache[s] EXCEPT !.ttl = @ - 1] ELSE None]
  /\ UNCHANGED <<conf, server, versions, index, call, admin, raced>>

-----------------------------------------------------------------------------
(* The calls that change the schemas of the server *)

CreateSchema(s) ==
  /\ server[s] = 0 /\ versions < MaxVersion
  /\ versions' = versions + 1
  /\ server' = [server EXCEPT ![s] = versions + 1]
  /\ UNCHANGED <<conf, cache, index, call, admin, raced>>

ReloadSchema(s) ==
  /\ server[s] # 0 /\ versions < MaxVersion
  /\ versions' = versions + 1
  /\ server' = [server EXCEPT ![s] = versions + 1]
  /\ UNCHANGED <<conf, cache, index, call, admin, raced>>

InFlight(s) ==
  \E c \in Callers : conf.asks[c] = s /\ call[c].pc \in {"get", "asked", "answered"}

\* The schema server has deleted it; the Range over the cache begins.
DeleteSchema(s) ==
  /\ server[s] # 0 /\ admin = IdleAdmin
  /\ server' = [server EXCEPT ![s] = 0]
  /\ admin' = [schema |-> s, left |-> IF conf.cache THEN {k \in Schemas : Cached(k)} ELSE {}]
  /\ raced' = (raced \/ InFlight(s))
  /\ UNCHANGED <<conf, versions, cache, index, call>>

\* Mutant: the Range ends at the first item of another schema.
DeleteVisit_Ends(k) ==
  /\ k \in admin.left
  /\ cache' = IF k = admin.schema THEN [cache EXCEPT ![k] = None] ELSE cache
  /\ admin' = [admin EXCEPT !.left = IF k = admin.schema THEN @ \ {k} ELSE {}]
  /\ UNCHANGED <<conf, server, versions, index, call, raced>>

\* One item of the Range: those of the schema are deleted, the others passed over.
DeleteVisit(k) ==
  /\ k \in admin.left
  /\ cache' = IF k = admin.schema THEN [cache EXCEPT ![k] = None] ELSE cache
  /\ admin' = [admin EXCEPT !.left = @ \ {k}]
  /\ UNCHANGED <<conf, server, versions, index, call, raced>>

DeleteReturns ==
  /\ admin # IdleAdmin /\ admin.left = {}
  /\ admin' = IdleAdmin
  /\ UNCHANGED <<conf, server, versions, cache, index, call, raced>>

\* The handlers of the server pass the calls on.
ServerCreateSchema == \E s \in Asked : CreateSchema(s)
ServerReloadSchema == \E s \in Asked : ReloadSchema(s)
ServerDeleteSchema == \E s \in Asked : DeleteSchema(s)

-----------------------------------------------------------------------------
Step(c) ==
  \/ RetrieveLock(c) \/ Hit(c) \/ Miss(c) \/ GetSchema(c) \/ Return(c)
  \/ ServerAnswers(c) \/ QueryFails(c)

Next ==
  \/ \E c \in Callers : Retrieve(c) \/ Step(c)
  \/ \E c \in Callers, want \in BOOLEAN : ServerGetSchema(c, want)
  \/ Tick \/ DeleteReturns
  \/ ServerCreateSchema \/ ServerReloadSchema \/ ServerDeleteSchema
  \/ \E s \in Schemas : DeleteVisit(s)

\* Goroutines go on, a query is answered or fails, a mutex that is freed again and again is
\* got in the end (Go hands a starved mutex over), and time passes.
Fairness ==
  /\ \A c \in Callers : SF_vars(Step(c))
  /\ WF_vars(Tick)

Spec == Init /\ [][Next]_vars /\ Fairness

-----------------------------------------------------------------------------
(* Properties *)

Labels == {"idle", "lock", "get", "asked", "answered", "done"}
CallType == [pc : Labels, want : BOOLEAN, loaded : BOOLEAN, put : BOOLEAN, rsp : Responses]
EntryType == {None} \cup [version : 1 .. MaxVersion, described : BOOLEAN, ttl : 1 .. TTL]
IndexType ==
  [stored : BOOLEAN, mu : Callers \cup {Nobody}, ready : BOOLEAN, rsp : Responses, fetches : Nat]
AdminType == [schema : Schemas \cup {Nobody}, left : SUBSET Schemas]

\* Every variable has its type.
TypeOK ==
  /\ conf \in Configs
  /\ server \in [Schemas -> 0 .. MaxVersion]
  /\ versions \in 0 .. MaxVersion
  /\ cache \in [Schemas -> EntryType]
  /\ index \in IndexType
  /\ call \in [Callers -> CallType]
  /\ admin \in AdminType
  /\ raced \in BOOLEAN

\* Whoever asked for the description gets a response with it, and whoever did not gets none:
\* GetSchema serves both from one entry, whatever others were given from it before.
DescriptionAsAsked ==
  \A c \in Callers :
    call[c].pc = "done" /\ call[c].rsp # Error => call[c].rsp.described = call[c].want

\* After DeleteSchema nothing of the schema is served from the cache, as long as no GetSchema
\* overlapped the call (one that did may put its late answer back).
DeleteForgets ==
  \A s \in Schemas :
    ~raced /\ server[s] = 0 /\ admin.schema # s => ~Cached(s)

\* Retrieve fetches a path at most twice: the caller that stored the entry fetches even when
\* another one that found it came first.
FetchedAtMostTwice == index.fetches <= 2

\* Retrieve fetches a path once: whoever finds the entry leaves the fetch to its creator.
FetchedOnce == index.fetches <= 1

\* The variables have their types, every answer is described as asked, and the index does not
\* fetch again and again.
AnswerInv == TypeOK /\ DescriptionAsAsked /\ FetchedAtMostTwice

\* Every GetSchema and every Retrieve returns.
CallsReturn == \A c \in Callers : call[c].pc # "idle" ~> call[c].pc = "idle"

\* With refresh on hit set, what the schema server no longer holds leaves the cache in the end,
\* however often it is asked for.
StaleExpires ==
  conf.refresh => \A s \in Schemas : []<>(~Cached(s) \/ cache[s].version = server[s])

\* Calls return, and what is stale is not served for ever.
SchemaProgress == CallsReturn /\ StaleExpires
=============================================================================
