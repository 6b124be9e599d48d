------------------------- MODULE SchemaClientsProofs ------------------------
(***************************************************************************)
(* Proofs about SchemaClients, for any number of callers and schemas, any  *)
(* configuration of the cache and any time to live: a response has its     *)
(* description exactly when it was asked for, a path of the index is       *)
(* fetched at most twice, and a deleted schema leaves the cache.           *)
(***************************************************************************)
EXTENDS SchemaClients, TLAPS

-----------------------------------------------------------------------------
(* The inductive invariant *)

\* The description of what a call k holds, under the configuration f.
CallFits(k, f) ==
  /\ k.pc \in {"idle", "lock", "get", "asked"} => k.rsp = Error
  /\ k.put => f.cache /\ (k.want => f.described)
  /\ k.pc = "answered" =>
       k.rsp.described = (k.rsp.version # 0 /\ IF k.put THEN f.described ELSE k.want)
  /\ k.pc = "done" /\ k.rsp # Error => k.rsp.described = k.want
  /\ f.bound => ~k.want
  /\ k.pc = "lock" => f.bound

CallInv == \A c \in Callers : CallFits(call[c], conf)

\* There are entries only in a cache, with the descriptions it was configured for.
EntryFits(e, f) == e # None => f.cache /\ e.described = f.described
CacheInv == \A s \in Schemas : EntryFits(cache[s], conf)

\* A caller in GetSchema.
Getting(k) == k.pc \in {"get", "asked", "answered"}

\* A caller that created the entry of the index and has not locked it yet.
Creating(k) == k.pc = "lock" /\ ~k.loaded

\* The entry of the index: its lock is held by who fetches; who finds it free and not ready is the
\* first to fetch, and besides that one only its creator fetches.
IndexInv ==
  /\ ~index.rsp.described
  /\ ~conf.bound => index.mu = Nobody /\ index.fetches = 0
  /\ conf.bound => \A c \in Callers : Getting(call[c]) <=> index.mu = c
  /\ index.mu = Nobody => (index.fetches = 0 <=> ~index.ready)
  /\ index.mu # Nobody => index.fetches > 0
  /\ \A c, d \in Callers : Creating(call[c]) /\ Creating(call[d]) => c = d
  /\ index.fetches <= IF \E c \in Callers : Creating(call[c]) THEN 1 ELSE 2
  /\ ~index.stored => index.fetches = 0 /\ \A c \in Callers : call[c].pc # "lock"

\* Nothing brings a deleted schema back into the cache.
ForgetInv ==
  ~raced => \A s \in Schemas :
    /\ admin.schema = s => ~InFlight(s) /\ (Cached(s) => s \in admin.left)
    /\ server[s] = 0 /\ admin.schema # s => ~Cached(s)
    /\ server[s] = 0 => \A c \in Callers : conf.asks[c] = s /\ call[c].pc = "answered" => call[c].rsp = Error

-----------------------------------------------------------------------------
(* Types *)

LEMMA Fields ==
  /\ \A f \in Configs :
       /\ f.cache \in BOOLEAN /\ f.described \in BOOLEAN /\ f.refresh \in BOOLEAN /\ f.bound \in BOOLEAN
       /\ f.asks \in [Callers -> Schemas] /\ (f.bound => \A c \in Callers : f.asks[c] = Bound)
  /\ \A r \in Responses : r.version \in 0 .. MaxVersion /\ r.described \in BOOLEAN
  /\ \A k \in CallType :
       /\ k.pc \in Labels /\ k.want \in BOOLEAN /\ k.loaded \in BOOLEAN /\ k.put \in BOOLEAN /\ k.rsp \in Responses
       /\ k = [pc |-> k.pc, want |-> k.want, loaded |-> k.loaded, put |-> k.put, rsp |-> k.rsp]
  /\ \A i \in IndexType :
       /\ i.stored \in BOOLEAN /\ i.mu \in Callers \cup {Nobody} /\ i.ready \in BOOLEAN /\ i.rsp \in Responses
       /\ i.fetches \in Nat
  /\ \A a \in AdminType : a.schema \in Schemas \cup {Nobody} /\ a.left \in SUBSET Schemas
<1>1. \A f \in Configs :
       /\ f.cache \in BOOLEAN /\ f.described \in BOOLEAN /\ f.refresh \in BOOLEAN /\ f.bound \in BOOLEAN
       /\ f.asks \in [Callers -> Schemas] /\ (f.bound => \A c \in Callers : f.asks[c] = Bound)
  BY SchemaAssumption
<1>2. \A r \in Responses : r.version \in 0 .. MaxVersion /\ r.described \in BOOLEAN BY DEF Responses
<1>3. \A k \in CallType :
       /\ k.pc \in Labels /\ k.want \in BOOLEAN /\ k.loaded \in BOOLEAN /\ k.put \in BOOLEAN /\ k.rsp \in Responses
       /\ k = [pc |-> k.pc, want |-> k.want, loaded |-> k.loaded, put |-> k.put, rsp |-> k.rsp]
  BY DEF CallType
<1>4. \A i \in IndexType :
       /\ i.stored \in BOOLEAN /\ i.mu \in Callers \cup {Nobody} /\ i.ready \in BOOLEAN /\ i.rsp \in Responses
       /\ i.fetches \in Nat
  BY DEF IndexType
<1>5. \A a \in AdminType : a.schema \in Schemas \cup {Nobody} /\ a.left \in SUBSET Schemas BY DEF AdminType
<1> QED BY <1>1, <1>2, <1>3, <1>4, <1>5

Call(l, w, o, u, r) == [pc |-> l, want |-> w, loaded |-> o, put |-> u, rsp |-> r]

LEMMA IdleIsCall == IdleCall = Call("idle", FALSE, FALSE, FALSE, Error)
BY DEF IdleCall, Call

LEMMA IdleFields ==
  ASSUME NEW x
  PROVE  /\ [IdleCall EXCEPT !.pc = "lock", !.loaded = x] = Call("lock", FALSE, x, FALSE, Error)
         /\ [IdleCall EXCEPT !.pc = "get", !.want = x] = Call("get", x, FALSE, FALSE, Error)
<1>1. PICK f, e : f = FALSE /\ e = Error BY Zenon
<1>2. IdleCall = Call("idle", f, f, f, e) BY Zenon, <1>1, IdleIsCall
<1>3. [Call("idle", f, f, f, e) EXCEPT !.pc = "lock"] = Call("lock", f, f, f, e) BY DEF Call
<1>4. [Call("lock", f, f, f, e) EXCEPT !.loaded = x] = Call("lock", f, x, f, e) BY DEF Call
<1>5. [Call("idle", f, f, f, e) EXCEPT !.pc = "get"] = Call("get", f, f, f, e) BY DEF Call
<1>6. [Call("get", f, f, f, e) EXCEPT !.want = x] = Call("get", x, f, f, e) BY DEF Call
<1>7. [[IdleCall EXCEPT !.pc = "lock"] EXCEPT !.loaded = x] = Call("lock", f, x, f, e) BY Zenon, <1>2, <1>3, <1>4
<1>8. [[IdleCall EXCEPT !.pc = "get"] EXCEPT !.want = x] = Call("get", x, f, f, e) BY Zenon, <1>2, <1>5, <1>6
<1> QED BY Zenon, <1>1, <1>7, <1>8

\* The call of c is k afterwards, and those of the others are as before.
Becomes(c, k) ==
  /\ call' = [call EXCEPT ![c] = k] /\ call'[c] = k
  /\ \A d \in Callers : d # c => call'[d] = call[d]

\* How a call is changed.
LEMMA CallChange ==
  ASSUME call \in [Callers -> CallType], NEW c \in Callers, NEW l, NEW r, NEW u
  PROVE  /\ call' = [call EXCEPT ![c].pc = l] =>
              Becomes(c, Call(l, call[c].want, call[c].loaded, call[c].put, call[c].rsp))
         /\ call' = [call EXCEPT ![c].pc = l, ![c].rsp = r] =>
              Becomes(c, Call(l, call[c].want, call[c].loaded, call[c].put, r))
         /\ call' = [call EXCEPT ![c].pc = l, ![c].put = u] =>
              Becomes(c, Call(l, call[c].want, call[c].loaded, u, call[c].rsp))
         /\ call' = [call EXCEPT ![c] = r] => Becomes(c, r)
<1> DEFINE w == call[c].want
           o == call[c].loaded
           p == call[c].put
           x == call[c].rsp
           k == Call(l, w, o, p, x)
<1>1. [call[c] EXCEPT !.pc = l] = k
  <2>1. call[c] = [pc |-> call[c].pc, want |-> w, loaded |-> o, put |-> p, rsp |-> x] BY Fields
  <2> HIDE DEF w, o, p, x
  <2>2. PICK y : call[c] = [pc |-> y, want |-> w, loaded |-> o, put |-> p, rsp |-> x] BY <2>1
  <2> QED BY <2>2 DEF Call
<1> HIDE DEF w, o, p, x
<1>2. ASSUME call' = [call EXCEPT ![c].pc = l] PROVE Becomes(c, k)
  <2> HIDE DEF k
  <2> QED BY Zenon, <1>1, <1>2 DEF Becomes
<1>3. ASSUME call' = [call EXCEPT ![c].pc = l, ![c].rsp = r] PROVE Becomes(c, Call(l, w, o, p, r))
  <2>1. [k EXCEPT !.rsp = r] = Call(l, w, o, p, r) BY DEF Call
  <2> HIDE DEF k
  <2>2. [[call[c] EXCEPT !.pc = l] EXCEPT !.rsp = r] = Call(l, w, o, p, r) BY Zenon, <1>1, <2>1
  <2> QED BY Zenon, <1>3, <2>2 DEF Becomes
<1>4. ASSUME call' = [call EXCEPT ![c].pc = l, ![c].put = u] PROVE Becomes(c, Call(l, w, o, u, x))
  <2>1. [k EXCEPT !.put = u] = Call(l, w, o, u, x) BY DEF Call
  <2> HIDE DEF k
  <2>2. [[call[c] EXCEPT !.pc = l] EXCEPT !.put = u] = Call(l, w, o, u, x) BY Zenon, <1>1, <2>1
  <2> QED BY Zenon, <1>4, <2>2 DEF Becomes
<1>5. ASSUME call' = [call EXCEPT ![c] = r] PROVE Becomes(c, r)
  BY <1>5 DEF Becomes
<1> QED BY <1>2, <1>3, <1>4, <1>5 DEF w, o, p, x

\* What Hit and GetSchema deliver.
Cut(c, v, d) == [version |-> v, described |-> d /\ (call[c].want \/ ~conf.described)]

\* What each operation makes of the call of its caller.
LEMMA CallSteps ==
  ASSUME call \in [Callers -> CallType], NEW c \in Callers
  PROVE  /\ Retrieve(c) => Becomes(c, Call("lock", FALSE, index.stored, FALSE, Error))
         /\ \A want \in BOOLEAN : ServerGetSchema(c, want) => Becomes(c, Call("get", want, FALSE, FALSE, Error))
         /\ RetrieveLock(c) =>
              IF call[c].loaded /\ index.ready
                THEN Becomes(c, Call("done", call[c].want, call[c].loaded, call[c].put, index.rsp))
                ELSE Becomes(c, Call("get", call[c].want, call[c].loaded, call[c].put, call[c].rsp))
         /\ Hit(c) => Becomes(c, Call("done", call[c].want, call[c].loaded, call[c].put,
                        Cut(c, cache[conf.asks[c]].version, cache[conf.asks[c]].described)))
         /\ Miss(c) => Becomes(c, Call("asked", call[c].want, call[c].loaded, ~Bypassed(c), call[c].rsp))
         /\ ServerAnswers(c) =>
              Becomes(c, Call("answered", call[c].want, call[c].loaded, call[c].put,
                [version |-> server[conf.asks[c]],
                 described |-> (IF call[c].put THEN conf.described ELSE call[c].want) /\ server[conf.asks[c]] # 0]))
         /\ QueryFails(c) => Becomes(c, Call("answered", call[c].want, call[c].loaded, call[c].put, call[c].rsp))
         /\ GetSchema(c) => Becomes(c, Call("done", call[c].want, call[c].loaded, call[c].put,
                              Cut(c, call[c].rsp.version, call[c].rsp.described)))
         /\ Return(c) => Becomes(c, Call("idle", FALSE, FALSE, FALSE, Error))
<1>1. Retrieve(c) => Becomes(c, Call("lock", FALSE, index.stored, FALSE, Error))
  <2>1. [IdleCall EXCEPT !.pc = "lock", !.loaded = index.stored] = Call("lock", FALSE, index.stored, FALSE, Error)
    BY Zenon, IdleFields
  <2> QED BY Zenon, <2>1, CallChange DEF Retrieve
<1>2. ASSUME NEW want \in BOOLEAN, ServerGetSchema(c, want)
      PROVE  Becomes(c, Call("get", want, FALSE, FALSE, Error))
  <2>1. [IdleCall EXCEPT !.pc = "get", !.want = want] = Call("get", want, FALSE, FALSE, Error)
    BY Zenon, IdleFields
  <2> QED BY Zenon, <1>2, <2>1, CallChange DEF ServerGetSchema
<1>3. RetrieveLock(c) =>
        IF call[c].loaded /\ index.ready
          THEN Becomes(c, Call("done", call[c].want, call[c].loaded, call[c].put, index.rsp))
          ELSE Becomes(c, Call("get", call[c].want, call[c].loaded, call[c].put, call[c].rsp))
  BY Zenon, CallChange DEF RetrieveLock
<1>4. Hit(c) => Becomes(c, Call("done", call[c].want, call[c].loaded, call[c].put,
                  Cut(c, cache[conf.asks[c]].version, cache[conf.asks[c]].described)))
  <2>1. \A v, d : removeDescription(c, [version |-> v, described |-> d]) = Cut(c, v, d)
    BY DEF removeDescription, Cut
  <2> QED BY Zenon, <2>1, CallChange DEF Hit, Deliver
<1>5. Miss(c) => Becomes(c, Call("asked", call[c].want, call[c].loaded, ~Bypassed(c), call[c].rsp))
  BY Zenon, CallChange DEF Miss
<1>6. ServerAnswers(c) =>
        Becomes(c, Call("answered", call[c].want, call[c].loaded, call[c].put,
          [version |-> server[conf.asks[c]],
           described |-> (IF call[c].put THEN conf.described ELSE call[c].want) /\ server[conf.asks[c]] # 0]))
  BY Zenon, CallChange DEF ServerAnswers
<1>7. QueryFails(c) => Becomes(c, Call("answered", call[c].want, call[c].loaded, call[c].put, call[c].rsp))
  BY Zenon, CallChange DEF QueryFails
<1>8. GetSchema(c) => Becomes(c, Call("done", call[c].want, call[c].loaded, call[c].put,
                        Cut(c, call[c].rsp.version, call[c].rsp.described)))
  <2>1. call[c].rsp \in Responses BY Fields
  <2>2. \A r \in Responses : removeDescription(c, r) = Cut(c, r.version, r.described)
    BY DEF removeDescription, Cut, Responses
  <2> QED BY Zenon, <2>1, <2>2, CallChange DEF GetSchema, Deliver
<1>9. Return(c) => Becomes(c, Call("idle", FALSE, FALSE, FALSE, Error))
  BY Zenon, IdleIsCall, CallChange DEF Return
<1> QED BY Zenon, <1>1, <1>2, <1>3, <1>4, <1>5, <1>6, <1>7, <1>8, <1>9

-----------------------------------------------------------------------------
(* What the callers hold, and what the cache holds *)

CallerStep(c) == Retrieve(c) \/ (\E want \in BOOLEAN : ServerGetSchema(c, want)) \/ Step(c)

AdminStep ==
  \/ Tick \/ DeleteReturns
  \/ ServerCreateSchema \/ ServerReloadSchema \/ ServerDeleteSchema
  \/ \E s \in Schemas : DeleteVisit(s)

LEMMA NextCases == Next => (\E c \in Callers : CallerStep(c)) \/ AdminStep
BY DEF Next, CallerStep, AdminStep

\* The configuration is never changed, nor the calls by what is not a caller.
LEMMA ConfKept ==
  /\ \A c \in Callers : CallerStep(c) => conf' = conf /\ server' = server /\ versions' = versions /\ admin' = admin
  /\ AdminStep => conf' = conf /\ call' = call /\ index' = index
BY Zenon DEF CallerStep, Step, AdminStep, Retrieve, ServerGetSchema, RetrieveLock, Hit, Miss, GetSchema, Return,
       ServerAnswers, QueryFails, Tick, DeleteReturns, ServerCreateSchema, ServerReloadSchema, ServerDeleteSchema,
       CreateSchema, ReloadSchema, DeleteSchema, DeleteVisit

\* A response without its description is one, and so is one that was asked for.
LEMMA Answers ==
  /\ Error \in Responses
  /\ \A v \in 0 .. MaxVersion, d \in BOOLEAN : [version |-> v, described |-> d] \in Responses
  /\ \A e \in EntryType : e.version \in 0 .. MaxVersion /\ e.described \in BOOLEAN /\ (e # None => e.version # 0)
<1>1. Error \in Responses BY SchemaAssumption DEF Error, Responses
<1>2. \A v \in 0 .. MaxVersion, d \in BOOLEAN : [version |-> v, described |-> d] \in Responses BY DEF Responses
<1>3. \A e \in EntryType : e.version \in 0 .. MaxVersion /\ e.described \in BOOLEAN /\ (e # None => e.version # 0)
  <2>1. None.version = 0 /\ None.described = FALSE BY DEF None
  <2>2. 0 \in 0 .. MaxVersion /\ \A n \in 1 .. MaxVersion : n \in 0 .. MaxVersion /\ n # 0 BY SchemaAssumption
  <2>3. \A e \in [version : 1 .. MaxVersion, described : BOOLEAN, ttl : 1 .. TTL] :
          e.version \in 1 .. MaxVersion /\ e.described \in BOOLEAN
    OBVIOUS
  <2> QED BY Zenon, <2>1, <2>2, <2>3 DEF EntryType
<1> QED BY <1>1, <1>2, <1>3

\* What is delivered is described as asked.
LEMMA Delivered ==
  ASSUME NEW c \in Callers, call[c].want \in BOOLEAN, conf.described \in BOOLEAN,
         NEW v \in 0 .. MaxVersion, NEW d \in BOOLEAN,
         (d = (v # 0 /\ conf.described) /\ (call[c].want => conf.described)) \/ d = (v # 0 /\ call[c].want)
  PROVE  /\ Cut(c, v, d) \in Responses
         /\ Cut(c, v, d) # Error => Cut(c, v, d).described = call[c].want
<1> DEFINE w == call[c].want
           f == conf.described
           b == d /\ (w \/ ~f)
<1>1. b \in BOOLEAN OBVIOUS
<1>2. v # 0 => b = w OBVIOUS
<1>3. v = 0 => b = FALSE OBVIOUS
<1>4. Cut(c, v, d) = [version |-> v, described |-> b] BY DEF Cut
<1> HIDE DEF b, w
<1>5. [version |-> v, described |-> b] \in Responses BY <1>1, Answers
<1>6. [version |-> v, described |-> b].described = b OBVIOUS
<1>7. v = 0 => [version |-> v, described |-> b] = Error BY Zenon, <1>3 DEF Error
<1> QED BY <1>2, <1>4, <1>5, <1>6, <1>7 DEF w

\* What holds of the call that a caller's step leaves: the type, and CallFits.
LEMMA CallKept ==
  ASSUME TypeOK, CallInv, CacheInv, IndexInv, NEW c \in Callers, CallerStep(c)
  PROVE  /\ Becomes(c, call'[c])
         /\ call'[c] \in CallType
         /\ CallFits(call'[c], conf)
<1> DEFINE k == call[c]
           s == conf.asks[c]
<1>1. /\ conf \in Configs /\ index \in IndexType /\ call \in [Callers -> CallType]
      /\ cache \in [Schemas -> EntryType] /\ server \in [Schemas -> 0 .. MaxVersion]
  BY DEF TypeOK
<1>2. /\ k.want \in BOOLEAN /\ k.loaded \in BOOLEAN /\ k.put \in BOOLEAN /\ k.rsp \in Responses
      /\ conf.described \in BOOLEAN /\ index.stored \in BOOLEAN /\ index.rsp \in Responses /\ s \in Schemas
  BY <1>1, Fields
<1>3. CallFits(k, conf) BY DEF CallInv
<1>4. ~index.rsp.described BY DEF IndexInv
<1>5. \A l \in Labels, w, o, u \in BOOLEAN, r \in Responses : Call(l, w, o, u, r) \in CallType
  BY DEF Call, CallType
<1>6. \A l, w, o, u, r : /\ Call(l, w, o, u, r).pc = l /\ Call(l, w, o, u, r).want = w
                         /\ Call(l, w, o, u, r).put = u /\ Call(l, w, o, u, r).rsp = r
  BY DEF Call
<1>7. Error \in Responses BY Answers
<1>8. ASSUME NEW l \in {"idle", "lock", "get"}, NEW w \in BOOLEAN, NEW o, conf.bound => ~w, l = "lock" => conf.bound
      PROVE  CallFits(Call(l, w, o, FALSE, Error), conf)
  <2>1. PICK f \in BOOLEAN : f = FALSE BY Zenon
  <2>2. CallFits(Call(l, w, o, f, Error), conf) BY <1>6, <1>8, <2>1 DEF CallFits
  <2> QED BY Zenon, <2>1, <2>2
<1> HIDE DEF k, s
<1>a. CASE Retrieve(c)
  <2>1. Becomes(c, Call("lock", FALSE, index.stored, FALSE, Error)) BY Zenon, <1>a, <1>1, CallSteps
  <2>2. Call("lock", FALSE, index.stored, FALSE, Error) \in CallType BY Zenon, <1>5, <1>2, <1>7 DEF Labels
  <2>3. conf.bound BY <1>a DEF Retrieve
  <2>4. CallFits(Call("lock", FALSE, index.stored, FALSE, Error), conf) BY Zenon, <2>3, <1>8
  <2> QED BY Zenon, <2>1, <2>2, <2>4 DEF Becomes
<1>b. ASSUME NEW want \in BOOLEAN, ServerGetSchema(c, want)
      PROVE  /\ Becomes(c, call'[c])
             /\ call'[c] \in CallType
             /\ CallFits(call'[c], conf)
  <2>1. Becomes(c, Call("get", want, FALSE, FALSE, Error)) BY Zenon, <1>b, <1>1, CallSteps
  <2>2. Call("get", want, FALSE, FALSE, Error) \in CallType BY Zenon, <1>5, <1>7 DEF Labels
  <2>3. ~conf.bound BY <1>b DEF ServerGetSchema
  <2>4. CallFits(Call("get", want, FALSE, FALSE, Error), conf) BY Zenon, <2>3, <1>8
  <2> QED BY Zenon, <2>1, <2>2, <2>4 DEF Becomes
<1>c. CASE RetrieveLock(c)
  <2>1. k.pc = "lock" BY <1>c DEF RetrieveLock, k
  <2>2. ASSUME k.loaded, index.ready PROVE Becomes(c, Call("done", k.want, k.loaded, k.put, index.rsp))
    BY Zenon, <1>c, <1>1, <2>2, CallSteps DEF k
  <2>3. ASSUME ~(k.loaded /\ index.ready) PROVE Becomes(c, Call("get", k.want, k.loaded, k.put, k.rsp))
    BY Zenon, <1>c, <1>1, <2>3, CallSteps DEF k
  <2>4. Call("done", k.want, k.loaded, k.put, index.rsp) \in CallType BY <1>5, <1>2 DEF Labels
  <2>5. Call("get", k.want, k.loaded, k.put, k.rsp) \in CallType BY <1>5, <1>2 DEF Labels
  <2>6. index.rsp.described \in BOOLEAN BY <1>2, Fields
  <2>7. CallFits(Call("done", k.want, k.loaded, k.put, index.rsp), conf)
    BY <1>2, <1>3, <1>4, <1>6, <2>1, <2>6 DEF CallFits
  <2>8. CallFits(Call("get", k.want, k.loaded, k.put, k.rsp), conf) BY <1>3, <1>6, <2>1 DEF CallFits
  <2> QED BY <2>2, <2>3, <2>4, <2>5, <2>7, <2>8 DEF Becomes
<1>d. CASE Hit(c)
  <2> DEFINE r == Cut(c, cache[s].version, cache[s].described)
  <2>1. Becomes(c, Call("done", k.want, k.loaded, k.put, r)) BY Zenon, <1>d, <1>1, CallSteps DEF k, s
  <2>2. k.pc = "get" /\ ~Bypassed(c) /\ cache[s] # None BY <1>d DEF Hit, k, s, Cached
  <2>3. /\ cache[s].version \in 0 .. MaxVersion /\ cache[s].described \in BOOLEAN /\ cache[s].version # 0
        /\ cache[s].described = conf.described
    BY <1>1, <1>2, <2>2, Answers DEF CacheInv, EntryFits
  <2>4. k.want => conf.described BY <2>2 DEF Bypassed, k
  <2>5. r \in Responses /\ (r # Error => r.described = k.want)
    BY <1>2, <2>3, <2>4, Delivered DEF k
  <2> HIDE DEF r
  <2>6. Call("done", k.want, k.loaded, k.put, r) \in CallType BY <1>5, <1>2, <2>5 DEF Labels
  <2>7. CallFits(Call("done", k.want, k.loaded, k.put, r), conf) BY <1>3, <1>6, <2>5 DEF CallFits
  <2> QED BY Zenon, <2>1, <2>6, <2>7 DEF Becomes
<1>e. CASE Miss(c)
  <2>1. Becomes(c, Call("asked", k.want, k.loaded, ~Bypassed(c), k.rsp)) BY Zenon, <1>e, <1>1, CallSteps DEF k
  <2>2. k.pc = "get" BY <1>e DEF Miss, k
  <2>3. PICK u \in BOOLEAN : u = ~Bypassed(c) BY Zenon
  <2>4. u => conf.cache /\ (k.want => conf.described) BY Zenon, <2>3 DEF Bypassed, k
  <2>5. Call("asked", k.want, k.loaded, u, k.rsp) \in CallType BY <1>5, <1>2 DEF Labels
  <2>6. CallFits(Call("asked", k.want, k.loaded, u, k.rsp), conf) BY <1>3, <1>6, <2>2, <2>4 DEF CallFits
  <2> QED BY Zenon, <2>1, <2>3, <2>5, <2>6 DEF Becomes
<1>f. CASE ServerAnswers(c)
  <2>1. PICK d \in BOOLEAN : d = ((IF k.put THEN conf.described ELSE k.want) /\ server[s] # 0) BY Zenon
  <2> DEFINE r == [version |-> server[s], described |-> d]
  <2>2. Becomes(c, Call("answered", k.want, k.loaded, k.put, r)) BY Zenon, <1>f, <1>1, <2>1, CallSteps DEF k, s
  <2>3. server[s] \in 0 .. MaxVersion BY <1>1, <1>2
  <2>4. r \in Responses BY <2>3, Answers
  <2>5. r.version = server[s] /\ r.described = d OBVIOUS
  <2> HIDE DEF r
  <2>6. k.pc = "asked" BY <1>f DEF ServerAnswers, k
  <2>7. Call("answered", k.want, k.loaded, k.put, r) \in CallType BY <1>5, <1>2, <2>4 DEF Labels
  <2>8. CallFits(Call("answered", k.want, k.loaded, k.put, r), conf)
    BY <1>2, <1>3, <1>6, <2>1, <2>5 DEF CallFits
  <2> QED BY Zenon, <2>2, <2>7, <2>8 DEF Becomes
<1>g. CASE QueryFails(c)
  <2>1. Becomes(c, Call("answered", k.want, k.loaded, k.put, k.rsp)) BY Zenon, <1>g, <1>1, CallSteps DEF k
  <2>2. k.pc = "asked" BY <1>g DEF QueryFails, k
  <2>3. k.rsp = Error BY <1>3, <2>2 DEF CallFits
  <2>4. k.rsp.version = 0 /\ k.rsp.described = FALSE BY <2>3 DEF Error
  <2>5. Call("answered", k.want, k.loaded, k.put, k.rsp) \in CallType BY <1>5, <1>2 DEF Labels
  <2>6. CallFits(Call("answered", k.want, k.loaded, k.put, k.rsp), conf)
    <3>1. k.rsp.described = (k.rsp.version # 0 /\ IF k.put THEN conf.described ELSE k.want) BY Zenon, <2>4
    <3> QED BY <1>3, <1>6, <3>1 DEF CallFits
  <2> QED BY Zenon, <2>1, <2>5, <2>6 DEF Becomes
<1>h. CASE GetSchema(c)
  <2> DEFINE r == Cut(c, k.rsp.version, k.rsp.described)
  <2>1. Becomes(c, Call("done", k.want, k.loaded, k.put, r)) BY Zenon, <1>h, <1>1, CallSteps DEF k
  <2>2. k.pc = "answered" BY <1>h DEF GetSchema, k
  <2>3. k.rsp.version \in 0 .. MaxVersion /\ k.rsp.described \in BOOLEAN BY <1>2, Fields
  <2>4. /\ k.put /\ k.want => conf.described
        /\ k.rsp.described = (k.rsp.version # 0 /\ IF k.put THEN conf.described ELSE k.want)
    BY <1>3, <2>2 DEF CallFits
  <2>5. r \in Responses /\ (r # Error => r.described = k.want)
    BY Zenon, <1>2, <2>3, <2>4, Delivered DEF k
  <2> HIDE DEF r
  <2>6. Call("done", k.want, k.loaded, k.put, r) \in CallType BY <1>5, <1>2, <2>5 DEF Labels
  <2>7. CallFits(Call("done", k.want, k.loaded, k.put, r), conf) BY <1>3, <1>6, <2>5 DEF CallFits
  <2> QED BY Zenon, <2>1, <2>6, <2>7 DEF Becomes
<1>i. CASE Return(c)
  <2>1. Becomes(c, Call("idle", FALSE, FALSE, FALSE, Error)) BY Zenon, <1>i, <1>1, CallSteps
  <2>2. Call("idle", FALSE, FALSE, FALSE, Error) \in CallType BY Zenon, <1>5, <1>7 DEF Labels
  <2>3. CallFits(Call("idle", FALSE, FALSE, FALSE, Error), conf) BY Zenon, <1>8
  <2> QED BY Zenon, <2>1, <2>2, <2>3 DEF Becomes
<1> QED
  BY <1>a, <1>b, <1>c, <1>d, <1>e, <1>f, <1>g, <1>h, <1>i DEF CallerStep, Step

\* What happens to an entry: a hit touches it, time passes, a response is put.
LEMMA Entries ==
  /\ None \in EntryType
  /\ \A e \in EntryType : e # None => Touched(e) \in EntryType /\ Touched(e) # None /\ Touched(e).described = e.described
  /\ \A e \in EntryType : e.ttl > 1 =>
       /\ [e EXCEPT !.ttl = @ - 1] \in EntryType
       /\ [e EXCEPT !.ttl = @ - 1].described = e.described /\ e # None
  /\ \A r \in Responses : r.version # 0 =>
       /\ [version |-> r.version, described |-> r.described, ttl |-> TTL] \in EntryType
       /\ [version |-> r.version, described |-> r.described, ttl |-> TTL].described = r.described
<1> DEFINE E == [version : 1 .. MaxVersion, described : BOOLEAN, ttl : 1 .. TTL]
<1>1. None.version = 0 /\ None.ttl = 0 BY DEF None
<1>2. TTL \in 1 .. TTL BY SchemaAssumption
<1>3. \A e \in E : e.version # 0 /\ e.version \in 1 .. MaxVersion /\ e.described \in BOOLEAN /\ e.ttl \in 1 .. TTL
  BY SchemaAssumption
<1>4. \A e \in E : e # None BY <1>1, <1>3
<1>5. ASSUME NEW e \in EntryType, e # None
      PROVE  Touched(e) \in EntryType /\ Touched(e) # None /\ Touched(e).described = e.described
  <2>1. e \in E BY <1>5 DEF EntryType
  <2>2. [e EXCEPT !.ttl = TTL] \in E /\ [e EXCEPT !.ttl = TTL].described = e.described BY <1>2, <2>1
  <2> HIDE DEF E
  <2> QED BY <1>4, <2>1, <2>2 DEF Touched, EntryType, E
<1>6. ASSUME NEW e \in EntryType, e.ttl > 1
      PROVE  /\ [e EXCEPT !.ttl = @ - 1] \in EntryType
             /\ [e EXCEPT !.ttl = @ - 1].described = e.described /\ e # None
  <2>1. e # None BY <1>1, <1>6
  <2>2. e \in E BY <2>1 DEF EntryType
  <2>3. e.ttl - 1 \in 1 .. TTL BY <1>3, <1>6, <2>2, SchemaAssumption
  <2>4. [e EXCEPT !.ttl = e.ttl - 1] \in E /\ [e EXCEPT !.ttl = e.ttl - 1].described = e.described BY <2>2, <2>3
  <2> QED BY <2>1, <2>4 DEF EntryType
<1>7. ASSUME NEW r \in Responses, r.version # 0
      PROVE  /\ [version |-> r.version, described |-> r.described, ttl |-> TTL] \in EntryType
             /\ [version |-> r.version, described |-> r.described, ttl |-> TTL].described = r.described
  <2>1. r.version \in 1 .. MaxVersion /\ r.described \in BOOLEAN BY <1>7, Fields, SchemaAssumption
  <2>2. [version |-> r.version, described |-> r.described, ttl |-> TTL] \in E BY <1>2, <2>1
  <2> QED BY <2>2 DEF EntryType
<1>8. None \in EntryType BY DEF EntryType
<1> QED BY <1>5, <1>6, <1>7, <1>8

\* A step changes the cache in one of four ways.
CachePut(c) ==
  /\ GetSchema(c) /\ call[c].pc = "answered" /\ call[c].put /\ call[c].rsp # Error
  /\ cache' = [cache EXCEPT ![conf.asks[c]] =
                 [version |-> call[c].rsp.version, described |-> call[c].rsp.described, ttl |-> TTL]]

LEMMA CacheCases ==
  ASSUME Next
  PROVE  \/ cache' = cache
         \/ \E c \in Callers : Cached(conf.asks[c]) /\ cache' = [cache EXCEPT ![conf.asks[c]] = Touched(cache[conf.asks[c]])]
         \/ \E c \in Callers : CachePut(c)
         \/ Tick
         \/ \E k \in Schemas : k = admin.schema /\ cache' = [cache EXCEPT ![k] = None]
<1> DEFINE Same == cache' = cache
           Touch(c) == Cached(conf.asks[c]) /\ cache' = [cache EXCEPT ![conf.asks[c]] = Touched(cache[conf.asks[c]])]
           Drop(k) == k = admin.schema /\ cache' = [cache EXCEPT ![k] = None]
<1>1. ASSUME NEW c \in Callers, CallerStep(c) PROVE Same \/ Touch(c) \/ CachePut(c)
  <2>1. CASE Hit(c) BY <2>1 DEF Hit
  <2>2. CASE GetSchema(c) BY <2>2 DEF GetSchema, CachePut
  <2> QED
    BY Zenon, <1>1, <2>1, <2>2 DEF CallerStep, Step, Retrieve, ServerGetSchema, RetrieveLock, Miss, Return,
                            ServerAnswers, QueryFails
<1>2. ASSUME NEW k \in Schemas, DeleteVisit(k) PROVE Same \/ Drop(k)
  BY <1>2 DEF DeleteVisit
<1>3. ASSUME AdminStep PROVE Same \/ Tick \/ \E k \in Schemas : Drop(k)
  BY <1>2, <1>3 DEF AdminStep, DeleteReturns, ServerCreateSchema, ServerReloadSchema, ServerDeleteSchema,
                    CreateSchema, ReloadSchema, DeleteSchema
<1> QED BY <1>1, <1>3, NextCases

LEMMA PutFits ==
  ASSUME TypeOK, CallInv, NEW c \in Callers, CachePut(c)
  PROVE  /\ call[c].rsp \in Responses /\ call[c].rsp.version # 0
         /\ conf.cache /\ call[c].rsp.described = conf.described
<1>1. call[c].rsp \in Responses BY Fields DEF TypeOK
<1>2. call[c].pc = "answered" /\ call[c].put /\ call[c].rsp # Error BY DEF CachePut
<1>3. /\ conf.cache
      /\ call[c].rsp.described = (call[c].rsp.version # 0 /\ IF call[c].put THEN conf.described ELSE call[c].want)
  BY <1>2 DEF CallInv, CallFits
<1>4. \A r \in Responses : r.version = 0 /\ r.described = FALSE => r = Error BY DEF Responses, Error
<1>5. call[c].rsp.version # 0 BY Zenon, <1>1, <1>2, <1>3, <1>4
<1>6. conf.described \in BOOLEAN BY Fields DEF TypeOK
<1> QED BY <1>1, <1>2, <1>3, <1>5, <1>6

LEMMA CacheKept ==
  ASSUME TypeOK, CallInv, CacheInv, Next, conf' = conf
  PROVE  cache' \in [Schemas -> EntryType] /\ CacheInv'
<1>1. conf \in Configs /\ cache \in [Schemas -> EntryType] BY DEF TypeOK
<1>2. \A c \in Callers : conf.asks[c] \in Schemas BY <1>1, Fields
<1>3. \A s \in Schemas : EntryFits(cache[s], conf) BY DEF CacheInv
<1>4. SUFFICES cache' \in [Schemas -> EntryType] /\ \A s \in Schemas : EntryFits(cache'[s], conf)
  BY DEF CacheInv
<1>5. ASSUME NEW t \in Schemas, NEW e \in EntryType, EntryFits(e, conf), cache' = [cache EXCEPT ![t] = e]
      PROVE  cache' \in [Schemas -> EntryType] /\ \A s \in Schemas : EntryFits(cache'[s], conf)
  <2>1. cache' \in [Schemas -> EntryType] BY <1>1, <1>5
  <2>2. \A s \in Schemas : cache'[s] = e \/ cache'[s] = cache[s] BY <1>1, <1>5
  <2> QED BY <1>3, <1>5, <2>1, <2>2
<1>6. CASE cache' = cache BY <1>1, <1>3, <1>6
<1>7. ASSUME NEW c \in Callers, Cached(conf.asks[c]), cache' = [cache EXCEPT ![conf.asks[c]] = Touched(cache[conf.asks[c]])]
      PROVE  cache' \in [Schemas -> EntryType] /\ \A s \in Schemas : EntryFits(cache'[s], conf)
  <2>1. PICK t \in Schemas : t = conf.asks[c] BY <1>2
  <2>2. PICK e \in EntryType : e = Touched(cache[t]) BY <1>1, <1>7, <2>1, Entries DEF Cached
  <2>3. EntryFits(e, conf) BY <1>1, <1>3, <1>7, <2>1, <2>2, Entries DEF Cached, EntryFits
  <2> QED BY Zenon, <1>5, <1>7, <2>1, <2>2, <2>3
<1>8. ASSUME NEW c \in Callers, CachePut(c)
      PROVE  cache' \in [Schemas -> EntryType] /\ \A s \in Schemas : EntryFits(cache'[s], conf)
  <2>1. PICK t \in Schemas : t = conf.asks[c] BY <1>2
  <2>2. PICK e \in EntryType :
          /\ e = [version |-> call[c].rsp.version, described |-> call[c].rsp.described, ttl |-> TTL]
          /\ e.described = call[c].rsp.described
    <3>1. PICK r \in Responses : r = call[c].rsp /\ r.version # 0 BY <1>8, PutFits
    <3>2. /\ [version |-> r.version, described |-> r.described, ttl |-> TTL] \in EntryType
          /\ [version |-> r.version, described |-> r.described, ttl |-> TTL].described = r.described
      BY <3>1, Entries
    <3> QED BY <3>1, <3>2
  <2>3. EntryFits(e, conf) BY <1>8, <2>2, PutFits DEF EntryFits
  <2> QED BY Zenon, <1>5, <1>8, <2>1, <2>2, <2>3 DEF CachePut
<1>9. CASE Tick
  <2>1. cache' = [s \in Schemas |-> IF cache[s].ttl > 1 THEN [cache[s] EXCEPT !.ttl = @ - 1] ELSE None]
    BY <1>9 DEF Tick
  <2>2. \A s \in Schemas : cache[s].ttl > 1 =>
          /\ [cache[s] EXCEPT !.ttl = @ - 1] \in EntryType
          /\ [cache[s] EXCEPT !.ttl = @ - 1].described = cache[s].described /\ cache[s] # None
    BY <1>1, Entries
  <2>3. \A s \in Schemas : cache'[s] \in EntryType /\ EntryFits(cache'[s], conf)
    BY <1>3, <2>1, <2>2, Entries DEF EntryFits
  <2> QED BY <2>1, <2>3
<1>10. ASSUME NEW t \in Schemas, cache' = [cache EXCEPT ![t] = None]
       PROVE  cache' \in [Schemas -> EntryType] /\ \A s \in Schemas : EntryFits(cache'[s], conf)
  BY Zenon, <1>5, <1>10, Entries DEF EntryFits
<1> QED BY <1>6, <1>7, <1>8, <1>9, <1>10, CacheCases

-----------------------------------------------------------------------------
(* The index *)

\* The entry of the index after a step.
IndexIs(st, m, d, r, n) ==
  /\ index' \in IndexType
  /\ index'.stored = st /\ index'.mu = m /\ index'.ready = d /\ index'.rsp = r /\ index'.fetches = n

\* How the entry is changed.
LEMMA IndexChange ==
  ASSUME index \in IndexType, NEW m \in Callers \cup {Nobody}, NEW r \in Responses
  PROVE  /\ index' = index => IndexIs(index.stored, index.mu, index.ready, index.rsp, index.fetches)
         /\ index' = [index EXCEPT !.stored = TRUE] =>
              IndexIs(TRUE, index.mu, index.ready, index.rsp, index.fetches)
         /\ index' = [index EXCEPT !.mu = m, !.fetches = @ + 1] =>
              IndexIs(index.stored, m, index.ready, index.rsp, index.fetches + 1)
         /\ index' = [index EXCEPT !.mu = m, !.ready = TRUE, !.rsp = r] =>
              IndexIs(index.stored, m, TRUE, r, index.fetches)
<1>1. ASSUME index' = index PROVE IndexIs(index.stored, index.mu, index.ready, index.rsp, index.fetches)
  BY <1>1 DEF IndexIs
<1>2. ASSUME index' = [index EXCEPT !.stored = TRUE]
      PROVE  IndexIs(TRUE, index.mu, index.ready, index.rsp, index.fetches)
  BY Zenon, <1>2 DEF IndexIs, IndexType
<1>3. ASSUME index' = [index EXCEPT !.mu = m, !.fetches = @ + 1]
      PROVE  IndexIs(index.stored, m, index.ready, index.rsp, index.fetches + 1)
  <2>1. PICK n \in Nat : n = index.fetches + 1 BY Fields
  <2>2. index' = [index EXCEPT !.mu = m, !.fetches = n] BY <1>3, <2>1
  <2>3. IndexIs(index.stored, m, index.ready, index.rsp, n) BY Zenon, <2>2 DEF IndexIs, IndexType
  <2> QED BY <2>1, <2>3
<1>4. ASSUME index' = [index EXCEPT !.mu = m, !.ready = TRUE, !.rsp = r]
      PROVE  IndexIs(index.stored, m, TRUE, r, index.fetches)
  BY Zenon, <1>4 DEF IndexIs, IndexType
<1> QED BY Zenon, <1>1, <1>2, <1>3, <1>4

\* Where a caller goes in GetSchema, and where it comes out.
LEMMA Labelled ==
  ASSUME call \in [Callers -> CallType], NEW c \in Callers
  PROVE  /\ Retrieve(c) => call[c].pc = "idle" /\ call'[c].pc = "lock" /\ call'[c].loaded = index.stored
         /\ \A want \in BOOLEAN : ServerGetSchema(c, want) => call[c].pc = "idle" /\ call'[c].pc = "get"
         /\ RetrieveLock(c) => call[c].pc = "lock" /\ call'[c].pc = IF call[c].loaded /\ index.ready THEN "done" ELSE "get"
         /\ Hit(c) => call[c].pc = "get" /\ call'[c].pc = "done"
         /\ GetSchema(c) => call[c].pc = "answered" /\ call'[c].pc = "done"
         /\ Miss(c) => call[c].pc = "get" /\ call'[c].pc = "asked"
         /\ ServerAnswers(c) => call[c].pc = "asked" /\ call'[c].pc = "answered"
         /\ QueryFails(c) => call[c].pc = "asked" /\ call'[c].pc = "answered" /\ call'[c].rsp = call[c].rsp
         /\ Return(c) => call[c].pc = "done" /\ call'[c].pc = "idle"
<1>1. \A l, w, o, u, r :
        Becomes(c, Call(l, w, o, u, r)) => call'[c].pc = l /\ call'[c].loaded = o /\ call'[c].rsp = r
  BY DEF Becomes, Call
<1>2. Retrieve(c) => call[c].pc = "idle" /\ call'[c].pc = "lock" /\ call'[c].loaded = index.stored
  BY <1>1, CallSteps DEF Retrieve
<1>3. ASSUME NEW want \in BOOLEAN, ServerGetSchema(c, want) PROVE call[c].pc = "idle" /\ call'[c].pc = "get"
  BY Zenon, <1>1, <1>3, CallSteps DEF ServerGetSchema
<1>4. ASSUME RetrieveLock(c)
      PROVE  call[c].pc = "lock" /\ call'[c].pc = IF call[c].loaded /\ index.ready THEN "done" ELSE "get"
  <2>1. call[c].pc = "lock" BY <1>4 DEF RetrieveLock
  <2>2. CASE call[c].loaded /\ index.ready BY Zenon, <1>1, <1>4, <2>1, <2>2, CallSteps
  <2>3. CASE ~(call[c].loaded /\ index.ready)
    <3>1. \E w, o, u, r : Becomes(c, Call("get", w, o, u, r)) BY Zenon, <1>4, <2>3, CallSteps
    <3> QED BY <1>1, <2>1, <2>3, <3>1
  <2> QED BY <2>2, <2>3
<1>5. ASSUME Hit(c) PROVE call[c].pc = "get" /\ call'[c].pc = "done"
  <2>1. call[c].pc = "get" BY <1>5 DEF Hit
  <2>2. \E w, o, u, r : Becomes(c, Call("done", w, o, u, r)) BY Zenon, <1>5, CallSteps
  <2> QED BY <1>1, <2>1, <2>2
<1>6. ASSUME GetSchema(c) PROVE call[c].pc = "answered" /\ call'[c].pc = "done"
  <2>1. call[c].pc = "answered" BY <1>6 DEF GetSchema
  <2>2. \E w, o, u, r : Becomes(c, Call("done", w, o, u, r)) BY Zenon, <1>6, CallSteps
  <2> QED BY <1>1, <2>1, <2>2
<1>7. ASSUME Miss(c) PROVE call[c].pc = "get" /\ call'[c].pc = "asked"
  <2>1. call[c].pc = "get" BY <1>7 DEF Miss
  <2>2. \E w, o, u, r : Becomes(c, Call("asked", w, o, u, r)) BY Zenon, <1>7, CallSteps
  <2> QED BY <1>1, <2>1, <2>2
<1>8. ASSUME ServerAnswers(c) PROVE call[c].pc = "asked" /\ call'[c].pc = "answered"
  <2>1. call[c].pc = "asked" BY <1>8 DEF ServerAnswers
  <2>2. \E w, o, u, r : Becomes(c, Call("answered", w, o, u, r)) BY Zenon, <1>8, CallSteps
  <2> QED BY <1>1, <2>1, <2>2
<1>9. QueryFails(c) => call[c].pc = "asked" /\ call'[c].pc = "answered" /\ call'[c].rsp = call[c].rsp
  BY <1>1, CallSteps DEF QueryFails
<1>10. Return(c) => call[c].pc = "done" /\ call'[c].pc = "idle" BY Zenon, <1>1, CallSteps DEF Return
<1> QED BY <1>2, <1>3, <1>4, <1>5, <1>6, <1>7, <1>8, <1>9, <1>10

\* The lock of the entry, its state and the number of its fetches fit each other.
LEMMA IndexKept ==
  ASSUME TypeOK, CallInv, CacheInv, IndexInv, NEW c \in Callers, CallerStep(c)
  PROVE  index' \in IndexType /\ IndexInv'
<1>1. conf \in Configs /\ index \in IndexType /\ call \in [Callers -> CallType] BY DEF TypeOK
<1>2. /\ conf' = conf /\ conf.bound \in BOOLEAN /\ index.fetches \in Nat
      /\ index.mu \in Callers \cup {Nobody} /\ index.rsp \in Responses
      /\ index.ready \in BOOLEAN /\ index.stored \in BOOLEAN
  BY <1>1, Fields, ConfKept
<1>3. Becomes(c, call'[c]) /\ call'[c] \in CallType /\ CallFits(call'[c], conf) BY CallKept
<1>4. \A d \in Callers : d # c => call'[d] = call[d] BY <1>3 DEF Becomes
<1>5. call'[c].rsp \in Responses /\ call'[c].loaded \in BOOLEAN BY <1>3, Fields
<1>6. Nobody \notin Callers BY SchemaAssumption
<1> DEFINE Now(st, m, d, r, n) ==
             /\ ~r.described
             /\ ~conf.bound => m = Nobody /\ n = 0
             /\ conf.bound => \A x \in Callers : Getting(call'[x]) <=> m = x
             /\ m = Nobody => (n = 0 <=> ~d)
             /\ m # Nobody => n > 0
             /\ \A x, y \in Callers : Creating(call'[x]) /\ Creating(call'[y]) => x = y
             /\ n <= IF \E x \in Callers : Creating(call'[x]) THEN 1 ELSE 2
             /\ ~st => n = 0 /\ \A x \in Callers : call'[x].pc # "lock"
<1>7. ASSUME NEW st, NEW m, NEW d, NEW r, NEW n, IndexIs(st, m, d, r, n), Now(st, m, d, r, n)
      PROVE  index' \in IndexType /\ IndexInv'
  BY <1>2, <1>7 DEF IndexIs, IndexInv
<1> HIDE DEF Now
\* Nothing but the label changes, and not to or from "lock".
<1>8. ASSUME index' = index, Getting(call'[c]) <=> Getting(call[c]), ~Creating(call'[c]), ~Creating(call[c]),
             call'[c].pc # "lock"
      PROVE  index' \in IndexType /\ IndexInv'
  <2>1. IndexIs(index.stored, index.mu, index.ready, index.rsp, index.fetches) BY Zenon, <1>1, <1>2, <1>5, <1>8, IndexChange
  <2>2. \A x \in Callers : /\ Getting(call'[x]) <=> Getting(call[x])
                           /\ Creating(call'[x]) <=> Creating(call[x])
                           /\ call[x].pc # "lock" => call'[x].pc # "lock"
    BY <1>4, <1>8
  <2>3. Now(index.stored, index.mu, index.ready, index.rsp, index.fetches) BY <2>2 DEF IndexInv, Now
  <2> QED BY <1>7, <2>1, <2>3
<1>a. CASE Retrieve(c)
  <2>1. call[c].pc = "idle" /\ call'[c].pc = "lock" /\ call'[c].loaded = index.stored BY <1>a, <1>1, Labelled
  <2>2. conf.bound /\ index' = [index EXCEPT !.stored = TRUE] BY <1>a DEF Retrieve
  <2>3. IndexIs(TRUE, index.mu, index.ready, index.rsp, index.fetches) BY Zenon, <1>1, <1>2, <1>5, <2>2, IndexChange
  <2>4. \A x \in Callers : Getting(call'[x]) <=> Getting(call[x]) BY <1>4, <2>1 DEF Getting
  <2>5. CASE index.stored
    <3>1. \A x \in Callers : Creating(call'[x]) <=> Creating(call[x]) BY Zenon, <1>4, <2>1, <2>5 DEF Creating
    <3>2. Now(TRUE, index.mu, index.ready, index.rsp, index.fetches) BY <2>4, <3>1 DEF IndexInv, Now
    <3> QED BY Zenon, <1>7, <2>3, <3>2
  <2>6. CASE ~index.stored
    <3>1. index.fetches = 0 /\ \A x \in Callers : call[x].pc # "lock" BY <2>6 DEF IndexInv
    <3>2. \A x \in Callers : Creating(call'[x]) => x = c BY <1>4, <3>1 DEF Creating
    <3>3. Now(TRUE, index.mu, index.ready, index.rsp, index.fetches) BY <2>4, <3>1, <3>2 DEF IndexInv, Now
    <3> QED BY Zenon, <1>7, <2>3, <3>3
  <2> QED BY <1>2, <2>5, <2>6
<1>b. ASSUME NEW want \in BOOLEAN, ServerGetSchema(c, want) PROVE index' \in IndexType /\ IndexInv'
  <2>1. call[c].pc = "idle" /\ call'[c].pc = "get" BY <1>b, <1>1, Labelled
  <2>2. ~conf.bound /\ index' = index BY <1>b DEF ServerGetSchema
  <2>3. IndexIs(index.stored, index.mu, index.ready, index.rsp, index.fetches) BY Zenon, <1>1, <1>2, <1>5, <2>2, IndexChange
  <2>4. \A x \in Callers : /\ Creating(call'[x]) <=> Creating(call[x])
                           /\ call[x].pc # "lock" => call'[x].pc # "lock"
    BY <1>4, <2>1 DEF Creating
  <2>5. Now(index.stored, index.mu, index.ready, index.rsp, index.fetches) BY <2>2, <2>4 DEF IndexInv, Now
  <2> QED BY <1>7, <2>3, <2>5
<1>c. CASE RetrieveLock(c)
  <2>1. call[c].pc = "lock" BY <1>c, <1>1, Labelled
  <2>2. index.mu = Nobody /\ index.stored /\ conf.bound
    BY <1>c, <2>1 DEF RetrieveLock, IndexInv, CallInv, CallFits
  <2>3. CASE call[c].loaded /\ index.ready
    <3>1. call'[c].pc = "done" BY <1>c, <1>1, <2>3, Labelled
    <3>2. index' = index BY <1>c, <2>3 DEF RetrieveLock
    <3> QED BY SMTT(20), <1>8, <2>1, <2>3, <3>1, <3>2 DEF Getting, Creating
  <2>4. CASE ~(call[c].loaded /\ index.ready)
    <3>1. call'[c].pc = "get" BY <1>c, <1>1, <2>4, Labelled
    <3>2. index' = [index EXCEPT !.mu = c, !.fetches = @ + 1] BY <1>c, <2>4 DEF RetrieveLock
    <3>3. IndexIs(index.stored, c, index.ready, index.rsp, index.fetches + 1) BY Zenon, <1>1, <1>5, <3>2, IndexChange
    <3>4. \A x \in Callers : Getting(call'[x]) <=> c = x
      BY <1>4, <1>6, <2>2, <3>1 DEF Getting, IndexInv
    <3>5. \A x \in Callers : Creating(call'[x]) => x # c /\ Creating(call[x]) BY <1>4, <3>1 DEF Creating
    <3>6. index.fetches + 1 <= IF \E x \in Callers : Creating(call'[x]) THEN 1 ELSE 2
      <4>1. CASE Creating(call[c])
        <5>1. \A x \in Callers : ~Creating(call'[x]) BY <3>5, <4>1 DEF IndexInv
        <5>2. index.fetches <= 1 BY <4>1 DEF IndexInv
        <5> QED BY <1>2, <5>1, <5>2
      <4>2. CASE ~Creating(call[c])
        <5>1. ~index.ready BY <2>1, <2>4, <4>2 DEF Creating
        <5>2. index.fetches = 0 BY <2>2, <5>1 DEF IndexInv
        <5> QED BY <5>2
      <4> QED BY <4>1, <4>2
    <3>7. index.fetches + 1 > 0 BY <1>2
    <3>8. Now(index.stored, c, index.ready, index.rsp, index.fetches + 1)
      BY <1>6, <2>2, <3>4, <3>5, <3>6, <3>7 DEF IndexInv, Now
    <3> QED BY <1>7, <3>3, <3>8
  <2> QED BY <2>3, <2>4
<1>d. ASSUME call'[c].pc = "done", Getting(call[c]), Deliver(c, call'[c].rsp) PROVE index' \in IndexType /\ IndexInv'
  <2>1. CASE ~conf.bound
    <3>1. index' = index BY <1>d, <2>1 DEF Deliver
    <3>2. IndexIs(index.stored, index.mu, index.ready, index.rsp, index.fetches) BY Zenon, <1>1, <1>2, <1>5, <3>1, IndexChange
    <3>3. \A x \in Callers : /\ Creating(call'[x]) <=> Creating(call[x])
                             /\ call[x].pc # "lock" => call'[x].pc # "lock"
      BY <1>4, <1>d DEF Creating, Getting
    <3>4. Now(index.stored, index.mu, index.ready, index.rsp, index.fetches) BY <2>1, <3>3 DEF IndexInv, Now
    <3> QED BY <1>7, <3>2, <3>4
  <2>2. CASE conf.bound
    <3>1. index' = [index EXCEPT !.mu = Nobody, !.ready = TRUE, !.rsp = call'[c].rsp] BY <1>d, <2>2 DEF Deliver, Settled
    <3>2. IndexIs(index.stored, Nobody, TRUE, call'[c].rsp, index.fetches) BY Zenon, <1>1, <1>5, <3>1, IndexChange
    <3>3. index.mu = c BY <1>d, <2>2 DEF IndexInv
    <3>4. index.fetches > 0 BY <1>6, <3>3 DEF IndexInv
    <3>5. \A x \in Callers : ~Getting(call'[x]) BY <1>4, <1>d, <2>2, <3>3 DEF IndexInv, Getting
    <3>6. \A x \in Callers : Creating(call'[x]) <=> Creating(call[x]) BY <1>4, <1>d DEF Creating, Getting
    <3>7. ~call'[c].rsp.described
      <4>1. ~call'[c].want BY <1>3, <2>2 DEF CallFits
      <4>2. call'[c].rsp # Error => call'[c].rsp.described = call'[c].want BY <1>3, <1>d DEF CallFits
      <4>3. Error.described = FALSE BY DEF Error
      <4> QED BY <1>3, <4>1, <4>2, <4>3, Fields
    <3>8. index.stored BY <1>2, <3>4 DEF IndexInv
    <3>9. Now(index.stored, Nobody, TRUE, call'[c].rsp, index.fetches)
      BY <1>2, <1>6, <2>2, <3>4, <3>5, <3>6, <3>7, <3>8 DEF IndexInv, Now
    <3> QED BY Zenon, <1>7, <3>2, <3>9
  <2> QED BY <1>2, <2>1, <2>2
<1>e. ASSUME Hit(c) \/ GetSchema(c) PROVE index' \in IndexType /\ IndexInv'
  <2>1. call'[c].pc = "done" /\ Getting(call[c]) BY SMTT(20), <1>e, <1>1, Labelled DEF Getting
  <2>2. PICK r : Deliver(c, r) BY <1>e DEF Hit, GetSchema
  <2>3. call'[c].rsp = r
    <3>1. Becomes(c, Call("done", call[c].want, call[c].loaded, call[c].put, r)) BY Zenon, <1>1, <2>2, CallChange DEF Deliver
    <3> QED BY <3>1 DEF Becomes, Call
  <2> QED BY SMTT(20), <1>d, <2>1, <2>2, <2>3
<1>f. ASSUME Miss(c) \/ ServerAnswers(c) \/ QueryFails(c) PROVE index' \in IndexType /\ IndexInv'
  <2>1. /\ call[c].pc \in {"get", "asked"} /\ call'[c].pc \in {"asked", "answered"}
        /\ index' = index
    BY Zenon, <1>f, <1>1, Labelled DEF Miss, ServerAnswers, QueryFails
  <2> QED BY <1>8, <2>1 DEF Getting, Creating
<1>g. CASE Return(c)
  <2>1. call[c].pc = "done" /\ call'[c].pc = "idle" /\ index' = index BY Zenon, <1>g, <1>1, Labelled DEF Return
  <2> QED BY <1>8, <2>1 DEF Getting, Creating
<1> QED BY <1>a, <1>b, <1>c, <1>e, <1>f, <1>g DEF CallerStep, Step

-----------------------------------------------------------------------------
(* The schemas, their versions and DeleteSchema *)

\* CreateSchema or ReloadSchema of s.
NewVersion(s) ==
  /\ versions < MaxVersion /\ versions' = versions + 1
  /\ server' = [server EXCEPT ![s] = versions + 1]
  /\ UNCHANGED <<conf, cache, index, call, admin, raced>>

LEMMA AdminCases ==
  ASSUME conf \in Configs, AdminStep
  PROVE  \/ Tick
         \/ DeleteReturns
         \/ \E s \in Schemas : NewVersion(s) \/ DeleteSchema(s) \/ DeleteVisit(s)
<1>1. Asked \subseteq Schemas BY Fields DEF Asked
<1>2. \A s : CreateSchema(s) \/ ReloadSchema(s) => NewVersion(s) BY DEF CreateSchema, ReloadSchema, NewVersion
<1> QED BY <1>1, <1>2 DEF AdminStep, ServerCreateSchema, ServerReloadSchema, ServerDeleteSchema

LEMMA AdminTypes ==
  ASSUME TypeOK, AdminStep
  PROVE  /\ server' \in [Schemas -> 0 .. MaxVersion] /\ versions' \in 0 .. MaxVersion
         /\ admin' \in AdminType /\ raced' \in BOOLEAN
<1>1. /\ server \in [Schemas -> 0 .. MaxVersion] /\ versions \in 0 .. MaxVersion
      /\ admin \in AdminType /\ raced \in BOOLEAN /\ conf \in Configs
  BY DEF TypeOK
<1>2. 0 \in 0 .. MaxVersion BY SchemaAssumption
<1>3. CASE Tick BY <1>1, <1>3 DEF Tick
<1>4. IdleAdmin \in AdminType BY DEF IdleAdmin, AdminType
<1>5. CASE DeleteReturns BY <1>1, <1>4, <1>5 DEF DeleteReturns
<1>6. ASSUME NEW s \in Schemas, NewVersion(s)
      PROVE  /\ server' \in [Schemas -> 0 .. MaxVersion] /\ versions' \in 0 .. MaxVersion
             /\ admin' \in AdminType /\ raced' \in BOOLEAN
  <2>1. versions + 1 \in 0 .. MaxVersion BY <1>1, <1>6, SchemaAssumption DEF NewVersion
  <2>2. server' = [server EXCEPT ![s] = versions + 1] /\ versions' = versions + 1 /\ admin' = admin /\ raced' = raced
    BY <1>6 DEF NewVersion
  <2> QED BY <1>1, <2>1, <2>2
<1>7. ASSUME NEW s \in Schemas, DeleteSchema(s)
      PROVE  /\ server' \in [Schemas -> 0 .. MaxVersion] /\ versions' \in 0 .. MaxVersion
             /\ admin' \in AdminType /\ raced' \in BOOLEAN
  <2>1. PICK L \in SUBSET Schemas : L = IF conf.cache THEN {k \in Schemas : Cached(k)} ELSE {} BY Zenon
  <2>2. server' = [server EXCEPT ![s] = 0] /\ versions' = versions /\ admin' = [schema |-> s, left |-> L]
    BY <1>7, <2>1 DEF DeleteSchema
  <2>3. raced' \in BOOLEAN BY <1>1, <1>7 DEF DeleteSchema
  <2>4. admin' \in AdminType BY <2>2 DEF AdminType
  <2> QED BY <1>1, <1>2, <2>2, <2>3, <2>4
<1>8. ASSUME NEW k \in Schemas, DeleteVisit(k)
      PROVE  /\ server' \in [Schemas -> 0 .. MaxVersion] /\ versions' \in 0 .. MaxVersion
             /\ admin' \in AdminType /\ raced' \in BOOLEAN
  <2>1. server' = server /\ versions' = versions /\ raced' = raced /\ admin' = [admin EXCEPT !.left = @ \ {k}]
    BY <1>8 DEF DeleteVisit
  <2>2. admin' \in AdminType BY <1>1, <2>1 DEF AdminType
  <2> QED BY <1>1, <2>1, <2>2
<1> QED BY <1>1, <1>3, <1>5, <1>6, <1>7, <1>8, AdminCases

\* A caller enters GetSchema of a schema that is being deleted only with raced set.
LEMMA CallerRaces ==
  ASSUME TypeOK, NEW c \in Callers, CallerStep(c), CallInv
  PROVE  /\ raced' \in BOOLEAN /\ (raced => raced')
         /\ ~raced' /\ Getting(call'[c]) => Getting(call[c]) \/ admin.schema # conf.asks[c]
<1>1. raced \in BOOLEAN /\ call \in [Callers -> CallType] /\ conf \in Configs BY DEF TypeOK
<1>2. CASE Retrieve(c)
  <2>1. raced' = raced /\ call'[c].pc = "lock" BY <1>1, <1>2, Labelled DEF Retrieve
  <2> QED BY <1>1, <2>1 DEF Getting
<1>3. ASSUME NEW want \in BOOLEAN, ServerGetSchema(c, want)
      PROVE  raced' \in BOOLEAN /\ (raced => raced') /\ (~raced' => admin.schema # conf.asks[c])
  BY Zenon, <1>1, <1>3 DEF ServerGetSchema
<1>4. CASE RetrieveLock(c)
  <2>1. call[c].pc = "lock" BY <1>4 DEF RetrieveLock
  <2>2. conf.bound BY <2>1 DEF CallInv, CallFits
  <2>3. conf.asks[c] = Bound BY <1>1, <2>2, Fields
  <2>4. CASE call[c].loaded /\ index.ready
    <3>1. raced' = raced /\ call'[c].pc = "done" BY Zenon, <1>1, <1>4, <2>4, Labelled DEF RetrieveLock
    <3> QED BY <1>1, <3>1 DEF Getting
  <2>5. CASE ~(call[c].loaded /\ index.ready)
    <3>1. raced' = (raced \/ admin.schema = Bound) BY <1>4, <2>5 DEF RetrieveLock
    <3> QED BY Zenon, <1>1, <2>3, <3>1
  <2> QED BY <2>4, <2>5
<1>5. CASE Hit(c) \/ Miss(c) \/ GetSchema(c) \/ Return(c) \/ ServerAnswers(c) \/ QueryFails(c)
  <2>1. raced' = raced BY SMTT(20), <1>5 DEF Hit, Miss, GetSchema, Return, ServerAnswers, QueryFails
  <2>2. call'[c].pc = "idle" \/ Getting(call[c]) BY <1>1, <1>5, Labelled DEF Getting
  <2> QED BY <1>1, <2>1, <2>2 DEF Getting
<1> QED BY <1>2, <1>3, <1>4, <1>5 DEF CallerStep, Step

\* What the steps do to DeleteForgets and what it rests on, one schema at a time.
Forgets(s) ==
  /\ admin.schema = s => ~InFlight(s) /\ (Cached(s) => s \in admin.left)
  /\ server[s] = 0 /\ admin.schema # s => ~Cached(s)
  /\ server[s] = 0 => \A c \in Callers : conf.asks[c] = s /\ call[c].pc = "answered" => call[c].rsp = Error

LEMMA ForgetAll == ForgetInv <=> (~raced => \A s \in Schemas : Forgets(s))
BY DEF ForgetInv, Forgets

\* A schema that was not cached becomes cached only by a response that was put.
LEMMA StaysOut ==
  ASSUME TypeOK, Next, NEW s \in Schemas, ~Cached(s), conf' = conf
  PROVE  ~Cached(s)' \/ \E c \in Callers : CachePut(c) /\ conf.asks[c] = s
<1>1. conf \in Configs /\ cache \in [Schemas -> EntryType] BY DEF TypeOK
<1>2. \A c \in Callers : conf.asks[c] \in Schemas BY <1>1, Fields
<1>3. cache[s] = None BY DEF Cached
<1>4. CASE cache' = cache BY <1>3, <1>4 DEF Cached
<1>5. ASSUME NEW c \in Callers, Cached(conf.asks[c]), cache' = [cache EXCEPT ![conf.asks[c]] = Touched(cache[conf.asks[c]])]
      PROVE  ~Cached(s)'
  <2>1. conf.asks[c] # s BY <1>5
  <2>2. cache'[s] = cache[s] BY <1>1, <1>2, <1>5, <2>1
  <2> QED BY <1>3, <2>2 DEF Cached
<1>6. ASSUME NEW c \in Callers, CachePut(c), conf.asks[c] # s PROVE ~Cached(s)'
  <2>1. cache'[s] = cache[s] BY <1>1, <1>2, <1>6 DEF CachePut
  <2> QED BY <1>3, <2>1 DEF Cached
<1>7. CASE Tick
  <2>1. ~(None.ttl > 1) BY DEF None
  <2>2. cache'[s] = None BY <1>3, <1>7, <2>1 DEF Tick
  <2> QED BY <2>2 DEF Cached
<1>8. ASSUME NEW k \in Schemas, cache' = [cache EXCEPT ![k] = None] PROVE ~Cached(s)'
  <2>1. cache'[s] = None BY <1>1, <1>3, <1>8
  <2> QED BY <2>1 DEF Cached
<1> QED BY <1>4, <1>5, <1>6, <1>7, <1>8, CacheCases

\* Who puts a response is in GetSchema, with an answer of a schema the server has, or had.
LEMMA ForgetByCaller ==
  ASSUME TypeOK, CallInv, CacheInv, IndexInv, ForgetInv, Next, NEW c \in Callers, CallerStep(c), ~raced',
         NEW s \in Schemas
  PROVE  Forgets(s)'
<1>1. conf' = conf /\ server' = server /\ admin' = admin BY ConfKept
<1>2. ~raced BY CallerRaces
<1>3. Forgets(s) BY <1>2, ForgetAll
<1>4. call \in [Callers -> CallType] /\ conf \in Configs /\ server \in [Schemas -> 0 .. MaxVersion] BY DEF TypeOK
<1>5. Becomes(c, call'[c]) BY CallKept
<1>6. \A d \in Callers : d # c => call'[d] = call[d] BY <1>5 DEF Becomes
<1>7. \A d \in Callers : CachePut(d) /\ conf.asks[d] = s => InFlight(s) /\ server[s] # 0
  <2>1. SUFFICES ASSUME NEW d \in Callers, CachePut(d), conf.asks[d] = s PROVE InFlight(s) /\ server[s] # 0
    OBVIOUS
  <2>2. call[d].pc = "answered" /\ call[d].rsp # Error BY <2>1 DEF CachePut
  <2> QED BY <1>3, <2>1, <2>2 DEF InFlight, Forgets
<1>8. Cached(s)' => Cached(s) \/ (InFlight(s) /\ server[s] # 0) BY <1>1, <1>7, StaysOut
<1>9. ASSUME admin.schema = s PROVE ~InFlight(s)' /\ (Cached(s)' => s \in admin.left)
  <2>1. ~InFlight(s) /\ (Cached(s) => s \in admin.left) BY <1>3, <1>9 DEF Forgets
  <2>2. \A d \in Callers : conf.asks[d] = s => ~Getting(call[d]) BY <2>1 DEF InFlight, Getting
  <2>3. conf.asks[c] = s => ~Getting(call'[c]) BY <1>9, <2>2, CallerRaces
  <2>4. \A d \in Callers : conf.asks[d] = s => ~Getting(call'[d]) BY <1>6, <2>2, <2>3
  <2>5. ~InFlight(s)' BY <1>1, <2>4 DEF InFlight, Getting
  <2> QED BY <1>8, <2>1, <2>5
<1>10. ASSUME server[s] = 0, NEW d \in Callers, conf.asks[d] = s, call'[d].pc = "answered" PROVE call'[d].rsp = Error
  <2>1. CASE call[d].pc = "answered" /\ call'[d] = call[d] BY <1>3, <1>10, <2>1 DEF Forgets
  <2>2. CASE d = c
    <3>1. ServerAnswers(c) \/ QueryFails(c)
      BY SMTT(20), <1>4, <1>10, <2>2, Labelled DEF CallerStep, Step
    <3>2. CASE ServerAnswers(c)
      <4>1. \E w, o, u, b : Becomes(c, Call("answered", w, o, u, [version |-> server[s], described |-> b /\ server[s] # 0]))
        BY Zenon, <1>4, <1>10, <2>2, <3>2, CallSteps
      <4>2. \E w, o, u, b : call'[c] = Call("answered", w, o, u, [version |-> 0, described |-> FALSE])
        BY Zenon, <1>10, <4>1 DEF Becomes
      <4> QED BY <2>2, <4>2 DEF Call, Error
    <3>3. CASE QueryFails(c)
      <4>1. call[c].pc = "asked" /\ call'[c].rsp = call[c].rsp BY <1>4, <3>3, Labelled
      <4> QED BY <2>2, <4>1 DEF CallInv, CallFits
    <3> QED BY SMTT(20), <3>1, <3>2, <3>3
  <2> QED BY <1>6, <1>10, <2>1, <2>2
<1>11. server[s] = 0 /\ admin.schema # s => ~Cached(s)' BY <1>3, <1>8 DEF Forgets
<1> QED BY <1>1, <1>9, <1>10, <1>11 DEF Forgets

LEMMA ForgetByAdmin ==
  ASSUME TypeOK, CacheInv, ForgetInv, Next, AdminStep, ~raced', NEW s \in Schemas
  PROVE  Forgets(s)'
<1>1. conf' = conf /\ call' = call BY ConfKept
<1>2. /\ conf \in Configs /\ server \in [Schemas -> 0 .. MaxVersion] /\ versions \in 0 .. MaxVersion
      /\ admin \in AdminType /\ raced \in BOOLEAN /\ cache \in [Schemas -> EntryType]
  BY DEF TypeOK
<1>3. InFlight(s)' <=> InFlight(s) BY SMTT(20), <1>1 DEF InFlight
<1>4. \A d \in Callers : ~CachePut(d)
  BY <1>1, <1>2, Labelled DEF CachePut, TypeOK
<1>5. Cached(s)' => Cached(s) BY <1>1, <1>4, StaysOut
<1>6. Nobody # s BY SchemaAssumption
<1>7. CASE Tick
  <2>1. raced' = raced /\ server' = server /\ admin' = admin BY <1>7 DEF Tick
  <2>2. Forgets(s) BY <2>1, ForgetAll
  <2> QED BY <1>1, <1>3, <1>5, <2>1, <2>2 DEF Forgets
<1>8. CASE DeleteReturns
  <2>1. raced' = raced /\ server' = server /\ admin' = IdleAdmin /\ admin.left = {} BY <1>8 DEF DeleteReturns
  <2>2. Forgets(s) BY <2>1, ForgetAll
  <2>3. admin'.schema = Nobody BY <2>1 DEF IdleAdmin
  <2> QED BY <1>1, <1>3, <1>5, <1>6, <2>1, <2>2, <2>3 DEF Forgets
<1>9. ASSUME NEW t \in Schemas, NewVersion(t) PROVE Forgets(s)'
  <2>1. raced' = raced /\ admin' = admin /\ server' = [server EXCEPT ![t] = versions + 1] BY <1>9 DEF NewVersion
  <2>2. Forgets(s) BY <2>1, ForgetAll
  <2>3. server'[s] = 0 => server[s] = 0 BY <1>2, <2>1
  <2> QED BY <1>1, <1>3, <1>5, <2>1, <2>2, <2>3 DEF Forgets
<1>10. ASSUME NEW t \in Schemas, DeleteSchema(t) PROVE Forgets(s)'
  <2>1. /\ raced' = (raced \/ InFlight(t)) /\ server' = [server EXCEPT ![t] = 0] /\ cache' = cache
        /\ admin = IdleAdmin
        /\ admin' = [schema |-> t, left |-> IF conf.cache THEN {k \in Schemas : Cached(k)} ELSE {}]
    BY <1>10 DEF DeleteSchema
  <2>2. Forgets(s) /\ ~InFlight(t) BY Zenon, <2>1, ForgetAll
  <2>3. admin'.schema = t /\ admin'.left = IF conf.cache THEN {k \in Schemas : Cached(k)} ELSE {} BY <2>1
  <2>4. admin.schema # s BY <1>6, <2>1 DEF IdleAdmin
  <2>5. Cached(s) => conf.cache BY DEF CacheInv, EntryFits, Cached
  <2>6. CASE s = t
    <3>1. \A d \in Callers : conf.asks[d] = s => call'[d].pc # "answered" BY <1>1, <2>2, <2>6 DEF InFlight
    <3>2. Cached(s)' => s \in admin'.left BY <1>5, <2>3, <2>5
    <3> QED BY <1>1, <1>3, <2>2, <2>3, <2>6, <3>1, <3>2 DEF Forgets
  <2>7. CASE s # t
    <3>1. server'[s] = server[s] BY <1>2, <2>1, <2>7
    <3> QED BY <1>1, <1>5, <2>2, <2>3, <2>4, <2>7, <3>1 DEF Forgets
  <2> QED BY <2>6, <2>7
<1>11. ASSUME NEW k \in Schemas, DeleteVisit(k) PROVE Forgets(s)'
  <2>1. /\ raced' = raced /\ server' = server /\ admin' = [admin EXCEPT !.left = @ \ {k}]
        /\ cache' = IF k = admin.schema THEN [cache EXCEPT ![k] = None] ELSE cache
    BY <1>11 DEF DeleteVisit
  <2>2. Forgets(s) BY <2>1, ForgetAll
  <2>3. admin'.schema = admin.schema /\ admin'.left = admin.left \ {k} BY <1>2, <2>1 DEF AdminType
  <2>4. admin.schema = s /\ Cached(s)' => s # k
    <3>1. SUFFICES ASSUME admin.schema = s, s = k PROVE cache'[s] = None BY DEF Cached
    <3> QED BY <1>2, <2>1, <3>1
  <2> QED BY <1>1, <1>3, <1>5, <2>1, <2>2, <2>3, <2>4 DEF Forgets
<1> QED BY <1>2, <1>7, <1>8, <1>9, <1>10, <1>11, AdminCases

-----------------------------------------------------------------------------
(* The theorems *)

IInv == TypeOK /\ CallInv /\ CacheInv /\ IndexInv /\ ForgetInv

LEMMA Initially == Init => IInv
<1> SUFFICES ASSUME Init PROVE IInv OBVIOUS
<1>1. /\ conf \in Configs /\ server = [s \in Schemas |-> 0] /\ versions = 0 /\ raced = FALSE
      /\ cache = [s \in Schemas |-> None] /\ call = [c \in Callers |-> IdleCall] /\ admin = IdleAdmin
      /\ index = [stored |-> FALSE, mu |-> Nobody, ready |-> FALSE, rsp |-> Error, fetches |-> 0]
  BY DEF Init
<1>2. Error \in Responses /\ None \in EntryType BY Answers, Entries
<1>3. IdleCall.pc = "idle" /\ IdleCall.want = FALSE /\ IdleCall.put = FALSE /\ IdleCall.rsp = Error BY DEF IdleCall
<1>4. IdleCall \in CallType BY <1>2 DEF IdleCall, CallType, Labels
<1>5. index \in IndexType BY <1>1, <1>2 DEF IndexType
<1>6. IdleAdmin \in AdminType /\ IdleAdmin.schema = Nobody BY DEF IdleAdmin, AdminType
<1>7. TypeOK
  <2>1. 0 \in 0 .. MaxVersion BY SchemaAssumption
  <2> QED BY Zenon, <1>1, <1>2, <1>4, <1>5, <1>6, <2>1 DEF TypeOK
<1>8. \A c \in Callers : call[c] = IdleCall BY <1>1
<1>9. \A c \in Callers : call[c].pc = "idle" BY <1>3, <1>8
<1>10. CallInv
  <2>1. CallFits(IdleCall, conf) BY <1>3 DEF CallFits
  <2> QED BY <1>8, <2>1 DEF CallInv
<1>11. \A s \in Schemas : cache[s] = None BY <1>1
<1>12. CacheInv BY <1>11 DEF CacheInv, EntryFits
<1>13. IndexInv
  <2>1. Error.described = FALSE BY DEF Error
  <2>2. \A c \in Callers : ~Getting(call[c]) /\ ~Creating(call[c]) BY <1>9 DEF Getting, Creating
  <2>3. Nobody \notin Callers BY SchemaAssumption
  <2>4. /\ index.stored = FALSE /\ index.mu = Nobody /\ index.ready = FALSE /\ index.rsp = Error
        /\ index.fetches = 0
    BY <1>1
  <2> QED BY <1>9, <2>1, <2>2, <2>3, <2>4 DEF IndexInv
<1>14. ForgetInv
  <2>1. \A s \in Schemas : admin.schema # s BY <1>1, <1>6, SchemaAssumption
  <2> QED BY <1>9, <1>11, <2>1 DEF ForgetInv, Cached
<1> QED BY <1>7, <1>10, <1>12, <1>13, <1>14 DEF IInv

LEMMA Inductive == IInv /\ [Next]_vars => IInv'
<1> SUFFICES ASSUME IInv, [Next]_vars PROVE IInv' OBVIOUS
<1> USE DEF IInv
<1>1. CASE UNCHANGED vars
  BY Zenon, <1>1 DEF vars, TypeOK, CallInv, CacheInv, IndexInv, ForgetInv, InFlight, Cached
<1>2. CASE Next
  <2>1. conf' = conf /\ conf' \in Configs BY <1>2, NextCases, ConfKept DEF TypeOK
  <2>2. cache' \in [Schemas -> EntryType] /\ CacheInv' BY <1>2, <2>1, CacheKept
  <2>3. ASSUME NEW c \in Callers, CallerStep(c) PROVE IInv'
    <3>1. Becomes(c, call'[c]) /\ call'[c] \in CallType /\ CallFits(call'[c], conf) BY <2>3, CallKept
    <3>2. call' \in [Callers -> CallType] BY <3>1 DEF Becomes, TypeOK
    <3>3. CallInv' BY <2>1, <3>1 DEF CallInv, Becomes
    <3>4. index' \in IndexType /\ IndexInv' BY <2>3, IndexKept
    <3>5. server' = server /\ versions' = versions /\ admin' = admin BY <2>3, ConfKept
    <3>6. raced' \in BOOLEAN BY <2>3, CallerRaces
    <3>7. TypeOK' BY <2>1, <2>2, <3>2, <3>4, <3>5, <3>6 DEF TypeOK
    <3>8. ForgetInv'
      <4>1. ~raced' => \A s \in Schemas : Forgets(s)' BY <1>2, <2>3, ForgetByCaller
      <4> QED BY <4>1 DEF ForgetInv, Forgets
    <3> QED BY <2>2, <3>3, <3>4, <3>7, <3>8
  <2>4. CASE AdminStep
    <3>1. call' = call /\ index' = index BY <2>4, ConfKept
    <3>2. CallInv' /\ IndexInv' BY <2>1, <3>1 DEF CallInv, IndexInv
    <3>3. TypeOK' BY <2>1, <2>2, <2>4, <3>1, AdminTypes DEF TypeOK
    <3>4. ForgetInv'
      <4>1. ~raced' => \A s \in Schemas : Forgets(s)' BY <1>2, <2>4, ForgetByAdmin
      <4> QED BY <4>1 DEF ForgetInv, Forgets
    <3> QED BY <2>2, <3>2, <3>3, <3>4
  <2> QED BY <1>2, <2>3, <2>4, NextCases
<1> QED BY <1>1, <1>2

\* Every answer is described as its caller asked, whoever else was served from the same entry, and
\* a path of the index is fetched at most twice, for any number of callers.
THEOREM AnswersAsAsked == Spec => []AnswerInv
<1>1. IInv => AnswerInv
  <2> SUFFICES ASSUME IInv PROVE AnswerInv OBVIOUS
  <2>1. DescriptionAsAsked BY DEF IInv, CallInv, CallFits, DescriptionAsAsked
  <2>2. index.fetches \in Nat BY Fields DEF IInv, TypeOK
  <2>3. FetchedAtMostTwice BY <2>2 DEF IInv, IndexInv, FetchedAtMostTwice
  <2> QED BY <2>1, <2>3 DEF IInv, AnswerInv
<1> QED BY <1>1, Initially, Inductive, PTL DEF Spec

\* A deleted schema is not served from the cache again, unless a GetSchema of it overlapped the
\* DeleteSchema.
THEOREM DeletedIsForgotten == Spec => []DeleteForgets
<1>1. IInv => DeleteForgets BY DEF IInv, ForgetInv, DeleteForgets
<1> QED BY <1>1, Initially, Inductive, PTL DEF Spec
=============================================================================
