-------------------------- MODULE TreeTransaction --------------------------
(***************************************************************************)
(* The configuration tree at work in a datastore: transactions that set or *)
(* remove an intent, syncs that bring the device's configuration into the  *)
(* sync tree and revert what the intents do not agree with, and the reads  *)
(* of the running intent.  Each is one step: module Datastore interleaves  *)
(* them and gives every one of them the sync tree for itself.              *)
(*                                                                         *)
(* An intent's value for a leaf is the intent itself.  The device is a map *)
(* from the leafs and presence containers to values; it knows the choices  *)
(* of the schema, creates the keys of a list entry with the entry, removes *)
(* a list entry with everything in it, and takes everything that a request *)
(* does not set out of an element that the request replaces.               *)
(***************************************************************************)
EXTENDS ConfigTree

CONSTANTS Intents,  \* the intents
          Prio,     \* Prio[i]: the priority of intent i; no two are equal
          Factory,  \* the leafs the device has from the start
          Foreign,  \* the value of a leaf that was set on the device itself
          Scopes    \* what may happen in a behaviour, one of a set of records:
                    \*   enc      "proto", "json", "xml" or "xmlns": XML whose operations
                    \*            have a namespace
                    \*   stream   whether syncs report changes or the whole configuration
                    \*   offers   the sets of leafs an intent may have
                    \*   deletes  the explicit deletes an intent may have: a set of sets of paths
                    \*   changes  the entries the device itself may set or remove
                    \*   reads    whether the running intent is read

VARIABLES dev,    \* the configuration of the device
          news,   \* with a stream, the leafs that changed since the last sync
          sync,   \* Datastore.syncTree
          store,  \* the intents of the cache: content and explicit deletes
          down,   \* a panic ended the process
          did,    \* the kind of the last step
          replaced, \* the elements that the request of the last step replaced
          scope   \* the scope of this behaviour

vars == <<dev, news, sync, store, down, did, replaced, scope>>

NoIntent == [content |-> {}, deletes |-> {}]

\* The value of a key leaf or of a presence container is the same for everybody.
ValueBy(who, n) ==
  CASE n \in KeyLeafs        -> KeyValue(n)
    [] Kind[n] = "presence"  -> n
    [] n \notin KeyLeafs /\ Kind[n] # "presence" -> who

Content(who, S) == [n \in S |-> ValueBy(who, n)]

Set(d) == {n \in Holders : d[n] # NoValue}

\* The orders a tree visits cases of equal priority in.
AllFirsts == {f \in [AllChoices -> UNION AllChoices] : \A ch \in AllChoices : f[ch] \in ch}

AnyFirst == CHOOSE f \in AllFirsts : TRUE

\* Priorities of intents differ, so that only two cases that are both in the sync tree can tie.
Firsts(t) ==
  IF \E ch \in AllChoices : Cardinality({cas \in ch : cas \cap t.has # {}}) > 1
  THEN AllFirsts ELSE {AnyFirst}

TypeOK ==
  /\ \A n \in Holders : dev[n] \in Intents \cup {Foreign, NoValue, Default[n]} \cup Nodes
  /\ news \subseteq Holders
  /\ store \in [Intents -> [content : SUBSET Holders, deletes : SUBSET Nodes]]
  /\ Root \in sync.has /\ \A n \in sync.has : Up(n) \subseteq sync.has
  /\ down \in BOOLEAN
  /\ did \in {"none", "transaction", "sync", "device", "read"}
  /\ replaced \subseteq Nodes

Init ==
  /\ scope \in Scopes
  /\ dev = [n \in Holders |-> IF n \in Factory THEN ValueBy(Foreign, n) ELSE NoValue]
  /\ news = IF scope.stream THEN Factory ELSE {}
  /\ sync = EmptyTree(AnyFirst)
  /\ store = [i \in Intents |-> NoIntent]
  /\ down = FALSE
  /\ did = "none"
  /\ replaced = {}

-----------------------------------------------------------------------------
(* The device *)

OverXML == scope.enc \in {"xml", "xmlns"}

CaseOf(ch, n) == {cas \in ch : Up(n) \cap cas # {}}

\* What an edit-config sets: of several cases of a choice the device keeps one.
OneCase(upd) ==
  LET sent(ch) == UNION {CaseOf(ch, n) : n \in DOMAIN upd}
      picks == {f \in [AllChoices -> UNION AllChoices] :
                  \A ch \in AllChoices : sent(ch) # {} => f[ch] \in sent(ch)}
  IN  {Restrict(upd, {n \in DOMAIN upd : \A ch \in AllChoices : CaseOf(ch, n) \subseteq {f[ch]}}) :
         f \in picks}

\* Deletes come before updates.  What a request sets replaces the other cases of a choice.
Apply(d, out) ==
  LET gone == UNION {Below(n) : n \in out.del \cup out.rep}
      set  == DOMAIN out.upd
      implied == {m \in Holders \ set : \E n \in set :
                    \/ m \in KeyLeafs /\ Parent[m] \in Up(n)
                    \/ Kind[m] = "presence" /\ m \in Up(n)}
      otherCase == {m \in Holders \ set : \E ch \in AllChoices, n \in set :
                      /\ CaseOf(ch, m) # {} /\ CaseOf(ch, n) # {}
                      /\ CaseOf(ch, m) # CaseOf(ch, n)}
  IN  [m \in Holders |->
         CASE m \in set -> out.upd[m]
           [] m \in implied -> ValueBy(Foreign, m)
           [] m \notin set \cup implied /\ m \in gone \cup otherCase -> NoValue
           [] OTHER -> d[m]]

\* A stream reports every leaf that changes, whoever changed it.
Noticed(before) ==
  IF scope.stream THEN before \cup {n \in Holders : dev'[n] # dev[n]} ELSE {}

-----------------------------------------------------------------------------
(* The steps of the datastore *)

\* Mutant of LoadIntents: only the intent of the best priority is loaded.
LoadIntents_Best(t) ==
  LET i == CHOOSE i \in Intents : \A j \in Intents : Prio[i] <= Prio[j]
  IN  ImportConfig(t, Content(i, store[i].content), i, Prio[i])

\* LoadAllButRunningIntents
LoadIntents(t) ==
  FoldSet(LAMBDA i, u : ImportConfig(u, Content(i, store[i].content), i, Prio[i]), t, Intents)

\* TreeContext.ExplicitDeletes, with the intents of the cache as st.
Explicit(st) == {<<i, n>> \in Intents \X Nodes : n \in st[i].deletes}

\* RootEntry.FinishInsertionPhase once all paths were found.
FinishInsertionPhase(t, explicit) ==
  FinishEntry(FoldSet(LAMBDA d, u : MarkExplicitDelete(u, d[2], d[1], Prio[d[1]]), t, explicit),
              Root)

\* The values of the leafs of S, those of a filled up list entry among them.
ValuesOf(t, S, filled) ==
  [n \in S |-> LET k == Rendered(t, n, Up(n) \cap filled = {})
               IN  IF k # 0 THEN t.lv[n][k].value ELSE ValueBy(Foreign, n)]

Values(t, S) == ValuesOf(t, S, {})

\* The request a target builds from the tree: gnmiTarget.Set in its encodings, ncTarget.Set.
Request(t) ==
  LET xml == ToXML(t, Root, TRUE, scope.enc = "xmlns")
      filled == {n \in xml.rep : scope.enc = "xmlns" /\ Kind[n] = "key"}
      gnmi(S) == [del |-> GetDeletes(t, Root), upd |-> Values(t, S), rep |-> {}]
  IN  CASE scope.enc = "proto" -> gnmi(GetUpdates(t))
        [] scope.enc = "json"  -> gnmi(ToJson(t, Root))
        [] scope.enc \in {"xml", "xmlns"} ->
             [xml EXCEPT !.upd = ValuesOf(t, xml.upd, filled)]

\* Mutant of WriteBack: the deletes are not written back.
WriteBack_KeepsDeleted(t, found) ==
  AddUpdates(sync, Values(t, GetUpdates(t)), RunningIntentName, RunningValuesPrio, FALSE)

\* writeBackSyncTree, for the deletes that are found in the sync tree.
WriteBack(t, found) ==
  AddUpdates(DeleteBranches(sync, found, RunningIntentName), Values(t, GetUpdates(t)),
             RunningIntentName, RunningValuesPrio, FALSE)

\* Mutant of Merged: the old content of the intent is not marked.
Merged_KeepsOld(i, content, orphan, first) ==
  {AddUpdates(t, Content(i, content), i, Prio[i], TRUE) :
     t \in {LoadIntents([sync EXCEPT !.first = first])}}

\* The tree of lowlevelTransactionSet before FinishInsertionPhase, as the element of a set.
Merged(i, content, orphan, first) ==
  LET loaded == {LoadIntents([sync EXCEPT !.first = first])}
      marked == {MarkOwnerDelete(t, Root, i, orphan) : t \in loaded}
  IN  {AddUpdates(t, Content(i, content), i, Prio[i], TRUE) : t \in marked}

Panic(kind) ==
  /\ down' = TRUE
  /\ did' = kind
  /\ UNCHANGED <<dev, news, sync, store, replaced, scope>>

\* Target.Set: the request reaches the device.
Send(t) ==
  \E out \in {Request(t)} : \E upd \in IF OverXML THEN OneCase(out.upd) ELSE {out.upd} :
    /\ dev' = Apply(dev, [out EXCEPT !.upd = upd])
    /\ replaced' = out.rep

\* lowlevelTransactionSet for one intent.  An intent without content and deletes is removed, from
\* the cache only when it is an orphan.
Transaction(i, content, deletes, orphan) ==
  LET stored == [store EXCEPT ![i].deletes = deletes]
      explicit == Explicit(stored)
      paths == {d[2] : d \in explicit}
  IN  /\ ~down
      /\ \E first \in Firsts(sync) : \E t0 \in Merged(i, content, orphan, first) :
         \E found \in Reached(t0, paths, FALSE) :
           IF found # paths THEN Panic("transaction")
           ELSE \E t \in {FinishInsertionPhase(t0, explicit)} :
                  /\ \E again \in Firsts(sync) : Send([t EXCEPT !.first = again])
                  /\ news' = Noticed(news)
                  /\ store' = [stored EXCEPT ![i].content = TreeExport(t, i)]
                  /\ \E hit \in Reached(sync, GetDeletes(t, Root), FALSE) :
                       sync' = WriteBack(t, hit)
                  /\ did' = "transaction"
                  /\ UNCHANGED <<down, scope>>

\* The end of ApplyToRunning: nothing is sent unless the active childs have something to send.
Revert(t) ==
  IF GetDeletes(t, Root) = {} /\ GetUpdates(t) = {} THEN replaced' = {} /\ UNCHANGED dev
  ELSE Send(t)

\* The deletes and the updates a sync hands to ApplyToRunning.
SyncDeletes ==
  IF scope.stream THEN news \ Set(dev) ELSE {Root}

SyncUpdates ==
  IF scope.stream THEN news \cap Set(dev) ELSE Set(dev)

\* ApplyToRunning up to the copy for the revert: marked are the deletes that are found, cut the
\* zero-length entries that are.
Marked(found) ==
  ImportConfig(FoldSet(LAMBDA n, u : MarkOwnerDelete(u, n, RunningIntentName, FALSE), sync, found),
               [n \in SyncUpdates |-> dev[n]], RunningIntentName, RunningValuesPrio)

CleanedUp(t, cut) ==
  ResetAllFlags(DeleteBranches(RemoveDeleted(t, RunningIntentName), cut, RunningIntentName))

\* ApplyToRunning with performRevert.  The root is never cut: it has no parent.
Sync ==
  /\ ~down
  /\ SyncDeletes # {} \/ SyncUpdates # {}
  /\ \E found \in Reached(sync, SyncDeletes, FALSE) : \E t1 \in {Marked(found)} :
     \E cut \in Reached(t1, ZeroLength(t1) \ {Root}, TRUE) : \E t2 \in {CleanedUp(t1, cut)} :
     \E first \in Firsts(t2) : \E t3 \in {LoadIntents([t2 EXCEPT !.first = first])} :
     LET paths == {d[2] : d \in Explicit(store)}
     IN  \E named \in Reached(t3, paths, FALSE) :
           IF named # paths THEN Panic("sync")
           ELSE \E t \in {FinishInsertionPhase(t3, Explicit(store))} :
                  /\ sync' = t2
                  /\ \E again \in Firsts(t2) : Revert([t EXCEPT !.first = again])
                  /\ news' = Noticed({})
                  /\ did' = "sync"
                  /\ UNCHANGED <<store, down, scope>>

\* GetIntent of the running intent ends the insertion phase of the sync tree itself.
GetRunningIntent ==
  /\ ~down
  /\ scope.reads
  /\ sync' = FinishEntry(sync, Root)
  /\ did' = "read"
  /\ replaced' = {}
  /\ UNCHANGED <<dev, news, store, down, scope>>

\* The device sets an entry by itself, or removes it.
DeviceChange(n) ==
  /\ ~down
  /\ \/ /\ n \in Holders
        /\ dev' = Apply(dev, [del |-> {}, upd |-> Content(Foreign, {n}), rep |-> {}])
     \/ dev' = Apply(dev, [del |-> {n}, upd |-> Content(Foreign, {}), rep |-> {}])
  /\ dev' # dev
  /\ news' = Noticed(news)
  /\ did' = "device"
  /\ replaced' = {}
  /\ UNCHANGED <<sync, store, down, scope>>

Next ==
  \/ \E i \in Intents, content \in scope.offers, deletes \in scope.deletes :
       Transaction(i, content, deletes, FALSE)
  \/ \E i \in Intents, orphan \in BOOLEAN :
       store[i] # NoIntent /\ Transaction(i, {}, {}, orphan)
  \/ Sync
  \/ GetRunningIntent
  \/ \E n \in scope.changes : DeviceChange(n)

Spec == Init /\ [][Next]_vars

-----------------------------------------------------------------------------
(* What the intents ask for *)

OwnersOf(st, n) == {i \in Intents : n \in st[i].content}

\* The intents with an explicit delete of n or of an entry above it.
Removers(st, n) == {i \in Intents : Up(n) \cap st[i].deletes # {}}

Best(S) == CHOOSE i \in S : \A j \in S : Prio[i] <= Prio[j]

\* The case of the choice that the best intent with a part in the choice asks for contains n.
InBestCase(st, n) ==
  \A ch \in AllChoices : \A e \in Up(n) \cap UNION ch :
    LET parts == {i \in Intents : \E m \in st[i].content : Up(m) \cap UNION ch # {}}
    IN  parts # {} => \E cas \in ch : e \in cas /\
                       \E m \in st[Best(parts)].content : Up(m) \cap cas # {}

\* The leafs on which an intent wins.
Won(st) ==
  {n \in Holders : /\ OwnersOf(st, n) # {} /\ InBestCase(st, n)
                   /\ Best(OwnersOf(st, n) \cup Removers(st, n)) \in OwnersOf(st, n)}

\* The leafs on which an intent wins and that have another value in d, or none.
Missed(d, st) == {n \in Won(st) : d[n] # ValueBy(Best(OwnersOf(st, n)), n)}

RunningOf(t) ==
  [n \in Holders |-> LET r == GetRunning(t.lv[n]) IN IF r = 0 THEN NoValue ELSE t.lv[n][r].value]

\* The configuration without the presence containers that something below implies.
Data(d) == [n \in Holders |-> IF Below(n) \cap Set(d) = {n} THEN d[n] ELSE NoValue]

InSync(t, d) == Data(RunningOf(t)) = Data(d)

InChoice(n) == \E ch \in AllChoices : Up(n) \cap UNION ch # {}

-----------------------------------------------------------------------------
(* What a request may cost *)

\* The leafs whose running entry a write back has changed since the last sync: it is flagged as
\* updated and rendered like the entry of an intent.
Flagged == {n \in Holders : LET r == GetRunning(sync.lv[n]) IN r # 0 /\ sync.lv[n][r].updated}

AskedFor(st) == Flagged \cup UNION {st[i].content : i \in Intents}

\* Over XML, the leafs of a choice of which more than one case is asked for.
Disputed(st) ==
  {n \in Holders : /\ OverXML
                   /\ \E ch \in AllChoices :
                        /\ CaseOf(ch, n) # {}
                        /\ Cardinality(UNION {CaseOf(ch, m) : m \in AskedFor(st)}) > 1}

\* The leafs that the last request took away with an element it replaced because of a
\* leaf-list and did not fill up.
Emptied ==
  {n \in Holders : /\ dev[n] = NoValue
                   /\ \E c \in replaced : n \in Below(c) /\ (Kind[c] = "key" => scope.enc = "xml")}

\* The leafs of the list entries that the last request replaced and filled up.
FilledUp ==
  {n \in Holders : scope.enc = "xmlns" /\ \E c \in replaced : Kind[c] = "key" /\ n \in Below(c)}

\* The leafs that the transaction takes from the intent of the best priority: its entry is still
\* the one a list entry is filled up with.
Withdrawn ==
  {n \in Holders : /\ OwnersOf(store, n) # {}
                   /\ Best(OwnersOf(store, n)) \notin OwnersOf(store', n)}

\* The leafs that the transaction took away with a presence container that no intent has any more.
GivenUp ==
  {n \in Holders : /\ dev'[n] = NoValue
                   /\ \E p \in Up(n) \ {n} : OwnersOf(store, p) # {} /\ OwnersOf(store', p) = {}}

\* The leafs of a list entry that goes over XML although the write back renews a leaf in it.
RenewedInVain ==
  {n \in Holders : OverXML /\ \E k \in KeyLeafs :
     Parent[k] \in Up(n) /\ dev'[k] = NoValue /\ Below(Parent[k]) \cap Flagged # {}}

\* The presence containers that intents had, or had leafs in, and that the device lost: JSON and
\* XML send one only while its entry is new and there is nothing else below it.
SentOnce ==
  {n \in Holders : /\ Kind[n] = "presence" /\ scope.enc # "proto" /\ dev[n] = NoValue
                   /\ \E m \in Below(n) : OwnersOf(store, m) # {}}

-----------------------------------------------------------------------------
(* Properties *)

\* A transaction that starts from a true picture of the device leaves the device with the value
\* of the winning intent on every leaf an intent wins, except: over XML, a choice of which
\* several cases are asked for; what is not resent in an element that a leaf-list replaces
\* (a container, or a list entry without the namespace); in a list entry that is filled up, a
\* leaf whose best intent withdraws; what goes with a presence container given up; and, in
\* JSON and XML, a presence container that the device had lost before.
WinnerOnDevice ==
  [][did' = "transaction" /\ ~down' /\ InSync(sync, dev) =>
       Missed(dev', store') \subseteq Disputed(store') \cup Emptied' \cup GivenUp \cup SentOnce
                                \cup (FilledUp' \cap Withdrawn)]_vars

\* A leaf that no intent has had or has, and that no explicit delete covers, is left alone by a
\* transaction, unless its list entry goes with its keys, another case takes over, or a
\* leaf-list that is sent over XML replaces the element it is in and that is not filled up.
UnmanagedStays ==
  [][did' = "transaction" /\ ~down' /\ InSync(sync, dev) =>
       \A n \in Holders :
         /\ \A st \in {store, store'}, m \in Below(n) \cap Holders :
              OwnersOf(st, m) \cup Removers(st, m) = {}
         /\ \A k \in KeyLeafs : Parent[k] \in Up(n) => dev'[k] # NoValue
         /\ ~InChoice(n)
         /\ n \notin Emptied' \cup GivenUp
         => dev'[n] = dev[n]]_vars

\* The write back brings to the sync tree what the transaction did to the device, apart from
\* the leafs of choices, what WinnerOnDevice excepts, and a list entry that is deleted over XML
\* while a leaf in it is still flagged as updated.
WriteBackMatches ==
  [][did' = "transaction" /\ ~down' /\ InSync(sync, dev) =>
       \A n \in Holders :
         \/ n \in Emptied' \cup GivenUp \cup SentOnce \cup (FilledUp' \cap Withdrawn)
         \/ n \in RenewedInVain \/ InChoice(n)
         \/ Data(RunningOf(sync'))[n] = Data(dev')[n]]_vars

\* A transaction leaves the device with every winner.
EveryWinnerOnDevice ==
  [][did' = "transaction" /\ ~down' /\ InSync(sync, dev) => Missed(dev', store') = {}]_vars

\* The write back brings all of it to the sync tree.
WriteBackIsComplete ==
  [][did' = "transaction" /\ ~down' /\ InSync(sync, dev) => InSync(sync', dev')]_vars

\* A sync brings what the device holds to the sync tree and leaves the device with the winners,
\* whatever the device did before, apart from what XML costs: a choice with several cases, and
\* what an element replaced by a leaf-list loses; and apart from the presence containers that
\* JSON and XML do not send again.  One that finds the winners in place, and nothing that an
\* explicit delete removes, changes nothing on the device.
SyncRestores ==
  [][did' = "sync" /\ ~down' =>
       /\ InSync(sync', dev)
       /\ Missed(dev', store') \subseteq Disputed(store) \cup Emptied' \cup SentOnce
       /\ Missed(dev, store) = {} /\ (\A n \in Set(dev) : Removers(store, n) = {})
          => dev' = dev]_vars

\* No request configures two cases of a choice on a device that does not speak XML.
OneCaseOnDevice ==
  ~OverXML => \A ch \in AllChoices :
    Cardinality({cas \in ch : \E n \in Set(dev) : Up(n) \cap cas # {}}) <= 1

\* The cache holds what the client gave and the keys of the list entries on the way.
StoredAsOffered ==
  \A i \in Intents :
    LET c == store[i].content
    IN  /\ c \ KeyLeafs \in scope.offers \cup {{}}
        /\ c \cap KeyLeafs = {k \in KeyLeafs : \E n \in c : Parent[k] \in Up(n)}

\* The tree the deviation manager and the blame request look at.
Evaluated == FinishInsertionPhase(LoadIntents(sync), {})

\* Without explicit deletes, the deviations name an intent as not applied exactly on the leafs
\* whose value a revert would send.
DeviationsMatchRevert ==
  LET t == Evaluated
      NotApplied(n) == \E k \in DOMAIN DeviationsOf(t, n) :
                         DeviationsOf(t, n)[k].reason = "not_applied"
      ByIntents == {n \in GetUpdates(t) :
                      ByIntent(t.lv[n][GetHighestPrecedenceNew(t.lv[n], {})])}
  IN  Explicit(store) = {} =>
        \A n \in t.has : Kind[n] \in {"leaf", "leaflist"} => (NotApplied(n) <=> n \in ByIntents)

\* The blame names the winner on every leaf an intent wins, and as deviating the leafs whose
\* running value differs.
BlameNamesWinner ==
  LET b == Blame(Evaluated)
  IN  Explicit(store) = {} =>
        \A n \in Won(store) :
          /\ n \in DOMAIN b /\ b[n].owner = Best(OwnersOf(store, n))
          /\ b[n].deviates <=> RunningOf(sync)[n] # ValueBy(b[n].owner, n)

\* The trees are well formed, a choice has one case on the device and the cache what was given.
TreeInv == TypeOK /\ OneCaseOnDevice /\ StoredAsOffered

\* What WatchDeviations and BlameConfig report is what the transactions and the reverts act on.
ReportsMatchRevert == DeviationsMatchRevert /\ BlameNamesWinner

\* FinishInsertionPhase skips an explicit delete whose path is not in the tree.
MissingPathIsSkipped == ~down
=============================================================================
