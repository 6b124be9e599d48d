----------------------------- MODULE Validation -----------------------------
(***************************************************************************)
(* The validators (package tree/ops/validation) on the tree of a           *)
(* transaction, and the transactions they let through: an intent is set    *)
(* or removed, the tree of all intents and of the running configuration is *)
(* validated, and without an error the changes go to the device, which is  *)
(* the running configuration of the next transaction.                      *)
(*                                                                         *)
(* The schema statements the validators check are constants next to those  *)
(* of ConfigTree.  A value is a number, or an entry of a key level for key *)
(* leafs and references to them; the length of a string is the number that *)
(* stands for it.  A leaf-list of v has v elements with the value v; one   *)
(* of references has a single element.                                     *)
(***************************************************************************)
EXTENDS ConfigTree

CONSTANTS Name,       \* Name[n]: the name of an entry among its siblings
          Mandatory,  \* Mandatory[n]: the mandatory childs and choices, each a set of names
          Lref,       \* Lref[n]: the leafref path of a leaf, <<>> for none
          From,       \* From[n]: the entry a leafref path starts at
          Optional,   \* the leafrefs without require-instance
          MinMax,     \* MinMax[n]: min- and max-elements of a list or leaf-list, or <<>>
          Ranges,     \* Ranges[n]: the ranges of a leaf
          Lengths,    \* Lengths[n]: the lengths of a leaf
          Patterns,   \* Patterns[n]: for each pattern the values that match it, and `inverted`
          Must,       \* Must[n]: the must statements, each demanding a value of a leaf
          Intents, Prio,
          Scopes      \* records: offers, a set of contents an intent may have; off, the
                      \* disabled validators; factory, what the device has at first

VARIABLES store,   \* the content of every intent
          conf,    \* the configuration of the device
          last,    \* the last transaction: its verdict and the results of the validators
          down,    \* a panic ended the process
          scope

vars == <<store, conf, last, down, scope>>

Unknown == "unknown"

LeafLists == {n \in Nodes : Kind[n] = "leaflist"}

NoContent == [n \in {} |-> NoValue]

-----------------------------------------------------------------------------
(* Results: the intent named, the entry, the statement, "error" or "warning". *)

Result(owner, n, what, typ) == [owner |-> owner, at |-> n, what |-> what, typ |-> typ]

\* The entry whose value the validators look at, with 0 for nil.
Shown(t, n) == GetHighestPrecedenceAny(t.lv[n], TRUE, FALSE)

Value(t, n) == t.lv[n][Shown(t, n)].value

OwnerOf(t, n) ==
  LET h == GetHighestPrecedenceAny(t.lv[n], FALSE, FALSE)
  IN  IF h = 0 THEN Unknown ELSE t.lv[n][h].owner

\* An error of a check on the value of a leaf.
OnValue(t, n, what, bad) ==
  IF bad THEN {Result(t.lv[n][Shown(t, n)].owner, n, what, "error")} ELSE {}

RECURSIVE EntryRemains(_, _)
EntryRemains(t, n) ==
  RemainsToExist(t.lv[n]) \/ \E c \in ActiveChilds(t, n) : EntryRemains(t, c)

-----------------------------------------------------------------------------
(* Mandatory *)

\* validateMandatoryWithKeys at the entry e below the key levels.
MandatoryMissing(t, e, names) ==
  /\ ~EntryShouldDelete(t, e)
  /\ \A c \in ActiveChilds(t, e) : Name[c] \in names => ~EntryRemains(t, c)

\* Mutant of validateMandatory: a child that is being deleted counts.
validateMandatory_AnyChild(t, n) ==
  LET entries == IF Kind[n] = "list" THEN ActiveChilds(t, n) ELSE {n}
  IN  UNION {{Result(Unknown, e, "mandatory", "error") :
                e \in {x \in entries : /\ ~EntryShouldDelete(t, x)
                                       /\ \A c \in ActiveChilds(t, x) : Name[c] \notin names}}
             : names \in Mandatory[n]}

validateMandatory(t, n) ==
  LET entries == IF Kind[n] = "list" THEN ActiveChilds(t, n) ELSE {n}
  IN  IF ~EntryRemains(t, n) \/ EntryShouldDelete(t, n) THEN {}
      ELSE UNION {{Result(Unknown, e, "mandatory", "error") :
                     e \in {x \in entries : MandatoryMissing(t, x, names)}}
                  : names \in Mandatory[n]}

-----------------------------------------------------------------------------
(* Leafrefs.  A path is a sequence of elements with a name and a key: the leaf that holds the *)
(* value of the key, or NoValue for every list entry.                                         *)

\* resolveLeafrefKeyPath: the value of the key leaf.  The code indexes the result of
\* GetHighestPrecedence, which is empty when the leaf has a default only.
KeyOf(t, key) ==
  IF key \notin ActiveBelow(t, Root) THEN [bad |-> "error", value |-> NoValue]
  ELSE LET h == GetHighestPrecedenceAny(t.lv[key], FALSE, FALSE)
       IN  IF h = 0 THEN [bad |-> "panic", value |-> NoValue]
           ELSE [bad |-> "no", value |-> t.lv[key][h].value]

FilterChilds(t, n, value) == {k \in Childs(t, n) : value \in {NoValue, k}}

ChildsNamed(t, n, name) == {c \in ActiveChilds(t, n) : Name[c] = name}

\* One element of the path, with its key resolved: the entries reached, all of which must have
\* the child.
Descend(t, s, name, key, isLast) ==
  CASE s.bad # "no" -> s
    [] s.bad = "no" /\ key.bad # "no" -> [s EXCEPT !.bad = key.bad]
    [] s.bad = "no" /\ key.bad = "no" /\ (\E e \in s.found : ChildsNamed(t, e, name) = {}) ->
         [s EXCEPT !.bad = "error"]
    [] OTHER -> [s EXCEPT !.found =
         UNION {IF ~isLast /\ Kind[c] = "list" THEN FilterChilds(t, c, key.value) ELSE {c} :
                  c \in {x \in UNION {ChildsNamed(t, e, name) : e \in @} : EntryRemains(t, x)}}]

Forward(t, s, elem, isLast) ==
  Descend(t, s, elem.name,
          IF elem.key = NoValue THEN [bad |-> "no", value |-> NoValue] ELSE KeyOf(t, elem.key),
          isLast)

RECURSIVE breadthSearch(_, _, _)
breadthSearch(t, s, path) ==
  IF path = <<>> THEN s
  ELSE breadthSearch(t, Forward(t, s, Head(path), Len(path) = 1), Tail(path))

\* Of the entries found, those with the value v.
WithValue(t, s, v) ==
  IF s.bad = "no" /\ \E e \in s.found : Shown(t, e) = 0 THEN [s EXCEPT !.bad = "error"]
  ELSE [s EXCEPT !.found = {e \in @ : s.bad = "no" /\ Value(t, e) = v}]

\* navigateLeafRef: the entries with the value of the leaf.
navigateLeafRef(t, n) ==
  IF Shown(t, n) = 0 THEN [bad |-> "error", found |-> {}]
  ELSE WithValue(t, breadthSearch(t, [bad |-> "no", found |-> {From[n]}], Lref[n]), Value(t, n))

Resolved(s) == s.bad = "no" /\ s.found # {}

\* An entry that is found remains, and so is not one to delete: the second check of the code
\* never fails.
validateLeafRefs(t, n) ==
  IF \/ EntryShouldDelete(t, n) \/ Lref[n] = <<>> \/ n \in LeafLists
     \/ Resolved(navigateLeafRef(t, n)) THEN {}
  ELSE IF n \notin Optional THEN {Result(OwnerOf(t, n), n, "leafref", "error")}
  ELSE IF Shown(t, n) = 0 THEN {Result(Unknown, n, "leafref", "error")}
  ELSE {Result(t.lv[n][Shown(t, n)].owner, n, "leafref", "warning")}

LeafrefPanics(t, n) ==
  /\ Lref[n] # <<>> /\ n \notin LeafLists /\ ~EntryShouldDelete(t, n)
  /\ navigateLeafRef(t, n).bad = "panic"

-----------------------------------------------------------------------------
(* Checks on values and on numbers of elements *)

\* GetListChilds: the entries of a list, whether they remain or not.
GetListChilds(t, n) == Childs(t, n)

\* The owners of the first key of the entries.
KeyOwners(t, n) ==
  {OwnerOf(t, k) : k \in {k \in KeyLeafs \cap t.has :
                            Parent[k] \in GetListChilds(t, n) /\ OwnerOf(t, k) # Unknown}}

\* Mutant of validateMinMaxElements: the limit itself is an error.
validateMinMaxElements_Reached(t, n) ==
  LET count == Cardinality(GetListChilds(t, n))
      bad == count < MinMax[n][1] \/ (MinMax[n][2] > 0 /\ count >= MinMax[n][2])
  IN  IF Kind[n] # "list" \/ MinMax[n] = <<>> \/ ~bad THEN {}
      ELSE {Result(o, n, "minmax", "error") : o \in KeyOwners(t, n)}

validateMinMaxElements(t, n) ==
  LET count == Cardinality(GetListChilds(t, n))
      bad == count < MinMax[n][1] \/ (MinMax[n][2] > 0 /\ count > MinMax[n][2])
  IN  IF Kind[n] # "list" \/ MinMax[n] = <<>> \/ ~bad THEN {}
      ELSE {Result(o, n, "minmax", "error") : o \in KeyOwners(t, n)}

validateLeafListMinMaxAttributes(t, n) ==
  IF n \notin LeafLists \/ MinMax[n] = <<>> \/ Shown(t, n) = 0 THEN {}
  ELSE OnValue(t, n, "leaflist", Value(t, n) < MinMax[n][1] \/ Value(t, n) > MinMax[n][2])

Within(v, ranges) == \E r \in ranges : r[1] <= v /\ v <= r[2]

validateRange(t, n) ==
  IF Ranges[n] = {} \/ Shown(t, n) = 0 THEN {}
  ELSE OnValue(t, n, "range", ~Within(Value(t, n), Ranges[n]))

\* Every length of the schema must hold.  Like the patterns, it is the length of a leaf only.
validateLength(t, n) ==
  IF n \in LeafLists \/ Lengths[n] = {} \/ Shown(t, n) = 0 THEN {}
  ELSE OnValue(t, n, "length", \E l \in Lengths[n] : ~Within(Value(t, n), {l}))

\* Mutant of validatePattern: an inverted pattern is checked like another.
validatePattern_NotInverted(t, n) ==
  IF n \in LeafLists \/ Patterns[n] = {} \/ Shown(t, n) = 0 THEN {}
  ELSE OnValue(t, n, "pattern", \E p \in Patterns[n] : Value(t, n) \notin p.match)

validatePattern(t, n) ==
  IF n \in LeafLists \/ Patterns[n] = {} \/ Shown(t, n) = 0 THEN {}
  ELSE OnValue(t, n, "pattern", \E p \in Patterns[n] : (Value(t, n) \in p.match) = p.inverted)

\* The adapter gives an expression the value of an active entry, or an empty node set.
Datum(t, n) ==
  IF n \in ActiveBelow(t, Root) /\ Shown(t, n) # 0 THEN {Value(t, n)} ELSE {}

validateMustStatements(t, n) ==
  {Result(OwnerOf(t, n), n, "must", "error") : m \in {m \in Must[n] : m.value \notin Datum(t, m.leaf)}}

-----------------------------------------------------------------------------
(* Validate *)

\* activeValidators and validateLevel
validateLevel(t, n, off) ==
  UNION {IF "mandatory" \in off THEN {} ELSE validateMandatory(t, n),
         IF "leafref" \in off THEN {} ELSE validateLeafRefs(t, n),
         IF "leaflist" \in off THEN {} ELSE validateLeafListMinMaxAttributes(t, n),
         IF "pattern" \in off THEN {} ELSE validatePattern(t, n),
         IF "must" \in off THEN {} ELSE validateMustStatements(t, n),
         IF "length" \in off THEN {} ELSE validateLength(t, n),
         IF "range" \in off THEN {} ELSE validateRange(t, n),
         IF "minmax" \in off THEN {} ELSE validateMinMaxElements(t, n)}

\* validateTask: the entries that remain, through active childs.
RECURSIVE Visited(_, _)
Visited(t, n) ==
  IF EntryRemains(t, n) THEN {n} \cup UNION {Visited(t, c) : c \in ActiveChilds(t, n)} ELSE {}

Validate(t, off) == UNION {validateLevel(t, n, off) : n \in Visited(t, Root)}

Panics(t, off) == "leafref" \notin off /\ \E n \in Visited(t, Root) : LeafrefPanics(t, n)

HasErrors(results) == \E r \in results : r.typ = "error"

-----------------------------------------------------------------------------
(* Transactions *)

AnyFirst == CHOOSE f \in [AllChoices -> UNION AllChoices] : \A ch \in AllChoices : f[ch] \in ch

Configured(c) == {n \in Holders : c[n] # NoValue}

LoadIntents(t) == FoldSet(LAMBDA i, u : ImportConfig(u, store[i], i, Prio[i]), t, Intents)

Running ==
  ImportConfig(EmptyTree(AnyFirst), [n \in Configured(conf) |-> conf[n]], RunningIntentName,
               RunningValuesPrio)

\* The tree of lowlevelTransactionSet, as the element of a set: running and the intents, the old
\* content of one of them marked, its new content added, the insertion phase finished.
Populated(i, content) ==
  {FinishEntry(t, Root) : t \in
     {AddUpdates(m, content, i, Prio[i], TRUE) : m \in
        {MarkOwnerDelete(l, Root, i, FALSE) : l \in {LoadIntents(r) : r \in {Running}}}}}

\* The device once it has got the deletes and then the updates of the tree.
After(t, deletes, updates) ==
  [n \in Holders |->
     IF n \in updates THEN t.lv[n][GetHighestPrecedenceNew(t.lv[n], {})].value
     ELSE IF Up(n) \cap deletes # {} THEN NoValue ELSE conf[n]]

Applied(t) == After(t, GetDeletes(t, Root), GetUpdates(t))

\* What TreeExport keeps of the intent.
Exported(t, i) ==
  [n \in TreeExport(t, i) |->
     t.lv[n][CHOOSE k \in DOMAIN t.lv[n] : t.lv[n][k].owner = i].value]

NoTransaction(c) == [ok |-> TRUE, results |-> {}, intents |-> store, next |-> c]

Init ==
  /\ scope \in Scopes
  /\ store = [i \in Intents |-> NoContent]
  /\ conf = [n \in Holders |-> IF n \in DOMAIN scope.factory THEN scope.factory[n] ELSE NoValue]
  /\ last = NoTransaction(conf)
  /\ down = FALSE

\* lowlevelTransactionSet with one intent; without content the intent is removed.
Set(i, content) ==
  /\ ~down
  /\ \E t \in Populated(i, content) :
       IF Panics(t, scope.off) THEN down' = TRUE /\ UNCHANGED <<store, conf, last>>
       ELSE \E results \in {Validate(t, scope.off)} :
              /\ last' = [ok |-> ~HasErrors(results), results |-> results,
                          intents |-> [store EXCEPT ![i] = Exported(t, i)], next |-> Applied(t)]
              /\ IF HasErrors(results) THEN UNCHANGED <<conf, store>>
                 ELSE conf' = last'.next /\ store' = last'.intents
              /\ down' = FALSE
  /\ UNCHANGED scope

Next ==
  \/ \E i \in Intents, content \in scope.offers : Set(i, content)
  \/ \E i \in Intents : store[i] # NoContent /\ Set(i, NoContent)

Spec == Init /\ [][Next]_vars

-----------------------------------------------------------------------------
(* The statements of the schema, read on a configuration *)

Exists(c, n) == \E m \in Below(n) \cap Holders : c[m] # NoValue

\* The value in use: a default counts where the entry above exists.
InUse(c, n) ==
  IF c[n] # NoValue THEN c[n] ELSE IF Exists(c, Parent[n]) THEN Default[n] ELSE NoValue

Instances(n) == IF Kind[n] = "list" THEN ChildsOf[n] ELSE {n}

MandatoryHolds(c) ==
  \A n \in Nodes : \A names \in Mandatory[n], e \in Instances(n) :
    Exists(c, e) => \E x \in ChildsOf[e] : Name[x] \in names /\ Exists(c, x)

\* The leafs a leafref path leads to.
RECURSIVE Targets(_, _, _)
Targets(c, S, path) ==
  IF path = <<>> THEN S
  ELSE LET next == {x \in UNION {ChildsOf[e] : e \in S} : Name[x] = Head(path).name}
           chosen(x) == {k \in ChildsOf[x] : Head(path).key = NoValue \/ InUse(c, Head(path).key) = k}
       IN  Targets(c, UNION {IF Kind[x] = "list" THEN chosen(x) ELSE {x} : x \in next}, Tail(path))

LeafrefHolds(c, S) ==
  \A n \in Configured(c) \cap S :
    Lref[n] # <<>> /\ n \notin Optional =>
      \E m \in Targets(c, {From[n]}, Lref[n]) : c[m] = c[n]

RangeHolds(c) == \A n \in Configured(c) : Ranges[n] # {} => Within(c[n], Ranges[n])

LengthHolds(c, S) ==
  \A n \in Configured(c) \cap S : Lengths[n] # {} => Within(c[n], Lengths[n])

PatternHolds(c, S) ==
  \A n \in Configured(c) \cap S : \A p \in Patterns[n] :
    IF p.inverted THEN c[n] \notin p.match ELSE c[n] \in p.match

MustHolds(c) ==
  \A n \in Nodes : Exists(c, n) => \A m \in Must[n] : InUse(c, m.leaf) = m.value

LeafListHolds(c) ==
  \A n \in Configured(c) \cap LeafLists :
    MinMax[n] # <<>> => Within(c[n], {MinMax[n]})

ElementsHold(c) ==
  \A n \in Nodes : Kind[n] = "list" /\ MinMax[n] # <<>> /\ Exists(c, n) =>
    LET count == Cardinality({k \in ChildsOf[n] : Exists(c, k)})
    IN  MinMax[n][1] <= count /\ (MinMax[n][2] > 0 => count <= MinMax[n][2])

\* The statements of the enabled validators; leafrefs, patterns and lengths of the holders of S.
ValidOn(c, off, S) ==
  /\ "mandatory" \in off \/ MandatoryHolds(c)
  /\ "leafref" \in off \/ LeafrefHolds(c, S)
  /\ "leaflist" \in off \/ LeafListHolds(c)
  /\ "pattern" \in off \/ PatternHolds(c, S)
  /\ "must" \in off \/ MustHolds(c)
  /\ "length" \in off \/ LengthHolds(c, S)
  /\ "range" \in off \/ RangeHolds(c)
  /\ "minmax" \in off \/ ElementsHold(c)

\* Without the statements on leaf-lists that no validator looks at.
Valid(c, off) == ValidOn(c, off, Holders \ LeafLists)

\* The leafs with a length of several parts, which can not all hold.
Split == {n \in Holders \ LeafLists : Cardinality(Lengths[n]) > 1}

OwnersOf(st, n) == {i \in Intents : n \in DOMAIN st[i]}

Best(S) == CHOOSE i \in S : \A j \in S : Prio[i] <= Prio[j]

\* The leafs whose best intent withdraws its value, going from the intents st to st2.
Withdrawn(st, st2) ==
  {n \in Holders : OwnersOf(st, n) # {} /\ Best(OwnersOf(st, n)) \notin OwnersOf(st2, n)}

\* The leafs a validator reads without asking whether they remain: those named by a must
\* statement or as the key of a leafref path, and the keys of the entries that are counted.
ReadAnyway ==
  UNION {{m.leaf : m \in Must[n]} \cup {Lref[n][k].key : k \in DOMAIN Lref[n]} : n \in Nodes}
    \cup {k \in KeyLeafs : MinMax[Parent[Parent[k]]] # <<>>}

\* The leafs of which a validator sees a value that is on its way out.
SeenStale(st, st2) ==
  {n \in Withdrawn(st, st2) : OwnersOf(st2, n) # {} \/ n \in ReadAnyway}

-----------------------------------------------------------------------------
(* Properties *)

\* Stored intents have the keys of their list entries, results name an entry and an owner.
TypeOK ==
  /\ \A i \in Intents : \A n \in DOMAIN store[i] :
       n \in Holders /\ \A k \in KeyLeafs : Parent[k] \in Up(n) => k \in DOMAIN store[i]
  /\ DOMAIN conf = Holders
  /\ last.ok \in BOOLEAN /\ down \in BOOLEAN
  /\ \A r \in last.results :
       r.at \in Nodes /\ r.owner \in Intents \cup {Unknown, RunningIntentName, DefaultsIntentName}

\* What a transaction brings to the device satisfies every statement of the schema whose
\* validator is enabled, except for the leafrefs, patterns and lengths of leaf-lists, which are
\* not looked at, and unless a validator saw a value that is withdrawn.
AcceptedIsValid ==
  [][last'.ok /\ SeenStale(store, store') = {} => Valid(conf', scope.off)]_vars

\* A transaction is only refused when the configuration it asks for violates a statement, one of
\* those that AcceptedIsValid is about, unless a validator saw a value that is withdrawn, or all
\* errors are about lengths of several parts, of which the validator demands every one.
RejectionIsJustified ==
  [][~last'.ok /\ SeenStale(store, last'.intents) = {} =>
       \/ ~Valid(last'.next, scope.off)
       \/ \A r \in last'.results : r.typ = "error" => r.what = "length" /\ r.at \in Split]_vars

\* The same for leaf-lists.
LeafListsAreChecked ==
  [][last'.ok /\ SeenStale(store, store') = {} => ValidOn(conf', scope.off, Holders)]_vars

\* The same for lengths of several parts.
EveryRejectionIsJustified ==
  [][~last'.ok /\ SeenStale(store, last'.intents) = {} => ~Valid(last'.next, scope.off)]_vars

\* Every leaf that is the key of a configured leafref has a value of its own.
KeysConfigured ==
  \A n \in Configured(conf) : \A k \in DOMAIN Lref[n] :
    Lref[n][k].key # NoValue => conf[Lref[n][k].key] # NoValue

\* On a valid configuration, setting an intent again to what it is is accepted, and changes
\* nothing on the device, unless the key of a leafref has its default only or a leaf with a
\* length of several parts is configured.
RetryIsAccepted ==
  ~down /\ Valid(conf, scope.off) /\ KeysConfigured /\ Configured(conf) \cap Split = {} =>
    \A i \in Intents : \A t \in Populated(i, store[i]) :
      ~Panics(t, scope.off) /\ ~HasErrors(Validate(t, scope.off)) /\ Applied(t) = conf

\* The stored intents are well formed, and can be set again.
StoreInv == TypeOK /\ RetryIsAccepted

\* Every value that is configured lies in the ranges of its leaf.
ValuesInRange == RangeHolds(conf)

=============================================================================
