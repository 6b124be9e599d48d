----------------------------- MODULE ConfigTree -----------------------------
(***************************************************************************)
(* The configuration tree (package tree and its ops and processors): a     *)
(* tree of entries that mirrors the YANG schema, in which every leaf and   *)
(* presence container holds LeafVariants, every list has one key level of  *)
(* entries below it, and every container with choices holds resolvers that *)
(* remember the best priority below each element of a case.                *)
(*                                                                         *)
(* The schema instance is given by constants.  A tree is a record:         *)
(*   has     the entries that exist, closed under Parent                   *)
(*   lv      the LeafVariants of every entry                               *)
(*   now     per element of a case, caseElement.highestWODeleted           *)
(*   before  per element of a case, caseElement.highestWONew               *)
(*   first   per choice, the case a range over the map of cases visits     *)
(*           first, which decides between cases of equal priority; it is   *)
(*           chosen anew for every traversal of a tree, while the code     *)
(*           ranges anew in every call                                     *)
(*                                                                         *)
(* Lists have one key.  The caches of CanDelete, ShouldDelete and          *)
(* RemainsToExist are left out: a copied tree starts without them and the  *)
(* queries below run on trees that are not changed in between.  There is   *)
(* no leaf-list at the root.                                               *)
(***************************************************************************)
EXTENDS LeafVariants, FiniteSets, FiniteSetsExt, Functions

CONSTANTS Nodes,     \* the entries a tree may have
          Root,      \* the root entry
          Parent,    \* the parent of every other entry
          Kind,      \* "container", "presence", "list", "key", "leaf" or "leaflist"
          KeyLeafs,  \* the leafs that repeat the key of the list entry above them
          ChoicesOf, \* ChoicesOf[n]: the choices of n, each a set of cases, each a set of childs
          Default,   \* Default[n]: the schema default of a leaf, or NoValue
          NoValue    \* no value

\* HoldsLeafVariants
Holders == {n \in Nodes : Kind[n] \in {"leaf", "leaflist", "presence"}}

\* The entries on the way to the root, and the entries of a branch.
UpOf[n \in Nodes] == {n} \cup (IF n = Root THEN {} ELSE UpOf[Parent[n]])
BelowOf == [n \in Nodes |-> {m \in Nodes : n \in UpOf[m]}]
ChildsOf == [n \in Nodes |-> {c \in Nodes \ {Root} : Parent[c] = n}]

Up(n) == UpOf[n]
Below(n) == BelowOf[n]
Childs(t, n) == ChildsOf[n] \cap t.has

Elements(n) == UNION {UNION ch : ch \in ChoicesOf[n]}

AllChoices == UNION {ChoicesOf[n] : n \in Nodes}

AllElements == UNION {Elements(n) : n \in Nodes}

-----------------------------------------------------------------------------
(* Choice and case resolution *)

\* The cases getBestCases may return: those of the least priority, if it is below MaxInt32.
BestCases(ch, prio) ==
  LET P(cas) == Min({prio[e] : e \in cas})
  IN  {cas \in ch : P(cas) < MaxInt32 /\ \A other \in ch : P(cas) <= P(other)}

\* getBestCases: the first of them the loop visits; {} is nil.
BestCase(t, ch, prio) ==
  LET best == BestCases(ch, prio)
  IN  IF best = {} THEN {}
      ELSE IF t.first[ch] \in best THEN t.first[ch] ELSE CHOOSE cas \in best : TRUE

\* Mutant of GetSkipElements: no case is left out.
GetSkipElements_None(t, n) == {}

GetSkipElements(t, n) == UNION {(UNION ch) \ BestCase(t, ch, t.now) : ch \in ChoicesOf[n]}

\* GetChilds(DescendMethodActiveChilds); entries of a key level have no schema and no choices.
ActiveChilds(t, n) == Childs(t, n) \ GetSkipElements(t, n)

\* ChoiceResolvers.GetDeletes: all elements of the case that was the best one and is no more.
ChoiceDeletes(t, n) ==
  UNION {LET before == BestCase(t, ch, t.before)
         IN  IF before = BestCase(t, ch, t.now) THEN {} ELSE before : ch \in ChoicesOf[n]}

\* GetHighestPrecedenceValueOfBranch with HighestPrecedenceFilterWithoutDeleted or -WithoutNew.
HighestOfBranch(t, n, withoutDeleted) ==
  Min({MaxInt32} \cup
      UNION {{t.lv[m][i].prio : i \in {k \in DOMAIN t.lv[m] :
                /\ t.lv[m][k].owner # DefaultsIntentName
                /\ IF withoutDeleted THEN ~t.lv[m][k].delete ELSE ~t.lv[m][k].new}}
             : m \in Below(n) \cap t.has})

populateChoiceCaseResolvers(t, n) ==
  LET Value(e, withoutDeleted) ==
        IF e \in t.has THEN HighestOfBranch(t, e, withoutDeleted) ELSE MaxInt32
  IN  [t EXCEPT !.now    = [e \in AllElements |-> IF e \in Elements(n) THEN Value(e, TRUE) ELSE @[e]],
                !.before = [e \in AllElements |-> IF e \in Elements(n) THEN Value(e, FALSE) ELSE @[e]]]

\* FinishInsertionPhase of an entry: the resolvers of the entry, then those of its active childs.
RECURSIVE FinishEntry(_, _)
FinishEntry(t, n) ==
  LET t1 == populateChoiceCaseResolvers(t, n)
  IN  FoldSet(LAMBDA c, u : FinishEntry(u, c), t1, ActiveChilds(t1, n))

-----------------------------------------------------------------------------
(* Navigation: NavigateSdcpbPath descends through active childs only.  With resolvers that   *)
(* tie, which they do until FinishInsertionPhase has run, the element it finds depends on    *)
(* the order of a map.                                                                       *)

\* The paths start at the root, or at the parent of the entry.
Passed(n, fromParent) ==
  {<<ch, e>> \in AllChoices \X (IF fromParent THEN {n} ELSE Up(n)) : e \in UNION ch}

MayReach(t, n, fromParent) ==
  /\ n \in t.has
  /\ \A <<ch, e>> \in Passed(n, fromParent) : \E cas \in BestCases(ch, t.now) : e \in cas

MustReach(t, n, fromParent) ==
  /\ n \in t.has
  /\ \A <<ch, e>> \in Passed(n, fromParent) :
       \E cas \in ch : e \in cas /\ BestCases(ch, t.now) = {cas}

\* The sets of entries of S that are found.
Reached(t, S, fromParent) ==
  LET must == {n \in S : MustReach(t, n, fromParent)}
      may  == {n \in S \ must : MayReach(t, n, fromParent)}
  IN  {must \cup R : R \in SUBSET may}

-----------------------------------------------------------------------------
(* What the tree says of an entry *)

RECURSIVE EntryCanDelete(_, _)
EntryCanDelete(t, n) ==
  CanDelete(t.lv[n]) /\ \A c \in ActiveChilds(t, n) : EntryCanDelete(t, c)

RECURSIVE BranchCanDelete(_, _, _)
BranchCanDelete(t, n, keepDefault) ==
  /\ CanDeleteBranch(t.lv[n], keepDefault)
  /\ \A c \in Childs(t, n) : BranchCanDelete(t, c, keepDefault)

RECURSIVE EntryShouldDelete(_, _)
EntryShouldDelete(t, n) ==
  LET active == ActiveChilds(t, n)
  IN  \/ ShouldDelete(t.lv[n])
      \/ /\ CanDelete(t.lv[n])
         /\ \A c \in active : EntryCanDelete(t, c)
         /\ \/ active = {} /\ ChoicesOf[n] # {}
            \/ \E c \in active : EntryShouldDelete(t, c)

ContainsOnlyDefaults(t, n) ==
  \A c \in Childs(t, n) :
    /\ Default[c] # NoValue
    /\ LET h == GetHighestPrecedenceAny(t.lv[c], TRUE, FALSE)
       IN  h # 0 /\ t.lv[c][h].owner = DefaultsIntentName

-----------------------------------------------------------------------------
(* Building and cutting *)

Entry(owner, prio, value, isNew) ==
  LET le == NewLeafEntry(owner, prio, value) IN IF isNew THEN MarkNew(le) ELSE le

DefaultLeafs(n) == {c \in Nodes \ {Root} : Parent[c] = n /\ Default[c] # NoValue}

\* NewEntry for the entries of new: loadDefaults fills a new container or list entry with the
\* defaults of its childs, initChoiceCasesResolvers gives it fresh resolvers.
Create(t, new) ==
  LET filled == UNION {DefaultLeafs(a) : a \in new} \ t.has
  IN  [t EXCEPT !.has = @ \cup new \cup filled,
                !.lv  = [m \in Nodes |-> IF m \in filled
                           THEN <<NewLeafEntry(DefaultsIntentName, DefaultValuesPrio, Default[m])>>
                           ELSE @[m]]]

GetOrCreateChilds(t, n) == Create(t, Up(n) \ t.has)

\* NewTreeRoot
EmptyTree(first) ==
  Create([has |-> {}, lv |-> [n \in Nodes |-> <<>>], now |-> [e \in AllElements |-> 0],
          before |-> [e \in AllElements |-> 0], first |-> first], {Root})

\* DeleteChild: the entries of S and all below leave the tree.
Prune(t, S) ==
  LET gone == UNION {Below(n) : n \in S}
      fresh == UNION {Elements(n) : n \in gone}
      Zero(f) == [e \in AllElements |-> IF e \in fresh THEN 0 ELSE f[e]]
  IN  [t EXCEPT !.has = @ \ gone,
                !.lv  = [m \in Nodes |-> IF m \in gone THEN <<>> ELSE @[m]],
                !.now = Zero(@), !.before = Zero(@)]

\* The end of AddUpdateRecursiveInternal.
AddLeaf(t, n, le) ==
  LET t1 == GetOrCreateChilds(t, n) IN [t1 EXCEPT !.lv[n] = AddWithStats(@, le)]

\* The value of a key leaf is the name of the entry of the key level.
KeyValue(k) == Parent[k]

\* The key leafs on the way to n: an entry of the owner only loses its delete flag.
CheckAndCreateKeysAsLeafs(t, n, le) ==
  LET keys == {k \in KeyLeafs : Parent[k] \in Up(n)}
      Add(k, u) ==
        LET u1 == GetOrCreateChilds(u, k)
            i  == GetByOwner(u1.lv[k], le.owner)
        IN  IF i # 0 THEN [u1 EXCEPT !.lv[k][i] = DropDeleteFlag(@)]
            ELSE AddLeaf(u1, k, [le EXCEPT !.value = KeyValue(k)])
  IN  FoldSet(Add, t, keys)

\* AddUpdateRecursive
AddUpdate(t, n, le) == AddLeaf(CheckAndCreateKeysAsLeafs(t, n, le), n, le)

\* AddUpdatesRecursive: content is a function from holders to values.
AddUpdates(t, content, owner, prio, isNew) ==
  FoldSet(LAMBDA n, u : AddUpdate(u, n, Entry(owner, prio, content[n], isNew)), t, DOMAIN content)

\* ImportConfig: the data holds the key leafs itself; a presence container gets an entry of its
\* own when the data has nothing below it.
ImportConfig(t, content, owner, prio) ==
  LET S == {n \in DOMAIN content : Below(n) \cap DOMAIN content = {n}}
      t1 == Create(t, UNION {Up(n) : n \in S} \ t.has)
  IN  [t1 EXCEPT !.lv = [m \in Nodes |-> IF m \notin S THEN @[m]
                           ELSE AddWithStats(@[m], Entry(owner, prio, content[m], FALSE))]]

OnEntries(t, S, F(_)) == [t EXCEPT !.lv = [m \in Nodes |-> IF m \in S THEN F(@[m]) ELSE @[m]]]

\* OwnerDeleteMarker
MarkOwnerDelete(t, n, owner, onlyIntended) ==
  OnEntries(t, Below(n) \cap t.has, LAMBDA l : MarkOwnerForDeletion(l, owner, onlyIntended))

\* ExplicitDeleteProcessor
MarkExplicitDelete(t, n, owner, prio) ==
  LET Mark(l) == LET k == GetByOwner(l, owner)
                 IN  IF k # 0 THEN [l EXCEPT ![k] = MarkExpliciteDelete(@)]
                     ELSE AddExplicitDeleteEntry(l, owner, prio, NoValue)
  IN  OnEntries(t, Below(n) \cap t.has \cap Holders, Mark)

\* ResetFlagsProcessor
ResetAllFlags(t) == OnEntries(t, t.has, LAMBDA l : [k \in DOMAIN l |-> ResetFlags(l[k])])

\* deleteBranchInternal: the owner's entries below n go, and then the childs that can.
DeleteBranchInternal(t, n, owner) ==
  LET t1 == OnEntries(t, Below(n) \cap t.has, LAMBDA l : DeleteByOwner(l, owner))
  IN  Prune(t1, {m \in (Below(n) \cap t1.has) \ {n} : BranchCanDelete(t1, m, FALSE)})

DeleteCanDeleteChilds(t, n, keepDefault) ==
  Prune(t, {c \in Childs(t, n) : BranchCanDelete(t, c, keepDefault)})

\* The loop of DeleteBranch towards the root.
RECURSIVE CutUpwards(_, _)
CutUpwards(t, n) ==
  IF n = Root \/ ~BranchCanDelete(t, n, FALSE) THEN t
  ELSE CutUpwards(DeleteCanDeleteChilds(t, Parent[n], TRUE), Parent[n])

\* DeleteBranch of a path that NavigateSdcpbPath finds.
DeleteBranch(t, n, owner) == CutUpwards(DeleteBranchInternal(t, n, owner), n)

DeleteBranches(t, S, owner) ==
  FoldSet(LAMBDA n, u : IF n \in u.has THEN DeleteBranch(u, n, owner) ELSE u, t, S)

\* RemoveDeletedProcessor.  A task stops at an entry whose branch can go, which it lists as
\* zero length; keepDefaults holds for the childs of an entry without a container schema.
KeepDefaults(n) == n # Root /\ Kind[Parent[n]] = "key"

ZeroLength(t) ==
  {n \in t.has : /\ BranchCanDelete(t, n, KeepDefaults(n))
                 /\ \A a \in Up(n) \ {n} : ~BranchCanDelete(t, a, KeepDefaults(a))}

RemoveDeleted(t, owner) ==
  LET visited == {n \in t.has : \A a \in Up(n) \ {n} : ~BranchCanDelete(t, a, KeepDefaults(a))}
  IN  OnEntries(t, visited, LAMBDA l : RemoveDeletedByOwner(l, owner))

-----------------------------------------------------------------------------
(* What is sent to the device: del is a set of paths, upd the holders whose value is sent. *)

RECURSIVE GetDeletes(_, _)
GetDeletes(t, n) ==
  CASE /\ Kind[n] = "key"
       /\ \A k \in KeyLeafs \cap Childs(t, n) : EntryShouldDelete(t, k) -> {n}
    [] Kind[n] \notin {"key", "list"} /\ n # Root /\ EntryShouldDelete(t, n) -> {n}
    [] OTHER -> ChoiceDeletes(t, n) \cup UNION {GetDeletes(t, c) : c \in Childs(t, n)}

\* The branches a traversal of active childs, or of all childs, visits.
RECURSIVE ActiveBelow(_, _)
ActiveBelow(t, n) == {n} \cup UNION {ActiveBelow(t, c) : c \in ActiveChilds(t, n)}

\* The intents of this module are revertive.
Sends(t, n) == GetHighestPrecedenceNew(t.lv[n], {}) # 0

\* GetHighestPrecedence(onlyNewOrUpdated), and ToProtoUpdates.
GetUpdates(t) == {n \in ActiveBelow(t, Root) : Sends(t, n)}

\* A presence container without configured childs, in ToJson and ToXML.
PresenceIsNew(t, n) ==
  /\ ~ShouldDelete(t.lv[n])
  /\ LET h == GetHighestPrecedenceAny(t.lv[n], FALSE, FALSE)
     IN  h # 0 /\ (t.lv[n][h].new \/ t.lv[n][h].updated)

WithKeys(n, S) == IF S = {} THEN {} ELSE S \cup {k \in KeyLeafs : Parent[k] = n}

RECURSIVE ToJson(_, _)
ToJson(t, n) ==
  LET Sub(S) == UNION {ToJson(t, c) : c \in S}
  IN  CASE Kind[n] \in {"leaf", "leaflist"} ->
             IF CanDelete(t.lv[n]) \/ ~Sends(t, n) THEN {} ELSE {n}
        [] Kind[n] = "key"  -> WithKeys(n, Sub(Childs(t, n)))
        [] Kind[n] = "list" -> Sub(Childs(t, n))
        [] Kind[n] = "presence" /\ ContainsOnlyDefaults(t, n) ->
             IF PresenceIsNew(t, n) THEN {n} ELSE {}
        [] OTHER -> Sub(ActiveChilds(t, n))

\* The XML of a branch: what it deletes, what it sets, and the elements it replaces.
XML(del, upd, replace) == [del |-> del, upd |-> upd, rep |-> replace]

Nothing == XML({}, {}, {})

Both(a, b) == XML(a.del \cup b.del, a.upd \cup b.upd, a.rep \cup b.rep)

\* The value a leaf is rendered with, as a position in its LeafVariants: 0 is none.
Rendered(t, n, onlyNewOrUpdated) ==
  IF onlyNewOrUpdated THEN GetHighestPrecedenceNew(t.lv[n], {})
  ELSE GetHighestPrecedenceAny(t.lv[n], FALSE, FALSE)

\* A new value of a leaf-list replaces the element the leaf-list is in.
TypedValueToXML(n, onlyNewOrUpdated) ==
  XML({}, {n}, IF Kind[n] = "leaflist" /\ onlyNewOrUpdated THEN {Parent[n]} ELSE {})

\* The deletion of a key leaf deletes the list entry.
LeafXML(t, n, onlyNewOrUpdated) ==
  CASE ShouldDelete(t.lv[n]) -> XML({IF n \in KeyLeafs THEN Parent[n] ELSE n}, {}, {})
    [] ~ShouldDelete(t.lv[n]) /\ Rendered(t, n, onlyNewOrUpdated) = 0 -> Nothing
    [] OTHER -> TypedValueToXML(n, onlyNewOrUpdated)

\* Mutant of ListEntryXML: a replaced entry is not filled up.
ListEntryXML_NoRefill(c, x, all, withNS) ==
  CASE x = Nothing -> Nothing
    [] c \in x.del -> XML({c}, {}, {})
    [] OTHER -> [x EXCEPT !.upd = @ \cup {k \in KeyLeafs : Parent[k] = c}]

\* The element of list entry c: x is its XML, all the XML of all its values.  A replaced entry is
\* filled up with all of them, if the operation is found: withNS tells whether it carries the
\* namespace the code looks for.  Of two operations on the element the later one stays.
ListEntryXML(c, x, all, withNS) ==
  LET refill == withNS /\ c \in x.rep
      y == IF refill THEN [all EXCEPT !.rep = {c}]
           ELSE [x EXCEPT !.upd = @ \cup {k \in KeyLeafs : Parent[k] = c}]
  IN  CASE x = Nothing -> Nothing
        [] c \in y.del /\ (refill \/ c \notin x.rep) -> XML({c}, {}, {})
        [] OTHER -> [y EXCEPT !.del = @ \ {c}]

\* A container that stays renders every child, not only the active ones, and is not filled up
\* when it is replaced.
RECURSIVE ToXML(_, _, _, _)
ToXML(t, n, onlyNewOrUpdated, withNS) ==
  LET Of(c) == ToXML(t, c, onlyNewOrUpdated, withNS)
      Sub(S) == FoldSet(LAMBDA c, r : Both(Of(c), r), Nothing, S)
      Element(c) == ListEntryXML(c, Of(c), ToXML(t, c, FALSE, withNS), withNS)
  IN  CASE Kind[n] \in {"leaf", "leaflist"} -> LeafXML(t, n, onlyNewOrUpdated)
        [] Kind[n] = "key" ->
             IF EntryShouldDelete(t, n) THEN XML({n}, {}, {}) ELSE Sub(ActiveChilds(t, n))
        [] Kind[n] = "list" ->
             FoldSet(LAMBDA c, r : Both(Element(c), r), Nothing, Childs(t, n))
        [] Kind[n] \in {"container", "presence"} /\ n # Root /\ EntryShouldDelete(t, n) ->
             XML({n}, {}, {})
        [] Kind[n] = "presence" /\ ~EntryShouldDelete(t, n) /\ ContainsOnlyDefaults(t, n) ->
             IF onlyNewOrUpdated => PresenceIsNew(t, n) THEN XML({}, {n}, {}) ELSE Nothing
        [] OTHER -> Sub(Childs(t, n))

-----------------------------------------------------------------------------
(* What is read from the tree *)

\* treeExportLevel: the holders TreeExport writes for an owner.
TreeExport(t, owner) ==
  {n \in t.has : LET k == GetByOwner(t.lv[n], owner) IN k # 0 /\ ~t.lv[n][k].delete}

\* Mutant of DeviationsOf: the elements of other cases are treated as active.
DeviationsOf_AllActive(t, n) ==
  IF Kind[n] = "presence" /\ ActiveChilds(t, n) # {} THEN <<>>
  ELSE GetDeviations(t.lv[n], TRUE, NoValue)

\* deviationTask: the entries reported per holder; a presence container with active childs is
\* not looked at.
DeviationsOf(t, n) ==
  LET isActive == n = Root \/ n \in ActiveChilds(t, Parent[n])
  IN  IF Kind[n] = "presence" /\ ActiveChilds(t, n) # {} THEN <<>>
      ELSE GetDeviations(t.lv[n], isActive, NoValue)

\* BlameConfigTask with defaults left out: the owner of the value of every active leaf, and
\* whether running differs.
Blame(t) ==
  LET h(n) == GetHighestPrecedenceAny(t.lv[n], TRUE, TRUE)
      shown == {n \in ActiveBelow(t, Root) :
                  h(n) # 0 /\ t.lv[n][h(n)].owner # DefaultsIntentName}
  IN  [n \in shown |->
         LET r == GetRunning(t.lv[n])
         IN  [owner |-> t.lv[n][h(n)].owner,
              deviates |-> r = 0 \/ t.lv[n][r].value # t.lv[n][h(n)].value]]
=============================================================================
