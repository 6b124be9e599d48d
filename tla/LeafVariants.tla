---------------------------- MODULE LeafVariants ----------------------------
(***************************************************************************)
(* The leaf variants of one leaf of the configuration tree: every owner    *)
(* (an intent, the running configuration, the schema default) that has a   *)
(* value for the leaf holds one LeafEntry, and the queries below decide    *)
(* from the entries' priorities and flags what is sent to the device.      *)
(*                                                                         *)
(* lv is the slice `les`, a sequence of entries in insertion order.  A     *)
(* *LeafEntry result is the index of the entry in lv, with 0 for nil.      *)
(* nr is the set of owners the NonRevertiveInfo of the tree context        *)
(* reports as non-revertive for this leaf.                                 *)
(*                                                                         *)
(* Each operator is a function of the slice.  The code guards the slice    *)
(* with lesMutex, which the queries take again when they call each other   *)
(* and which AddWithStats releases between its lookup and its append; the  *)
(* modules that use these operators give a leaf to one goroutine at a time.*)
(***************************************************************************)
EXTENDS Integers, Sequences, Folds

RunningIntentName  == "running"
DefaultsIntentName == "default"

MaxInt32          == 2147483647
DefaultValuesPrio == MaxInt32 - 90
RunningValuesPrio == MaxInt32 - 100

-----------------------------------------------------------------------------
(* LeafEntry: an update (owner, priority, value) and its flags. *)

NewLeafEntry(owner, prio, value) ==
  [owner |-> owner, prio |-> prio, value |-> value, new |-> FALSE, delete |-> FALSE,
   onlyIntended |-> FALSE, updated |-> FALSE, explicit |-> FALSE]

MarkNew(le) ==
  [le EXCEPT !.updated = FALSE, !.delete = FALSE, !.onlyIntended = FALSE, !.new = TRUE]

\* Takes over the value and the priority of u; onlyIntended and explicit stay as they are.
MarkUpdate(le, u) ==
  [le EXCEPT !.prio = u.prio, !.value = u.value,
             !.updated = TRUE, !.delete = FALSE, !.new = FALSE]

DropDeleteFlag(le) == [le EXCEPT !.delete = FALSE, !.onlyIntended = FALSE]

MarkDelete(le, onlyIntended) ==
  [le EXCEPT !.delete = TRUE, !.onlyIntended = @ \/ onlyIntended,
             !.updated = FALSE, !.new = FALSE]

MarkExpliciteDelete(le) ==
  [le EXCEPT !.delete = TRUE, !.explicit = TRUE, !.updated = FALSE, !.new = FALSE]

\* Called with all three of deleteFlag, newFlag and updatedFlag set, the only use in the code.
ResetFlags(le) ==
  [le EXCEPT !.delete = FALSE, !.onlyIntended = @ /\ ~le.delete,
             !.updated = FALSE, !.new = FALSE]

-----------------------------------------------------------------------------
(* Operations on the slice. *)

\* Step(c, i) for every index of the slice, in order.
ForEach(Step(_, _), c, lv) ==
  MapThenFoldSet(LAMBDA i, acc : Step(acc, i), c, LAMBDA i : i,
                 LAMBDA S : CHOOSE i \in S : \A j \in S : j <= i, DOMAIN lv)

\* An owner has at most one entry.
GetByOwner(lv, owner) ==
  LET S == {i \in DOMAIN lv : lv[i].owner = owner}
  IN  IF S = {} THEN 0 ELSE CHOOSE i \in S : TRUE

GetRunning(lv) == GetByOwner(lv, RunningIntentName)

\* Update.Equal also compares the owners, which are equal here.
SameUpdate(le, u) == le.prio = u.prio /\ le.value = u.value

AddWithStats(lv, le) ==
  LET i == GetByOwner(lv, le.owner)
  IN  IF i = 0 THEN Append(lv, le)
      ELSE [lv EXCEPT ![i] = IF SameUpdate(@, le) THEN DropDeleteFlag(@)
                                                  ELSE MarkUpdate(@, le)]

MarkOwnerForDeletion(lv, owner, onlyIntended) ==
  LET i == GetByOwner(lv, owner)
  IN  IF i = 0 THEN lv ELSE [lv EXCEPT ![i] = MarkDelete(@, onlyIntended)]

DeleteByOwner(lv, owner) == SelectSeq(lv, LAMBDA e : e.owner # owner)

RemoveDeletedByOwner(lv, owner) ==
  SelectSeq(lv, LAMBDA e : ~(e.owner = owner /\ e.delete))

\* The empty value of the explicit delete entry is NoValue.
AddExplicitDeleteEntry(lv, owner, prio, NoValue) ==
  AddWithStats(lv, MarkExpliciteDelete(NewLeafEntry(owner, prio, NoValue)))

-----------------------------------------------------------------------------
(* GetHighestPrecedence *)

\* Mutant of Candidates: the candidate is the last entry that is not deleted, whatever its priority.
Candidates_AnyPrio(lv) ==
  LET Step(c, i) ==
        CASE c.highest = 0 -> [c EXCEPT !.highest = i]
          [] c.highest # 0 /\ lv[c.highest].prio > lv[i].prio -> [highest |-> i, second |-> c.highest]
          [] c.highest # 0 /\ lv[c.highest].prio <= lv[i].prio ->
               IF c.second = 0 \/ ~lv[i].delete THEN [c EXCEPT !.second = i] ELSE c
  IN  ForEach(Step, [highest |-> 0, second |-> 0], lv)

\* Mutant of Candidates: a new highest entry does not turn the former one into the candidate.
Candidates_Forgets(lv) ==
  LET Step(c, i) ==
        CASE c.highest = 0 -> [c EXCEPT !.highest = i]
          [] c.highest # 0 /\ lv[c.highest].prio > lv[i].prio -> [c EXCEPT !.highest = i]
          [] c.highest # 0 /\ lv[c.highest].prio <= lv[i].prio ->
               IF c.second = 0 \/ (lv[c.second].prio > lv[i].prio /\ ~lv[i].delete)
               THEN [c EXCEPT !.second = i] ELSE c
  IN  ForEach(Step, [highest |-> 0, second |-> 0], lv)

\* The loop over the entries.  `second` is meant to be the candidate that takes over when
\* the highest is marked for deletion.
Candidates(lv) ==
  LET Step(c, i) ==
        CASE c.highest = 0 ->
               [c EXCEPT !.highest = i]
          [] c.highest # 0 /\ lv[c.highest].prio > lv[i].prio ->
               [highest |-> i, second |-> c.highest]
          [] c.highest # 0 /\ lv[c.highest].prio <= lv[i].prio ->
               IF \/ c.second = 0
                  \/ lv[c.second].prio > lv[i].prio /\ ~lv[i].delete
               THEN [c EXCEPT !.second = i]
               ELSE c
  IN  ForEach(Step, [highest |-> 0, second |-> 0], lv)

\* The highest the loop ends with: the first of the entries with the best priority.
Highest(lv) ==
  IF lv = <<>> THEN 0
  ELSE CHOOSE i \in DOMAIN lv :
         \A j \in DOMAIN lv : lv[i].prio < lv[j].prio \/ (lv[i].prio = lv[j].prio /\ i <= j)

\* GetHighestPrecedence(false, includeDefaults, includeExplicitDelete)
GetHighestPrecedenceAny(lv, includeDefaults, includeExplicitDelete) ==
  LET h == Highest(lv)
  IN  IF \/ h = 0
         \/ lv[h].explicit /\ ~includeExplicitDelete
         \/ lv[h].owner = DefaultsIntentName /\ ~includeDefaults
      THEN 0 ELSE h

HighestIsExplicitDelete(lv) ==
  LET h == GetHighestPrecedenceAny(lv, FALSE, TRUE) IN h # 0 /\ lv[h].explicit

Owners(lv) == {lv[i].owner : i \in DOMAIN lv}

checkOnlyRunningAndMaybeDefault(lv) ==
  \/ Len(lv) = 1 /\ lv[1].owner = RunningIntentName
  \/ Len(lv) = 2 /\ Owners(lv) = {RunningIntentName, DefaultsIntentName}

\* The entry keeps the leaf on the device: not deleted, or deleted from the intended store only.
StaysOnDevice(le) == le.onlyIntended \/ ~le.delete

ByIntent(le) == le.owner \notin {RunningIntentName, DefaultsIntentName}

CanDelete(lv) ==
  \/ lv = <<>>
  \/ /\ ~checkOnlyRunningAndMaybeDefault(lv)
     /\ \/ HighestIsExplicitDelete(lv)
        \/ \A i \in DOMAIN lv :
             ByIntent(lv[i]) /\ ~lv[i].explicit => ~StaysOnDevice(lv[i])

CanDeleteBranch(lv, keepDefault) ==
  \/ lv = <<>>
  \/ HighestIsExplicitDelete(lv)
  \/ \A i \in DOMAIN lv :
       lv[i].owner # DefaultsIntentName \/ keepDefault => ~StaysOnDevice(lv[i])

ShouldDelete(lv) ==
  /\ GetRunning(lv) # 0
  /\ \/ HighestIsExplicitDelete(lv)
     \/ /\ \E i \in DOMAIN lv : ByIntent(lv[i])
        /\ \A i \in DOMAIN lv : ByIntent(lv[i]) => ~StaysOnDevice(lv[i])

\* Mutant of RemainsToExist: orphaned entries do not count.
RemainsToExist_NoOrphans(lv) ==
  LET h == GetHighestPrecedenceAny(lv, FALSE, TRUE)
  IN  /\ h # 0 /\ ~lv[h].explicit
      /\ \/ \E i \in DOMAIN lv : ByIntent(lv[i]) /\ ~lv[i].delete
         \/ \A i \in DOMAIN lv : ~ByIntent(lv[i])

RemainsToExist(lv) ==
  LET h == GetHighestPrecedenceAny(lv, FALSE, TRUE)
  IN  /\ h # 0 /\ ~lv[h].explicit
      /\ \/ \E i \in DOMAIN lv : ByIntent(lv[i]) /\ StaysOnDevice(lv[i])
         \/ /\ \A i \in DOMAIN lv : ~ByIntent(lv[i])
            /\ \E i \in DOMAIN lv : ~ByIntent(lv[i])

highestIsUnequalRunning(lv, h, nr) ==
  /\ lv[h].owner # RunningIntentName
  /\ lv[h].new \/ lv[h].updated \/ lv[h].owner \notin nr
  /\ LET r == GetRunning(lv) IN r = 0 \/ lv[r].value # lv[h].value

\* GetHighestPrecedence(true, false, false): the entry whose value is sent to the device.
GetHighestPrecedenceNew(lv, nr) ==
  LET h == GetHighestPrecedenceAny(lv, FALSE, FALSE)
      s == Candidates(lv).second
  IN  IF lv = <<>> \/ CanDelete(lv) \/ h = 0 THEN 0
      ELSE IF ~lv[h].delete
           THEN IF lv[h].new \/ lv[h].updated \/ highestIsUnequalRunning(lv, h, nr)
                THEN h ELSE 0
           ELSE IF s # 0 /\ ~lv[s].delete /\ lv[s].owner # RunningIntentName
                THEN s ELSE 0

-----------------------------------------------------------------------------
(* GetDeviations *)

Deviation(owner, reason, expected, current) ==
  [owner |-> owner, reason |-> reason, expected |-> expected, current |-> current]

\* The loop over the entries: the running entry, the highest intent, and the list of
\* overruled entries in the order they are appended.
DeviationScan(lv) ==
  LET Step(c, i) ==
        CASE lv[i].owner = DefaultsIntentName -> c
          [] lv[i].owner = RunningIntentName  -> [c EXCEPT !.running = i]
          [] ByIntent(lv[i]) /\ c.highest = 0 -> [c EXCEPT !.highest = i]
          [] ByIntent(lv[i]) /\ c.highest # 0 ->
               LET higher == lv[i].prio < lv[c.highest].prio
                   h      == IF higher THEN i ELSE c.highest
               IN  [c EXCEPT !.highest = h,
                             !.overruled = @ \o (IF higher THEN <<c.highest>> ELSE <<>>)
                                 \o (IF lv[i].prio >= lv[h].prio THEN <<i>> ELSE <<>>)]
  IN  ForEach(Step, [running |-> 0, highest |-> 0, overruled |-> <<>>], lv)

\* The sequence of deviations written to the channel; NoValue is an unset value.
GetDeviations(lv, isActiveCase, NoValue) ==
  LET c   == DeviationScan(lv)
      h   == lv[c.highest]
      run == IF c.running = 0 THEN NoValue ELSE lv[c.running].value
      overruled == SelectSeq(c.overruled, LAMBDA i : lv[i].value # h.value)
      Entry(i)  == Deviation(lv[i].owner, "overruled", lv[i].value, h.value)
  IN  CASE ~isActiveCase ->
             [i \in DOMAIN lv |-> Deviation(lv[i].owner, "overruled", lv[i].value, NoValue)]
        [] isActiveCase /\ c.highest = 0 ->
             IF c.running = 0 THEN <<>>
             ELSE <<Deviation(RunningIntentName, "unhandled", NoValue, run)>>
        [] isActiveCase /\ c.highest # 0 ->
             [k \in DOMAIN overruled |-> Entry(overruled[k])]
               \o (IF c.running # 0 /\ run = h.value THEN <<>>
                   ELSE <<Deviation(h.owner, "not_applied", h.value, run)>>)
=============================================================================
