-------------------------- MODULE LeafTransaction --------------------------
(***************************************************************************)
(* One leaf on its way through lowlevelTransactionSet: the copy of the     *)
(* sync tree (default and running), the intents loaded from the cache, the *)
(* intents of the transaction merged in one after the other, the explicit  *)
(* deletes applied by FinishInsertionPhase, and then the decision what to  *)
(* send to the device and what stays.                                      *)
(***************************************************************************)
EXTENDS LeafVariants, FiniteSets, SequencesExt

CONSTANTS Intents, \* the owners of intended values
          Scopes,  \* what takes part in a behaviour: prios[i], the priorities the clients give intent
                   \* i, none if it does not take part; nr and del, the values of the non-revertive
                   \* attribute and of an explicit delete of the leaf
          Values,  \* the values of the leaf
          NoValue  \* no value

VARIABLES lv,       \* the LeafVariants of the leaf in the transaction's tree
          nr,       \* NonRevertiveInfo: the non-revertive owners
          explicit, \* TreeContext.ExplicitDeletes that cover the leaf: owner -> priority, 0 if none
          merged,   \* the transaction's intents already merged
          phase,    \* "load", "merge" or "done"
          scope     \* what takes part in this behaviour

vars == <<lv, nr, explicit, merged, phase, scope>>

Optional == Values \cup {NoValue}

Prios == UNION {s.prios[i] : s \in Scopes, i \in Intents}

TypeOK ==
  /\ \A k \in DOMAIN lv :
       /\ lv[k].owner \in Intents \cup {RunningIntentName, DefaultsIntentName}
       /\ lv[k].prio \in Prios \cup {RunningValuesPrio, DefaultValuesPrio}
       /\ lv[k].value \in Optional
  /\ nr \subseteq Intents
  /\ explicit \in [Intents -> Prios \cup {0}]
  /\ merged \subseteq Intents
  /\ phase \in {"load", "merge", "done"}
  /\ scope \in Scopes

-----------------------------------------------------------------------------
AddIf(l, le) == IF le.value = NoValue THEN l ELSE AddWithStats(l, le)

RunningEntry(value) == NewLeafEntry(RunningIntentName, RunningValuesPrio, value)

\* The copy of the sync tree: loadDefaults puts the schema default into a new leaf first;
\* the running entry still has IsUpdated set when writeBackSyncTree changed its value and
\* no sync has reset the flags since.
Init ==
  /\ \E default, running \in Optional, updated \in BOOLEAN :
       lv = AddIf(AddIf(<<>>, NewLeafEntry(DefaultsIntentName, DefaultValuesPrio, default)),
                  [RunningEntry(running) EXCEPT !.updated = updated])
  /\ nr = {}
  /\ explicit = [i \in Intents |-> 0]
  /\ merged = {}
  /\ phase = "load"
  /\ scope \in Scopes

\* LoadAllButRunningIntents imports one intent of the cache; its explicit deletes and its
\* non-revertive attribute are stored in the tree context.
LoadIntent(i, prio, value, nonRevertive, del) ==
  /\ phase = "load"
  /\ GetByOwner(lv, i) = 0 /\ explicit[i] = 0
  /\ value # NoValue \/ del
  /\ lv' = AddIf(lv, NewLeafEntry(i, prio, value))
  /\ nr' = IF nonRevertive THEN nr \cup {i} ELSE nr \ {i}
  /\ explicit' = [explicit EXCEPT ![i] = IF del THEN prio ELSE 0]
  /\ UNCHANGED <<merged, phase, scope>>

\* One iteration of the loop over transaction.GetNewIntents() for an intent with content.
MergeIntent(i, prio, value, nonRevertive, previouslyApplied, del) ==
  LET marked == MarkOwnerForDeletion(lv, i, FALSE)
      le     == NewLeafEntry(i, prio, value)
  IN  /\ phase # "done"
      /\ i \notin merged
      /\ lv' = AddIf(marked, IF nonRevertive /\ previouslyApplied THEN le ELSE MarkNew(le))
      /\ nr' = IF nonRevertive THEN nr \cup {i} ELSE nr \ {i}
      /\ explicit' = [explicit EXCEPT ![i] = IF del THEN prio ELSE 0]
      /\ merged' = merged \cup {i}
      /\ phase' = "merge"
      /\ UNCHANGED scope

\* The iteration for an intent with the delete flag, or with the orphan flag, which
\* deletes from the intended store only.
MergeDelete(i, onlyIntended, nonRevertive) ==
  /\ phase # "done"
  /\ i \notin merged
  /\ lv' = MarkOwnerForDeletion(lv, i, onlyIntended)
  /\ nr' = IF nonRevertive THEN nr \cup {i} ELSE nr \ {i}
  /\ explicit' = [explicit EXCEPT ![i] = 0]
  /\ merged' = merged \cup {i}
  /\ phase' = "merge"
  /\ UNCHANGED scope

\* ExplicitDeleteProcessor on a leaf, for one owner.
ExplicitDelete(l, i, prio) ==
  LET k == GetByOwner(l, i)
  IN  IF k # 0 THEN [l EXCEPT ![k] = MarkExpliciteDelete(@)]
      ELSE AddExplicitDeleteEntry(l, i, prio, NoValue)

\* RootEntry.FinishInsertionPhase visits the owners of explicit deletes in map order.  It
\* reaches leaves that exist in the tree, those that hold at least one entry.
FinishInsertionPhase ==
  /\ phase = "merge"
  /\ \E order \in SetToSeqs({i \in Intents : explicit[i] # 0 /\ lv # <<>>}) :
       lv' = FoldLeft(LAMBDA l, i : ExplicitDelete(l, i, explicit[i]), lv, order)
  /\ phase' = "done"
  /\ UNCHANGED <<nr, explicit, merged, scope>>

Taking == {i \in Intents : scope.prios[i] # {}}

\* Whether the intent was applied before matters to the non-revertive ones only.
Next ==
  \/ \E i \in Intents, value \in Optional, n \in scope.nr, del \in scope.del :
       \E prio \in scope.prios[i] : LoadIntent(i, prio, value, n, del)
  \/ \E i \in Intents, value \in Optional, n \in scope.nr, del \in scope.del :
       \E prio \in scope.prios[i], p \in {FALSE, n} : MergeIntent(i, prio, value, n, p, del)
  \/ \E i \in Taking, onlyIntended \in BOOLEAN, n \in scope.nr :
       MergeDelete(i, onlyIntended, n)
  \/ FinishInsertionPhase

Spec == Init /\ [][Next]_vars

-----------------------------------------------------------------------------
(* What the transaction does with the leaf. *)

RunningValue == IF GetRunning(lv) = 0 THEN NoValue ELSE lv[GetRunning(lv)].value

Sent == GetHighestPrecedenceNew(lv, nr)

\* The value on the device once the deletes and then the updates of the transaction are
\* applied, also the running value written back to the sync tree.
DeviceAfter ==
  IF Sent # 0 THEN lv[Sent].value
  ELSE IF ShouldDelete(lv) THEN NoValue ELSE RunningValue

\* The entries the next revert loads: the sync tree after the write back and what TreeExport
\* stored for every intent, imported without flags, with explicit deletes applied again.
Reloaded ==
  LET survives(e) == ByIntent(e) /\ (~e.delete \/ e.explicit)
      fresh(e)    == IF e.explicit
                     THEN MarkExpliciteDelete(NewLeafEntry(e.owner, e.prio, NoValue))
                     ELSE NewLeafEntry(e.owner, e.prio, e.value)
      kept == SelectSeq(lv, survives)
  IN  SelectSeq(lv, LAMBDA e : e.owner = DefaultsIntentName)
        \o (IF DeviceAfter = NoValue THEN <<>> ELSE <<RunningEntry(DeviceAfter)>>)
        \o [k \in DOMAIN kept |-> fresh(kept[k])]

-----------------------------------------------------------------------------
(* Properties *)

\* The entries that are to be deleted and would precede entry k.
DeletedBefore(k) == {j \in DOMAIN lv : lv[j].delete /\ lv[j].prio <= lv[k].prio}

\* Two entries that are deleted precede every intent that remains.  GetHighestPrecedence keeps one
\* candidate next to the highest entry: it may be the other deleted one, and the intent that should
\* take over is missed.
SuccessorMissed ==
  LET Remaining == {k \in DOMAIN lv : ByIntent(lv[k]) /\ ~lv[k].delete}
  IN  Remaining # {} /\ \A k \in Remaining : Cardinality(DeletedBefore(k)) > 1

\* A transaction leaves nothing for the next sync revert to correct: with the device as the
\* transaction set it and the intents as it stored them, performRevert finds neither an
\* update nor a delete (GetHighestPrecedence and ShouldDelete agree with a fresh evaluation).
\* It is stated for transactions without explicit deletes and, as a successor that was missed is
\* what the revert finds, for those that delete at most one intent above the remaining ones.
RevertFindsNothing ==
  phase = "done" /\ (\A i \in Intents : explicit[i] = 0) /\ ~SuccessorMissed =>
    /\ GetHighestPrecedenceNew(Reloaded, nr) = 0
    /\ ~ShouldDelete(Reloaded)

\* An intent that remains decides the value on the device: of the entries that remain the one of the
\* highest precedence is what the device holds after the transaction, in whatever order the intents
\* were loaded, unless its owner is non-revertive and the transaction left its value alone.
SuccessorIsOnDevice ==
  phase = "done" =>
    \A k \in DOMAIN lv :
      /\ ByIntent(lv[k]) /\ ~lv[k].delete
      /\ \A j \in DOMAIN lv \ {k} :
           ByIntent(lv[j]) /\ (~lv[j].delete \/ lv[j].explicit) => lv[k].prio < lv[j].prio
      /\ lv[k].owner \notin nr \/ lv[k].new \/ lv[k].updated
      => DeviceAfter = lv[k].value

\* SuccessorIsOnDevice where the transaction deletes at most one entry above those that remain: the
\* choice of the successor at the end of GetHighestPrecedence.
RemainingIntentIsOnDevice == ~SuccessorMissed => SuccessorIsOnDevice

\* RemainsToExist agrees with CanDelete and ShouldDelete (comment in RemainsToExist): a leaf
\* that is to be deleted does not remain, and one with a value on the device does.
RemainsAgreesWithDelete ==
  phase = "done" =>
    /\ ShouldDelete(lv) => ~RemainsToExist(lv) /\ CanDelete(lv)
    /\ DeviceAfter # NoValue /\ RunningValue # NoValue => RemainsToExist(lv)

\* The queries agree on leafs with their types.
QueriesAgree == TypeOK /\ RemainsAgreesWithDelete
=============================================================================
