----------------------------- MODULE RunningFeed -----------------------------
(***************************************************************************)
(* What a stream of device notifications may do to the running             *)
(* configuration, whatever the goroutines between the two: a notification  *)
(* is taken at most once, stays pending, and is settled at most once.      *)
(* Settling a set of notifications changes only leafs they are about, and  *)
(* only to absent or to the value one of them brings.                      *)
(***************************************************************************)
EXTENDS Naturals, Sequences

CONSTANT Leafs

VARIABLES note,    \* note[n]: the leaf and the operation of notification n
          pending, \* the notifications taken and not settled
          settled, \* the notifications applied to running, or given up
          running  \* running[l]: the notification the value of leaf l comes from, 0 if absent

vars == <<note, pending, settled, running>>

Init ==
  /\ note = <<>>
  /\ pending = {}
  /\ settled = {}
  /\ running = [l \in Leafs |-> 0]

Untaken == DOMAIN note \ (pending \cup settled)

\* The device reports a change of a leaf.
Tell ==
  /\ \E l \in Leafs, op \in {"update", "delete", "unknown"} :
       note' = Append(note, [leaf |-> l, op |-> op])
  /\ UNCHANGED <<pending, settled, running>>

Take ==
  /\ \E n \in Untaken : pending' = pending \cup {n}
  /\ UNCHANGED <<note, settled, running>>

Refuse ==
  /\ \E n \in Untaken : settled' = settled \cup {n}
  /\ UNCHANGED <<note, pending, running>>

\* The value n brings for leaf l, or its removal.
Brings(n, l, v) ==
  /\ note[n].leaf = l
  /\ \/ note[n].op = "update" /\ v = n
     \/ note[n].op = "delete" /\ v = 0

Settle ==
  /\ \E S \in SUBSET pending :
       /\ pending' = pending \ S
       /\ settled' = settled \cup S
       /\ \A l \in Leafs : running'[l] = running[l] \/ \E n \in S : Brings(n, l, running'[l])
  /\ DOMAIN running' = Leafs
  /\ UNCHANGED note

Next == Tell \/ Take \/ Refuse \/ Settle

Spec == Init /\ [][Next]_vars
=============================================================================
