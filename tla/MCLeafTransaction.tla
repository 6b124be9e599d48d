------------------------- MODULE MCLeafTransaction -------------------------
(* Instances of LeafTransaction for TLC. *)
EXTENDS LeafTransaction

CONSTANTS i1, i2, i3

\* Two intents that share priorities, change them and tie, with every attribute.
TwoIntents ==
  [prios |-> [i \in Intents |-> IF i = i3 THEN {} ELSE {5, 10}],
   nr |-> BOOLEAN, del |-> BOOLEAN]

\* Three intents of different priorities, loaded in any order.
ThreeIntents ==
  [prios |-> [i \in Intents |-> CASE i = i1 -> {5} [] i = i2 -> {6} [] i = i3 -> {7}],
   nr |-> {FALSE}, del |-> {FALSE}]

MCScopes == {TwoIntents, ThreeIntents}
=============================================================================
