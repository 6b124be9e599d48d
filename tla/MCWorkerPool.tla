---------------------------- MODULE MCWorkerPool ----------------------------
(* Instances of WorkerPool for TLC: one walk over a tree of three tasks, and an owner with two tasks. *)
EXTENDS WorkerPool

CONSTANTS a, b, c, g1

OneGroup == [t \in Tasks |-> g1]
Root == [g \in Groups |-> <<a>>]
Pair == [g \in Groups |-> <<b, c>>]
Tree == [t \in Tasks |-> IF t = a THEN <<b, c>> ELSE <<>>]
=============================================================================
