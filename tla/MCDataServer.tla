---------------------------- MODULE MCDataServer ----------------------------
(* The server for TLC. *)
EXTENDS DataServer, TLC

CONSTANTS n1, s1, s2, a1, a2

\* Two clients whose calls overlap, on two datastores of one name; a transaction next to a delete
\* and a create; a stream over a delete and a create; two streams of one datastore.
MCScopes ==
  {[configured |-> {}, admins |-> {a1, a2}, streams |-> {}, datastores |-> 2, tx |-> FALSE],
   [configured |-> {n1}, admins |-> {a1}, streams |-> {}, datastores |-> 2, tx |-> TRUE],
   [configured |-> {n1}, admins |-> {a1}, streams |-> {s1}, datastores |-> 2, tx |-> FALSE],
   [configured |-> {n1}, admins |-> {a1}, streams |-> {s1, s2}, datastores |-> 1, tx |-> FALSE]}
=============================================================================
