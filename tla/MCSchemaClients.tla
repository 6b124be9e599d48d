-------------------------- MODULE MCSchemaClients --------------------------
(***************************************************************************)
(* Two callers that ask for the same schema, through the index or not, or  *)
(* for one each, without a cache, with a plain one and with one that holds *)
(* descriptions and was configured to refresh on hit.                      *)
(***************************************************************************)
EXTENDS SchemaClients

CONSTANTS c1, c2, s1, s2

Same == [c \in Callers |-> s1]
Each == [c \in Callers |-> IF c = c1 THEN s1 ELSE s2]

Config(c, full, b, asks) ==
  [cache |-> c, described |-> full, refresh |-> full, bound |-> b, asks |-> asks]

MCConfigs ==
  {Config(FALSE, FALSE, FALSE, Same), Config(TRUE, FALSE, FALSE, Same),
   Config(TRUE, TRUE, FALSE, Same), Config(TRUE, TRUE, FALSE, Each),
   Config(FALSE, FALSE, TRUE, Same), Config(TRUE, FALSE, TRUE, Same)}

=============================================================================
