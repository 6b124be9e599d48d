--------------------------- MODULE MCNetconfTarget ---------------------------
(* The NETCONF target for TLC. *)
EXTENDS NetconfTarget, TLC

CONSTANT MaxEvents   \* bound on the Sets, the failures of the transport and Stop together

\* Stop concerns the driver, which is the same for both modes; a restart and a device that refuses
\* connections matter to the candidate.
MCInit ==
  /\ Init
  /\ mode = "candidate" => fault # "stop"
  /\ mode = "running" => fault \in {"none", "stop"}

Events == calls + drops + (IF fault = "stop" THEN 1 ELSE 0)

MCNext == Next /\ Events' <= MaxEvents

MCSpec == MCInit /\ [][MCNext]_vars /\ Fairness
=============================================================================
