---------------------------- MODULE MCStreamSync ----------------------------
(* The stream sync for TLC. *)
EXTENDS StreamSync, TLC
=============================================================================
