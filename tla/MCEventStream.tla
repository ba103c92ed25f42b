---------------------------- MODULE MCEventStream ----------------------------
(* A run with a few events, read by one subscription. *)
EXTENDS EventStream
=============================================================================
