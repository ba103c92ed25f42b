--------------------------- MODULE MCTaskControl ---------------------------
(* Small instances of TaskControl for TLC. *)
EXTENDS TaskControl
=============================================================================
