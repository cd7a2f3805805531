---------------------------- MODULE MCLogFiles ----------------------------
(* LogFiles on small instances. *)
EXTENDS LogFiles
============================================================================
