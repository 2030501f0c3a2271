---------------------------- MODULE MCConnection -----------------------------
(* Connection with its constants given in the .cfg files, for TLC. *)
EXTENDS Connection
=============================================================================
