-------------------------------- MODULE MCOldNet ------------------------------
(* OldNet with its constants given in OldNet.cfg, for TLC. *)
EXTENDS OldNet
================================================================================
