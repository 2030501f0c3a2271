----------------------------- MODULE MCTaskQueue -----------------------------
(* TaskQueue with its constants given in TaskQueue.cfg, for TLC. *)
EXTENDS TaskQueue
=============================================================================
