----------------------------- MODULE MCEventServer -----------------------------
(* EventServer with its constants given in EventServer.cfg, for TLC. *)
EXTENDS EventServer

CONSTANTS c1, c2

MCJunkBits    == {{}, {"et", "oneshot"}}
MCMaxRequests == (c1 :> 2) @@ (c2 :> 1)

================================================================================
