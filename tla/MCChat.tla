------------------------------- MODULE MCChat --------------------------------
(* Chat with two connections, for TLC. *)
EXTENDS Chat, TLC

CONSTANTS e1, e2, alice, bob

\* The second client may log in as the first one, and under two names.
SharedNames == (e1 :> {alice}) @@ (e2 :> {alice, bob})
=============================================================================
