----------------------------- MODULE MCHttpServer -----------------------------
(* HttpServer with its constants given in HttpServer.cfg, for TLC. *)
EXTENDS HttpServer
=============================================================================
