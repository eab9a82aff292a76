---------------------------- MODULE MCMiddleware ----------------------------
(* Two signing keys and two key pairs: equal, different or not configured. *)
EXTENDS Middleware
=============================================================================
