---------------------------- MODULE MCLifecycle -----------------------------
(* Lifecycle with two requests to each server, given in the .cfg files. *)
EXTENDS Lifecycle
=============================================================================
