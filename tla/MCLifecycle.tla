---------------------------- MODULE MCLifecycle ----------------------------
(* The service and a second daemon. *)
EXTENDS Lifecycle
=============================================================================
