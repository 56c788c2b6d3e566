---------------------------- MODULE MCDiscovery ----------------------------
(* More devices than the table holds. *)
EXTENDS Discovery
=============================================================================
