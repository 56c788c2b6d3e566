----------------------------- MODULE MCListener -----------------------------
(* Two connections for one slot, from three hosts of the LAN and a routed  *)
(* one, and a table for two hosts.                                         *)
EXTENDS Listener
=============================================================================
