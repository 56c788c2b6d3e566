---------------------------- MODULE MCPeerLinks ----------------------------
(* Two daemons with two connection slots: an old connection beside a new one. *)
EXTENDS PeerLinks
=============================================================================
