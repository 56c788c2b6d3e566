----------------------------- MODULE MCPairing -----------------------------
(* Two devices and a few codes; the configurations choose who runs pair    *)
(* and what goes wrong.                                                    *)
EXTENDS Pairing
============================================================================
