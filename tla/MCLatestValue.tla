---------------------------- MODULE MCLatestValue ----------------------------
(* Three producers: clipWrites with three connections. *)
EXTENDS LatestValue
=============================================================================
