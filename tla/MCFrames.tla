------------------------------ MODULE MCFrames ------------------------------
(* Two daemons whose longest frame does not fit the sockets. *)
EXTENDS Frames
=============================================================================
