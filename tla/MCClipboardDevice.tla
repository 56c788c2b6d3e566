-------------------------- MODULE MCClipboardDevice --------------------------
(* A device with two texts, on either platform. *)
EXTENDS ClipboardDevice
=============================================================================
