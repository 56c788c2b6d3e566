---------------------------- MODULE MCTrustStore ----------------------------
(* One small store: device d1 has two certificates, d2 has one; "d" is a   *)
(* prefix of both IDs.                                                     *)
EXTENDS TrustStore, TLC

CONSTANTS d1, d2, fa, fb, fc, nx, ny, short

MCOwner == (fa :> d1) @@ (fb :> d1) @@ (fc :> d2)
MCAbbrev == (d1 :> {d1}) @@ (d2 :> {d2}) @@ (nx :> {}) @@ (ny :> {}) @@ (short :> {d1, d2})
=============================================================================
