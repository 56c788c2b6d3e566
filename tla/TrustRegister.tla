---------------------------- MODULE TrustRegister ----------------------------
(***************************************************************************)
(* What the trust store promises, without requests, locks, files or names: *)
(* for each device at most one certificate is trusted, it is a certificate *)
(* of that device, and it changes only by being forgotten first.           *)
(***************************************************************************)
CONSTANTS IDs, FPs, Owner, None

VARIABLE trust      \* the fingerprint that is trusted for a device, or None

Init == trust = [i \in IDs |-> None]

Trust(i, f) ==
    /\ trust[i] = None
    /\ Owner[f] = i
    /\ trust' = [trust EXCEPT ![i] = f]

Forget(i) == trust[i] # None /\ trust' = [trust EXCEPT ![i] = None]

Next == \E i \in IDs : Forget(i) \/ \E f \in FPs : Trust(i, f)

Spec == Init /\ [][Next]_trust
=============================================================================
