------------------------------ MODULE Pairing ------------------------------
(***************************************************************************)
(* Pairing two devices: the pair command and the offer and answer it       *)
(* exchanges (pair and handleIncomingPair in internal/daemon/daemon.go),   *)
(* the pending entries they leave in the two stores, and the users, who    *)
(* follow cmd/lanclip/cli.go: each works at one terminal, and approves a   *)
(* code only after it was seen on both devices.                            *)
(*                                                                         *)
(* A comparison code stands for the exchange whose two nonces it is made   *)
(* of: ComparisonCode is symmetric, so both ends of an exchange compute    *)
(* the same one, and different exchanges have different ones.  TrustStore  *)
(* has the details of one store (names, tokens, saving, other devices).    *)
(***************************************************************************)
CONSTANTS
    A, B,         \* the two devices
    Codes,        \* comparison codes
    Initiators,   \* the devices whose users run lanclip pair
    Faults,       \* what goes wrong or is undone: "lose", "expire", "restart", "unpair", "reject",
                  \* or "cross": a pair command is run beside the other's
    None          \* no code

Devices == {A, B}
Other(d) == IF d = A THEN B ELSE A

ASSUME PairingAssumption ==
    /\ A # B
    /\ Initiators \subseteq Devices
    /\ Faults \subseteq {"lose", "expire", "restart", "unpair", "reject", "cross"}
    /\ None \notin Codes

VARIABLES
    store,    \* the entry of d's peers for the other: "none", "trusted" or "rejected"
    pend,     \* the code of d's pending entry for the other
    term,     \* what d's terminal is doing, and the code it is about:
              \*   menu     the user is choosing the other device for pair
              \*   offer    the offer is on its way    answer  so is the answer
              \*   approve  the pending entry is shown and waits for the user
    compared, \* the codes the users have seen on both devices
    crossed,  \* history: exchanges crossed, and none has completed alone since
    calm      \* from here on nothing is lost, crosses, expires, restarts or is removed

vars == <<store, pend, term, compared, crossed, calm>>

Idle == [cmd |-> "idle", code |-> None]

Init ==
    /\ store = [d \in Devices |-> "none"]
    /\ pend = [d \in Devices |-> None]
    /\ term = [d \in Devices |-> Idle]
    /\ compared = {}
    /\ crossed = FALSE
    /\ calm = FALSE

-----------------------------------------------------------------------------
(* PutPending of d: an entry for the same certificate is replaced, and     *)
(* nothing is pending for a trusted peer.                                  *)
KeepFirst(d, x) == IF store[d] = "trusted" \/ pend[d] # None THEN pend[d] ELSE x
PutPending(d, x) == IF store[d] = "trusted" THEN pend[d] ELSE x

\* The pair command lists the devices that are not paired, or rejected (eligiblePeers).
Choose(d) ==
    /\ d \in Initiators
    /\ term[d] = Idle
    /\ store[d] # "trusted" /\ pend[d] = None
    /\ term' = [term EXCEPT ![d] = [cmd |-> "menu", code |-> None]]
    /\ UNCHANGED <<store, pend, compared, calm, crossed>>

\* A user who learns that the other's request has come in leaves the menu (choosePeer).
Quit(d) ==
    /\ term[d].cmd = "menu"
    /\ pend[d] # None
    /\ term' = [term EXCEPT ![d] = Idle]
    /\ UNCHANGED <<store, pend, compared, calm, crossed>>

\* No exchange of the other is under way, and none of its requests has come in.
Turn(d) == pend[d] = None /\ term[Other(d)].cmd \notin {"offer", "answer"}

\* pair dials and sends the offer with a new nonce.
Offer(d, x) ==
    /\ term[d].cmd = "menu"
    /\ Turn(d) \/ ("cross" \in Faults /\ ~calm)
    /\ \A e \in Devices : pend[e] # x /\ term[e].code # x
    /\ term' = [term EXCEPT ![d] = [cmd |-> "offer", code |-> x]]
    /\ compared' = compared \ {x}
    /\ crossed' = (crossed \/ ~Turn(d))
    /\ UNCHANGED <<store, pend, calm>>

\* handleIncomingPair: the entry is stored before the answer is sent, or the connection closed.
HandleOffer(d) ==
    /\ term[d].cmd = "offer"
    /\ pend' = [pend EXCEPT ![Other(d)] = PutPending(Other(d), term[d].code)]
    /\ term' = [term EXCEPT ![d] = IF store[Other(d)] = "trusted" THEN Idle
                                   ELSE [term[d] EXCEPT !.cmd = "answer"]]
    /\ UNCHANGED <<store, compared, calm, crossed>>

\* pair reads the answer, stores its own entry and returns.
HandleAnswer(d) ==
    /\ term[d].cmd = "answer"
    /\ pend' = [pend EXCEPT ![d] = PutPending(d, term[d].code)]
    /\ term' = [term EXCEPT ![d] = Idle]
    /\ crossed' = (crossed /\ (pend'[A] # pend'[B] \/ term[Other(d)].cmd \in {"offer", "answer"}))
    /\ UNCHANGED <<store, compared, calm>>

\* The approve command shows the pending entry.
Show(d) ==
    /\ term[d] = Idle
    /\ pend[d] # None
    /\ term' = [term EXCEPT ![d] = [cmd |-> "approve", code |-> pend[d]]]
    /\ UNCHANGED <<store, pend, compared, calm, crossed>>

\* A code is on d's screen: in the list of peers, or in the question of approve.
Displays(d, x) == pend[d] = x \/ (term[d].cmd = "approve" /\ term[d].code = x)

\* The users find the same code on both devices.
Compare(x) ==
    /\ x \notin compared
    /\ \A d \in Devices : Displays(d, x)
    /\ compared' = compared \cup {x}
    /\ UNCHANGED <<store, pend, term, calm, crossed>>

\* The comparison of Store.Approve with the entry as it is now.
AnyRequest(d) == pend[d] # None
SameRequest(d) == pend[d] = term[d].code

\* The user says yes; the store accepts it for the request that was shown.
Approve(d) ==
    /\ term[d].cmd = "approve"
    /\ term[d].code \in compared
    /\ IF SameRequest(d)
       THEN /\ store' = [store EXCEPT ![d] = "trusted"]
            /\ pend' = [pend EXCEPT ![d] = None]
       ELSE UNCHANGED <<store, pend>>
    /\ term' = [term EXCEPT ![d] = Idle]
    /\ UNCHANGED <<compared, calm, crossed>>

\* The user says no, because the other device shows something else.
Cancel(d) ==
    /\ term[d].cmd = "approve"
    /\ term[d].code \notin compared
    /\ ~Displays(Other(d), term[d].code)
    /\ term' = [term EXCEPT ![d] = Idle]
    /\ UNCHANGED <<store, pend, compared, calm, crossed>>
-----------------------------------------------------------------------------
Fault(f) == f \in Faults /\ ~calm /\ UNCHANGED <<compared, calm, crossed>>

\* The connection breaks, a deadline or the rate limit ends it, or the 20 seconds
\* of a command are over: it returns an error.
Lose(d) ==
    /\ Fault("lose")
    /\ term[d] # Idle
    /\ term' = [term EXCEPT ![d] = Idle]
    /\ UNCHANGED <<store, pend>>

\* A pending entry reaches pendingTTL and is pruned.
Expire(d) ==
    /\ Fault("expire")
    /\ pend[d] # None
    /\ pend' = [pend EXCEPT ![d] = None]
    /\ UNCHANGED <<store, term>>

\* A daemon restarts: its pending entry is gone, and so are the connections.
Restart(d) ==
    /\ Fault("restart")
    /\ pend' = [pend EXCEPT ![d] = None]
    /\ term' = [e \in Devices |-> IF term[e].cmd \in {"offer", "answer"} THEN Idle ELSE term[e]]
    /\ UNCHANGED store

\* The unpair command removes a trusted peer.
Unpair(d) ==
    /\ Fault("unpair")
    /\ term[d] = Idle /\ store[d] = "trusted"
    /\ store' = [store EXCEPT ![d] = "none"]
    /\ pend' = [pend EXCEPT ![d] = None]
    /\ UNCHANGED term

\* The reject command refuses a pending request.
Reject(d) ==
    /\ Fault("reject")
    /\ term[d] = Idle /\ pend[d] # None
    /\ store' = [store EXCEPT ![d] = "rejected"]
    /\ pend' = [pend EXCEPT ![d] = None]
    /\ UNCHANGED term

CalmDown == ~calm /\ calm' = TRUE /\ UNCHANGED <<store, pend, term, compared, crossed>>

Next ==
    \/ \E d \in Devices, x \in Codes : Offer(d, x)
    \/ \E d \in Devices : \/ Choose(d) \/ Quit(d) \/ HandleOffer(d) \/ HandleAnswer(d)
                          \/ Show(d) \/ Approve(d) \/ Cancel(d)
                          \/ Lose(d) \/ Expire(d) \/ Restart(d) \/ Unpair(d) \/ Reject(d)
    \/ \E x \in Codes : Compare(x)
    \/ CalmDown

Spec == Init /\ [][Next]_vars

(* The daemons answer, and the users go on with what the README tells them *)
(* to do until the devices are paired.                                     *)
Fairness ==
    /\ \A d \in Devices : /\ WF_vars(Choose(d)) /\ WF_vars(Quit(d))
                          /\ WF_vars(\E x \in Codes : Offer(d, x))
                          /\ WF_vars(HandleOffer(d)) /\ WF_vars(HandleAnswer(d))
                          /\ WF_vars(Show(d)) /\ WF_vars(Approve(d)) /\ WF_vars(Cancel(d))
    /\ \A x \in Codes : WF_vars(Compare(x))

FairSpec == Spec /\ Fairness
-----------------------------------------------------------------------------
\* No pair command is under way.
Settled == \A d \in Devices : term[d].cmd \notin {"offer", "answer"}

(* Unless exchanges have crossed, the two devices show the same code when  *)
(* none is under way: whatever attempts before it broke off, expired or    *)
(* were rejected, an entry is replaced at both ends or at none.            *)
SameCodeShown ==
    Settled /\ ~crossed /\ (\A d \in Devices : pend[d] # None) => pend[A] = pend[B]

(* Trust is only added for a code that was seen on both devices, although  *)
(* the entry may be replaced by another exchange, expire or be rejected    *)
(* while the approve command waits for its user (Store.Approve).           *)
ApprovedWasCompared ==
    [][\A d \in Devices :
         store[d] # "trusted" /\ store'[d] = "trusted" => pend[d] \in compared]_vars

\* The devices trust each other.
Mutual == \A d \in Devices : store[d] = "trusted"

(* Once nothing disturbs them any more, a user who runs pair with no       *)
(* request waiting gets the devices paired, whatever crossed or broken     *)
(* exchanges, expired, rejected or replaced entries and open questions are *)
(* left from before - as long as neither device trusts the other or holds  *)
(* a request that it can still be told to trust, because its code was      *)
(* already compared.                                                       *)
PairingCompletes ==
    (/\ calm
     /\ \A d \in Devices : store[d] # "trusted" /\ pend[d] \notin compared
     /\ \E d \in Initiators : term[d].cmd = "menu" /\ pend[d] = None) ~> Mutual

(* A device that does not trust the other, because its user removed it for *)
(* example, gets a pairing request under way again with the pair command.  *)
PairAgain ==
    \A d \in Initiators : [](calm /\ store[d] # "trusted" => <>(pend[d] # None))
============================================================================
