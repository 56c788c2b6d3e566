--------------------------- MODULE PairingProofs ---------------------------
(***************************************************************************)
(* That two devices whose exchanges do not cross show the same code, and   *)
(* that trust is only added for a compared code, for every set of codes,   *)
(* whichever users initiate and whatever goes wrong.                       *)
(*                                                                         *)
(* The argument: a device starts an exchange of its own only while it has  *)
(* no pending entry, and unless exchanges cross it gets none before it is  *)
(* through (Exchanging); the other device's entry, once it has answered,   *)
(* is that of the exchange or gone (AnsweredStored).  So the two entries   *)
(* are equal when the exchange is over, or one of them is missing.         *)
(***************************************************************************)
EXTENDS Pairing, TLAPS

InExchange(d) == term[d].cmd \in {"offer", "answer"}

Commands == {"idle", "menu", "offer", "answer", "approve"}

TypeInv ==
    /\ store \in [Devices -> {"none", "trusted", "rejected"}]
    /\ pend \in [Devices -> Codes \cup {None}]
    /\ term \in [Devices -> [cmd : Commands, code : Codes \cup {None}]]
    /\ crossed \in BOOLEAN

\* One device exchanges at a time, and it has no pending entry.
Exchanging ==
    /\ ~(InExchange(A) /\ InExchange(B))
    /\ \A d \in Devices : InExchange(d) => pend[d] = None

\* The other device holds the code of the exchange it has answered, or none.
AnsweredStored ==
    \A d \in Devices :
        term[d].cmd = "answer" /\ pend[Other(d)] # None => pend[Other(d)] = term[d].code

CodesInv ==
    /\ TypeInv
    /\ ~crossed => Exchanging /\ AnsweredStored
    /\ SameCodeShown

-----------------------------------------------------------------------------
LEMMA OtherIsOther ==
  ASSUME NEW d \in Devices
  PROVE  Other(d) \in Devices /\ Other(d) # d /\ Other(Other(d)) = d
         /\ Devices = {d, Other(d)}
BY PairingAssumption DEF Devices, Other

LEMMA CodesInit == Init => CodesInv
<1> SUFFICES ASSUME Init PROVE CodesInv
  OBVIOUS
<1>1. TypeInv
  BY DEF Init, TypeInv, Idle, Commands
<1>2. Exchanging /\ AnsweredStored /\ SameCodeShown
  BY DEF Init, Exchanging, AnsweredStored, SameCodeShown, InExchange, Idle, Devices, Other
<1> QED
  BY <1>1, <1>2 DEF CodesInv

\* The steps of an exchange.
LEMMA ExchangeStep ==
  ASSUME NEW d \in Devices, CodesInv,
         (\E x \in Codes : Offer(d, x)) \/ HandleOffer(d) \/ HandleAnswer(d)
  PROVE  CodesInv'
<1> USE PairingAssumption, OtherIsOther DEF CodesInv, TypeInv, Commands
<1>1. CASE \E x \in Codes : Offer(d, x)
  <2> PICK x \in Codes : Offer(d, x)
    BY <1>1
  <2> USE DEF Offer
  <2>1. TypeInv'
    OBVIOUS
  <2>2. ~crossed' => Exchanging' /\ AnsweredStored'
    BY DEF Exchanging, AnsweredStored, InExchange, Turn, Devices, Other
  <2>3. SameCodeShown'
    BY DEF SameCodeShown, Settled
  <2> QED
    BY <2>1, <2>2, <2>3
<1>2. CASE HandleOffer(d)
  <2> USE <1>2 DEF HandleOffer, PutPending, Idle
  <2>1. TypeInv'
    OBVIOUS
  <2>2. ~crossed' => Exchanging' /\ AnsweredStored'
    BY DEF Exchanging, AnsweredStored, InExchange, Devices, Other
  <2>3. SameCodeShown'
    BY DEF SameCodeShown, Settled, Exchanging, InExchange, Devices, Other
  <2> QED
    BY <2>1, <2>2, <2>3
<1>3. CASE HandleAnswer(d)
  <2> USE <1>3 DEF HandleAnswer, PutPending, Idle
  <2>1. TypeInv'
    OBVIOUS
  <2>2. ~crossed' => Exchanging' /\ AnsweredStored'
    BY DEF Exchanging, AnsweredStored, InExchange, Devices, Other
  <2>3. SameCodeShown'
    BY DEF SameCodeShown, Settled, Exchanging, AnsweredStored, InExchange, Devices, Other
  <2> QED
    BY <2>1, <2>2, <2>3
<1> QED
  BY <1>1, <1>2, <1>3

\* What the users do at their terminals.
LEMMA TerminalStep ==
  ASSUME NEW d \in Devices, CodesInv,
         Choose(d) \/ Quit(d) \/ Show(d) \/ Approve(d) \/ Cancel(d)
  PROVE  CodesInv'
<1> USE PairingAssumption, OtherIsOther DEF CodesInv, TypeInv, Commands, Idle
<1>1. CASE Choose(d) \/ Quit(d) \/ Show(d) \/ Cancel(d)
  <2> USE <1>1 DEF Choose, Quit, Show, Cancel
  <2>1. TypeInv'
    <3>1. term' \in [Devices -> [cmd : Commands, code : Codes \cup {None}]]
      <4>1. \E c \in {"idle", "menu", "approve"}, x \in Codes \cup {None} :
              term' = [term EXCEPT ![d] = [cmd |-> c, code |-> x]]
        OBVIOUS
      <4> QED
        BY <4>1
    <3>2. store' \in [Devices -> {"none", "trusted", "rejected"}]
      OBVIOUS
    <3>3. pend' \in [Devices -> Codes \cup {None}] /\ crossed' \in BOOLEAN
      OBVIOUS
    <3> QED
      BY <3>1, <3>2, <3>3
  <2>2. ~crossed' => Exchanging' /\ AnsweredStored'
    BY DEF Exchanging, AnsweredStored, InExchange, Devices, Other
  <2>3. SameCodeShown'
    BY DEF SameCodeShown, Settled
  <2> QED
    BY <2>1, <2>2, <2>3
<1>2. CASE Approve(d)
  <2> USE <1>2 DEF Approve
  <2>1. TypeInv'
    OBVIOUS
  <2>2. ~crossed' => Exchanging' /\ AnsweredStored'
    BY DEF Exchanging, AnsweredStored, InExchange, Devices, Other
  <2>3. SameCodeShown'
    BY DEF SameCodeShown, Settled
  <2> QED
    BY <2>1, <2>2, <2>3
<1> QED
  BY <1>1, <1>2

\* What goes wrong or is undone.
LEMMA FaultStep ==
  ASSUME NEW d \in Devices, CodesInv,
         Lose(d) \/ Expire(d) \/ Restart(d) \/ Unpair(d) \/ Reject(d)
  PROVE  CodesInv'
<1> USE PairingAssumption, OtherIsOther DEF CodesInv, TypeInv, Commands, Idle, Fault
<1>1. CASE Lose(d)
  <2> USE <1>1 DEF Lose
  <2>1. TypeInv'
    OBVIOUS
  <2>2. ~crossed' => Exchanging' /\ AnsweredStored'
    BY DEF Exchanging, AnsweredStored, InExchange, Devices, Other
  <2>3. SameCodeShown'
    BY DEF SameCodeShown, Settled, Exchanging, InExchange, Devices, Other
  <2> QED
    BY <2>1, <2>2, <2>3
<1>2. CASE Restart(d)
  <2> USE <1>2 DEF Restart
  <2>1. TypeInv'
    OBVIOUS
  <2>2. ~crossed' => Exchanging' /\ AnsweredStored'
    BY DEF Exchanging, AnsweredStored, InExchange, Devices, Other
  <2>3. SameCodeShown'
    BY DEF SameCodeShown
  <2> QED
    BY <2>1, <2>2, <2>3
<1>3. CASE Expire(d) \/ Unpair(d) \/ Reject(d)
  <2> USE <1>3 DEF Expire, Unpair, Reject
  <2>1. TypeInv'
    OBVIOUS
  <2>2. ~crossed' => Exchanging' /\ AnsweredStored'
    BY DEF Exchanging, AnsweredStored, InExchange, Devices, Other
  <2>3. SameCodeShown'
    BY DEF SameCodeShown
  <2> QED
    BY <2>1, <2>2, <2>3
<1> QED
  BY <1>1, <1>2, <1>3

-----------------------------------------------------------------------------
\* The invariant holds in every reachable state.
THEOREM CodesInvariant == Spec => []CodesInv
<1>1. CodesInv /\ [Next]_vars => CodesInv'
  <2> SUFFICES ASSUME CodesInv, [Next]_vars PROVE CodesInv'
    OBVIOUS
  <2>1. CASE UNCHANGED <<store, pend, term, crossed>>
    BY <2>1 DEF CodesInv, TypeInv, Exchanging, AnsweredStored, SameCodeShown, Settled, InExchange
  <2>2. CASE ~UNCHANGED <<store, pend, term, crossed>>
    BY <2>2, ExchangeStep, TerminalStep, FaultStep DEF Next, vars, Compare, CalmDown
  <2> QED
    BY <2>1, <2>2
<1> QED
  BY CodesInit, <1>1, PTL DEF Spec

(* Unless exchanges have crossed, the two devices show the same code when  *)
(* none is under way, whatever attempts broke off, expired, or were        *)
(* rejected before (PutPending at both ends of an exchange).               *)
THEOREM SameCodeShownHolds == Spec => []SameCodeShown
<1>1. CodesInv => SameCodeShown
  BY DEF CodesInv
<1> QED
  BY CodesInvariant, <1>1, PTL

(* Trust is only added for a code that was seen on both devices, whatever  *)
(* replaced the entry while the user was asked (Store.Approve).            *)
THEOREM ApprovedWasComparedHolds == Spec => ApprovedWasCompared
<1> DEFINE OnlyCompared ==
      \A d \in Devices :
        store[d] # "trusted" /\ store'[d] = "trusted" => pend[d] \in compared
<1>1. CodesInv /\ [Next]_vars => [OnlyCompared]_vars
  <2> SUFFICES ASSUME CodesInv, Next, NEW d \in Devices,
                      store[d] # "trusted", store'[d] = "trusted"
               PROVE  pend[d] \in compared
    BY DEF CodesInv
  <2>1. PICK e \in Devices : Approve(e) \/ Unpair(e) \/ Reject(e)
    BY DEF Next, Offer, Choose, Quit, HandleOffer, HandleAnswer, Show, Cancel,
           Lose, Expire, Restart, Compare, CalmDown
  <2>2. Approve(e) /\ SameRequest(e) /\ d = e
    BY <2>1 DEF Approve, Unpair, Reject, CodesInv, TypeInv
  <2> QED
    BY <2>2 DEF Approve, SameRequest
<1> QED
  BY CodesInvariant, <1>1, PTL DEF Spec, ApprovedWasCompared
=============================================================================
