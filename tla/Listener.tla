------------------------------ MODULE Listener ------------------------------
(***************************************************************************)
(* The listening side of internal/daemon/daemon.go up to the protocols:    *)
(* acceptLoop with its handshake slots, handleTLS, which gives a slot back *)
(* early or in its deferred function, and allowPairAttempt, the limiter of *)
(* handleIncomingPair.  What follows is in Pairing and in PeerLinks.       *)
(*                                                                         *)
(* A window of the limiter keeps its age, in ticks, instead of its start.  *)
(***************************************************************************)
EXTENDS Naturals, FiniteSets, Functions

CONSTANTS
    Conns,          \* connections; a closed one comes back as a new one
    Sources,        \* hosts, as pairRateKey tells them apart
    Direct,         \* those on a directly connected LAN
    MaxHandshakes,  \* maxConcurrentHandshakes
    PerSource,      \* maxPairAttemptsPerMinute
    Global,         \* maxGlobalPairAttempts
    MaxEntries,     \* maxPairRateEntries
    Minute          \* time.Minute, in ticks

ASSUME ListenerAssumption ==
    /\ IsFiniteSet(Conns) /\ Direct \subseteq Sources
    /\ MaxHandshakes \in Nat \ {0}
    /\ PerSource \in Nat \ {0} /\ Global \in Nat \ {0} /\ MaxEntries \in Nat \ {0}
    /\ Minute \in Nat \ {0}

VARIABLES
    accepting, \* acceptLoop runs
    slots,     \* the tokens in d.handshakes
    stage,     \* where each connection is:
               \*   backlog   not accepted yet    shake  in HandshakeContext
               \*   shaken    the handshake is over, its slot not given back
               \*   pair      before the limiter   offer  past it
               \*   sync      in handleSync        over   in the deferred function
    src,       \* the host of a connection
    holds,     \* handshakeDone of its handleTLS is not nil
    global,    \* d.pairGlobal
    rates,     \* d.pairRates
    recent     \* history: the attempts let through in the last minute: the host, the age,
               \* and n to tell those of one host and one tick apart

conns == <<slots, stage, src, holds>>
limiter == <<global, rates, recent>>
vars == <<accepting, conns, limiter>>

Stages == {"none", "backlog", "shake", "shaken", "pair", "offer", "sync", "over"}

Init ==
    /\ accepting = TRUE
    /\ slots = 0
    /\ stage = [c \in Conns |-> "none"]
    /\ src \in [Conns -> Sources]
    /\ holds = [c \in Conns |-> FALSE]
    /\ global = [age |-> Minute, count |-> 0]    \* window.IsZero()
    /\ rates = <<>>
    /\ recent = {}

-----------------------------------------------------------------------------
\* A host opens a connection.
Connect(c, s) ==
    /\ stage[c] = "none"
    /\ stage' = [stage EXCEPT ![c] = "backlog"]
    /\ src' = [src EXCEPT ![c] = s]
    /\ UNCHANGED <<accepting, slots, holds, limiter>>

\* acceptLoop: a connection gets a slot, or is closed.
Accept(c) ==
    /\ accepting /\ stage[c] = "backlog"
    /\ \/ /\ src[c] \in Direct /\ slots < MaxHandshakes
          /\ slots' = slots + 1
          /\ holds' = [holds EXCEPT ![c] = TRUE]
          /\ stage' = [stage EXCEPT ![c] = "shake"]
       \/ /\ src[c] \notin Direct \/ slots = MaxHandshakes
          /\ stage' = [stage EXCEPT ![c] = "none"]
          /\ UNCHANGED <<slots, holds>>
    /\ UNCHANGED <<accepting, src, limiter>>

\* Accept returns an error, whichever: the loop returns and does not start again.
AcceptFails == accepting /\ accepting' = FALSE /\ UNCHANGED <<conns, limiter>>

\* HandshakeContext returns: in success, or with an error, its deadline for one.
Handshake(c) ==
    /\ stage[c] = "shake"
    /\ \E next \in {"shaken", "over"} : stage' = [stage EXCEPT ![c] = next]
    /\ UNCHANGED <<accepting, slots, src, holds, limiter>>

\* handshakeDone after the call that gave the slot back.
HoldsStill(c) == holds
HoldsNoMore(c) == [holds EXCEPT ![c] = FALSE]

\* The slot is given back early, and the protocol chosen.
GiveBack(c) ==
    /\ stage[c] = "shaken" /\ slots > 0
    /\ slots' = slots - 1
    /\ holds' = HoldsNoMore(c)
    /\ \E next \in {"pair", "sync", "over"} : stage' = [stage EXCEPT ![c] = next]
    /\ UNCHANGED <<accepting, src, limiter>>

\* handleIncomingPair or handleSync returns.
ProtocolEnds(c) ==
    /\ stage[c] \in {"offer", "sync"}
    /\ stage' = [stage EXCEPT ![c] = "over"]
    /\ UNCHANGED <<accepting, slots, src, holds, limiter>>

\* The deferred function of handleTLS: its receive waits for a token.
Return(c) ==
    /\ stage[c] = "over"
    /\ \/ holds[c] /\ slots > 0 /\ slots' = slots - 1
       \/ ~holds[c] /\ UNCHANGED slots
    /\ stage' = [stage EXCEPT ![c] = "none"]
    /\ holds' = [holds EXCEPT ![c] = FALSE]
    /\ UNCHANGED <<accepting, src, limiter>>
-----------------------------------------------------------------------------
\* What allowPairAttempt works with once the windows that are over are gone.
GlobalNow == IF global.age >= Minute THEN [age |-> 0, count |-> 0] ELSE global
RatesKept == rates
RatesNow == Restrict(rates, {s \in DOMAIN rates : rates[s].age < Minute})
RateNow(s) == IF s \in DOMAIN RatesNow THEN RatesNow[s] ELSE [age |-> 0, count |-> 0]

FullTable(s) == s \notin DOMAIN RatesNow /\ Cardinality(DOMAIN RatesNow) >= MaxEntries
AllowedToAnyHost(s) == ~FullTable(s) /\ GlobalNow.count < Global
Allowed(s) ==
    /\ ~FullTable(s)
    /\ RateNow(s).count < PerSource
    /\ GlobalNow.count < Global

\* The attempts let through in the last minute, and of them one host's.
Of(s) == {a \in recent : a.src = s}
LetThrough(s) == Cardinality(Of(s))
LetThroughInAll == Cardinality(recent)

\* One that is let through now.
Attempt(s) ==
    [src |-> s, age |-> 0, n |-> Cardinality({a \in Of(s) : a.age = 0}) + 1]

\* The windows are renewed also for an attempt that is refused.
AllowPairAttempt(c) ==
    /\ stage[c] = "pair"
    /\ LET s == src[c]
           rate == [RateNow(s) EXCEPT !.count = @ + 1]
       IN  \/ /\ Allowed(s)
              /\ global' = [GlobalNow EXCEPT !.count = @ + 1]
              /\ rates' = [x \in DOMAIN RatesNow \cup {s} |-> IF x = s THEN rate ELSE RatesNow[x]]
              /\ recent' = recent \cup {Attempt(s)}
              /\ stage' = [stage EXCEPT ![c] = "offer"]
           \/ /\ ~Allowed(s)
              /\ global' = GlobalNow /\ rates' = RatesNow
              /\ stage' = [stage EXCEPT ![c] = "over"]
              /\ UNCHANGED recent
    /\ UNCHANGED <<accepting, slots, src, holds>>

Older(age) == IF age < Minute THEN age + 1 ELSE Minute

Tick ==
    /\ global' = [global EXCEPT !.age = Older(@)]
    /\ rates' = [s \in DOMAIN rates |-> [rates[s] EXCEPT !.age = Older(@)]]
    /\ recent' = {[a EXCEPT !.age = @ + 1] : a \in {b \in recent : b.age < Minute - 1}}
    /\ UNCHANGED <<accepting, conns>>

HandleTLS(c) ==
    Handshake(c) \/ GiveBack(c) \/ AllowPairAttempt(c) \/ ProtocolEnds(c) \/ Return(c)

Next ==
    \/ \E c \in Conns :
         \/ \E s \in Sources : Connect(c, s)
         \/ Accept(c) \/ Handshake(c) \/ GiveBack(c)
         \/ AllowPairAttempt(c) \/ ProtocolEnds(c) \/ Return(c)
    \/ AcceptFails
    \/ Tick

Spec == Init /\ [][Next]_vars

(* Goroutines are scheduled; a handshake and a pairing exchange end by     *)
(* their deadlines, and a session of handleSync when the peer goes away.   *)
Fairness == \A c \in Conns : WF_vars(Accept(c)) /\ WF_vars(HandleTLS(c))

FairSpec == Spec /\ Fairness
-----------------------------------------------------------------------------
(* A slot is in use exactly while a connection is in its handshake, so the *)
(* early and the deferred call of handshakeDone never give back one slot   *)
(* twice, which would let in too many or leave a goroutine waiting for a   *)
(* token that never comes, and no way out of handleTLS keeps one.          *)
SlotsExact ==
    /\ slots = Cardinality({c \in Conns : holds[c]})
    /\ \A c \in Conns : holds[c] => stage[c] \in {"shake", "shaken", "over"}

(* Every connection that was accepted is finished with, and a slot it held *)
(* is free again, whatever its handshake did.                              *)
EveryConnectionEnds ==
    \A c \in Conns : stage[c] \notin {"none", "backlog"} ~> stage[c] = "none"

(* In any minute, however it lies to the windows of the limiter, one host  *)
(* gets fewer than twice its limit of attempts through, and all together   *)
(* no more than twice theirs, although the windows of hosts, the table of  *)
(* hosts and the global window are renewed at different times.             *)
PairRateBounded ==
    /\ \A s \in Sources : LetThrough(s) < 2 * PerSource
    /\ LetThroughInAll <= 2 * Global

(* And an attempt is only refused if in the last minute its host had its   *)
(* full number let through, or all together had, or so many other hosts    *)
(* had any that the table is full: nobody is locked out for longer.        *)
RefusedForCause ==
    [][\A c \in Conns :
         stage[c] = "pair" /\ stage'[c] = "over" =>
            \/ LetThrough(src[c]) >= PerSource
            \/ LetThroughInAll >= Global
            \/ Cardinality({s \in Sources \ {src[c]} : LetThrough(s) > 0}) >= MaxEntries]_vars
=============================================================================
