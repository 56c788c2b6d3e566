-------------------------- MODULE PeerLinksProofs --------------------------
(***************************************************************************)
(* That the owners of d.conns and d.connecting are never confused, for any *)
(* number of connections.  The promises of PeerLinks are not inductive by  *)
(* themselves: that there is one dialling goroutine needs that it holds    *)
(* d.connecting (DiallerHolds), and that a connection which is dialled has *)
(* no left-over goroutine at the accepting end (DialIsFresh).              *)
(***************************************************************************)
EXTENDS PeerLinks, TLAPS

\* From its dial to its endConnect a goroutine holds d.connecting.
DiallerHolds == \A c \in Conns : stage[Lo][c] # "none" => connecting

\* The slot of a connection that is being dialled is free at the other end.
DialIsFresh == \A c \in Conns : stage[Lo][c] = "dial" => stage[Hi][c] = "none"

LinksInv ==
    /\ TypeOK
    /\ OneDialler
    /\ DiallerHolds
    /\ DialIsFresh
    /\ OpenSessionOwnsEntry
    /\ NoDanglingEntry

-----------------------------------------------------------------------------
\* The first state: nobody has a connection.
LEMMA LinksInit == Init => LinksInv
<1> SUFFICES ASSUME Init PROVE LinksInv
  OBVIOUS
<1>1. TypeOK
  <2>1. doublings \in 0..MaxDoublings
    BY LinksAssumption DEF Init
  <2>2. stage \in [Ends -> [Conns -> Stages]] /\ conns \in [Ends -> Conns \cup {NoConn}]
    BY DEF Init, Stages
  <2>3. /\ up \in [Ends -> BOOLEAN] /\ trust \in [Ends -> BOOLEAN]
        /\ removing \in [Ends -> BOOLEAN] /\ wire \in [Conns -> BOOLEAN]
        /\ open \in [Ends -> [Conns -> BOOLEAN]] /\ hello \in [Ends -> [Conns -> BOOLEAN]]
        /\ connecting \in BOOLEAN /\ calm \in BOOLEAN
    BY DEF Init
  <2> QED
    BY <2>1, <2>2, <2>3 DEF TypeOK
<1>2. OneDialler /\ DiallerHolds /\ DialIsFresh /\ OpenSessionOwnsEntry /\ NoDanglingEntry
  BY DEF Init, OneDialler, DiallerHolds, DialIsFresh, OpenSessionOwnsEntry, NoDanglingEntry, Ends
<1> QED
  BY <1>1, <1>2 DEF LinksInv

\* The steps of the dialling goroutine before and after handleSync.
LEMMA DiallingStep ==
  ASSUME NEW c \in Conns, LinksInv, Dialling(c)
  PROVE  LinksInv'
<1> USE LinksAssumption DEF LinksInv, TypeOK, Ends, Stages
<1>1. CASE Dial(c)
  <2> USE <1>1 DEF Dial, MayDial, control
  <2>1. TypeOK'
    OBVIOUS
  <2>2. OneDialler' /\ DiallerHolds'
    BY DEF OneDialler, DiallerHolds
  <2>3. DialIsFresh'
    BY DEF DialIsFresh
  <2>4. OpenSessionOwnsEntry' /\ NoDanglingEntry'
    BY DEF OpenSessionOwnsEntry, NoDanglingEntry
  <2> QED
    BY <2>1, <2>2, <2>3, <2>4
<1>2. CASE DialOk(c)
  <2> USE <1>2 DEF DialOk, control
  <2>1. TypeOK'
    OBVIOUS
  <2>2. OneDialler' /\ DiallerHolds'
    BY DEF OneDialler, DiallerHolds
  <2>3. DialIsFresh'
    BY DEF DialIsFresh, OneDialler
  <2>4. OpenSessionOwnsEntry' /\ NoDanglingEntry'
    BY DEF OpenSessionOwnsEntry, NoDanglingEntry, DialIsFresh
  <2> QED
    BY <2>1, <2>2, <2>3, <2>4
<1>3. CASE DialFails(c)
  <2> USE <1>3 DEF DialFails, control
  <2>1. TypeOK'
    BY DEF DoubledUpToMax
  <2>2. OneDialler' /\ DiallerHolds'
    BY DEF OneDialler, DiallerHolds
  <2>3. DialIsFresh'
    BY DEF DialIsFresh
  <2>4. OpenSessionOwnsEntry' /\ NoDanglingEntry'
    BY DEF OpenSessionOwnsEntry, NoDanglingEntry
  <2> QED
    BY <2>1, <2>2, <2>3, <2>4
<1>4. CASE EndConnect(c)
  <2> USE <1>4 DEF EndConnect, ConnectingAfter, control
  <2>1. TypeOK'
    <3>1. doublings' \in 0..MaxDoublings
      OBVIOUS
    <3>2. stage' \in [Ends -> [Conns -> Stages]]
      OBVIOUS
    <3> QED
      BY <3>1, <3>2
  <2>2. OneDialler' /\ DiallerHolds'
    BY DEF OneDialler, DiallerHolds
  <2>3. DialIsFresh'
    BY DEF DialIsFresh
  <2>4. OpenSessionOwnsEntry' /\ NoDanglingEntry'
    BY DEF OpenSessionOwnsEntry, NoDanglingEntry
  <2> QED
    BY <2>1, <2>2, <2>3, <2>4
<1> QED
  BY <1>1, <1>2, <1>3, <1>4 DEF Dialling

\* The steps of handleSync up to register, at either end.
LEMMA HandshakeStep ==
  ASSUME NEW e \in Ends, NEW c \in Conns, LinksInv, Handshake(e, c)
  PROVE  LinksInv'
<1> USE LinksAssumption DEF LinksInv, TypeOK, Ends, Stages
<1>1. CASE Leave(e, c) /\ stage[e][c] \in {"check", "hello"}
  <2> USE <1>1 DEF Leave, control
  <2>1. TypeOK'
    OBVIOUS
  <2>2. OneDialler' /\ DiallerHolds'
    BY DEF OneDialler, DiallerHolds
  <2>3. DialIsFresh'
    BY DEF DialIsFresh
  <2>4. OpenSessionOwnsEntry' /\ NoDanglingEntry'
    BY DEF OpenSessionOwnsEntry, NoDanglingEntry
  <2> QED
    BY <2>1, <2>2, <2>3, <2>4
<1>2. CASE Authenticate(e, c) /\ Verified(e)
  <2> USE <1>2 DEF Authenticate, control
  <2>1. TypeOK'
    <3>1. hello' \in [Ends -> [Conns -> BOOLEAN]]
      <4> DEFINE sent == e = Lo /\ wire[c]
      <4>1. hello' = [hello EXCEPT ![e][c] = sent]
        BY Zenon DEF Verified
      <4>2. sent \in BOOLEAN /\ hello \in [Ends -> [Conns -> BOOLEAN]]
        OBVIOUS
      <4> HIDE DEF sent
      <4> HIDE <1>2 DEF Authenticate
      <4> QED
        BY <4>1, <4>2
    <3>2. stage' \in [Ends -> [Conns -> Stages]]
      BY DEF Verified
    <3>3. UNCHANGED <<open, wire, conns, connecting, doublings, up, trust, removing, calm>>
      BY DEF Verified
    <3> HIDE <1>2 DEF Authenticate
    <3> QED
      BY <3>1, <3>2, <3>3
  <2>2. OneDialler' /\ DiallerHolds' /\ DialIsFresh'
    BY DEF OneDialler, DiallerHolds, DialIsFresh
  <2>3. OpenSessionOwnsEntry' /\ NoDanglingEntry'
    BY DEF OpenSessionOwnsEntry, NoDanglingEntry
  <2> QED
    BY <2>1, <2>2, <2>3
<1>3. CASE ReadHello(e, c)
  <2> USE <1>3 DEF ReadHello, control
  <2>1. TypeOK'
    OBVIOUS
  <2>2. OneDialler' /\ DiallerHolds' /\ DialIsFresh'
    BY DEF OneDialler, DiallerHolds, DialIsFresh
  <2>3. OpenSessionOwnsEntry' /\ NoDanglingEntry'
    BY DEF OpenSessionOwnsEntry, NoDanglingEntry
  <2> QED
    BY <2>1, <2>2, <2>3
<1>4. CASE Register(e, c)
  <2> USE <1>4 DEF Register, control
  <2>1. TypeOK'
    OBVIOUS
  <2>2. OneDialler' /\ DiallerHolds' /\ DialIsFresh'
    BY DEF OneDialler, DiallerHolds, DialIsFresh
  <2>3. OpenSessionOwnsEntry' /\ NoDanglingEntry'
    BY DEF OpenSessionOwnsEntry, NoDanglingEntry
  <2> QED
    BY <2>1, <2>2, <2>3
<1> QED
  BY <1>1, <1>2, <1>3, <1>4 DEF Handshake, Authenticate, HelloFails

\* The end of a session: readLoop returns, and unregister follows.
LEMMA LeavingStep ==
  ASSUME NEW e \in Ends, NEW c \in Conns, LinksInv,
         ReadLoopReturns(e, c) \/ Unregister(e, c)
  PROVE  LinksInv'
<1> USE LinksAssumption DEF LinksInv, TypeOK, Ends, Stages
<1>1. CASE ReadLoopReturns(e, c)
  <2> USE <1>1 DEF ReadLoopReturns, control
  <2>1. TypeOK'
    OBVIOUS
  <2>2. OneDialler' /\ DiallerHolds' /\ DialIsFresh'
    BY DEF OneDialler, DiallerHolds, DialIsFresh
  <2>3. OpenSessionOwnsEntry' /\ NoDanglingEntry'
    BY DEF OpenSessionOwnsEntry, NoDanglingEntry
  <2> QED
    BY <2>1, <2>2, <2>3
<1>2. CASE Unregister(e, c)
  <2> USE <1>2 DEF Unregister, EntryAfter, control
  <2>1. TypeOK'
    OBVIOUS
  <2>2. OneDialler' /\ DiallerHolds' /\ DialIsFresh'
    BY DEF OneDialler, DiallerHolds, DialIsFresh
  <2>3. OpenSessionOwnsEntry' /\ NoDanglingEntry'
    BY DEF OpenSessionOwnsEntry, NoDanglingEntry
  <2> QED
    BY <2>1, <2>2, <2>3
<1> QED
  BY <1>1, <1>2

\* The users' commands, crashes and restarts of one daemon.
LEMMA CommandStep ==
  ASSUME NEW e \in Ends, LinksInv,
         UnpairClose(e) \/ UnpairForget(e) \/ RejectTrusted(e) \/ Approve(e) \/ Crash(e) \/ Start(e)
  PROVE  LinksInv'
<1> USE LinksAssumption DEF LinksInv, TypeOK, Ends, Stages
<1>1. CASE UnpairClose(e)
  <2> USE <1>1 DEF UnpairClose
  <2>1. TypeOK'
    OBVIOUS
  <2>2. OneDialler' /\ DiallerHolds' /\ DialIsFresh'
    BY DEF OneDialler, DiallerHolds, DialIsFresh
  <2>3. OpenSessionOwnsEntry' /\ NoDanglingEntry'
    BY DEF OpenSessionOwnsEntry, NoDanglingEntry
  <2> QED
    BY <2>1, <2>2, <2>3
<1>2. CASE UnpairForget(e) \/ RejectTrusted(e) \/ Approve(e) \/ Start(e)
  <2> USE <1>2 DEF UnpairForget, RejectTrusted, Approve, Start, session
  <2>1. TypeOK'
    <3>1. up' \in [Ends -> BOOLEAN]
      <4>1. up' = up \/ up' = [up EXCEPT ![e] = TRUE]
        OBVIOUS
      <4> QED
        BY <4>1
    <3>2. trust' \in [Ends -> BOOLEAN]
      <4>1. trust' = trust \/ \E b \in BOOLEAN : trust' = [trust EXCEPT ![e] = b]
        OBVIOUS
      <4> QED
        BY <4>1
    <3>3. removing' \in [Ends -> BOOLEAN]
      <4>1. removing' = removing \/ removing' = [removing EXCEPT ![e] = FALSE]
        BY ONLY <1>2 DEF UnpairForget, RejectTrusted, Approve, Start
      <4>2. removing \in [Ends -> BOOLEAN]
        OBVIOUS
      <4> QED
        BY ONLY <4>1, <4>2
    <3>4. UNCHANGED <<calm, stage, open, hello, conns, wire, connecting, doublings>>
      OBVIOUS
    <3> QED
      BY <3>1, <3>2, <3>3, <3>4
  <2>2. OneDialler' /\ DiallerHolds' /\ DialIsFresh'
    BY DEF OneDialler, DiallerHolds, DialIsFresh
  <2>3. OpenSessionOwnsEntry' /\ NoDanglingEntry'
    BY DEF OpenSessionOwnsEntry, NoDanglingEntry
  <2> QED
    BY <2>1, <2>2, <2>3
<1>3. CASE Crash(e)
  <2> USE <1>3 DEF Crash
  <2>1. TypeOK'
    <3>1. doublings' \in 0..MaxDoublings
      OBVIOUS
    <3>2. up' \in [Ends -> BOOLEAN] /\ removing' \in [Ends -> BOOLEAN]
      OBVIOUS
    <3>3. stage' \in [Ends -> [Conns -> Stages]] /\ open' \in [Ends -> [Conns -> BOOLEAN]]
      OBVIOUS
    <3>4. connecting' \in BOOLEAN
      OBVIOUS
    <3>5. conns' \in [Ends -> Conns \cup {NoConn}]
      OBVIOUS
    <3> QED
      BY <3>1, <3>2, <3>3, <3>4, <3>5
  <2>2. OneDialler' /\ DiallerHolds' /\ DialIsFresh'
    BY DEF OneDialler, DiallerHolds, DialIsFresh
  <2>3. OpenSessionOwnsEntry' /\ NoDanglingEntry'
    BY DEF OpenSessionOwnsEntry, NoDanglingEntry
  <2> QED
    BY <2>1, <2>2, <2>3
<1> QED
  BY <1>1, <1>2, <1>3

\* What changes nothing the invariant speaks of, but the network and calm.
LEMMA OtherStep ==
  ASSUME LinksInv, (\E c \in Conns : Cut(c)) \/ CalmDown \/ UNCHANGED vars
  PROVE  LinksInv'
<1> USE DEF LinksInv
<1>1. UNCHANGED <<stage, open, conns, connecting>>
  BY DEF Cut, CalmDown, session, vars
<1>2. TypeOK'
  BY DEF TypeOK, Cut, CalmDown, session, control, vars
<1>3. OneDialler' /\ DiallerHolds' /\ DialIsFresh' /\ OpenSessionOwnsEntry' /\ NoDanglingEntry'
  BY <1>1 DEF OneDialler, DiallerHolds, DialIsFresh, OpenSessionOwnsEntry, NoDanglingEntry
<1> QED
  BY <1>2, <1>3

-----------------------------------------------------------------------------
(* The invariant holds in every reachable state, for every number of       *)
(* connections between the two daemons.                                    *)
THEOREM LinksInvariant == Spec => []LinksInv
<1>1. LinksInv /\ [Next]_vars => LinksInv'
  BY DiallingStep, HandshakeStep, LeavingStep, CommandStep, OtherStep
     DEF Next, Leaving, SessionEnds, SessionFails
<1> QED
  BY LinksInit, <1>1, PTL DEF Spec

(* The state keeps its shape, and the delay of transport.Backoff its       *)
(* maximum, however long a device is away (Backoff.Next).                  *)
THEOREM LinksTypeCorrect == Spec => []TypeOK
<1>1. LinksInv => TypeOK
  BY DEF LinksInv
<1> QED
  BY LinksInvariant, <1>1, PTL

(* There is at most one dialling goroutine for a peer (beginConnect,       *)
(* endConnect), so they never share its Backoff.                           *)
THEOREM OneDiallerHolds == Spec => []OneDialler
<1>1. LinksInv => OneDialler
  BY DEF LinksInv
<1> QED
  BY LinksInvariant, <1>1, PTL

(* A session that is not closed is the one localLoop sends to, however     *)
(* many connections replace each other (register, unregister).             *)
THEOREM OpenSessionOwnsEntryHolds == Spec => []OpenSessionOwnsEntry
<1>1. LinksInv => OpenSessionOwnsEntry
  BY DEF LinksInv
<1> QED
  BY LinksInvariant, <1>1, PTL

(* No entry of d.conns is left without a session that will remove it, so   *)
(* none keeps connectLoop from dialling for ever (unregister).             *)
THEOREM NoDanglingEntryHolds == Spec => []NoDanglingEntry
<1>1. LinksInv => NoDanglingEntry
  BY DEF LinksInv
<1> QED
  BY LinksInvariant, <1>1, PTL
=============================================================================
