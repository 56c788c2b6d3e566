--------------------------- MODULE ListenerProofs ---------------------------
(***************************************************************************)
(* Handshake slots are exact, for any number of connections and of slots,  *)
(* and the limiter lets through neither too much nor too little, for any   *)
(* hosts, limits and size of its table.                                    *)
(*                                                                         *)
(* SlotsExact alone is not inductive: GiveBack decrements the counter, and *)
(* that is right only if the connection still holds its slot, as every     *)
(* connection does until its handshake is over.                            *)
(***************************************************************************)
EXTENDS Listener, FiniteSetTheorems, TLAPS

Holding == {c \in Conns : holds[c]}

SlotsType ==
    /\ slots \in Nat
    /\ stage \in [Conns -> Stages]
    /\ holds \in [Conns -> BOOLEAN]

HeldInHandshake == \A c \in Conns : stage[c] \in {"shake", "shaken"} => holds[c]

SlotsInv == SlotsType /\ HeldInHandshake /\ SlotsExact

\* The connections that hold a slot can be counted.
LEMMA HoldingFinite == IsFiniteSet(Holding) /\ Cardinality(Holding) \in Nat
  <1>1. Holding \subseteq Conns /\ IsFiniteSet(Conns)
    BY ListenerAssumption DEF ListenerAssumption, Holding
  <1>2. IsFiniteSet(Holding)
    BY <1>1, FS_Subset
  <1> QED
    BY <1>2, FS_CardinalityType

\* One more connection that holds a slot counts for one more (Accept).
LEMMA OneMore ==
    ASSUME NEW c \in Conns, ~holds[c], SlotsInv,
           holds' = [holds EXCEPT ![c] = TRUE]
    PROVE  Cardinality(Holding') = slots + 1
  <1>1. Holding' = Holding \cup {c} /\ c \notin Holding
    BY DEF Holding, SlotsInv, SlotsType
  <1>2. Cardinality(Holding \cup {c}) = Cardinality(Holding) + 1
    BY <1>1, HoldingFinite, FS_AddElement
  <1> QED
    BY <1>1, <1>2 DEF SlotsInv, SlotsExact, Holding

\* One less counts for one less (GiveBack, Return).
LEMMA OneLess ==
    ASSUME NEW c \in Conns, holds[c], SlotsInv,
           holds' = [holds EXCEPT ![c] = FALSE]
    PROVE  Cardinality(Holding') = slots - 1
  <1>1. Holding' = Holding \ {c} /\ c \in Holding
    BY DEF Holding, SlotsInv, SlotsType
  <1>2. Cardinality(Holding \ {c}) = Cardinality(Holding) - 1
    BY <1>1, HoldingFinite, FS_RemoveElement
  <1> QED
    BY <1>1, <1>2 DEF SlotsInv, SlotsExact, Holding

\* A step that takes and gives no slot moves connections only to where they may be.
LEMMA SlotUntouched ==
    ASSUME NEW c \in Conns, NEW next \in Stages, SlotsInv,
           stage' = [stage EXCEPT ![c] = next],
           slots' = slots, holds' = holds,
           holds[c] => next \in {"shake", "shaken", "over"},
           next \in {"shake", "shaken"} => holds[c]
    PROVE  SlotsInv'
  <1> USE DEF SlotsInv, SlotsType
  <1>1. SlotsType'
    OBVIOUS
  <1>2. HeldInHandshake'
    BY DEF HeldInHandshake
  <1>3. SlotsExact'
    BY DEF SlotsExact
  <1> QED
    BY <1>1, <1>2, <1>3

-----------------------------------------------------------------------------
LEMMA InitSlots == Init => SlotsInv
  <1> SUFFICES ASSUME Init PROVE SlotsInv
    OBVIOUS
  <1>1. SlotsType /\ HeldInHandshake
    BY DEF Init, SlotsType, Stages, HeldInHandshake
  <1>2. Holding = {}
    BY DEF Init, Holding
  <1>3. SlotsExact
    BY <1>2, FS_EmptySet DEF Init, SlotsExact, Holding
  <1> QED
    BY <1>1, <1>3 DEF SlotsInv

\* A slot is taken by a connection that holds none yet.
LEMMA AcceptSlots ==
    ASSUME SlotsInv, NEW c \in Conns, Accept(c)
    PROVE  SlotsInv'
  <1> USE DEF Accept
  <1>1. stage[c] = "backlog" /\ ~holds[c]
    BY DEF SlotsInv, SlotsType, SlotsExact
  <1>2. CASE holds' = [holds EXCEPT ![c] = TRUE] /\ slots' = slots + 1
                /\ stage' = [stage EXCEPT ![c] = "shake"]
    <2>1. SlotsType' /\ HeldInHandshake'
      BY <1>2 DEF SlotsInv, SlotsType, Stages, HeldInHandshake
    <2>2. slots' = Cardinality(Holding')
      BY <1>1, <1>2, OneMore
    <2>3. SlotsExact'
      BY <1>2, <2>2 DEF SlotsInv, SlotsType, SlotsExact, Holding
    <2> QED
      BY <2>1, <2>3 DEF SlotsInv
  <1>3. CASE stage' = [stage EXCEPT ![c] = "none"] /\ UNCHANGED <<slots, holds>>
    BY <1>1, <1>3, SlotUntouched DEF Stages
  <1> QED
    BY <1>2, <1>3

\* A slot is given back early by a connection that still holds it.
LEMMA GiveBackSlots ==
    ASSUME SlotsInv, NEW c \in Conns, GiveBack(c)
    PROVE  SlotsInv'
  <1> USE DEF GiveBack, HoldsNoMore
  <1>1. holds[c]
    BY DEF SlotsInv, SlotsType, HeldInHandshake
  <1>2. SlotsType' /\ HeldInHandshake'
    BY DEF SlotsInv, SlotsType, Stages, HeldInHandshake
  <1>3. slots' = Cardinality(Holding')
    BY <1>1, OneLess
  <1>4. SlotsExact'
    BY <1>3 DEF SlotsInv, SlotsType, SlotsExact, Holding
  <1> QED
    BY <1>2, <1>4 DEF SlotsInv

\* And late by one whose handshake failed; the others have nothing to give.
LEMMA ReturnSlots ==
    ASSUME SlotsInv, NEW c \in Conns, Return(c)
    PROVE  SlotsInv'
  <1> USE DEF Return
  <1>1. SlotsType' /\ HeldInHandshake'
    BY DEF SlotsInv, SlotsType, Stages, HeldInHandshake
  <1>2. slots' = Cardinality(Holding')
    <2>1. CASE holds[c]
      BY <2>1, OneLess DEF SlotsInv, SlotsType
    <2>2. CASE ~holds[c]
      BY <2>2 DEF SlotsInv, SlotsType, SlotsExact, Holding
    <2> QED
      BY <2>1, <2>2
  <1>3. SlotsExact'
    BY <1>2 DEF SlotsInv, SlotsType, SlotsExact, Holding
  <1> QED
    BY <1>1, <1>3 DEF SlotsInv

LEMMA NextSlots == SlotsInv /\ [Next]_vars => SlotsInv'
  <1> SUFFICES ASSUME SlotsInv, [Next]_vars PROVE SlotsInv'
    OBVIOUS
  <1>1. ASSUME NEW c \in Conns, NEW s \in Sources, Connect(c, s) PROVE SlotsInv'
    BY <1>1, SlotUntouched DEF Connect, SlotsInv, SlotsType, SlotsExact, Stages
  <1>2. ASSUME NEW c \in Conns, Accept(c) PROVE SlotsInv'
    BY <1>2, AcceptSlots
  <1>3. ASSUME NEW c \in Conns, Handshake(c) PROVE SlotsInv'
    BY <1>3, SlotUntouched DEF Handshake, SlotsInv, SlotsType, HeldInHandshake, Stages
  <1>4. ASSUME NEW c \in Conns, GiveBack(c) PROVE SlotsInv'
    BY <1>4, GiveBackSlots
  <1>5. ASSUME NEW c \in Conns, AllowPairAttempt(c) PROVE SlotsInv'
    BY <1>5, SlotUntouched DEF AllowPairAttempt, SlotsInv, SlotsType, SlotsExact, Stages
  <1>6. ASSUME NEW c \in Conns, ProtocolEnds(c) PROVE SlotsInv'
    BY <1>6, SlotUntouched DEF ProtocolEnds, SlotsInv, SlotsType, SlotsExact, Stages
  <1>7. ASSUME NEW c \in Conns, Return(c) PROVE SlotsInv'
    BY <1>7, ReturnSlots
  <1>8. CASE UNCHANGED conns
    BY <1>8 DEF conns, SlotsInv, SlotsType, HeldInHandshake, SlotsExact
  <1> QED
    BY <1>1, <1>2, <1>3, <1>4, <1>5, <1>6, <1>7, <1>8
    DEF Next, AcceptFails, Tick, vars

-----------------------------------------------------------------------------
(* The inductive invariant of the listening side: the counter is right, a  *)
(* slot is held throughout a handshake, and nowhere past it but on the way *)
(* out of handleTLS.                                                       *)
THEOREM SlotsInvariant == Spec => []SlotsInv
  <1>1. Init => SlotsInv
    BY InitSlots
  <1>2. SlotsInv /\ [Next]_vars => SlotsInv'
    BY NextSlots
  <1> QED
    BY <1>1, <1>2, PTL DEF Spec

(* For any number of connections and of slots, the tokens in d.handshakes  *)
(* are those of the connections in their handshake: the early and the      *)
(* deferred call of handshakeDone give back each slot once.                *)
THEOREM SlotsExactHolds == Spec => []SlotsExact
  <1>1. SlotsInv => SlotsExact
    BY DEF SlotsInv
  <1> QED
    BY <1>1, SlotsInvariant, PTL

-----------------------------------------------------------------------------
(***************************************************************************)
(* The limiter.  Its windows are renewed at different times, and what it   *)
(* let through in the last minute straddles them, so the invariant says    *)
(* how the history lies to a window: while one is open its count is that   *)
(* of the attempts since it began, and there are few enough from before;   *)
(* once it is over there are few enough in all.                            *)
(***************************************************************************)
Attempts == [src : Sources, age : 0..(Minute - 1), n : Nat]
Windows == [age : 0..Minute, count : Nat]

\* Of the attempts H: those since a window began, after its first tick, and before it.
Since(H, w) == {a \in H : a.age <= w.age}
Later(H, w) == {a \in H : a.age < w.age}
Before(H, w) == {a \in H : a.age > w.age}

Open(H, w, N) ==
    /\ Cardinality(Since(H, w)) = w.count
    /\ Cardinality(Later(H, w)) <= N
    /\ Cardinality(Before(H, w)) <= N

Over(H, N) == Cardinality(H) <= N /\ \A a \in H : a.age > 0

Follows(H, w, N) == IF w.age < Minute THEN Open(H, w, N) ELSE Over(H, N)

\* A host without a window is like one whose window is over.
NoWindow == [age |-> Minute, count |-> 0]
WindowOf(s) == IF s \in DOMAIN rates THEN rates[s] ELSE NoWindow

RatesType ==
    /\ src \in [Conns -> Sources]
    /\ global \in Windows
    /\ DOMAIN rates \subseteq Sources /\ rates \in [DOMAIN rates -> Windows]
    /\ recent \subseteq Attempts /\ IsFiniteSet(recent)

Numbered ==
    \A a \in recent : a.age = 0 => a.n <= Cardinality({b \in Of(a.src) : b.age = 0})

GlobalWindow == global.count <= Global /\ Follows(recent, global, Global)

\* A window of a host begins with an attempt.
HostWindow(s) ==
    /\ WindowOf(s).count <= PerSource
    /\ Follows(Of(s), WindowOf(s), PerSource - 1)
    /\ WindowOf(s).age < Minute => \E a \in Of(s) : a.age = WindowOf(s).age

RatesInv == RatesType /\ Numbered /\ GlobalWindow /\ \A s \in Sources : HostWindow(s)

LEMMA MinuteType == Minute \in Nat /\ Minute > 0
  BY ListenerAssumption DEF ListenerAssumption

\* Parts of a finite history are finite, and none is larger.
LEMMA PartOf ==
    ASSUME NEW H, IsFiniteSet(H), NEW P, P \subseteq H
    PROVE  /\ IsFiniteSet(P) /\ Cardinality(P) \in Nat /\ Cardinality(H) \in Nat
           /\ Cardinality(P) <= Cardinality(H)
           /\ P # H => Cardinality(P) < Cardinality(H)
  <1>1. IsFiniteSet(P) /\ Cardinality(P) <= Cardinality(H)
        /\ (Cardinality(H) = Cardinality(P) => H = P)
    BY FS_Subset
  <1>2. Cardinality(P) \in Nat /\ Cardinality(H) \in Nat
    BY <1>1, FS_CardinalityType
  <1> QED
    BY <1>1, <1>2

Aged(H) == {[a EXCEPT !.age = @ + 1] : a \in {b \in H : b.age < Minute - 1}}

\* Attempts that grow older stay as many.
LEMMA AgedCount ==
    ASSUME NEW H, H \subseteq Attempts, IsFiniteSet(H), \A a \in H : a.age < Minute - 1
    PROVE  /\ IsFiniteSet(Aged(H)) /\ Cardinality(Aged(H)) = Cardinality(H)
           /\ Aged(H) \subseteq Attempts /\ \A a \in Aged(H) : a.age > 0
  <1> DEFINE older == [a \in H |-> [a EXCEPT !.age = @ + 1]]
  <1>1. Aged(H) = {older[a] : a \in H}
    BY DEF Aged
  <1>2. \A a \in H : /\ a.src \in Sources /\ a.n \in Nat /\ a.age \in Nat
                     /\ a.age + 1 < Minute
    BY MinuteType DEF Attempts
  <1>3. \A a \in H : /\ a = [src |-> a.src, age |-> a.age, n |-> a.n]
                     /\ older[a] = [src |-> a.src, age |-> a.age + 1, n |-> a.n]
                     /\ older[a].src = a.src /\ older[a].age = a.age + 1 /\ older[a].n = a.n
    BY DEF Attempts
  <1> HIDE DEF older
  <1>4. \A a, b \in H : older[a] = older[b] => a = b
    <2> SUFFICES ASSUME NEW a \in H, NEW b \in H, older[a] = older[b] PROVE a = b
      OBVIOUS
    <2>1. /\ older[a].src = a.src /\ older[a].age = a.age + 1 /\ older[a].n = a.n
          /\ older[b].src = b.src /\ older[b].age = b.age + 1 /\ older[b].n = b.n
      BY <1>3
    <2>2. a.age = b.age
      BY <1>2, <2>1
    <2>3. a.src = b.src /\ a.n = b.n
      BY <2>1
    <2>4. /\ a = [src |-> a.src, age |-> a.age, n |-> a.n]
          /\ b = [src |-> b.src, age |-> b.age, n |-> b.n]
      BY <1>3
    <2> QED
      BY <2>2, <2>3, <2>4
  <1>5. older \in Bijection(H, Aged(H))
    BY <1>1, <1>4 DEF older, Bijection, Injection, Surjection, IsInjective
  <1>6. ExistsBijection(H, Aged(H))
    BY <1>5 DEF ExistsBijection
  <1>7. IsFiniteSet(Aged(H)) /\ Cardinality(Aged(H)) = Cardinality(H)
    BY <1>6, FS_Bijection
  <1>8. \A a \in H : older[a] \in Attempts /\ older[a].age > 0
    <2> SUFFICES ASSUME NEW a \in H PROVE older[a] \in Attempts /\ older[a].age > 0
      OBVIOUS
    <2>1. a.age + 1 \in 0..(Minute - 1) /\ a.age + 1 > 0
      BY <1>2, MinuteType
    <2>2. [src |-> a.src, age |-> a.age + 1, n |-> a.n] \in Attempts
      BY <1>2, <2>1 DEF Attempts
    <2> QED
      BY <1>3, <2>1, <2>2
  <1> QED
    BY <1>1, <1>7, <1>8

\* The parts of a history as they lie to a window grow older with it.
LEMMA AgedParts ==
    ASSUME NEW H, H \subseteq Attempts, NEW w, NEW v, w.age \in Nat, v.age = w.age + 1
    PROVE  /\ Since(Aged(H), v) = Aged(Since(H, w))
           /\ Later(Aged(H), v) = Aged(Later(H, w))
           /\ Before(Aged(H), v) = Aged(Before(H, w))
  <1>1. \A b \in H : [b EXCEPT !.age = @ + 1].age = b.age + 1 /\ b.age \in Nat
    BY MinuteType DEF Attempts
  <1>2. \A b \in H : /\ b.age + 1 <= v.age <=> b.age <= w.age
                     /\ b.age + 1 < v.age <=> b.age < w.age
                     /\ b.age + 1 > v.age <=> b.age > w.age
    BY <1>1
  <1> DEFINE older(b) == [b EXCEPT !.age = @ + 1]
             kept == {b \in H : b.age < Minute - 1}
  <1>3. \A b \in H : /\ older(b).age <= v.age <=> b.age <= w.age
                     /\ older(b).age < v.age <=> b.age < w.age
                     /\ older(b).age > v.age <=> b.age > w.age
    BY <1>1, <1>2
  <1>4. Aged(H) = {older(b) : b \in kept}
    BY DEF Aged
  <1> HIDE DEF older
  <1>5. Since(Aged(H), v) = Aged(Since(H, w))
    <2>1. Aged(Since(H, w)) = {older(b) : b \in {c \in kept : c.age <= w.age}}
      BY DEF Aged, Since, older
    <2> QED
      BY <1>3, <1>4, <2>1 DEF Since
  <1>6. Later(Aged(H), v) = Aged(Later(H, w))
    <2>1. Aged(Later(H, w)) = {older(b) : b \in {c \in kept : c.age < w.age}}
      BY DEF Aged, Later, older
    <2> QED
      BY <1>3, <1>4, <2>1 DEF Later
  <1>7. Before(Aged(H), v) = Aged(Before(H, w))
    <2>1. Aged(Before(H, w)) = {older(b) : b \in {c \in kept : c.age > w.age}}
      BY DEF Aged, Before, older
    <2> QED
      BY <1>3, <1>4, <2>1 DEF Before
  <1> QED
    BY <1>5, <1>6, <1>7

\* Only what is a minute old is forgotten: nothing younger, and all of the rest fits.
LEMMA AgedSize ==
    ASSUME NEW H, H \subseteq Attempts, IsFiniteSet(H)
    PROVE  /\ Aged(H) \subseteq Attempts /\ IsFiniteSet(Aged(H))
           /\ Cardinality(Aged(H)) \in Nat /\ Cardinality(Aged(H)) <= Cardinality(H)
           /\ \A a \in Aged(H) : a.age > 0
           /\ (\A a \in H : a.age < Minute - 1) => Cardinality(Aged(H)) = Cardinality(H)
  <1> DEFINE kept == {b \in H : b.age < Minute - 1}
  <1>1. IsFiniteSet(kept) /\ Cardinality(kept) \in Nat /\ Cardinality(kept) <= Cardinality(H)
    BY PartOf
  <1>2. Aged(H) = Aged(kept) /\ \A a \in kept : a.age < Minute - 1
    BY DEF Aged
  <1>3. /\ IsFiniteSet(Aged(kept)) /\ Cardinality(Aged(kept)) = Cardinality(kept)
        /\ Aged(kept) \subseteq Attempts /\ \A a \in Aged(kept) : a.age > 0
    BY <1>1, <1>2, AgedCount
  <1>4. (\A a \in H : a.age < Minute - 1) => kept = H
    OBVIOUS
  <1> QED
    BY <1>1, <1>2, <1>3, <1>4

\* A tick of the clock (Tick), for a window and the history beside it.
LEMMA WindowAges ==
    ASSUME NEW H, H \subseteq Attempts, IsFiniteSet(H), NEW w \in Windows, NEW N \in Nat,
           Follows(H, w, N)
    PROVE  Follows(Aged(H), [w EXCEPT !.age = Older(@)], N)
  <1> DEFINE v == [w EXCEPT !.age = Older(@)]
  <1>1. /\ w.age \in 0..Minute /\ w.count \in Nat
        /\ v.age = Older(w.age) /\ v.count = w.count
    BY DEF Windows
  <1> HIDE DEF v
  <1>2. \A a \in H : a.age \in 0..(Minute - 1)
    BY DEF Attempts
  <1>3. /\ Cardinality(Aged(H)) \in Nat /\ Cardinality(Aged(H)) <= Cardinality(H)
        /\ Cardinality(H) \in Nat /\ \A a \in Aged(H) : a.age > 0
    BY AgedSize, FS_CardinalityType
  <1>4. CASE w.age < Minute - 1
    <2>1. v.age = w.age + 1 /\ v.age < Minute
      BY <1>1, <1>4, MinuteType DEF Older
    <2>2. /\ Cardinality(Since(H, w)) = w.count
          /\ Cardinality(Later(H, w)) <= N /\ Cardinality(Before(H, w)) <= N
      BY <1>1, <1>4, MinuteType DEF Follows, Open
    <2>3. \A P \in {Since(H, w), Later(H, w), Before(H, w)} :
            P \subseteq Attempts /\ IsFiniteSet(P) /\ Cardinality(P) \in Nat
      BY PartOf DEF Since, Later, Before
    <2>4. \A a \in Since(H, w) : a.age < Minute - 1
      BY <1>1, <1>2, <1>4, MinuteType DEF Since
    <2>5. Cardinality(Aged(Since(H, w))) = w.count
      BY <2>2, <2>3, <2>4, AgedSize
    <2>6. Cardinality(Aged(Later(H, w))) <= N /\ Cardinality(Aged(Before(H, w))) <= N
      BY <2>2, <2>3, AgedSize
    <2>7. /\ Since(Aged(H), v) = Aged(Since(H, w))
          /\ Later(Aged(H), v) = Aged(Later(H, w))
          /\ Before(Aged(H), v) = Aged(Before(H, w))
      BY <1>1, <2>1, AgedParts
    <2>8. Open(Aged(H), v, N)
      BY <1>1, <2>5, <2>6, <2>7 DEF Open
    <2> QED
      BY <2>1, <2>8 DEF Follows, v
  <1>5. CASE w.age = Minute - 1
    <2>1. v.age = Minute
      BY <1>1, <1>5, MinuteType DEF Older
    <2>2. Aged(H) = Aged(Later(H, w))
      BY <1>5 DEF Aged, Later
    <2>3. Cardinality(Later(H, w)) <= N
      BY <1>5, MinuteType DEF Follows, Open
    <2>4. Cardinality(Aged(Later(H, w))) <= Cardinality(Later(H, w))
          /\ Cardinality(Later(H, w)) \in Nat
      <3>1. Later(H, w) \subseteq H
        BY DEF Later
      <3> QED
        BY <3>1, PartOf, AgedSize
    <2>5. Over(Aged(H), N)
      BY <1>3, <2>2, <2>3, <2>4 DEF Over
    <2> QED
      BY <2>1, <2>5, MinuteType DEF Follows, v
  <1>6. CASE w.age = Minute
    <2>1. v.age = Minute
      BY <1>1, <1>6, MinuteType DEF Older
    <2>2. Cardinality(H) <= N
      BY <1>6, MinuteType DEF Follows, Over
    <2>3. Over(Aged(H), N)
      BY <1>3, <2>2 DEF Over
    <2> QED
      BY <2>1, <2>3, MinuteType DEF Follows, v
  <1> QED
    BY <1>1, <1>4, <1>5, <1>6, MinuteType

\* A new window is opened: all that was let through before belongs to none.
LEMMA WindowRenewed ==
    ASSUME NEW H, H \subseteq Attempts, IsFiniteSet(H), NEW N \in Nat, Over(H, N)
    PROVE  Follows(H, [age |-> 0, count |-> 0], N)
  <1> DEFINE w == [age |-> 0, count |-> 0]
  <1>1. \A a \in H : a.age \in Nat /\ a.age > 0
    BY MinuteType DEF Attempts, Over
  <1>2. Since(H, w) = {} /\ Later(H, w) = {} /\ Before(H, w) = H
    BY <1>1 DEF Since, Later, Before
  <1>3. Cardinality({}) = 0
    BY FS_EmptySet
  <1>4. Open(H, w, N)
    BY <1>2, <1>3 DEF Open, Over
  <1> QED
    BY <1>4, MinuteType DEF Follows

\* The parts of a history as they lie to a window can be counted.
LEMMA PartsCounted ==
    ASSUME NEW H, IsFiniteSet(H), NEW w
    PROVE  /\ IsFiniteSet(Since(H, w)) /\ Cardinality(Since(H, w)) \in Nat
           /\ IsFiniteSet(Later(H, w)) /\ Cardinality(Later(H, w)) \in Nat
           /\ IsFiniteSet(Before(H, w)) /\ Cardinality(Before(H, w)) \in Nat
  <1>1. Since(H, w) \subseteq H
    BY DEF Since
  <1>2. Later(H, w) \subseteq H
    BY DEF Later
  <1>3. Before(H, w) \subseteq H
    BY DEF Before
  <1> QED
    BY <1>1, <1>2, <1>3, PartOf

\* One more attempt is let through, and counted.
LEMMA WindowCounts ==
    ASSUME NEW H, H \subseteq Attempts, IsFiniteSet(H), NEW w \in Windows, NEW N \in Nat,
           w.age < Minute, Follows(H, w, N),
           w.age > 0 => Cardinality(Later(H, w)) < N,
           NEW a \in Attempts, a \notin H, a.age = 0
    PROVE  Follows(H \cup {a}, [w EXCEPT !.count = @ + 1], N)
  <1> DEFINE v == [w EXCEPT !.count = @ + 1]
             G == H \cup {a}
  <1>1. w.age \in Nat /\ w.count \in Nat /\ v.age = w.age /\ v.count = w.count + 1
    BY DEF Windows
  <1> HIDE DEF v
  <1>2. /\ Cardinality(Since(H, w)) = w.count
        /\ Cardinality(Later(H, w)) <= N /\ Cardinality(Before(H, w)) <= N
    BY DEF Follows, Open
  <1>3. /\ IsFiniteSet(Since(H, w)) /\ Cardinality(Since(H, w)) \in Nat /\ a \notin Since(H, w)
        /\ IsFiniteSet(Later(H, w)) /\ Cardinality(Later(H, w)) \in Nat /\ a \notin Later(H, w)
    BY PartsCounted DEF Since, Later
  <1>4. Cardinality(Since(G, v)) = w.count + 1
    <2>1. Since(G, v) = Since(H, w) \cup {a}
      BY <1>1 DEF Since
    <2>2. Cardinality(Since(H, w) \cup {a}) = Cardinality(Since(H, w)) + 1
      BY ONLY <1>3, FS_AddElement
    <2> QED
      BY ONLY <1>2, <2>1, <2>2
  <1>5. Cardinality(Later(G, v)) <= N
    <2>1. CASE w.age = 0
      <3>1. Later(G, v) = Later(H, w)
        BY <1>1, <2>1 DEF Later
      <3> QED
        BY <1>2, <3>1
    <2>2. CASE w.age > 0
      <3>1. Later(G, v) = Later(H, w) \cup {a}
        BY <1>1, <2>2 DEF Later
      <3>2. Cardinality(Later(H, w) \cup {a}) = Cardinality(Later(H, w)) + 1
        BY <1>3, FS_AddElement
      <3>3. Cardinality(Later(H, w)) < N /\ N \in Nat
        BY <2>2
      <3>4. Cardinality(Later(G, v)) = Cardinality(Later(H, w)) + 1
        BY ONLY <3>1, <3>2
      <3> HIDE DEF G
      <3> QED
        BY ONLY <1>3, <3>3, <3>4
    <2> QED
      BY <1>1, <2>1, <2>2
  <1>6. Cardinality(Before(G, v)) <= N
    <2>1. Before(G, v) = Before(H, w)
      BY <1>1 DEF Before
    <2> QED
      BY <1>2, <2>1
  <1>7. Open(G, v, N)
    BY <1>1, <1>4, <1>5, <1>6 DEF Open
  <1> QED
    BY <1>1, <1>7 DEF Follows, v

-----------------------------------------------------------------------------
LEMMA InitRates == Init => RatesInv
  <1> SUFFICES ASSUME Init PROVE RatesInv
    OBVIOUS
  <1>1. RatesType /\ Numbered
    BY FS_EmptySet, MinuteType DEF Init, RatesType, Numbered, Windows
  <1>2. Cardinality({}) = 0 /\ recent = {} /\ \A s \in Sources : Of(s) = {}
    BY FS_EmptySet DEF Init, Of
  <1>3. PerSource \in Nat \ {0} /\ Global \in Nat
    BY ListenerAssumption DEF ListenerAssumption
  <1>4. GlobalWindow
    BY <1>2, <1>3, MinuteType DEF Init, GlobalWindow, Follows, Over
  <1>5. \A s \in Sources : HostWindow(s)
    <2>1. DOMAIN rates = {}
      BY DEF Init
    <2>2. \A s \in Sources : WindowOf(s).age = Minute /\ WindowOf(s).count = 0
      BY <2>1 DEF WindowOf, NoWindow
    <2> QED
      BY <1>2, <1>3, <2>2, MinuteType DEF HostWindow, Follows, Over
  <1> QED
    BY <1>1, <1>4, <1>5 DEF RatesInv

\* The history of one host, and that it can be counted.
LEMMA HostHistory ==
    ASSUME RatesInv, NEW s \in Sources
    PROVE  /\ Of(s) \subseteq recent /\ Of(s) \subseteq Attempts /\ IsFiniteSet(Of(s))
           /\ Cardinality(Of(s)) \in Nat
           /\ WindowOf(s) \in Windows
           /\ PerSource - 1 \in Nat
  <1>1. Of(s) \subseteq recent /\ recent \subseteq Attempts /\ IsFiniteSet(recent)
    BY DEF RatesInv, RatesType, Of
  <1>2. IsFiniteSet(Of(s)) /\ Cardinality(Of(s)) \in Nat
    BY <1>1, PartOf
  <1>3. NoWindow \in Windows
    BY MinuteType DEF NoWindow, Windows
  <1>4. WindowOf(s) \in Windows
    BY <1>3 DEF RatesInv, RatesType, WindowOf
  <1> QED
    BY <1>1, <1>2, <1>4, ListenerAssumption DEF ListenerAssumption

LEMMA TickRates ==
    ASSUME RatesInv, Tick
    PROVE  RatesInv'
  <1>1. /\ recent \subseteq Attempts /\ IsFiniteSet(recent)
        /\ global \in Windows /\ global.count \in Nat /\ global.age \in 0..Minute
        /\ recent' = Aged(recent) /\ global' = [global EXCEPT !.age = Older(@)]
        /\ DOMAIN rates' = DOMAIN rates /\ src' = src
    BY DEF RatesInv, RatesType, Tick, Aged, conns, Windows
  <1>2. \A k \in 0..Minute : Older(k) \in 0..Minute
    BY MinuteType DEF Older
  <1>3. \A w \in Windows : [w EXCEPT !.age = Older(@)] \in Windows
    BY <1>2 DEF Windows
  <1>4. Older(Minute) = Minute
    BY MinuteType DEF Older
  <1>5. /\ Aged(recent) \subseteq Attempts /\ IsFiniteSet(Aged(recent))
        /\ \A a \in Aged(recent) : a.age > 0
    BY <1>1, AgedSize
  <1>6. RatesType'
    BY <1>1, <1>3, <1>5 DEF RatesInv, RatesType, Tick
  <1>7. Numbered'
    BY <1>1, <1>5 DEF Numbered
  <1>8. GlobalWindow'
    <2>1. Follows(recent', global', Global)
      BY <1>1, WindowAges, ListenerAssumption DEF RatesInv, GlobalWindow, ListenerAssumption
    <2>2. global'.count = global.count
      BY <1>1 DEF Windows
    <2> QED
      BY <2>1, <2>2 DEF RatesInv, GlobalWindow
  <1>9. ASSUME NEW s \in Sources PROVE HostWindow(s)'
    <2>1. WindowOf(s)' = [WindowOf(s) EXCEPT !.age = Older(@)]
      BY <1>1, <1>4 DEF Tick, WindowOf, NoWindow
    <2>2. Of(s)' = Aged(Of(s))
      <3>1. \A b \in recent : [b EXCEPT !.age = @ + 1].src = b.src
        BY <1>1 DEF Attempts
      <3> QED
        BY <1>1, <3>1 DEF Of, Aged
    <2>3. HostWindow(s) /\ WindowOf(s) \in Windows
      BY HostHistory DEF RatesInv
    <2>4. /\ WindowOf(s)'.count = WindowOf(s).count
          /\ WindowOf(s)'.age = Older(WindowOf(s).age) /\ WindowOf(s).age \in 0..Minute
      BY <2>1, <2>3 DEF Windows
    <2>5. Follows(Of(s)', WindowOf(s)', PerSource - 1)
      BY <2>1, <2>2, <2>3, HostHistory, WindowAges DEF HostWindow
    <2>6. ASSUME WindowOf(s)'.age < Minute PROVE \E a \in Of(s)' : a.age = WindowOf(s)'.age
      <3>1. WindowOf(s).age < Minute - 1 /\ WindowOf(s)'.age = WindowOf(s).age + 1
        BY <2>4, <2>6, MinuteType DEF Older
      <3>2. PICK b \in Of(s) : b.age = WindowOf(s).age
        BY <2>3, <2>4, <3>1, MinuteType DEF HostWindow
      <3>3. [b EXCEPT !.age = @ + 1].age = b.age + 1
        BY HostHistory DEF Attempts
      <3>4. [b EXCEPT !.age = @ + 1] \in Of(s)'
        BY <2>2, <3>1, <3>2 DEF Aged
      <3> QED
        BY <3>1, <3>2, <3>3, <3>4
    <2> QED
      BY <2>3, <2>4, <2>5, <2>6 DEF HostWindow
  <1> QED
    BY <1>6, <1>7, <1>8, <1>9 DEF RatesInv

-----------------------------------------------------------------------------
\* What allowPairAttempt sees: the windows that are still open, and a fresh one instead of
\* any that is over.
LEMMA OpenWindows ==
    ASSUME RatesInv
    PROVE  /\ DOMAIN RatesNow \subseteq DOMAIN rates /\ DOMAIN rates \subseteq Sources
           /\ \A x \in DOMAIN rates : x \in DOMAIN RatesNow <=> rates[x].age < Minute
           /\ \A x \in DOMAIN RatesNow : RatesNow[x] = rates[x] /\ rates[x] \in Windows
  BY DEF RatesInv, RatesType, RatesNow, Restrict

LEMMA GlobalSeen ==
    ASSUME RatesInv
    PROVE  /\ GlobalNow \in Windows /\ GlobalNow.age \in Nat /\ GlobalNow.age < Minute
           /\ GlobalNow.count \in Nat /\ GlobalNow.count <= Global
           /\ Follows(recent, GlobalNow, Global)
  <1>1. /\ recent \subseteq Attempts /\ IsFiniteSet(recent)
        /\ global \in Windows /\ global.age \in 0..Minute /\ global.count \in Nat
        /\ global.count <= Global /\ Follows(recent, global, Global)
    BY DEF RatesInv, RatesType, GlobalWindow, Windows
  <1>2. Global \in Nat
    BY ListenerAssumption DEF ListenerAssumption
  <1>3. CASE global.age < Minute
    BY <1>1, <1>3, MinuteType DEF GlobalNow
  <1>4. CASE global.age = Minute
    <2>1. GlobalNow = [age |-> 0, count |-> 0]
      BY <1>4, MinuteType DEF GlobalNow
    <2>2. Over(recent, Global)
      BY <1>1, <1>4, MinuteType DEF Follows
    <2>3. Follows(recent, GlobalNow, Global)
      BY <1>1, <1>2, <2>1, <2>2, WindowRenewed
    <2> QED
      BY <1>2, <2>1, <2>3, MinuteType DEF Windows
  <1> QED
    BY <1>1, <1>3, <1>4, MinuteType

LEMMA HostSeen ==
    ASSUME RatesInv, NEW s \in Sources
    PROVE  /\ RateNow(s) \in Windows /\ RateNow(s).age \in Nat /\ RateNow(s).age < Minute
           /\ RateNow(s).count \in Nat /\ RateNow(s).count <= PerSource
           /\ Follows(Of(s), RateNow(s), PerSource - 1)
           /\ \/ s \in DOMAIN RatesNow /\ \E a \in Of(s) : a.age = RateNow(s).age
              \/ RateNow(s) = [age |-> 0, count |-> 0]
  <1>1. /\ Of(s) \subseteq Attempts /\ IsFiniteSet(Of(s)) /\ PerSource - 1 \in Nat
        /\ WindowOf(s) \in Windows /\ HostWindow(s)
    BY HostHistory DEF RatesInv
  <1>2. WindowOf(s).age \in 0..Minute /\ WindowOf(s).count \in Nat /\ PerSource \in Nat
    BY <1>1, ListenerAssumption DEF Windows, ListenerAssumption
  <1>3. CASE s \in DOMAIN RatesNow
    <2>1. RateNow(s) = WindowOf(s) /\ WindowOf(s).age < Minute
      BY <1>3, OpenWindows DEF RateNow, WindowOf
    <2> QED
      BY <1>1, <1>2, <1>3, <2>1 DEF HostWindow
  <1>4. CASE s \notin DOMAIN RatesNow
    <2>1. RateNow(s) = [age |-> 0, count |-> 0]
      BY <1>4 DEF RateNow
    <2>2. WindowOf(s).age = Minute
      <3>1. WindowOf(s).age >= Minute
        <4>1. CASE s \in DOMAIN rates
          BY <1>2, <1>4, <4>1, OpenWindows, MinuteType DEF WindowOf
        <4>2. CASE s \notin DOMAIN rates
          BY <4>2, MinuteType DEF WindowOf, NoWindow
        <4> QED
          BY <4>1, <4>2
      <3> QED
        BY <1>2, <3>1, MinuteType
    <2>3. Over(Of(s), PerSource - 1)
      BY <1>1, <2>2, MinuteType DEF HostWindow, Follows
    <2>4. Follows(Of(s), RateNow(s), PerSource - 1)
      BY <1>1, <2>1, <2>3, WindowRenewed
    <2> QED
      BY <1>2, <2>1, <2>4, MinuteType DEF Windows
  <1> QED
    BY <1>3, <1>4

\* An attempt that is let through is told apart from all there are.
LEMMA AttemptIsNew ==
    ASSUME RatesInv, NEW s \in Sources
    PROVE  /\ Attempt(s) \in Attempts /\ Attempt(s) \notin recent
           /\ Attempt(s).age = 0 /\ Attempt(s).src = s
           /\ Attempt(s).n = Cardinality({b \in Of(s) : b.age = 0}) + 1
  <1> DEFINE k == Cardinality({b \in Of(s) : b.age = 0})
  <1>1. k \in Nat
    <2>1. {b \in Of(s) : b.age = 0} \subseteq Of(s) /\ IsFiniteSet(Of(s))
      BY HostHistory
    <2> QED
      BY <2>1, PartOf
  <1>2. Attempt(s) = [src |-> s, age |-> 0, n |-> k + 1]
    BY DEF Attempt
  <1> HIDE DEF k
  <1>3. Attempt(s) \in Attempts
    BY <1>1, <1>2, MinuteType DEF Attempts
  <1>4. ASSUME Attempt(s) \in recent PROVE FALSE
    <2>1. Attempt(s).n <= k
      BY <1>2, <1>4 DEF RatesInv, Numbered, k
    <2>2. Attempt(s).n = k + 1
      BY <1>2
    <2> QED
      BY <1>1, <2>1, <2>2
  <1> QED
    BY <1>2, <1>3, <1>4 DEF k

\* The global window counts it.
LEMMA GlobalCounts ==
    ASSUME RatesInv, NEW s \in Sources, GlobalNow.count < Global
    PROVE  Follows(recent \cup {Attempt(s)}, [GlobalNow EXCEPT !.count = @ + 1], Global)
  <1>1. recent \subseteq Attempts /\ IsFiniteSet(recent) /\ Global \in Nat
    BY ListenerAssumption DEF RatesInv, RatesType, ListenerAssumption
  <1>2. Cardinality(Since(recent, GlobalNow)) = GlobalNow.count
    BY GlobalSeen DEF Follows, Open
  <1>3. Later(recent, GlobalNow) \subseteq Since(recent, GlobalNow)
    BY <1>1, GlobalSeen, MinuteType DEF Later, Since, Attempts
  <1>4. IsFiniteSet(Since(recent, GlobalNow))
    BY <1>1, PartOf DEF Since
  <1>5. Cardinality(Later(recent, GlobalNow)) < Global
    BY <1>1, <1>2, <1>3, <1>4, PartOf, GlobalSeen
  <1> QED
    BY <1>1, <1>5, GlobalSeen, AttemptIsNew, WindowCounts

\* So does the window of its host, whose first attempt is as old as it is.
LEMMA HostCounts ==
    ASSUME RatesInv, NEW s \in Sources, RateNow(s).count < PerSource
    PROVE  /\ Follows(Of(s) \cup {Attempt(s)}, [RateNow(s) EXCEPT !.count = @ + 1], PerSource - 1)
           /\ \E a \in Of(s) \cup {Attempt(s)} : a.age = RateNow(s).age
  <1> DEFINE w == RateNow(s)
  <1>1. /\ Of(s) \subseteq Attempts /\ IsFiniteSet(Of(s)) /\ PerSource - 1 \in Nat
        /\ Of(s) \subseteq recent
    BY HostHistory
  <1>2. /\ w \in Windows /\ w.age \in Nat /\ w.age < Minute /\ w.count \in Nat
        /\ Follows(Of(s), w, PerSource - 1)
        /\ (\E a \in Of(s) : a.age = w.age) \/ w = [age |-> 0, count |-> 0]
    BY HostSeen
  <1> HIDE DEF w
  <1>3. Attempt(s) \in Attempts /\ Attempt(s) \notin Of(s) /\ Attempt(s).age = 0
    BY <1>1, AttemptIsNew
  <1>4. ASSUME w.age > 0 PROVE Cardinality(Later(Of(s), w)) < PerSource - 1
    <2>1. PICK a \in Of(s) : a.age = w.age
      BY <1>2, <1>4
    <2>2. a \in Since(Of(s), w) /\ a \notin Later(Of(s), w)
      BY <1>2, <2>1 DEF Since, Later
    <2>3. Later(Of(s), w) \subseteq Since(Of(s), w)
      BY <1>1, <1>2, MinuteType DEF Later, Since, Attempts
    <2>4. IsFiniteSet(Since(Of(s), w))
      BY <1>1, PartOf DEF Since
    <2>5. /\ Cardinality(Later(Of(s), w)) < Cardinality(Since(Of(s), w))
          /\ Cardinality(Later(Of(s), w)) \in Nat
      BY <2>2, <2>3, <2>4, PartOf
    <2>6. Cardinality(Since(Of(s), w)) = w.count
      BY <1>2 DEF Follows, Open
    <2> QED
      BY <1>1, <1>2, <2>5, <2>6, ListenerAssumption DEF ListenerAssumption, w
  <1>5. Follows(Of(s) \cup {Attempt(s)}, [w EXCEPT !.count = @ + 1], PerSource - 1)
    BY <1>1, <1>2, <1>3, <1>4, WindowCounts
  <1>6. \E a \in Of(s) \cup {Attempt(s)} : a.age = w.age
    BY <1>2, <1>3
  <1> QED
    BY <1>5, <1>6 DEF w

\* A host whose open window is left alone: closing one that is over changes nothing.
LEMMA HostLeftAlone ==
    ASSUME RatesInv, NEW x \in Sources, Of(x)' = Of(x),
           x \in DOMAIN rates' <=> x \in DOMAIN RatesNow,
           x \in DOMAIN RatesNow => rates'[x] = RatesNow[x]
    PROVE  HostWindow(x)'
  <1>1. HostWindow(x) /\ WindowOf(x) \in Windows /\ PerSource \in Nat
    BY HostHistory, ListenerAssumption DEF RatesInv, ListenerAssumption
  <1>2. CASE x \in DOMAIN RatesNow
    <2>1. WindowOf(x)' = WindowOf(x)
      BY <1>2, OpenWindows DEF WindowOf
    <2> QED
      BY <1>1, <2>1 DEF HostWindow
  <1>3. CASE x \notin DOMAIN RatesNow
    <2>1. WindowOf(x)'.age = Minute /\ WindowOf(x)'.count = 0
      BY <1>3 DEF WindowOf, NoWindow
    <2>2. WindowOf(x).age \in 0..Minute /\ ~(WindowOf(x).age < Minute)
      BY <1>1, <1>3, OpenWindows, MinuteType DEF WindowOf, NoWindow, Windows
    <2>3. Over(Of(x), PerSource - 1)
      BY <1>1, <2>2 DEF HostWindow, Follows
    <2>4. Over(Of(x)', PerSource - 1)
      BY <2>3
    <2> QED
      BY <1>1, <2>1, <2>4, MinuteType DEF HostWindow, Follows
  <1> QED
    BY <1>2, <1>3

\* An attempt that is refused renews windows, and is not counted.
LEMMA RefusedRates ==
    ASSUME RatesInv, global' = GlobalNow, rates' = RatesNow, UNCHANGED <<src, recent>>
    PROVE  RatesInv'
  <1>1. RatesType'
    BY GlobalSeen, OpenWindows DEF RatesInv, RatesType, RatesNow, Restrict
  <1>2. Numbered' /\ \A x \in Sources : Of(x)' = Of(x)
    BY DEF RatesInv, Numbered, Of
  <1>3. GlobalWindow'
    BY GlobalSeen DEF GlobalWindow
  <1>4. \A x \in Sources : HostWindow(x)'
    BY <1>2, HostLeftAlone
  <1> QED
    BY <1>1, <1>2, <1>3, <1>4 DEF RatesInv

\* One that is let through is counted by the global window and by its host's.
LEMMA AllowedRates ==
    ASSUME RatesInv, NEW s \in Sources, Allowed(s),
           global' = [GlobalNow EXCEPT !.count = @ + 1],
           rates' = [x \in DOMAIN RatesNow \cup {s} |->
                        IF x = s THEN [RateNow(s) EXCEPT !.count = @ + 1] ELSE RatesNow[x]],
           recent' = recent \cup {Attempt(s)}, UNCHANGED src
    PROVE  RatesInv'
  <1>1. /\ recent \subseteq Attempts /\ IsFiniteSet(recent) /\ src \in [Conns -> Sources]
        /\ Global \in Nat /\ PerSource \in Nat
    BY ListenerAssumption DEF RatesInv, RatesType, ListenerAssumption
  <1>2. \A w \in Windows : /\ [w EXCEPT !.count = @ + 1] \in Windows
                           /\ [w EXCEPT !.count = @ + 1].age = w.age
                           /\ [w EXCEPT !.count = @ + 1].count = w.count + 1
                           /\ w.count \in Nat
    BY DEF Windows
  <1>3. Of(s)' = Of(s) \cup {Attempt(s)} /\ \A x \in Sources \ {s} : Of(x)' = Of(x)
    BY AttemptIsNew DEF Of
  <1>4. RatesType'
    <2>1. global' \in Windows
      BY <1>2, GlobalSeen
    <2>2. DOMAIN rates' \subseteq Sources /\ rates' \in [DOMAIN rates' -> Windows]
      BY <1>2, OpenWindows, HostSeen
    <2>3. recent' \subseteq Attempts /\ IsFiniteSet(recent')
      BY <1>1, AttemptIsNew, FS_AddElement
    <2> QED
      BY <1>1, <2>1, <2>2, <2>3 DEF RatesType
  <1>5. Numbered'
    <2> SUFFICES ASSUME NEW a \in recent', a.age = 0
                 PROVE  a.n <= Cardinality({b \in Of(a.src)' : b.age = 0})
      BY DEF Numbered
    <2> DEFINE young == {b \in Of(s) : b.age = 0}
    <2>1. young \subseteq Of(s) /\ IsFiniteSet(Of(s))
      BY HostHistory
    <2>2. IsFiniteSet(young) /\ Cardinality(young) \in Nat
      BY <2>1, PartOf
    <2>3. Attempt(s) \notin young /\ {b \in Of(s)' : b.age = 0} = young \cup {Attempt(s)}
      BY <1>3, AttemptIsNew DEF Of
    <2>4. Cardinality({b \in Of(s)' : b.age = 0}) = Cardinality(young) + 1
      BY <2>2, <2>3, FS_AddElement
    <2>5. CASE a = Attempt(s)
      <3>1. a.n = Cardinality(young) + 1 /\ a.src = s
        BY <2>5, AttemptIsNew
      <3> QED
        BY <2>2, <2>4, <3>1
    <2>6. CASE a \in recent /\ a.src = s
      <3>1. a.n <= Cardinality(young) /\ a.n \in Nat
        BY <1>1, <2>6 DEF RatesInv, Numbered, Attempts
      <3> QED
        BY <2>2, <2>4, <2>6, <3>1
    <2>7. CASE a \in recent /\ a.src # s
      BY <1>1, <1>3, <2>7 DEF RatesInv, Numbered, Attempts
    <2> QED
      BY <2>5, <2>6, <2>7
  <1>6. GlobalWindow'
    <2>1. Follows(recent', global', Global)
      BY GlobalCounts DEF Allowed
    <2>2. global'.count <= Global
      BY <1>1, <1>2, GlobalSeen DEF Allowed
    <2> QED
      BY <2>1, <2>2 DEF GlobalWindow
  <1>7. HostWindow(s)'
    <2>1. WindowOf(s)' = [RateNow(s) EXCEPT !.count = @ + 1]
      BY DEF WindowOf
    <2>2. WindowOf(s)'.age = RateNow(s).age /\ WindowOf(s)'.count = RateNow(s).count + 1
          /\ RateNow(s).count \in Nat
      BY <1>2, <2>1, HostSeen
    <2>3. RateNow(s).count < PerSource
      BY DEF Allowed
    <2>4. Follows(Of(s)', WindowOf(s)', PerSource - 1)
      BY <1>3, <2>1, <2>3, HostCounts
    <2>5. \E a \in Of(s)' : a.age = WindowOf(s)'.age
      BY <1>3, <2>2, <2>3, HostCounts
    <2> QED
      BY <1>1, <2>2, <2>3, <2>4, <2>5 DEF HostWindow
  <1>8. ASSUME NEW x \in Sources, x # s PROVE HostWindow(x)'
    BY <1>3, <1>8, HostLeftAlone
  <1> QED
    BY <1>4, <1>5, <1>6, <1>7, <1>8 DEF RatesInv

LEMMA NextRates == RatesInv /\ [Next]_vars => RatesInv'
  <1> SUFFICES ASSUME RatesInv, [Next]_vars PROVE RatesInv'
    OBVIOUS
  <1>1. ASSUME UNCHANGED limiter, src' \in [Conns -> Sources] PROVE RatesInv'
    BY <1>1 DEF limiter, RatesInv, RatesType, Numbered, Of, GlobalWindow, HostWindow, WindowOf
  <1>2. src \in [Conns -> Sources]
    BY DEF RatesInv, RatesType
  <1>3. ASSUME NEW c \in Conns, NEW s \in Sources, Connect(c, s) PROVE RatesInv'
    BY <1>1, <1>2, <1>3 DEF Connect
  <1>4. ASSUME NEW c \in Conns,
               Accept(c) \/ Handshake(c) \/ GiveBack(c) \/ ProtocolEnds(c) \/ Return(c)
        PROVE  RatesInv'
    BY <1>1, <1>2, <1>4 DEF Accept, Handshake, GiveBack, ProtocolEnds, Return
  <1>5. ASSUME NEW c \in Conns, AllowPairAttempt(c) PROVE RatesInv'
    BY <1>2, <1>5, AllowedRates, RefusedRates DEF AllowPairAttempt
  <1>6. CASE Tick
    BY <1>6, TickRates
  <1>7. CASE AcceptFails \/ UNCHANGED vars
    BY <1>1, <1>2, <1>7 DEF AcceptFails, conns, vars
  <1> QED
    BY <1>3, <1>4, <1>5, <1>6, <1>7 DEF Next

(* The inductive invariant of the limiter: how the attempts of the last    *)
(* minute lie to the global window and to the window of each host.         *)
THEOREM RatesInvariant == Spec => []RatesInv
  BY InitRates, NextRates, PTL DEF Spec

\* The attempts of any minute are those of an open window and those before it.
LEMMA WindowTotal ==
    ASSUME NEW H, H \subseteq Attempts, IsFiniteSet(H), NEW w \in Windows, NEW N \in Nat,
           Follows(H, w, N), w.count <= N + 1
    PROVE  Cardinality(H) <= N + w.count /\ Cardinality(H) <= N + N + 1
  <1>0. Cardinality(H) \in Nat /\ w.count \in Nat
    BY FS_CardinalityType DEF Windows
  <1>1. CASE w.age < Minute
    <2> DEFINE S == Since(H, w)
               B == Before(H, w)
    <2>1. S \cup B = H /\ S \cap B = {} /\ S \subseteq H /\ B \subseteq H
      BY MinuteType DEF Since, Before, Attempts, Windows
    <2>2. Cardinality(S) = w.count /\ Cardinality(B) <= N
      BY <1>1 DEF Follows, Open
    <2> HIDE DEF S, B
    <2>3. IsFiniteSet(S) /\ IsFiniteSet(B) /\ Cardinality(B) \in Nat
      BY <2>1, PartOf
    <2>4. Cardinality(S \cup B) = Cardinality(S) + Cardinality(B) - Cardinality(S \cap B)
      BY <2>3, FS_Union
    <2>5. Cardinality(S \cap B) = 0
      BY <2>1, FS_EmptySet
    <2>6. Cardinality(S \cup B) = w.count + Cardinality(B)
      BY <1>0, <2>2, <2>3, <2>4, <2>5
    <2>7. Cardinality(H) = w.count + Cardinality(B)
      BY <2>1, <2>6
    <2> QED
      BY <1>0, <2>2, <2>3, <2>7
  <1>2. CASE ~(w.age < Minute)
    BY <1>0, <1>2 DEF Follows, Over
  <1> QED
    BY <1>1, <1>2

(* For every number of hosts, limit and size of the table: in no minute    *)
(* does a host get twice its limit through, or all together more than      *)
(* twice theirs (allowPairAttempt).                                        *)
THEOREM PairRateBoundedHolds == Spec => []PairRateBounded
  <1>1. ASSUME RatesInv PROVE PairRateBounded
    <2>1. ASSUME NEW s \in Sources PROVE LetThrough(s) < 2 * PerSource
      <3>1. /\ Of(s) \subseteq Attempts /\ IsFiniteSet(Of(s)) /\ PerSource - 1 \in Nat
            /\ WindowOf(s) \in Windows /\ HostWindow(s) /\ PerSource \in Nat
        BY <1>1, HostHistory, ListenerAssumption DEF RatesInv, ListenerAssumption
      <3>2. Cardinality(Of(s)) <= PerSource - 1 + PerSource - 1 + 1
        BY <3>1, WindowTotal DEF HostWindow
      <3>3. Cardinality(Of(s)) \in Nat
        BY <3>1, FS_CardinalityType
      <3> QED
        BY <3>1, <3>2, <3>3 DEF LetThrough
    <2>2. LetThroughInAll <= 2 * Global
      <3>1. /\ recent \subseteq Attempts /\ IsFiniteSet(recent) /\ Global \in Nat
            /\ global \in Windows /\ global.count \in Nat /\ global.count <= Global
            /\ Follows(recent, global, Global)
        BY <1>1, ListenerAssumption
        DEF RatesInv, RatesType, GlobalWindow, Windows, ListenerAssumption
      <3>2. Cardinality(recent) <= Global + global.count
        BY <3>1, WindowTotal
      <3>3. Cardinality(recent) \in Nat
        BY <3>1, FS_CardinalityType
      <3> QED
        BY <3>1, <3>2, <3>3 DEF LetThroughInAll
    <2> QED
      BY <2>1, <2>2 DEF PairRateBounded
  <1> QED
    BY <1>1, RatesInvariant, PTL

\* A host with an open window had an attempt let through in the last minute.
LEMMA OpenWindowHasAttempt ==
    ASSUME RatesInv, NEW s \in Sources, s \in DOMAIN RatesNow
    PROVE  LetThrough(s) > 0
  <1>1. PICK a \in Of(s) : TRUE
    BY OpenWindows, HostHistory DEF RatesInv, HostWindow, WindowOf
  <1>2. IsFiniteSet(Of(s)) /\ Cardinality(Of(s)) \in Nat
    BY HostHistory
  <1>3. Cardinality(Of(s)) # 0
    BY <1>1, <1>2, FS_EmptySet
  <1> QED
    BY <1>2, <1>3 DEF LetThrough

\* The hosts that had any are as finitely many as the attempts.
LEMMA BusyHostsFinite ==
    ASSUME RatesInv
    PROVE  IsFiniteSet({s \in Sources : LetThrough(s) > 0})
  <1> DEFINE busy == {s \in Sources : LetThrough(s) > 0}
             hosts == {a.src : a \in recent}
             host == [a \in recent |-> a.src]
  <1>1. recent \subseteq Attempts /\ IsFiniteSet(recent)
    BY DEF RatesInv, RatesType
  <1>2. host \in Surjection(recent, hosts)
    BY DEF Surjection
  <1>3. IsFiniteSet(hosts)
    BY <1>1, <1>2, FS_Surjection
  <1>4. busy \subseteq hosts
    <2> SUFFICES ASSUME NEW s \in Sources, LetThrough(s) > 0 PROVE s \in hosts
      OBVIOUS
    <2>1. Cardinality({}) = 0
      BY FS_EmptySet
    <2>2. Of(s) # {}
      BY <2>1 DEF LetThrough
    <2> QED
      BY <2>2 DEF Of
  <1> QED
    BY <1>3, <1>4, FS_Subset

(* No attempt is refused without cause: to be locked out takes a host that *)
(* had its full number of attempts, a daemon that had, or a full table of  *)
(* other hosts that had some, all in the last minute.                      *)
THEOREM RefusedForCauseHolds == Spec => RefusedForCause
  <1> DEFINE Cause(c) == \/ LetThrough(src[c]) >= PerSource
                         \/ LetThroughInAll >= Global
                         \/ Cardinality({s \in Sources \ {src[c]} : LetThrough(s) > 0})
                              >= MaxEntries
  <1>1. ASSUME RatesInv, NEW s \in Sources, ~Allowed(s)
        PROVE  \/ LetThrough(s) >= PerSource
               \/ LetThroughInAll >= Global
               \/ Cardinality({x \in Sources \ {s} : LetThrough(x) > 0}) >= MaxEntries
    <2>0. /\ PerSource \in Nat \ {0} /\ Global \in Nat \ {0} /\ MaxEntries \in Nat \ {0}
      BY ListenerAssumption DEF ListenerAssumption
    <2>1. CASE FullTable(s)
      <3> DEFINE others == {x \in Sources \ {s} : LetThrough(x) > 0}
      <3>1. DOMAIN RatesNow \subseteq others
        BY <1>1, <2>1, OpenWindows, OpenWindowHasAttempt DEF FullTable
      <3>2. others \subseteq {x \in Sources : LetThrough(x) > 0}
        OBVIOUS
      <3>3. IsFiniteSet(others)
        BY <1>1, <3>2, BusyHostsFinite, FS_Subset
      <3> HIDE DEF others
      <3>4. /\ Cardinality(DOMAIN RatesNow) <= Cardinality(others)
            /\ Cardinality(others) \in Nat /\ Cardinality(DOMAIN RatesNow) \in Nat
        BY <3>1, <3>3, PartOf
      <3>5. Cardinality(others) >= MaxEntries
        BY <2>0, <2>1, <3>4 DEF FullTable
      <3> QED
        BY <3>5 DEF others
    <2>2. CASE ~(RateNow(s).count < PerSource)
      <3>1. /\ RateNow(s).age < Minute /\ Follows(Of(s), RateNow(s), PerSource - 1)
            /\ RateNow(s).count \in Nat
        BY <1>1, HostSeen
      <3>2. Cardinality(Since(Of(s), RateNow(s))) = RateNow(s).count
        BY <3>1 DEF Follows, Open
      <3>3. Since(Of(s), RateNow(s)) \subseteq Of(s) /\ IsFiniteSet(Of(s))
        BY <1>1, HostHistory DEF Since
      <3>4. RateNow(s).count <= LetThrough(s) /\ LetThrough(s) \in Nat
        BY <3>2, <3>3, PartOf DEF LetThrough
      <3> QED
        BY <2>0, <2>2, <3>1, <3>4
    <2>3. CASE ~(GlobalNow.count < Global)
      <3>1. /\ GlobalNow.age < Minute /\ Follows(recent, GlobalNow, Global)
            /\ GlobalNow.count \in Nat
        BY <1>1, GlobalSeen
      <3>2. Cardinality(Since(recent, GlobalNow)) = GlobalNow.count
        BY <3>1 DEF Follows, Open
      <3>3. Since(recent, GlobalNow) \subseteq recent /\ IsFiniteSet(recent)
        BY <1>1 DEF RatesInv, RatesType, Since
      <3>4. GlobalNow.count <= LetThroughInAll /\ LetThroughInAll \in Nat
        BY <3>2, <3>3, PartOf DEF LetThroughInAll
      <3> QED
        BY <2>0, <2>3, <3>1, <3>4
    <2> QED
      BY <1>1, <2>1, <2>2, <2>3 DEF Allowed
  <1>2. ASSUME SlotsInv, RatesInv, Next, NEW c \in Conns, stage[c] = "pair", stage'[c] = "over"
        PROVE  Cause(c)
    <2>1. stage \in [Conns -> Stages] /\ src[c] \in Sources
      BY <1>2 DEF SlotsInv, SlotsType, RatesInv, RatesType
    <2>2. AllowPairAttempt(c)
      BY <1>2, <2>1 DEF Next, Connect, Accept, Handshake, GiveBack, AllowPairAttempt,
                        ProtocolEnds, Return, AcceptFails, Tick, conns
    <2>3. ~Allowed(src[c])
      BY <1>2, <2>1, <2>2 DEF AllowPairAttempt
    <2> QED
      BY <1>1, <1>2, <2>1, <2>3
  <1>3. SlotsInv /\ RatesInv /\ [Next]_vars
          => [\A c \in Conns : stage[c] = "pair" /\ stage'[c] = "over" => Cause(c)]_vars
    BY <1>2
  <1> QED
    BY <1>3, SlotsInvariant, RatesInvariant, PTL DEF Spec, RefusedForCause
=============================================================================
