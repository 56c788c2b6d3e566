-------------------------- MODULE DiscoveryProofs --------------------------
(***************************************************************************)
(* Two properties of discovery, for every set of devices, table size and   *)
(* ttl: this device is advertised without a gap until discovery is closed, *)
(* and not after; and the table holds the devices that answered last.      *)
(*                                                                         *)
(* The first promise needs to know which servers there are: the one s.server     *)
(* names, until Close takes it, and the one refreshRegistration has        *)
(* registered, between its two halves; they are never the same.            *)
(***************************************************************************)
EXTENDS Discovery, FiniteSetTheorems, TLAPS

ServersKnown ==
    /\ server \in Servers \cup {None} /\ next \in Servers \cup {None}
    /\ next # None <=> pc = "swap"
    /\ next # None => next # server
    /\ closed => server = None

AdvertInv == ServersKnown /\ AdvertisedWhileOpen

-----------------------------------------------------------------------------
LEMMA AdvertInit == Init => AdvertInv
BY DiscoveryAssumption DEF Init, AdvertInv, ServersKnown, AdvertisedWhileOpen, Servers

\* refreshRegistration: the new server is another one, and replaces the old or is dropped.
LEMMA RefreshStep ==
  ASSUME AdvertInv, Register \/ Swap
  PROVE  AdvertInv'
<1> USE DiscoveryAssumption DEF AdvertInv, ServersKnown, AdvertisedWhileOpen, Servers
<1>1. CASE Register
  BY <1>1 DEF Register
<1>2. CASE Swap /\ closed
  BY <1>2 DEF Swap, InstallNext
<1>3. CASE Swap /\ ~closed
  BY <1>3 DEF Swap, InstallNext
<1> QED
  BY <1>1, <1>2, <1>3

\* Close takes the server away; a new one of refreshRegistration is dropped later.
LEMMA CloseStep ==
  ASSUME AdvertInv, Close
  PROVE  AdvertInv'
BY DiscoveryAssumption DEF AdvertInv, ServersKnown, AdvertisedWhileOpen, Servers, Close

\* The rest of Run moves on outside of refreshRegistration's two halves.
LEMMA RunStep ==
  ASSUME AdvertInv, LoopTop \/ WaitEnds \/ BrowseEnds \/ RefreshFails
  PROVE  AdvertInv'
<1>1. /\ pc # "swap" /\ pc' # "swap"
      /\ UNCHANGED <<server, next, live, closed>>
  BY DEF LoopTop, WaitEnds, BrowseEnds, RefreshFails
<1> QED
  BY <1>1 DEF AdvertInv, ServersKnown, AdvertisedWhileOpen

LEMMA OtherStep ==
  ASSUME AdvertInv, UNCHANGED <<pc, server, next, live, closed>>
  PROVE  AdvertInv'
BY DEF AdvertInv, ServersKnown, AdvertisedWhileOpen

-----------------------------------------------------------------------------
(* The device is advertised without a gap until it is closed, and no       *)
(* server is left behind, wherever in refreshRegistration Close comes.     *)
THEOREM AdvertisedWhileOpenHolds == Spec => []AdvertisedWhileOpen
<1>1. AdvertInv /\ [Next]_vars => AdvertInv'
  <2> SUFFICES ASSUME AdvertInv, [Next]_vars PROVE AdvertInv'
    OBVIOUS
  <2>1. CASE Register \/ Swap
    BY <2>1, RefreshStep
  <2>2. CASE Close
    BY <2>2, CloseStep
  <2>3. CASE LoopTop \/ WaitEnds \/ BrowseEnds \/ RefreshFails
    BY <2>3, RunStep
  <2>4. CASE \/ \E d \in Devices : Observe(d) \/ Moves(d)
             \/ Peers \/ Cancel \/ LinkChanges \/ CalmDown \/ Tick \/ UNCHANGED vars
    <3>1. UNCHANGED <<pc, server, next, live, closed>>
      BY <2>4 DEF Observe, Moves, Peers, Cancel, LinkChanges, CalmDown, Tick,
                  vars, service, world, clock
    <3> QED
      BY <3>1, OtherStep
  <2> QED
    BY <2>1, <2>2, <2>3, <2>4 DEF Next
<1>2. AdvertInv => AdvertisedWhileOpen
  BY DEF AdvertInv
<1> QED
  BY AdvertInit, <1>1, <1>2, PTL DEF Spec

-----------------------------------------------------------------------------
(***************************************************************************)
(* The table.  Why a device is missing must be remembered for as long as   *)
(* its answer is fresh: FreshestKept is inductive once it is known that    *)
(* the age of an entry is the time since the device was heard.             *)
(***************************************************************************)
Places == Addresses \cup {None}
Entries == [addr : Places, age : Nat]

SeenSince(h, d) == {e \in Devices \ {d} : h[e] <= h[d]}

Keeps(t, h) ==
    /\ DOMAIN t \subseteq Devices
    /\ \A d \in DOMAIN t : t[d] \in Entries /\ t[d].age = h[d]
    /\ Cardinality(DOMAIN t) <= MaxPeers
    /\ \A d \in Devices \ DOMAIN t : h[d] < TTL => Cardinality(SeenSince(h, d)) >= MaxPeers

TableInv ==
    /\ heard \in [Devices -> 0..TTL]
    /\ at \in [Devices -> Places]
    /\ Keeps(table, heard)

\* A set of devices is no larger than one that contains it.
LEMMA FewerDevices ==
  ASSUME NEW S, NEW T, T \subseteq Devices, S \subseteq T
  PROVE  /\ IsFiniteSet(S) /\ Cardinality(S) \in Nat
         /\ Cardinality(T) \in Nat /\ Cardinality(S) <= Cardinality(T)
<1>1. IsFiniteSet(T)
  BY DiscoveryAssumption, FS_Subset DEF DiscoveryAssumption
<1> QED
  BY <1>1, FS_Subset, FS_CardinalityType

\* pruneLocked takes out only what is no longer fresh.
LEMMA PrunedKeeps ==
  ASSUME NEW t, NEW h \in [Devices -> 0..TTL], Keeps(t, h)
  PROVE  Keeps(Pruned(t), h)
<1> DEFINE S == {d \in DOMAIN t : t[d].age < TTL}
           p == Pruned(t)
<1>1. DOMAIN p = S /\ \A d \in S : p[d] = t[d]
  BY DEF Pruned, Restrict
<1> HIDE DEF p
<1>2. DOMAIN p \subseteq DOMAIN t /\ DOMAIN t \subseteq Devices
  BY <1>1 DEF Keeps
<1>3. Cardinality(DOMAIN p) <= MaxPeers
  BY <1>2, FewerDevices, DiscoveryAssumption DEF Keeps, DiscoveryAssumption
<1>4. \A d \in DOMAIN p : p[d] \in Entries /\ p[d].age = h[d]
  BY <1>1 DEF Keeps
<1>5. ASSUME NEW d \in Devices \ DOMAIN p, h[d] < TTL
      PROVE  Cardinality(SeenSince(h, d)) >= MaxPeers
  <2>1. d \notin DOMAIN t
    BY <1>1, <1>5 DEF Keeps
  <2> QED
    BY <1>5, <2>1 DEF Keeps
<1> QED
  BY <1>2, <1>3, <1>4, <1>5 DEF Keeps, p

\* putPeerLocked gives up only a device that all others in the table have outlived.
LEMMA PutKeeps ==
  ASSUME NEW t, NEW h \in [Devices -> 0..TTL], Keeps(t, h), at \in [Devices -> Places],
         NEW d \in Devices, NEW u \in Put(t, d)
  PROVE  Keeps(u, [h EXCEPT ![d] = 0])
<1> DEFINE i == [h EXCEPT ![d] = 0]
           n == [addr |-> at[d], age |-> 0]
<1>1. n \in Entries /\ n.age = 0
  BY DEF Entries
<1>2. i \in [Devices -> 0..TTL] /\ i[d] = 0 /\ \A e \in Devices : e # d => i[e] = h[e]
  BY DiscoveryAssumption DEF DiscoveryAssumption
<1>3. \A e \in Devices : i[e] <= h[e] /\ h[e] \in Nat /\ i[e] \in Nat
  BY <1>2
<1>4. TTL \in Nat /\ MaxPeers \in Nat \ {0}
  BY DiscoveryAssumption DEF DiscoveryAssumption
<1>5. IsFiniteSet(DOMAIN t) /\ Cardinality(DOMAIN t) \in Nat /\ DOMAIN t \subseteq Devices
      /\ Cardinality(DOMAIN t) <= MaxPeers
  BY FewerDevices DEF Keeps
<1> HIDE DEF i, n
<1>6. ASSUME NEW x \in Devices, x # d, x \notin DOMAIN t, i[x] < TTL
      PROVE  Cardinality(SeenSince(i, x)) >= MaxPeers
  <2>1. h[x] < TTL
    BY <1>2, <1>6
  <2>2. SeenSince(h, x) \subseteq SeenSince(i, x) /\ SeenSince(i, x) \subseteq Devices
    BY <1>2, <1>3, <1>6 DEF SeenSince
  <2>3. Cardinality(SeenSince(h, x)) >= MaxPeers
    BY <1>6, <2>1 DEF Keeps
  <2> QED
    BY <1>4, <2>2, <2>3, FewerDevices
<1>7. CASE d \in DOMAIN t \/ Cardinality(DOMAIN t) < MaxPeers
  <2>1. u = [e \in DOMAIN t \cup {d} |-> IF e = d THEN n ELSE t[e]]
    BY <1>7 DEF Put, n
  <2>2. DOMAIN u = DOMAIN t \cup {d} /\ \A e \in DOMAIN u : u[e] = IF e = d THEN n ELSE t[e]
    BY <2>1
  <2>3. Cardinality(DOMAIN u) <= MaxPeers
    <3>1. Cardinality(DOMAIN t \cup {d})
            = IF d \in DOMAIN t THEN Cardinality(DOMAIN t) ELSE Cardinality(DOMAIN t) + 1
      BY <1>5, FS_AddElement
    <3> QED
      BY <1>4, <1>5, <1>7, <2>2, <3>1
  <2>4. \A e \in DOMAIN u : u[e] \in Entries /\ u[e].age = i[e]
    BY <1>1, <1>2, <1>5, <2>2 DEF Keeps
  <2> QED
    BY <1>5, <1>6, <2>2, <2>3, <2>4 DEF Keeps, i
<1>8. CASE ~(d \in DOMAIN t \/ Cardinality(DOMAIN t) < MaxPeers)
  <2>1. PICK old \in Oldest(t) :
          u = [e \in (DOMAIN t \ {old}) \cup {d} |-> IF e = d THEN n ELSE t[e]]
    BY <1>8 DEF Put, n
  <2>2. old \in DOMAIN t /\ \A e \in DOMAIN t : t[e].age <= t[old].age
    BY <2>1 DEF Oldest
  <2>3. /\ DOMAIN u = (DOMAIN t \ {old}) \cup {d}
        /\ \A e \in DOMAIN u : u[e] = IF e = d THEN n ELSE t[e]
    BY <2>1
  <2>4. Cardinality(DOMAIN t) = MaxPeers /\ d \notin DOMAIN t
    BY <1>4, <1>5, <1>8
  <2>5. Cardinality(DOMAIN u) = MaxPeers
    <3>1. IsFiniteSet(DOMAIN t \ {old}) /\ Cardinality(DOMAIN t \ {old}) = MaxPeers - 1
      BY <1>5, <2>2, <2>4, FS_RemoveElement
    <3>2. d \notin DOMAIN t \ {old}
      BY <2>4
    <3>3. Cardinality((DOMAIN t \ {old}) \cup {d}) = (MaxPeers - 1) + 1
      BY <3>1, <3>2, FS_AddElement
    <3> QED
      BY <1>4, <2>3, <3>3
  <2>6. \A e \in DOMAIN u : u[e] \in Entries /\ u[e].age = i[e]
    BY <1>1, <1>2, <1>5, <2>3 DEF Keeps
  <2>7. i[old] < TTL => Cardinality(SeenSince(i, old)) >= MaxPeers
    <3>1. old # d /\ old \in Devices
      BY <1>5, <2>2, <2>4
    <3>2. \A e \in DOMAIN t : h[e] <= h[old]
      BY <2>2 DEF Keeps
    <3>3. DOMAIN u \subseteq SeenSince(i, old) /\ SeenSince(i, old) \subseteq Devices
      BY <1>2, <1>3, <1>5, <2>3, <3>1, <3>2 DEF SeenSince
    <3> QED
      BY <1>4, <2>5, <3>3, FewerDevices
  <2>8. \A x \in Devices \ DOMAIN u : i[x] < TTL => Cardinality(SeenSince(i, x)) >= MaxPeers
    BY <1>6, <2>3, <2>7
  <2> QED
    <3>1. DOMAIN u \subseteq Devices /\ Cardinality(DOMAIN u) <= MaxPeers
      BY <1>4, <1>5, <2>3, <2>5
    <3>2. Keeps(u, i)
      BY <2>6, <2>8, <3>1 DEF Keeps
    <3> QED
      BY <3>2 DEF i
<1> QED
  BY <1>7, <1>8

\* Time makes all entries and answers older alike.
LEMMA TickKeeps ==
  ASSUME TableInv, Tick
  PROVE  TableInv'
<1> USE DiscoveryAssumption DEF DiscoveryAssumption
<1>1. /\ heard \in [Devices -> 0..TTL] /\ heard' \in [Devices -> 0..TTL]
      /\ \A d \in Devices : heard'[d] = IF heard[d] < TTL THEN heard[d] + 1 ELSE TTL
  BY DEF TableInv, Tick
<1>2. /\ DOMAIN table' = DOMAIN table
      /\ \A d \in DOMAIN table :
           table'[d] = [table[d] EXCEPT !.age = IF @ < TTL THEN @ + 1 ELSE @]
  BY DEF Tick
<1>3. DOMAIN table \subseteq Devices
  BY DEF TableInv, Keeps
<1>4. ASSUME NEW d \in DOMAIN table
      PROVE  table'[d] \in Entries /\ table'[d].age = heard'[d]
  <2>1. table[d] \in Entries /\ table[d].age = heard[d] /\ heard[d] \in 0..TTL
    BY <1>1, <1>3 DEF TableInv, Keeps
  <2>2. table'[d] \in Entries
        /\ table'[d].age = IF table[d].age < TTL THEN table[d].age + 1 ELSE table[d].age
    BY <1>2, <2>1 DEF Entries
  <2> QED
    BY <1>1, <1>3, <2>1, <2>2
<1>5. ASSUME NEW d \in Devices \ DOMAIN table, heard'[d] < TTL
      PROVE  Cardinality(SeenSince(heard', d)) >= MaxPeers
  <2>1. heard[d] < TTL /\ heard'[d] = heard[d] + 1
    BY <1>1, <1>5
  <2>2. Cardinality(SeenSince(heard, d)) >= MaxPeers
    BY <2>1 DEF TableInv, Keeps
  <2>3. SeenSince(heard, d) \subseteq SeenSince(heard', d) /\ SeenSince(heard', d) \subseteq Devices
    BY <1>1, <2>1 DEF SeenSince
  <2> QED
    BY <2>2, <2>3, FewerDevices
<1>6. Keeps(table', heard')
  BY <1>2, <1>3, <1>4, <1>5 DEF TableInv, Keeps
<1> QED
  BY <1>1, <1>6 DEF TableInv, Tick, world

LEMMA TableInit == Init => TableInv
<1> SUFFICES ASSUME Init PROVE TableInv
  OBVIOUS
<1>1. heard = [d \in Devices |-> TTL] /\ TTL \in Nat /\ MaxPeers \in Nat
  BY DiscoveryAssumption DEF Init, DiscoveryAssumption
<1>2. DOMAIN table = {}
  BY DEF Init
<1>3. Keeps(table, heard)
  BY <1>1, <1>2, FS_EmptySet DEF Keeps
<1> QED
  BY <1>1, <1>3 DEF Init, TableInv, Places

(* A device that answered within peerTTL is missing only if the table is   *)
(* full of devices that answered since (observe, putPeerLocked, Peers).    *)
THEOREM FreshestKeptHolds == Spec => []FreshestKept
<1>1. TableInv /\ [Next]_vars => TableInv'
  <2> SUFFICES ASSUME TableInv, [Next]_vars PROVE TableInv'
    OBVIOUS
  <2>1. ASSUME NEW d \in Devices, Observe(d) PROVE TableInv'
    <3>1. Keeps(Pruned(table), heard)
      BY PrunedKeeps DEF TableInv
    <3>2. table' \in Put(Pruned(table), d) /\ heard' = [heard EXCEPT ![d] = 0] /\ at' = at
      BY <2>1 DEF Observe, world
    <3>3. Keeps(table', heard')
      BY <3>1, <3>2, PutKeeps DEF TableInv
    <3> QED
      BY <3>2, <3>3, DiscoveryAssumption DEF TableInv, DiscoveryAssumption
  <2>2. CASE Peers
    <3>1. Keeps(Pruned(table), heard)
      BY PrunedKeeps DEF TableInv
    <3> QED
      BY <2>2, <3>1 DEF Peers, TableInv, world, clock
  <2>3. ASSUME NEW d \in Devices, Moves(d) PROVE TableInv'
    BY <2>3 DEF Moves, TableInv, Places, service, clock
  <2>4. CASE Tick
    BY <2>4, TickKeeps
  <2>5. CASE UNCHANGED <<table, heard, at>>
    BY <2>5 DEF TableInv
  <2> QED
    BY <2>1, <2>2, <2>3, <2>4, <2>5
    DEF Next, LoopTop, WaitEnds, BrowseEnds, RefreshFails, Register, Swap, Close, Cancel,
        LinkChanges, CalmDown, vars, service, world, clock
<1>2. TableInv => FreshestKept
  BY DEF TableInv, Keeps, FreshestKept, SeenSince
<1> QED
  BY TableInit, <1>1, <1>2, PTL DEF Spec
=============================================================================
