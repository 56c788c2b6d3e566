----------------------------- MODULE Discovery -----------------------------
(***************************************************************************)
(* internal/discovery/discovery.go: the table of devices seen on the LAN   *)
(* (observe, putPeerLocked, pruneLocked, Peers and Find), the Run loop     *)
(* that browses in cycles and renews this device's own mDNS registration   *)
(* after each, and Close, which may come at any point of that loop.        *)
(*                                                                         *)
(* A tick is the time of a cycle, up to 20 of the 45 seconds of peerTTL.   *)
(* An entry keeps its age instead of the time LastSeen, and the one        *)
(* address that matters here: where the device was when it answered.       *)
(***************************************************************************)
EXTENDS Naturals, FiniteSets, Functions

CONSTANTS
    Devices,    \* the other devices
    Addresses,  \* where a device may be
    MaxPeers,   \* maxPeers
    TTL,        \* peerTTL, in ticks
    None        \* no server

Servers == {1, 2}    \* the server of s and the one that is to replace it

ASSUME DiscoveryAssumption ==
    /\ IsFiniteSet(Devices)
    /\ MaxPeers \in Nat \ {0}
    /\ TTL \in Nat \ {0, 1}
    /\ None \notin Servers

VARIABLES
    table,      \* s.peers: address and age of each device in it
    pc,         \* where Run is: "top", "wait", "browse", "refresh", "swap", "ended"
    server,     \* s.server
    next,       \* the server refreshRegistration has registered
    live,       \* the servers that answer queries
    closed,     \* s.closed
    lastError,  \* s.lastError is set
    cancelled,  \* the daemon's context
    up,         \* there is an active LAN interface
    at,         \* where each device is, or None if it is not on the LAN
    heard,      \* history: ticks since a device's answer was handled, at most TTL
    calm,       \* from here on the network works and nobody moves
    answered,   \* calm: the devices that have answered in this cycle
    ticked      \* calm: a tick has passed since this cycle began

service == <<table, pc, server, next, live, closed, lastError>>
world == <<cancelled, up, at, calm>>
clock == <<heard, answered, ticked>>
vars == <<service, world, clock>>

Init ==
    /\ table = <<>>
    /\ pc = "top"
    /\ server = 1 /\ next = None /\ live = {1}
    /\ closed = FALSE /\ lastError = FALSE
    /\ cancelled = FALSE /\ up = TRUE /\ calm = FALSE
    /\ at \in [Devices -> Addresses \cup {None}]
    /\ heard = [d \in Devices |-> TTL] /\ answered = {} /\ ticked = FALSE

-----------------------------------------------------------------------------
\* pruneLocked.
Unpruned(t) == t
Pruned(t) == Restrict(t, {d \in DOMAIN t : t[d].age < TTL})

\* The entries putPeerLocked may give up for another: those seen longest ago.
Youngest(t) == {d \in DOMAIN t : \A e \in DOMAIN t : t[d].age <= t[e].age}
Oldest(t) == {d \in DOMAIN t : \A e \in DOMAIN t : t[e].age <= t[d].age}

\* The tables putPeerLocked may leave when d is put into t.
Put(t, d) ==
    LET entry == [addr |-> at[d], age |-> 0]
    IN  IF d \in DOMAIN t \/ Cardinality(DOMAIN t) < MaxPeers
        THEN {[e \in DOMAIN t \cup {d} |-> IF e = d THEN entry ELSE t[e]]}
        ELSE {[e \in (DOMAIN t \ {old}) \cup {d} |-> IF e = d THEN entry ELSE t[e]] :
                old \in Oldest(t)}

\* An answer of d to the browser reaches observe.
Observe(d) ==
    /\ pc = "browse" /\ up /\ at[d] # None
    /\ table' \in Put(Pruned(table), d)
    /\ heard' = [heard EXCEPT ![d] = 0]
    /\ answered' = IF calm THEN answered \cup {d} ELSE {}
    /\ UNCHANGED <<pc, server, next, live, closed, lastError, world, ticked>>

\* Peers, which connectLoop calls every second, and Find.
Peers ==
    /\ table' = Pruned(table)
    /\ UNCHANGED <<pc, server, next, live, closed, lastError, world, clock>>
-----------------------------------------------------------------------------
\* The top of Run's loop: the interfaces are looked up for every cycle.
LoopTop ==
    /\ pc = "top"
    /\ \/ cancelled /\ pc' = "ended" /\ UNCHANGED lastError
       \/ ~cancelled /\ up /\ pc' = "browse" /\ UNCHANGED lastError
       \/ ~cancelled /\ ~up /\ pc' = "wait" /\ lastError' = TRUE
    /\ answered' = {} /\ ticked' = FALSE
    /\ UNCHANGED <<table, server, next, live, closed, world, heard>>

\* The wait of five seconds is over, or cut short by the end of the daemon.
WaitEnds ==
    /\ pc = "wait"
    /\ pc' = IF cancelled THEN "ended" ELSE "top"
    /\ UNCHANGED <<table, server, next, live, closed, lastError, world, clock>>

\* What Browse returned, for lastError: its deadline and the daemon's end are no errors.
ErrorStays(failed) == lastError \/ failed
ErrorAfterBrowse(failed) == failed /\ ~cancelled

(* Browse returns after its cycle, or fails, and the last entries have     *)
(* been observed.  On a network that works, it does not fail, and every    *)
(* device answers in every cycle.                                          *)
BrowseEnds ==
    /\ pc = "browse"
    /\ calm /\ ~cancelled => {d \in Devices : at[d] # None} \subseteq answered
    /\ \E failed \in {FALSE, ~calm} : lastError' = ErrorAfterBrowse(failed)
    /\ pc' = IF cancelled THEN "top" ELSE "refresh"
    /\ UNCHANGED <<table, server, next, live, closed, world, clock>>

\* refreshRegistration finds no interface, or cannot register: it keeps the old server.
RefreshFails ==
    /\ pc = "refresh"
    /\ ~up \/ ~calm
    /\ lastError' = TRUE
    /\ pc' = "top"
    /\ UNCHANGED <<table, server, next, live, closed, world, clock>>

\* It registers a second server, without the lock.
Register ==
    /\ pc = "refresh" /\ up
    /\ \E n \in Servers \ live : next' = n /\ live' = live \cup {n}
    /\ pc' = "swap"
    /\ UNCHANGED <<table, server, closed, lastError, world, clock>>

\* With the lock, the new server replaces the old one, unless s was closed meanwhile.
KeepNext == server' = next /\ live' = live \ {server}
InstallNext ==
    IF closed THEN live' = live \ {next} /\ UNCHANGED server
    ELSE server' = next /\ live' = live \ {server}

Swap ==
    /\ pc = "swap"
    /\ InstallNext
    /\ next' = None
    /\ pc' = "top"
    /\ UNCHANGED <<table, closed, lastError, world, clock>>

\* Close, which the daemon calls when its context has ended.
Close ==
    /\ cancelled /\ ~closed
    /\ closed' = TRUE
    /\ live' = live \ {server}
    /\ server' = None
    /\ UNCHANGED <<table, pc, next, lastError, world, clock>>
-----------------------------------------------------------------------------
\* The daemon is told to end.
Cancel ==
    /\ ~cancelled
    /\ cancelled' = TRUE
    /\ UNCHANGED <<service, up, at, calm, clock>>

\* Sleep, Wi-Fi loss and return; devices that come, go and change their address.
LinkChanges == ~calm /\ up' = ~up /\ UNCHANGED <<service, cancelled, at, calm, clock>>

Moves(d) ==
    /\ ~calm
    /\ \E a \in (Addresses \cup {None}) \ {at[d]} : at' = [at EXCEPT ![d] = a]
    /\ UNCHANGED <<service, cancelled, up, calm, clock>>

CalmDown ==
    /\ ~calm /\ up
    /\ Cardinality({d \in Devices : at[d] # None}) <= MaxPeers
    /\ calm' = TRUE
    /\ UNCHANGED <<service, cancelled, up, at, clock>>

\* Time passes; on a network that works, a tick for each cycle.
Tick ==
    /\ ~ticked
    /\ table' = [d \in DOMAIN table |->
                    [table[d] EXCEPT !.age = IF @ < TTL THEN @ + 1 ELSE @]]
    /\ heard' = [d \in Devices |-> IF heard[d] < TTL THEN heard[d] + 1 ELSE TTL]
    /\ ticked' = calm
    /\ UNCHANGED <<pc, server, next, live, closed, lastError, world, answered>>

Run == LoopTop \/ WaitEnds \/ BrowseEnds \/ RefreshFails \/ Register \/ Swap

Next ==
    \/ LoopTop \/ WaitEnds \/ BrowseEnds \/ RefreshFails \/ Register \/ Swap
    \/ \E d \in Devices : Observe(d) \/ Moves(d)
    \/ Peers \/ Close \/ Cancel \/ LinkChanges \/ CalmDown \/ Tick

Spec == Init /\ [][Next]_vars

(* Run's goroutine goes on, the daemon closes what it opened, time passes, *)
(* and devices answer on a network that works.                             *)
Fairness ==
    /\ WF_vars(Run) /\ WF_vars(Close) /\ WF_vars(Tick) /\ WF_vars(Peers)
    /\ \A d \in Devices : WF_vars(calm /\ Observe(d))

FairSpec == Spec /\ Fairness
-----------------------------------------------------------------------------
(* The table holds the devices that answered last: it never exceeds its    *)
(* limit, and a device that answered within peerTTL is missing only if     *)
(* as many others as the table holds answered since (putPeerLocked evicts  *)
(* the oldest, and pruneLocked nothing that is still fresh).               *)
FreshestKept ==
    /\ Cardinality(DOMAIN table) <= MaxPeers
    /\ \A d \in Devices \ DOMAIN table :
         heard[d] < TTL =>
            Cardinality({e \in Devices \ {d} : heard[e] <= heard[d]}) >= MaxPeers

(* This device is advertised without a gap until it is closed, by at most  *)
(* one server beside the one that replaces it, and no server is left       *)
(* behind when Close comes between the two halves of refreshRegistration.  *)
AdvertisedWhileOpen ==
    /\ live = {server, next} \ {None}
    /\ ~closed => server # None
    /\ closed /\ pc # "swap" => live = {}

(* Once the network works and nobody moves, connectLoop gets the devices   *)
(* that are on the LAN at their addresses and no others, however the table *)
(* was filled, aged or wrong before (the cycles of Run, the ttl).          *)
Rediscovers ==
    <>[](calm /\ ~cancelled =>
            {<<d, Pruned(table)[d].addr>> : d \in DOMAIN Pruned(table)}
              = {<<d, at[d]>> : d \in {e \in Devices : at[e] # None}})

(* And status and doctor stop reporting an error of discovery (setError).  *)
ErrorClears == <>[](calm /\ ~cancelled => ~lastError)
=============================================================================
