------------------------------ MODULE PeerLinks ------------------------------
(***************************************************************************)
(* The connections between two paired daemons: connectLoop, dialSync,      *)
(* handleTLS, handleSync, register, unregister and the end of readLoop in  *)
(* internal/daemon/daemon.go, the trust checks of internal/transport/      *)
(* tls.go, and the unpair and reject commands that run beside them.        *)
(*                                                                         *)
(* Lo has the smaller device ID, so it dials; Hi accepts.  A connection is *)
(* a slot of Conns, used again once both ends are through with it; a slot  *)
(* is also the goroutine that runs handleSync for it at either end.        *)
(***************************************************************************)
EXTENDS Naturals, FiniteSets

CONSTANTS
    Lo, Hi,       \* the two daemons
    Conns,        \* connection slots
    MaxDoublings, \* how often the backoff delay doubles before it is at its maximum
    Commands,     \* the trust-removing commands the users run: "unpair", "reject"
    NoConn        \* no entry in d.conns

Ends == {Lo, Hi}
Other(e) == IF e = Lo THEN Hi ELSE Lo

(* none     no goroutine                 dial     DialContext is running   *)
(* check    TLS done, trust to be read   hello    waiting for the hello    *)
(* register hello exchanged              serving  in readLoop              *)
(* left     readLoop has returned        sleep    dial failed, backing off *)
(* refused  handleSync returned before register      over  it returned     *)
(*          after it; at Lo endConnect is still to come in both            *)
Stages == {"none", "dial", "check", "hello", "register", "serving",
           "left", "sleep", "refused", "over"}

ASSUME LinksAssumption ==
    /\ Lo # Hi
    /\ NoConn \notin Conns
    /\ MaxDoublings \in Nat \ {0}
    /\ Commands \subseteq {"unpair", "reject"}

VARIABLES
    up,          \* the daemon of this end is running
    trust,       \* its store trusts the other's certificate (TrustedFingerprint)
    stage,       \* how far the goroutine of a connection is, at each end
    open,        \* this end's socket of a connection is open
    wire,        \* the network still carries the connection
    hello,       \* this end's hello is on its way to the other, or there
    conns,       \* d.conns[other], which is also what status reports as connected
    connecting,  \* d.connecting[Hi] at Lo
    doublings,   \* how often Lo's next backoff delay for Hi is doubled
    removing,    \* an unpair command has closed the connection but not yet saved
    calm         \* from here on no crash, cut, spurious error or command

vars == <<up, trust, stage, open, wire, hello, conns, connecting, doublings, removing, calm>>
session == <<stage, open, hello, conns>>
control == <<up, trust, removing, calm>>

Init ==
    /\ up = [e \in Ends |-> TRUE]
    /\ trust = [e \in Ends |-> TRUE]
    /\ stage = [e \in Ends |-> [c \in Conns |-> "none"]]
    /\ open = [e \in Ends |-> [c \in Conns |-> FALSE]]
    /\ wire = [c \in Conns |-> TRUE]
    /\ hello = [e \in Ends |-> [c \in Conns |-> FALSE]]
    /\ conns = [e \in Ends |-> NoConn]
    /\ connecting = FALSE
    /\ doublings = 0
    /\ removing = [e \in Ends |-> FALSE]
    /\ calm = FALSE

-----------------------------------------------------------------------------
\* Nothing this end sends arrives any more; it finds out by EOF, error or deadline.
Dead(e, c) == ~wire[c] \/ ~open[Other(e)][c]

\* VerifyConnection of ServerConfig and ClientConfig, which asks the store.
Verified(e) == trust[e]

(* One tick of connectLoop that gets past its conditions and beginConnect: *)
(* to the address discovery has for Hi, or to the manual ones in turn.     *)
MayDialTwice == up[Lo] /\ trust[Lo] /\ conns[Lo] = NoConn
MayDial == up[Lo] /\ trust[Lo] /\ conns[Lo] = NoConn /\ ~connecting

Dial(c) ==
    /\ MayDial
    /\ stage[Lo][c] = "none" /\ stage[Hi][c] = "none"
    /\ stage' = [stage EXCEPT ![Lo][c] = "dial"]
    /\ wire' = [wire EXCEPT ![c] = TRUE]
    /\ hello' = [e \in Ends |-> [hello[e] EXCEPT ![c] = FALSE]]
    /\ connecting' = TRUE
    /\ UNCHANGED <<open, conns, doublings, control>>

(* TCP and the TLS handshake succeed at the dialling end: in TLS 1.3 it is *)
(* through before the other end has verified its certificate.              *)
DialOk(c) ==
    /\ stage[Lo][c] = "dial"
    /\ wire[c] /\ up[Hi] /\ Verified(Lo)
    /\ stage' = [e \in Ends |-> [stage[e] EXCEPT ![c] = "check"]]
    /\ open' = [e \in Ends |-> [open[e] EXCEPT ![c] = TRUE]]
    /\ UNCHANGED <<wire, hello, conns, connecting, doublings, control>>

\* Backoff.Next doubles the delay once more for each attempt, up to its maximum.
DoubledForEver == doublings + 1
DoubledUpToMax == IF doublings < MaxDoublings THEN doublings + 1 ELSE doublings

\* dialSync returns an error, for the last address; the goroutine sleeps with
\* connecting still set.
DialFails(c) ==
    /\ stage[Lo][c] = "dial"
    /\ ~(calm /\ wire[c] /\ up[Hi] /\ Verified(Lo))
    /\ stage' = [stage EXCEPT ![Lo][c] = "sleep"]
    /\ doublings' = DoubledUpToMax
    /\ UNCHANGED <<open, wire, hello, conns, connecting, control>>

\* handleSync returns before register; its deferred Close closes the socket.
Leave(e, c) ==
    /\ stage' = [stage EXCEPT ![e][c] = IF e = Lo THEN "refused" ELSE "none"]
    /\ open' = [open EXCEPT ![e][c] = FALSE]
    /\ UNCHANGED <<wire, hello, conns, connecting, doublings, control>>

\* VerifyConnection and the check at the start of handleSync read the store.
Authenticate(e, c) ==
    /\ stage[e][c] = "check"
    /\ \/ ~Verified(e) /\ Leave(e, c)
       \/ /\ Verified(e)
          /\ stage' = [stage EXCEPT ![e][c] = "hello"]
          /\ hello' = [hello EXCEPT ![e][c] = (e = Lo /\ wire[c])]
          /\ UNCHANGED <<open, wire, conns, connecting, doublings, control>>

\* The other end's hello arrives, even if that end has closed since; Hi answers.
ReadHello(e, c) ==
    /\ stage[e][c] = "hello"
    /\ hello[Other(e)][c]
    /\ stage' = [stage EXCEPT ![e][c] = "register"]
    /\ hello' = [hello EXCEPT ![e][c] = @ \/ (e = Hi /\ wire[c])]
    /\ UNCHANGED <<open, wire, conns, connecting, doublings, control>>

\* EOF, an error, or the 10 second deadline before the hello.
HelloFails(e, c) ==
    /\ stage[e][c] = "hello"
    /\ Dead(e, c) \/ ~calm
    /\ Leave(e, c)

\* register: the new connection takes the entry, then the old socket is closed.
Register(e, c) ==
    /\ stage[e][c] = "register"
    /\ conns' = [conns EXCEPT ![e] = c]
    /\ stage' = [stage EXCEPT ![e][c] = "serving"]
    /\ open' = IF conns[e] = NoConn THEN open ELSE [open EXCEPT ![e][conns[e]] = FALSE]
    /\ UNCHANGED <<wire, hello, connecting, doublings, control>>

ReadLoopReturns(e, c) ==
    /\ stage[e][c] = "serving"
    /\ stage' = [stage EXCEPT ![e][c] = "left"]
    /\ UNCHANGED <<open, wire, hello, conns, connecting, doublings, control>>

\* readLoop ends because its socket is closed or the other end is gone.
SessionEnds(e, c) == (~open[e][c] \/ Dead(e, c)) /\ ReadLoopReturns(e, c)

\* readLoop ends for another reason: a bad frame, too many updates, a write deadline.
SessionFails(e, c) == ~calm /\ ReadLoopReturns(e, c)

\* The entry that unregister leaves: only the owner removes it.
EntryCleared(e, c) == NoConn
EntryKept(e, c) == conns[e]
EntryAfter(e, c) == IF conns[e] = c THEN NoConn ELSE conns[e]

\* The deferred unregister and Close of handleSync.
Unregister(e, c) ==
    /\ stage[e][c] = "left"
    /\ conns' = [conns EXCEPT ![e] = EntryAfter(e, c)]
    /\ stage' = [stage EXCEPT ![e][c] = IF e = Lo THEN "over" ELSE "none"]
    /\ open' = [open EXCEPT ![e][c] = FALSE]
    /\ UNCHANGED <<wire, hello, connecting, doublings, control>>

\* endConnect.
ConnectingStuck == connecting
ConnectingAfter == FALSE

(* The dialling goroutine ends.  dialSync returns nil however handleSync   *)
(* ended, so the backoff is reset; after a failed dial it has slept.       *)
EndConnect(c) ==
    /\ stage[Lo][c] \in {"refused", "over", "sleep"}
    /\ stage' = [stage EXCEPT ![Lo][c] = "none"]
    /\ connecting' = ConnectingAfter
    /\ doublings' = IF stage[Lo][c] = "sleep" THEN doublings ELSE 0
    /\ UNCHANGED <<open, wire, hello, conns, control>>
-----------------------------------------------------------------------------
\* unpair: the peer is resolved, and its connection, if there is one, closed ...
UnpairClose(e) ==
    /\ "unpair" \in Commands /\ ~calm
    /\ up[e] /\ trust[e] /\ ~removing[e]
    /\ removing' = [removing EXCEPT ![e] = TRUE]
    /\ open' = IF conns[e] = NoConn THEN open ELSE [open EXCEPT ![e][conns[e]] = FALSE]
    /\ UNCHANGED <<up, trust, stage, wire, hello, conns, connecting, doublings, calm>>

\* ... and then the store forgets it.
UnpairForget(e) ==
    /\ removing[e]
    /\ removing' = [removing EXCEPT ![e] = FALSE]
    /\ trust' = [trust EXCEPT ![e] = FALSE]
    /\ UNCHANGED <<up, calm, session, wire, connecting, doublings>>

\* reject of a peer that was approved after the terminal read the list.
RejectTrusted(e) ==
    /\ "reject" \in Commands /\ ~calm
    /\ up[e] /\ trust[e]
    /\ trust' = [trust EXCEPT ![e] = FALSE]
    /\ UNCHANGED <<up, removing, calm, session, wire, connecting, doublings>>

\* The users pair the devices again and approve at this end.
Approve(e) ==
    /\ ~calm /\ up[e] /\ ~trust[e]
    /\ trust' = [trust EXCEPT ![e] = TRUE]
    /\ UNCHANGED <<up, removing, calm, session, wire, connecting, doublings>>

\* The process ends; the kernel closes its sockets, the store stays on disk.
Crash(e) ==
    /\ ~calm /\ up[e]
    /\ up' = [up EXCEPT ![e] = FALSE]
    /\ stage' = [stage EXCEPT ![e] = [c \in Conns |-> "none"]]
    /\ open' = [open EXCEPT ![e] = [c \in Conns |-> FALSE]]
    /\ conns' = [conns EXCEPT ![e] = NoConn]
    /\ removing' = [removing EXCEPT ![e] = FALSE]
    /\ connecting' = IF e = Lo THEN FALSE ELSE connecting
    /\ doublings' = IF e = Lo THEN 0 ELSE doublings
    /\ UNCHANGED <<trust, wire, hello, calm>>

\* The service manager starts the daemon again.
Start(e) ==
    /\ ~up[e]
    /\ up' = [up EXCEPT ![e] = TRUE]
    /\ UNCHANGED <<trust, removing, calm, session, wire, connecting, doublings>>

\* Sleep, a lost Wi-Fi, a new address: neither end is told.
Cut(c) ==
    /\ ~calm /\ wire[c] /\ \E e \in Ends : stage[e][c] # "none"
    /\ wire' = [wire EXCEPT ![c] = FALSE]
    /\ UNCHANGED <<control, session, connecting, doublings>>

CalmDown ==
    /\ ~calm
    /\ \A e \in Ends : trust[e] /\ ~removing[e]
    /\ calm' = TRUE
    /\ UNCHANGED <<up, trust, removing, session, wire, connecting, doublings>>

Dialling(c) == Dial(c) \/ DialOk(c) \/ DialFails(c) \/ EndConnect(c)
Handshake(e, c) == Authenticate(e, c) \/ ReadHello(e, c) \/ HelloFails(e, c) \/ Register(e, c)
Leaving(e, c) == SessionEnds(e, c) \/ Unregister(e, c)

Next ==
    \/ \E c \in Conns : Dialling(c) \/ Cut(c)
    \/ \E e \in Ends, c \in Conns : Handshake(e, c) \/ Leaving(e, c) \/ SessionFails(e, c)
    \/ \E e \in Ends : \/ UnpairClose(e) \/ UnpairForget(e) \/ RejectTrusted(e)
                       \/ Approve(e) \/ Crash(e) \/ Start(e)
    \/ CalmDown

Spec == Init /\ [][Next]_vars

(* Goroutines and the one second ticker are scheduled, deadlines fire, the *)
(* service manager restarts a daemon (Restart=on-failure, KeepAlive).      *)
(* Nothing the users or the network do is fair.                            *)
Fairness ==
    /\ WF_vars(\E c \in Conns : Dial(c))
    /\ \A c \in Conns : WF_vars(DialOk(c) \/ DialFails(c)) /\ WF_vars(EndConnect(c))
    /\ \A e \in Ends, c \in Conns : WF_vars(Handshake(e, c)) /\ WF_vars(Leaving(e, c))
    /\ \A e \in Ends : WF_vars(Start(e)) /\ WF_vars(UnpairForget(e))

FairSpec == Spec /\ Fairness
-----------------------------------------------------------------------------
\* The shape of the state; the delay of transport.Backoff never exceeds its maximum.
TypeOK ==
    /\ up \in [Ends -> BOOLEAN] /\ trust \in [Ends -> BOOLEAN] /\ removing \in [Ends -> BOOLEAN]
    /\ stage \in [Ends -> [Conns -> Stages]]
    /\ open \in [Ends -> [Conns -> BOOLEAN]] /\ hello \in [Ends -> [Conns -> BOOLEAN]]
    /\ wire \in [Conns -> BOOLEAN]
    /\ conns \in [Ends -> Conns \cup {NoConn}]
    /\ connecting \in BOOLEAN /\ calm \in BOOLEAN
    /\ doublings \in 0..MaxDoublings

(* beginConnect and endConnect keep one dialling goroutine per peer: from  *)
(* the dial to the end of the session or of the backoff sleep there is no  *)
(* other, although connectLoop looks at d.conns only before the dial.      *)
OneDialler ==
    \A c, k \in Conns : stage[Lo][c] # "none" /\ stage[Lo][k] # "none" => c = k

(* A session whose socket is open owns the entry of d.conns: a replaced    *)
(* session that unregisters late never takes the entry of its successor    *)
(* away, so what is copied locally reaches the peer.                       *)
OpenSessionOwnsEntry ==
    \A e \in Ends, c \in Conns : stage[e][c] = "serving" /\ open[e][c] => conns[e] = c

(* An entry of d.conns always has a session behind it that will remove it; *)
(* connectLoop never dials a peer that has an entry.                       *)
NoDanglingEntry ==
    \A e \in Ends : conns[e] # NoConn => stage[e][conns[e]] \in {"serving", "left"}

\* Both daemons serve the same live connection and use it for what is copied.
Linked ==
    \E c \in Conns : /\ wire[c]
                     /\ \A e \in Ends : stage[e][c] = "serving" /\ open[e][c] /\ conns[e] = c

(* After sleep, Wi-Fi loss, restarts of either daemon or lost connections, *)
(* once the network and the users leave them alone the two daemons find    *)
(* back to one common connection and keep it, whatever half-open or half-  *)
(* registered connections are left from before (connectLoop, register).    *)
Recovers == <>[]calm => <>[]Linked

(* Once unpair or reject has returned, no session with the removed peer    *)
(* goes on (handleControl against handleSync).                             *)
NoSessionAfterRemoval ==
    \A e \in Ends, c \in Conns :
        ~trust[e] /\ ~removing[e] => ~(stage[e][c] = "serving" /\ open[e][c])
=============================================================================
