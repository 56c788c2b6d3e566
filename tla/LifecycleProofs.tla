-------------------------- MODULE LifecycleProofs --------------------------
(***************************************************************************)
(* That a serving daemon is the one the command line reaches, and that the *)
(* identity a daemon has served with stays, for any number of identities   *)
(* that may be generated.                                                  *)
(*                                                                         *)
(* The first rests on the order of Run and close.  Whoever uses or will    *)
(* remove the control socket has the port (PortFirst), which one daemon    *)
(* has at a time.  For the second, a daemon that is past its loading has   *)
(* the identity of the file, while a file that is being written has one    *)
(* writer and nobody who relies on it (IdentityOfFile), as long as no file *)
(* was overwritten by a process that had found none.                       *)
(***************************************************************************)
EXTENDS Lifecycle, TLAPS

Things == {"ctl", "listener", "disc", "clip"}

\* The listener is still to be closed, so the port is held.
HasListener(s) == \E k \in 1..Len(s) : s[k] = "listener"

\* What is left to close: the listener once, and not before the control socket.
Todos ==
    {s \in Seq(Things) :
        /\ \A j, k \in 1..Len(s) : s[j] = "listener" /\ s[k] = "listener" => j = k
        /\ \A k \in 1..Len(s) : s[k] = "ctl" => \E j \in 1..Len(s) : k < j /\ s[j] = "listener"}

Holding == {"disc", "clip", "ctl", "serve"}
Loaded == {"port"} \cup Holding

Steps == {"off", "serve", "close"} \cup Loading \cup Taking

TypeInv ==
    /\ pc \in [Procs -> Steps]
    /\ todo \in [Procs -> Todos]
    /\ ident \in [Procs -> 1..MaxIds \cup {None}]
    /\ made \in Nat

PortFirst ==
    \A p \in Procs :
        /\ pc[p] \in Holding => port = p
        /\ pc[p] = "close" /\ HasListener(todo[p]) => port = p

IdentityOfFile ==
    \A p \in Procs :
        /\ pc[p] \in Loaded => Parses(identity) /\ ident[p] = identity
        /\ pc[p] = "create" => /\ identity = Torn /\ ident[p] \in 1..MaxIds
                               /\ \A q \in Procs \ {p} : pc[q] # "create"

KnownIsFile == \A i \in known : Parses(identity) /\ i = identity

LifeInv ==
    /\ TypeInv
    /\ PortFirst
    /\ ControlReachable
    /\ ~overwritten => IdentityOfFile /\ KnownIsFile

-----------------------------------------------------------------------------
\* Closing the next thing: the listener goes once, and after the control socket.
LEMMA CloseNextFacts ==
  ASSUME NEW s \in Todos, s # <<>>
  PROVE  /\ Tail(s) \in Todos
         /\ Head(s) \in {"ctl", "listener"} => HasListener(s)
         /\ Head(s) = "listener" => ~HasListener(Tail(s))
         /\ HasListener(Tail(s)) => HasListener(s)
<1> DEFINE t == Tail(s)
<1>1. /\ s \in Seq(Things) /\ Len(s) \in Nat \ {0} /\ Head(s) = s[1]
      /\ t \in Seq(Things) /\ Len(t) = Len(s) - 1
      /\ \A k \in 1..Len(t) : t[k] = s[k + 1] /\ k + 1 \in 1..Len(s)
  BY DEF Todos
<1> HIDE DEF t
<1>2. \A j, k \in 1..Len(t) : t[j] = "listener" /\ t[k] = "listener" => j = k
  BY <1>1 DEF Todos
<1>3. ASSUME NEW k \in 1..Len(t), t[k] = "ctl"
      PROVE  \E j \in 1..Len(t) : k < j /\ t[j] = "listener"
  <2>1. PICK j \in 1..Len(s) : k + 1 < j /\ s[j] = "listener"
    BY <1>1, <1>3 DEF Todos
  <2>2. j - 1 \in 1..Len(t) /\ k < j - 1 /\ t[j - 1] = s[(j - 1) + 1]
    BY <1>1, <1>3, <2>1
  <2> QED
    BY <2>1, <2>2
<1>4. t \in Todos
  BY <1>1, <1>2, <1>3 DEF Todos
<1>5. Head(s) \in {"ctl", "listener"} => HasListener(s)
  BY <1>1 DEF Todos, HasListener
<1>6. Head(s) = "listener" => ~HasListener(t)
  BY <1>1 DEF Todos, HasListener
<1>7. HasListener(t) => HasListener(s)
  BY <1>1 DEF HasListener
<1> QED
  BY <1>4, <1>5, <1>6, <1>7 DEF t

\* What Run and close set out to close.
LEMMA TodosBegin ==
  /\ <<>> \in Todos /\ ~HasListener(<<>>)
  /\ \A step \in {"disc", "clip", "ctl"} : Undo[step] \in Todos
  /\ \A p \in Procs : CloseOrder(p) \in Todos
<1>1. <<>> \in Todos /\ ~HasListener(<<>>)
  BY DEF Todos, HasListener
<1>2. <<"listener">> \in Todos
  BY DEF Todos, Things
<1>3. <<"disc", "listener">> \in Todos
  BY DEF Todos, Things
<1>4. <<"clip", "disc", "listener">> \in Todos
  BY DEF Todos, Things
<1>5. <<"ctl", "listener", "disc", "clip">> \in Todos
  BY DEF Todos, Things
<1> QED
  BY <1>1, <1>2, <1>3, <1>4, <1>5 DEF Undo, CloseOrder

LEMMA LifeInit == Init => LifeInv
<1> SUFFICES ASSUME Init PROVE LifeInv
  OBVIOUS
<1>1. TypeInv
  <2>1. pc \in [Procs -> Steps]
    BY DEF Init, Steps
  <2>2. todo \in [Procs -> Todos]
    BY TodosBegin DEF Init
  <2>3. ident = [p \in Procs |-> None] /\ made = 0
    BY DEF Init
  <2> QED
    BY <2>1, <2>2, <2>3 DEF TypeInv
<1>2. PortFirst /\ ControlReachable /\ IdentityOfFile /\ KnownIsFile
  BY DEF Init, PortFirst, ControlReachable, IdentityOfFile, KnownIsFile, At, Holding, Loaded
<1> QED
  BY <1>1, <1>2 DEF LifeInv

\* A process is gone, and the identity is as it was or was not relied on.
LEMMA GoneStep ==
  ASSUME NEW p \in Procs, LifeInv, Gone(p), made' = made, UNCHANGED history,
         identity' = identity \/ pc[p] = "create"
  PROVE  LifeInv'
<1> USE LifecycleAssumption DEF LifeInv, Gone, Goes, history
<1>1. TypeInv'
  <2>1. pc' \in [Procs -> Steps] /\ todo' \in [Procs -> Todos]
    BY TodosBegin DEF TypeInv, Steps
  <2>2. ident' = [ident EXCEPT ![p] = None]
    OBVIOUS
  <2> HIDE DEF Gone
  <2> QED
    BY <2>1, <2>2 DEF TypeInv
<1>2. PortFirst' /\ ControlReachable'
  BY DEF TypeInv, PortFirst, ControlReachable, At, Left, Holding
<1>3. ASSUME ~overwritten', identity' = identity
      PROVE  IdentityOfFile' /\ KnownIsFile'
  BY <1>3 DEF TypeInv, IdentityOfFile, KnownIsFile, Loaded, Holding, Parses
<1>4. ASSUME ~overwritten', pc[p] = "create"
      PROVE  IdentityOfFile' /\ KnownIsFile'
  <2>1. identity = Torn /\ \A q \in Procs \ {p} : pc[q] \notin Loaded \cup {"create"}
    BY <1>4 DEF IdentityOfFile, Loaded, Holding, Parses
  <2>2. known' = {}
    BY <1>4, <2>1 DEF KnownIsFile, Parses
  <2>3. \A q \in Procs : pc'[q] \notin Loaded \cup {"create"}
    BY <2>1 DEF TypeInv, Loaded, Holding
  <2> QED
    BY <2>2, <2>3 DEF IdentityOfFile, KnownIsFile, Loaded
<1> QED
  BY <1>1, <1>2, <1>3, <1>4

\* Every way in which a process ends.
LEMMA EndStep ==
  ASSUME NEW p \in Procs, LifeInv, Exits(p) \/ SaveFails(p) \/ (Signal(p) /\ pc[p] \in Loading)
  PROVE  LifeInv'
<1>1. Gone(p) /\ made' = made /\ UNCHANGED history
  BY DEF Exits, SaveFails, GivesUp, Signal
<1>2. identity' = identity \/ pc[p] = "create"
  BY DEF Exits, SaveFails, Signal, At
<1> QED
  BY <1>1, <1>2, GoneStep

\* The steps of runDaemon before Run.
LEMMA LoadStep ==
  ASSUME NEW p \in Procs, LifeInv, ~Exits(p),
         Start(p) \/ LoadConfig(p) \/ SaveConfig(p) \/ LoadIdentity(p)
           \/ Generate(p) \/ SaveIdentity(p)
  PROVE  LifeInv'
<1> USE LifecycleAssumption DEF LifeInv, Goes, At, history
<1>1. UNCHANGED <<todo, port, ctlFile, known>>
  BY DEF Start, LoadConfig, SaveConfig, LoadIdentity, Generate, SaveIdentity, files
<1>2. pc' \in [Procs -> Steps]
  BY DEF TypeInv, Steps, Loading, Taking,
         Start, LoadConfig, SaveConfig, LoadIdentity, Generate, SaveIdentity
<1>3. PortFirst' /\ ControlReachable'
  <2>1. pc'[p] \notin Holding \cup {"close"} /\ \A q \in Procs \ {p} : pc'[q] = pc[q]
    BY DEF TypeInv, Holding, Start, LoadConfig, SaveConfig, LoadIdentity, Generate, SaveIdentity
  <2> QED
    BY <1>1, <2>1 DEF PortFirst, ControlReachable, Holding
<1>4. CASE Start(p) \/ LoadConfig(p) \/ SaveConfig(p) \/ (LoadIdentity(p) /\ identity = None)
  <2>1. UNCHANGED <<ident, identity, made, overwritten>>
    BY <1>4 DEF Start, LoadConfig, SaveConfig, LoadIdentity, Parses, files
  <2>2. /\ pc'[p] \in {"config", "rename", "identity", "generate"}
        /\ \A q \in Procs \ {p} : pc'[q] = pc[q]
    BY <1>4 DEF TypeInv, Start, LoadConfig, SaveConfig, LoadIdentity, Parses
  <2>3. TypeInv'
    BY <1>1, <1>2, <2>1 DEF TypeInv
  <2>4. ~overwritten' => IdentityOfFile' /\ KnownIsFile'
    BY <1>1, <2>1, <2>2 DEF IdentityOfFile, KnownIsFile, Loaded, Holding, Parses
  <2> QED
    BY <1>3, <2>3, <2>4
<1>5. CASE LoadIdentity(p) /\ identity # None
  <2>1. /\ UNCHANGED <<identity, made, overwritten>> /\ pc' = [pc EXCEPT ![p] = "port"]
        /\ ident' = [ident EXCEPT ![p] = identity] /\ Parses(identity)
    BY <1>5 DEF LoadIdentity, files
  <2>2. TypeInv'
    BY <1>1, <1>2, <2>1 DEF TypeInv, Parses
  <2>3. ~overwritten' => IdentityOfFile' /\ KnownIsFile'
    BY <1>1, <2>1 DEF TypeInv, IdentityOfFile, KnownIsFile, Loaded, Holding, Parses
  <2> QED
    BY <1>3, <2>2, <2>3
<1>6. CASE Generate(p)
  <2>1. pc' = [pc EXCEPT ![p] = "create"] /\ identity' = Torn
    BY <1>6 DEF Generate
  <2>2. /\ made + 1 \in 1..MaxIds /\ made' = made + 1 /\ made' \in Nat
        /\ ident' = [ident EXCEPT ![p] = made + 1]
    BY <1>6 DEF Generate, TypeInv
  <2>3. TypeInv'
    BY <1>1, <1>2, <2>2 DEF TypeInv
  <2>4. ident'[p] \in 1..MaxIds
    BY <2>2 DEF TypeInv
  <2>5. ASSUME ~overwritten'
        PROVE  IdentityOfFile' /\ KnownIsFile'
    <3>1. ~overwritten /\ identity = None
      BY <1>6, <2>5 DEF Generate
    <3>2. \A q \in Procs : pc[q] \notin Loaded \cup {"create"}
      BY <3>1 DEF IdentityOfFile, Parses
    <3>3. known = {}
      BY <3>1 DEF KnownIsFile, Parses
    <3> QED
      BY <1>1, <2>1, <2>4, <3>2, <3>3 DEF TypeInv, IdentityOfFile, KnownIsFile, Loaded, Holding
  <2> QED
    BY <1>3, <2>3, <2>5
<1>7. CASE SaveIdentity(p)
  <2>1. /\ UNCHANGED <<ident, made, overwritten>> /\ pc' = [pc EXCEPT ![p] = "port"]
        /\ pc[p] = "create" /\ identity' = ident[p]
    BY <1>7 DEF SaveIdentity
  <2>2. TypeInv'
    BY <1>1, <1>2, <2>1 DEF TypeInv
  <2>3. ASSUME ~overwritten'
        PROVE  IdentityOfFile' /\ KnownIsFile'
    <3>1. Parses(identity') /\ identity = Torn
      BY <2>1, <2>3 DEF IdentityOfFile, Parses
    <3>2. \A q \in Procs \ {p} : pc[q] \notin Loaded \cup {"create"}
      BY <2>1, <2>3, <3>1 DEF IdentityOfFile, Parses
    <3>3. known = {}
      BY <2>1, <2>3, <3>1 DEF KnownIsFile, Parses
    <3> QED
      BY <1>1, <2>1, <3>1, <3>2, <3>3 DEF TypeInv, IdentityOfFile, KnownIsFile, Loaded, Holding
  <2> QED
    BY <1>3, <2>2, <2>3
<1> QED
  BY <1>4, <1>5, <1>6, <1>7

\* The steps of Run: the port first, then the socket files.
LEMMA TakeStep ==
  ASSUME NEW p \in Procs, LifeInv, ~Exits(p),
         TakePort(p) \/ TakeDiscovery(p) \/ StartClipboard(p) \/ ListenControl(p)
  PROVE  LifeInv'
<1> USE LifecycleAssumption DEF LifeInv, Goes, At, history
<1>1. UNCHANGED <<todo, ident, identity, made, overwritten>>
  BY DEF TakePort, TakeDiscovery, StartClipboard, ListenControl, files
<1>2. pc' \in [Procs -> Steps] /\ pc[p] \in Loaded /\ pc'[p] \in Holding
      /\ \A q \in Procs \ {p} : pc'[q] = pc[q]
  BY DEF TypeInv, Steps, Loading, Taking, Loaded, Holding,
         TakePort, TakeDiscovery, StartClipboard, ListenControl
<1>3. TypeInv'
  BY <1>1, <1>2 DEF TypeInv
<1>4. port' = p /\ \A q \in Procs \ {p} : port # q
  BY DEF TakePort, TakeDiscovery, StartClipboard, ListenControl, files, PortFirst, Holding
<1>5. PortFirst'
  BY <1>1, <1>2, <1>4 DEF PortFirst, Holding
<1>6. ControlReachable'
  <2>1. pc'[p] = "serve" => ctlFile' = p
    BY DEF TypeInv, TakePort, TakeDiscovery, StartClipboard, ListenControl
  <2> QED
    BY <1>2, <1>4, <2>1 DEF PortFirst, ControlReachable, Holding
<1>7. ~overwritten' => IdentityOfFile'
  BY <1>1, <1>2 DEF IdentityOfFile, Loaded, Holding
<1>8. ~overwritten' => KnownIsFile'
  <2>1. known' \subseteq known \cup {ident[p]}
    BY DEF TakePort, TakeDiscovery, StartClipboard, ListenControl
  <2> QED
    BY <1>1, <1>2, <2>1 DEF KnownIsFile, IdentityOfFile
<1> QED
  BY <1>3, <1>5, <1>6, <1>7, <1>8

\* What a closing daemon removes was its own, or nobody's who serves.
LEMMA CloseStep ==
  ASSUME NEW p \in Procs, LifeInv, TakeFails(p) \/ Stop(p) \/ CloseNext(p)
  PROVE  LifeInv'
<1> USE LifecycleAssumption DEF LifeInv, Goes, At, history
<1>1. UNCHANGED <<ident, identity, made, known, overwritten>>
  BY DEF TakeFails, Stop, CloseNext, files
<1>2. pc' \in [Procs -> Steps] /\ pc'[p] = "close" /\ \A q \in Procs \ {p} : pc'[q] = pc[q]
  BY DEF TypeInv, Steps, TakeFails, Stop, CloseNext
<1>3. ~overwritten' => IdentityOfFile' /\ KnownIsFile'
  BY <1>1, <1>2 DEF IdentityOfFile, KnownIsFile, Loaded, Holding, Parses
<1>4. CASE TakeFails(p) \/ Stop(p)
  <2>1. todo' \in [Procs -> Todos] /\ \A q \in Procs \ {p} : todo'[q] = todo[q]
    BY <1>4, TodosBegin DEF TypeInv, TakeFails, Stop
  <2>2. UNCHANGED <<port, ctlFile>> /\ port = p
    BY <1>4 DEF TakeFails, Stop, files, PortFirst, Holding
  <2>3. TypeInv'
    BY <1>1, <1>2, <2>1 DEF TypeInv
  <2>4. PortFirst' /\ ControlReachable'
    BY <1>2, <2>1, <2>2 DEF PortFirst, ControlReachable, Holding
  <2> QED
    BY <1>3, <2>3, <2>4
<1>5. CASE CloseNext(p)
  <2> DEFINE s == todo[p]
  <2>1. /\ s \in Todos /\ s # <<>> /\ pc[p] = "close"
        /\ todo' = [todo EXCEPT ![p] = Tail(s)]
        /\ port' = IF Head(s) = "listener" THEN None ELSE port
        /\ ctlFile' = IF Head(s) = "ctl" THEN None ELSE ctlFile
    BY <1>5 DEF CloseNext, TypeInv
  <2> HIDE DEF s
  <2>2. /\ Tail(s) \in Todos
        /\ Head(s) \in {"ctl", "listener"} => HasListener(s)
        /\ Head(s) = "listener" => ~HasListener(Tail(s))
        /\ HasListener(Tail(s)) => HasListener(s)
    BY <2>1, CloseNextFacts
  <2>3. HasListener(s) => port = p
    BY <2>1 DEF PortFirst, s
  <2>4. TypeInv'
    <3>1. todo' \in [Procs -> Todos]
      BY <2>1, <2>2 DEF TypeInv
    <3>2. pc' \in [Procs -> Steps]
      BY <1>1, <1>2 DEF TypeInv
    <3> QED
      BY <1>1, <1>2, <3>1, <3>2 DEF TypeInv
  <2>5. /\ todo'[p] = Tail(s)
        /\ \A q \in Procs \ {p} : todo'[q] = todo[q]
    BY <2>1 DEF TypeInv
  <2>6. PortFirst'
    <3>1. pc'[p] = "close" /\ (HasListener(Tail(s)) => port' = p)
      BY <1>2, <2>1, <2>2, <2>3
    <3>2. ASSUME NEW q \in Procs \ {p}, port = q
          PROVE  port' = q
      BY <2>1, <2>2, <2>3, <3>2
    <3> QED
      BY <1>2, <2>5, <3>1, <3>2 DEF PortFirst, Holding
  <2>7. ControlReachable'
    BY <1>2, <2>1, <2>2, <2>3 DEF PortFirst, ControlReachable, Holding
  <2> QED
    BY <1>3, <2>4, <2>6, <2>7
<1> QED
  BY <1>4, <1>5

\* Signals to a running daemon, and what touches nothing the invariant speaks of.
LEMMA QuietStep ==
  ASSUME LifeInv, UNCHANGED <<pc, todo, ident, identity, made, port, ctlFile, history>>
  PROVE  LifeInv'
BY DEF LifeInv, TypeInv, PortFirst, ControlReachable, IdentityOfFile, KnownIsFile, At, Parses,
       history

-----------------------------------------------------------------------------
\* The invariant holds in every reachable state.
THEOREM LifeInvariant == Spec => []LifeInv
<1>1. LifeInv /\ [Next]_vars => LifeInv'
  <2> SUFFICES ASSUME LifeInv, [Next]_vars PROVE LifeInv'
    OBVIOUS
  <2>1. CASE StartService \/ CalmDown \/ UNCHANGED vars
    BY <2>1, QuietStep DEF StartService, CalmDown, vars, files
  <2>2. ASSUME NEW p \in Procs, Start(p) \/ Loads(p) PROVE LifeInv'
    BY <2>2, EndStep, LoadStep DEF Loads
  <2>3. ASSUME NEW p \in Procs, Takes(p) PROVE LifeInv'
    BY <2>3, EndStep, TakeStep DEF Takes
  <2>4. ASSUME NEW p \in Procs, TakeFails(p) \/ Ends(p) PROVE LifeInv'
    BY <2>4, EndStep, CloseStep DEF Ends, Exit
  <2>5. ASSUME NEW p \in Procs, Signal(p) \/ SaveFails(p) \/ Crash(p) PROVE LifeInv'
    <3>1. CASE Signal(p) /\ pc[p] \notin Loading
      BY <3>1, QuietStep DEF Signal, Gone
    <3> QED
      BY <2>5, <3>1, EndStep DEF Crash
  <2> QED
    BY <2>1, <2>2, <2>3, <2>4, <2>5 DEF Next, Loads, Takes, Ends
<1> QED
  BY LifeInit, <1>1, PTL DEF Spec

(* A daemon that serves is the one the command line reaches, although      *)
(* every daemon removes the socket file by name (Run, close).              *)
THEOREM ControlReachableHolds == Spec => []ControlReachable
<1>1. LifeInv => ControlReachable
  BY DEF LifeInv
<1> QED
  BY LifeInvariant, <1>1, PTL

(* The identity a daemon has served with stays in the file, however often  *)
(* it could not be written or was cut off, unless a first start overwrote  *)
(* the identity of another (LoadOrCreate).                                 *)
THEOREM IdentityStableHolds == Spec => []IdentityStable
<1>1. LifeInv => IdentityStable
  BY DEF LifeInv, KnownIsFile, IdentityStable
<1> QED
  BY LifeInvariant, <1>1, PTL
=============================================================================
