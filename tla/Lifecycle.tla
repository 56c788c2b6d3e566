----------------------------- MODULE Lifecycle -----------------------------
(***************************************************************************)
(* The life of a daemon process: runDaemon of cmd/lanclip/main.go with     *)
(* what it loads or creates (internal/config, internal/identity), the      *)
(* order in which Run takes the port, discovery, the clipboard and the     *)
(* control socket, what it gives back when one of them fails, close, and   *)
(* the two socket files, which are removed by name: at Listen and Start    *)
(* whatever was there, and at Close whoever's it is.                       *)
(*                                                                         *)
(* Two processes may run: the one of the service manager, and one started  *)
(* by hand.  The store's own file is in TrustStore, discovery's part in    *)
(* Discovery.                                                              *)
(***************************************************************************)
EXTENDS Naturals, Sequences

CONSTANTS
    Service,   \* the process of the service manager
    Hand,      \* a lanclip daemon started by hand
    None,      \* nobody and nothing
    Torn,      \* what a write that was cut off leaves of a file
    MaxIds     \* bound: how many identities are generated

Procs == {Service, Hand}

ASSUME LifecycleAssumption ==
    /\ Service # Hand /\ None \notin Procs
    /\ MaxIds \in Nat \ {0}
    /\ Torn # None /\ Torn \notin 1..MaxIds /\ None \notin 1..MaxIds

Loading == {"config", "rename", "identity", "generate", "create"}
Taking == {"port", "disc", "clip", "ctl"}

VARIABLES
    pc,         \* "off", or what a process is doing next (Loading, Taking, "serve", "close")
    todo,       \* what a closing process has still to close
    signalled,  \* SIGTERM has cancelled the context of a process
    ident,      \* the identity a process has
    config,     \* config.json: None, "ok" or Torn
    identity,   \* identity.pem: None, Torn or the number of an identity
    made,       \* how many identities were generated
    port,       \* who listens on the port
    ctlFile,    \* who is behind lanclip.sock: "stale" if it is dead
    clipFile,   \* who is behind lanclip-clipboard.sock
    wanted,     \* the service manager is to keep the service running
    known,      \* history: the identities a daemon has served with
    overwritten,\* history: an identity was written over a file that was not there when looked for
    calm        \* from here on nothing crashes, fails or is started by hand

files == <<config, identity, made, port, ctlFile, clipFile>>
history == <<known, overwritten>>
vars == <<pc, todo, signalled, ident, files, wanted, history, calm>>

Init ==
    /\ pc = [p \in Procs |-> "off"] /\ todo = [p \in Procs |-> <<>>]
    /\ signalled = [p \in Procs |-> FALSE] /\ ident = [p \in Procs |-> None]
    /\ config = None /\ identity = None /\ made = 0
    /\ port = None /\ ctlFile = None /\ clipFile = None
    /\ wanted = TRUE /\ known = {} /\ overwritten = FALSE /\ calm = FALSE

-----------------------------------------------------------------------------
At(p, step) == pc[p] = step
Goes(p, step) == pc' = [pc EXCEPT ![p] = step]

\* What a process that is gone leaves: its port is free, its files are dead.
Left(file, p) == IF file = p THEN "stale" ELSE file
Gone(p) ==
    /\ Goes(p, "off")
    /\ todo' = [todo EXCEPT ![p] = <<>>]
    /\ signalled' = [signalled EXCEPT ![p] = FALSE]
    /\ ident' = [ident EXCEPT ![p] = None]
    /\ port' = IF port = p THEN None ELSE port
    /\ ctlFile' = Left(ctlFile, p) /\ clipFile' = Left(clipFile, p)

\* runDaemon or Run returns an error: the process exits.
Exits(p) == Gone(p) /\ UNCHANGED <<config, identity, made, wanted, history, calm>>

\* parse: certificate and key are there, whole, and belong together.
Parses(file) == file \in 1..MaxIds

(* The service manager starts the service, again after a crash or an       *)
(* error; a second daemon may be started by hand at any time.              *)
Start(p) ==
    /\ At(p, "off")
    /\ \/ p = Service /\ wanted
       \/ p = Hand /\ ~calm
    /\ Goes(p, "config")
    /\ UNCHANGED <<todo, signalled, ident, files, wanted, history, calm>>

\* config.LoadOrCreate: a file that cannot be parsed is an error.
LoadConfig(p) ==
    /\ At(p, "config")
    /\ \/ config = Torn /\ Exits(p)
       \/ /\ config = None \/ (config = "ok" /\ ~calm)    \* a new file, or a new device name
          /\ Goes(p, "rename")
          /\ config' = Torn          \* WriteFile truncates first
          /\ UNCHANGED <<todo, signalled, ident, identity, made, port, ctlFile, clipFile,
                         wanted, history, calm>>
       \/ /\ config = "ok"
          /\ Goes(p, "identity")
          /\ UNCHANGED <<todo, signalled, ident, files, wanted, history, calm>>

SaveConfig(p) ==
    /\ At(p, "rename")
    /\ config' = "ok"
    /\ Goes(p, "identity")
    /\ UNCHANGED <<todo, signalled, ident, identity, made, port, ctlFile, clipFile,
                   wanted, history, calm>>

\* identity.LoadOrCreate, and CheckPrivate and the store's Load after it.
LoadIdentity(p) ==
    /\ At(p, "identity")
    /\ \/ identity # None /\ ~Parses(identity) /\ Exits(p)
       \/ /\ Parses(identity)
          /\ ident' = [ident EXCEPT ![p] = identity]
          /\ Goes(p, "port")
          /\ UNCHANGED <<todo, signalled, files, wanted, history, calm>>
       \/ /\ identity = None
          /\ Goes(p, "generate")
          /\ UNCHANGED <<todo, signalled, ident, files, wanted, history, calm>>

(* create: a new key and UUID; WriteFile truncates first, also a file that *)
(* another process has made since this one looked.                         *)
Generate(p) ==
    /\ At(p, "generate") /\ made < MaxIds
    /\ made' = made + 1
    /\ ident' = [ident EXCEPT ![p] = made + 1]
    /\ identity' = Torn
    /\ overwritten' = (overwritten \/ identity # None)
    /\ Goes(p, "create")
    /\ UNCHANGED <<todo, signalled, config, port, ctlFile, clipFile, wanted, known, calm>>

SaveIdentity(p) ==
    /\ At(p, "create")
    /\ identity' = ident[p]
    /\ Goes(p, "port")
    /\ UNCHANGED <<todo, signalled, ident, config, made, port, ctlFile, clipFile,
                   wanted, history, calm>>

\* What a process does without an identity it has saved.
RunsAnyway(p) ==
    /\ made < MaxIds /\ made' = made + 1
    /\ ident' = [ident EXCEPT ![p] = made + 1]
    /\ Goes(p, "port")
    /\ UNCHANGED <<todo, signalled, port, ctlFile, clipFile>>
GivesUp(p) == Gone(p) /\ made' = made

(* WriteFile cannot create the file, or fails half-way; Chmod fails when   *)
(* the file is written.                                                    *)
SaveFails(p) ==
    /\ ~calm
    /\ \/ At(p, "generate") /\ GivesUp(p) /\ UNCHANGED <<config, identity>>
       \/ At(p, "create") /\ identity' \in {Torn, ident[p]} /\ GivesUp(p) /\ UNCHANGED config
       \/ At(p, "rename") /\ config' \in {Torn, "ok"} /\ Gone(p) /\ UNCHANGED <<identity, made>>
    /\ UNCHANGED <<wanted, history, calm>>
-----------------------------------------------------------------------------
\* Run takes what it needs one after the other.
TakePort(p) ==
    /\ At(p, "port")
    /\ \/ port # None /\ Exits(p)
       \/ /\ port = None
          /\ port' = p
          /\ Goes(p, "disc")
          /\ UNCHANGED <<todo, signalled, ident, config, identity, made, ctlFile, clipFile,
                         wanted, history, calm>>

\* A file that is in the way is removed before the socket is bound.
OnlyFresh(file) == file = None
Binds(file) == TRUE

TakeDiscovery(p) ==
    /\ At(p, "disc")
    /\ Goes(p, "clip")
    /\ UNCHANGED <<todo, signalled, ident, files, wanted, history, calm>>

StartClipboard(p) ==
    /\ At(p, "clip")
    /\ Binds(clipFile)
    /\ clipFile' = p
    /\ Goes(p, "ctl")
    /\ UNCHANGED <<todo, signalled, ident, config, identity, made, port, ctlFile,
                   wanted, history, calm>>

ListenControl(p) ==
    /\ At(p, "ctl")
    /\ Binds(ctlFile)
    /\ ctlFile' = p
    /\ Goes(p, "serve")
    /\ known' = known \cup {ident[p]}
    /\ UNCHANGED <<todo, signalled, ident, config, identity, made, port, clipFile, wanted,
                   overwritten, calm>>

\* What Run closes when a step fails, and what close closes in the end.
Undo == [disc |-> <<"listener">>,
         clip |-> <<"disc", "listener">>,
         ctl  |-> <<"clip", "disc", "listener">>]
ListenerFirst(p) == <<"listener", "ctl", "disc", "clip">>
CloseOrder(p) == <<"ctl", "listener", "disc", "clip">>

\* No LAN interface, no Wayland display, a socket that cannot be bound.
TakeFails(p) ==
    /\ \E step \in {"disc", "clip", "ctl"} :
         /\ At(p, step)
         /\ ~calm \/ (step = "clip" /\ ~Binds(clipFile)) \/ (step = "ctl" /\ ~Binds(ctlFile))
         /\ todo' = [todo EXCEPT ![p] = Undo[step]]
    /\ Goes(p, "close")
    /\ UNCHANGED <<signalled, ident, files, wanted, history, calm>>

\* The context ended, maybe long before Run comes to wait for that.
Stop(p) ==
    /\ At(p, "serve") /\ signalled[p]
    /\ todo' = [todo EXCEPT ![p] = CloseOrder(p)]
    /\ Goes(p, "close")
    /\ UNCHANGED <<signalled, ident, files, wanted, history, calm>>

\* The next thing is closed; the files are removed by their names.
CloseNext(p) ==
    /\ At(p, "close") /\ todo[p] # <<>>
    /\ LET what == Head(todo[p])
       IN  /\ port' = IF what = "listener" THEN None ELSE port
           /\ ctlFile' = IF what = "ctl" THEN None ELSE ctlFile
           /\ clipFile' = IF what = "clip" THEN None ELSE clipFile
    /\ todo' = [todo EXCEPT ![p] = Tail(@)]
    /\ UNCHANGED <<pc, signalled, ident, config, identity, made, wanted, history, calm>>

Exit(p) == At(p, "close") /\ todo[p] = <<>> /\ Exits(p)
-----------------------------------------------------------------------------
(* SIGTERM, for the service with the service manager's stop: before        *)
(* NotifyContext it kills the process.                                     *)
Signal(p) ==
    /\ ~calm /\ ~At(p, "off") /\ ~signalled[p]
    /\ wanted' = (wanted /\ p # Service)
    /\ \/ pc[p] \in Loading /\ Gone(p)
       \/ /\ pc[p] \notin Loading
          /\ signalled' = [signalled EXCEPT ![p] = TRUE]
          /\ UNCHANGED <<pc, todo, ident, port, ctlFile, clipFile>>
    /\ UNCHANGED <<config, identity, made, history, calm>>

Crash(p) == ~calm /\ ~At(p, "off") /\ Exits(p)

StartService == ~calm /\ ~wanted /\ wanted' = TRUE
                /\ UNCHANGED <<pc, todo, signalled, ident, files, history, calm>>

CalmDown == ~calm /\ calm' = TRUE
            /\ UNCHANGED <<pc, todo, signalled, ident, files, wanted, history>>

Loads(p) == LoadConfig(p) \/ SaveConfig(p) \/ LoadIdentity(p) \/ Generate(p) \/ SaveIdentity(p)
Takes(p) == TakePort(p) \/ TakeDiscovery(p) \/ StartClipboard(p) \/ ListenControl(p)
Ends(p) == Stop(p) \/ CloseNext(p) \/ Exit(p)

Next ==
    \/ \E p \in Procs :
         \/ Start(p)
         \/ LoadConfig(p) \/ SaveConfig(p) \/ SaveFails(p)
         \/ LoadIdentity(p) \/ Generate(p) \/ SaveIdentity(p)
         \/ TakePort(p) \/ TakeDiscovery(p) \/ StartClipboard(p) \/ ListenControl(p)
         \/ TakeFails(p) \/ Stop(p) \/ CloseNext(p) \/ Exit(p)
         \/ Signal(p) \/ Crash(p)
    \/ StartService \/ CalmDown

Spec == Init /\ [][Next]_vars

\* The service manager restarts the service; a process goes on.
Fairness ==
    /\ WF_vars(Start(Service))
    /\ \A p \in Procs : WF_vars(Loads(p) \/ Takes(p) \/ TakeFails(p) \/ Ends(p))

FairSpec == Spec /\ Fairness
-----------------------------------------------------------------------------
(* A daemon that serves is the one the command line reaches, although      *)
(* other daemons start, fail for its port, crash or are still closing, and *)
(* each of them removes the socket file by name (Listen and Close of       *)
(* internal/control; Run and close take the port first and last).          *)
ControlReachable == \A p \in Procs : At(p, "serve") => port = p /\ ctlFile = p

(* Whatever crashes, fails to be written or starts beside it, the identity *)
(* a daemon has served with stays in the file: with another, the next one  *)
(* would be a stranger to every device it is paired with (LoadOrCreate).   *)
(* One thing only can break this: two first starts at once, of which one   *)
(* looks for the file before and writes it after the other has made it.    *)
IdentityStable == ~overwritten => known \subseteq {identity}

(* When crashes and failures are over, the service gets back to serving,   *)
(* unless a file it cannot read was left behind, or another daemon has     *)
(* its port: dead socket files do not keep it from starting.               *)
ComesBack ==
    (calm /\ wanted /\ ~signalled[Service] /\ At(Hand, "off")
       /\ config # Torn /\ identity # Torn) ~> At(Service, "serve")
=============================================================================
