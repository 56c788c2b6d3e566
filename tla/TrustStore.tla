----------------------------- MODULE TrustStore -----------------------------
(***************************************************************************)
(* The trust store of one lanclip daemon: internal/pairing/store.go, with  *)
(* the two places that feed it (handleIncomingPair and pair in daemon.go)  *)
(* and the snapshot a `lanclip approve` terminal works from (cli.go).      *)
(*                                                                         *)
(* Every method of Store runs under s.mu, so it is one step, except that a *)
(* method that changes trust calls saveLocked with the lock held: its      *)
(* memory update, the outcome of the save and a crash in between are       *)
(* separate steps, and undo # None while the lock is held for the save.    *)
(*                                                                         *)
(* A pending entry carries its age instead of UpdatedAt: it has expired    *)
(* when now >= UpdatedAt + pendingTTL, that is when age = TTL.  UpdatedAt  *)
(* of a stored peer is only displayed and is left out.                     *)
(***************************************************************************)
EXTENDS Naturals, FiniteSets

CONSTANTS
    IDs,          \* device UUIDs of the other devices
    FPs,          \* full certificate fingerprints
    Owner,        \* the device ID in the CN of the certificate with this fingerprint
    Names,        \* normalized display names
    Codes,        \* comparison codes (two requests may have the same one)
    Tokens,       \* approval tokens (RandomNonce: never one that is still held)
    Abbrev,       \* the IDs that a query of the control socket is a prefix of
    TTL,          \* pendingTTL, in ticks
    MaxPending,   \* maxPending
    None          \* the absent entry of a Go map

Queries == DOMAIN Abbrev

Peer    == [state : {"trusted", "rejected"}, fp : FPs, name : Names]
Request == [fp : FPs, name : Names, code : Codes, token : Tokens, age : 0..TTL]
Undo    == [id : IDs, peer : Peer \cup {None}, req : Request \cup {None}]
Snapshot == [id : IDs, fp : FPs, code : Codes, token : Tokens]
\* peers.json may hold the pending entries that older releases wrote.
LegacyPending == [state : {"pending"}, fp : FPs, name : Names]

ASSUME StoreAssumption ==
    /\ IsFiniteSet(IDs)
    /\ Owner \in [FPs -> IDs]
    /\ IDs \cup Names \subseteq Queries
    /\ Abbrev \in [Queries -> SUBSET IDs]
    /\ TTL \in Nat \ {0}
    /\ MaxPending \in Nat \ {0}
    /\ None \notin Peer \cup Request \cup Undo \cup Snapshot \cup LegacyPending

VARIABLES
    up,       \* the daemon is running
    peers,    \* s.peers: the trusted and the rejected peers
    pending,  \* s.pending: the requests of this session
    disk,     \* the contents of peers.json
    undo,     \* what a failed save puts back; # None while s.mu is held for it
    shown     \* the request a terminal shows its user, None if there is none

vars == <<up, peers, pending, disk, undo, shown>>

Empty == [i \in IDs |-> None]

Init ==
    /\ up = FALSE
    /\ peers = Empty
    /\ pending = Empty
    /\ disk \in {Empty} \cup {[Empty EXCEPT ![Owner[p.fp]] = p] : p \in LegacyPending}
    /\ undo = None
    /\ shown = None

-----------------------------------------------------------------------------
IsTrusted(m, i) == m[i] # None /\ m[i].state = "trusted"

\* s.mu can be taken.
Unlocked == up /\ undo = None

\* prunePendingLocked, the first thing most methods do.
Live(req) == IF req # None /\ req.age >= TTL THEN None ELSE req
Pruned == [i \in IDs |-> Live(pending[i])]

\* The entries of both maps, as <<ID, state>>.
Stored(pend) ==
    {<<i, "pending">> : i \in {j \in IDs : pend[j] # None}}
      \cup {<<i, peers[i].state>> : i \in {j \in IDs : peers[j] # None}}

Entry(e, pend) == IF e[2] = "pending" THEN pend[e[1]] ELSE peers[e[1]]

(* resolveLocked: the entries a query designates.  An exact ID wins, a     *)
(* pending entry before a stored one; otherwise names and ID prefixes of   *)
(* both maps.  The caller goes on only if there is exactly one.            *)
Resolve(q, states, pend) ==
    LET allowed == {e \in Stored(pend) : e[2] \in states}
        exact   == {e \in allowed : e[1] = q}
        loose   == {e \in allowed : Entry(e, pend).name = q \/ e[1] \in Abbrev[q]}
    IN  IF <<q, "pending">> \in exact THEN {<<q, "pending">>}
        ELSE IF exact # {} THEN exact ELSE loose

AnyState == {"pending", "trusted", "rejected"}

\* A method changes the entries of i in memory and goes on to saveLocked.
BeginSave(i, peer, req, pend) ==
    /\ undo' = [id |-> i, peer |-> peers[i], req |-> pend[i]]
    /\ peers' = [peers EXCEPT ![i] = peer]
    /\ pending' = [pend EXCEPT ![i] = req]
    /\ UNCHANGED <<up, disk>>

\* A method returns early: only its pruning shows.
Refuse(pend) == pending' = pend /\ UNCHANGED <<up, peers, disk, undo>>
-----------------------------------------------------------------------------
(* The checks of PutPending, in its order.                                 *)
RefusedUnlessChanged(i, f, pend) ==
    \/ IsTrusted(peers, i) /\ peers[i].fp = f
    \/ pend[i] # None /\ pend[i].fp # f
    \/ pend[i] = None /\ Cardinality({j \in IDs : pend[j] # None}) >= MaxPending
RefusedOffByOne(i, f, pend) ==
    \/ IsTrusted(peers, i)
    \/ pend[i] # None /\ pend[i].fp # f
    \/ pend[i] = None /\ Cardinality({j \in IDs : pend[j] # None}) > MaxPending
Refused(i, f, pend) ==
    \/ IsTrusted(peers, i)
    \/ pend[i] # None /\ pend[i].fp # f
    \/ pend[i] = None /\ Cardinality({j \in IDs : pend[j] # None}) >= MaxPending

Held == {pending[i].token : i \in {j \in IDs : pending[j] # None}}
          \cup (IF shown = None THEN {} ELSE {shown.token})

\* ValidateCertificateIdentity, which both callers of PutPending check first.
AnyCertificate(f, i) == TRUE
CertificateNames(f, i) == Owner[f] = i

\* PutPending, called by handleIncomingPair for an offer and by pair for an answer.
PutPending(i, f, n, c, t) ==
    /\ Unlocked
    /\ CertificateNames(f, i)
    /\ t \notin Held
    /\ IF Refused(i, f, Pruned)
       THEN Refuse(Pruned)
       ELSE /\ pending' = [Pruned EXCEPT ![i] =
                             [fp |-> f, name |-> n, code |-> c, token |-> t, age |-> 0]]
            /\ UNCHANGED <<up, peers, disk, undo>>
    /\ UNCHANGED shown

\* The terminal reads the peers report and shows one pending entry of it (List).
Show(i) ==
    /\ Unlocked
    /\ pending' = Pruned
    /\ Pruned[i] # None
    /\ shown' = [id |-> i, fp |-> Pruned[i].fp, code |-> Pruned[i].code, token |-> Pruned[i].token]
    /\ UNCHANGED <<up, peers, disk, undo>>

\* The user answers no, or the terminal is closed.
Cancel == shown # None /\ shown' = None /\ UNCHANGED <<up, peers, pending, disk, undo>>

\* The comparison of Approve with the entry as it is now.
SameFingerprintAndCode(s, req) == s.fp = req.fp /\ s.code = req.code
SameRequest(s, req) == s.token = req.token /\ s.fp = req.fp /\ s.code = req.code

\* Approve, with the ID, token, fingerprint and code of the snapshot.
Approve ==
    /\ Unlocked
    /\ shown # None
    /\ LET found == Resolve(shown.id, {"pending"}, Pruned)
       IN  \/ \E e \in found :
                /\ found = {e}
                /\ SameRequest(shown, Pruned[e[1]])
                /\ BeginSave(e[1], [state |-> "trusted", fp |-> Pruned[e[1]].fp,
                                    name |-> Pruned[e[1]].name], None, Pruned)
           \/ /\ ~ \E e \in found : found = {e} /\ SameRequest(shown, Pruned[e[1]])
              /\ Refuse(Pruned)
    /\ shown' = None

\* Reject: the entry the query designates, in whatever state, becomes rejected.
Reject(q) ==
    /\ Unlocked
    /\ LET found == Resolve(q, AnyState, Pruned)
       IN  \/ \E e \in found :
                /\ found = {e}
                /\ BeginSave(e[1], [state |-> "rejected", fp |-> Entry(e, Pruned).fp,
                                    name |-> Entry(e, Pruned).name], None, Pruned)
           \/ (~ \E e \in found : found = {e}) /\ Refuse(Pruned)
    /\ UNCHANGED shown

(* The unpair command: Resolve finds a trusted peer (and prunes), then     *)
(* Unpair of that ID takes the lock again and forgets whatever both maps   *)
(* hold for it, without pruning.  The lock is free in between, so the two  *)
(* halves are separate actions; the daemon's part in between is in         *)
(* PeerLinks.                                                              *)
ResolveTrusted == Unlocked /\ Pruned # pending /\ Refuse(Pruned) /\ UNCHANGED shown

Unpair(i) ==
    /\ Unlocked
    /\ LET found == Resolve(i, AnyState, pending)
       IN  \E e \in found : found = {e} /\ BeginSave(e[1], None, None, pending)
    /\ UNCHANGED shown

\* UpdateName, after a session of i has exchanged its hello.
UpdateName(i, n) ==
    /\ Unlocked
    /\ peers[i] # None
    /\ peers[i].name # n
    /\ BeginSave(i, [peers[i] EXCEPT !.name = n], pending[i], pending)
    /\ UNCHANGED shown
-----------------------------------------------------------------------------
\* saveLocked renames the complete temporary file over peers.json.
SaveOk ==
    /\ undo # None
    /\ disk' = peers
    /\ undo' = None
    /\ UNCHANGED <<up, peers, pending, shown>>

\* The rollback of the caller when saveLocked fails before the rename.
RollbackPendingOnly ==
    /\ peers' = peers
    /\ pending' = [pending EXCEPT ![undo.id] = undo.req]
Rollback ==
    /\ peers' = [peers EXCEPT ![undo.id] = undo.peer]
    /\ pending' = [pending EXCEPT ![undo.id] = undo.req]

SaveFail ==
    /\ undo # None
    /\ Rollback
    /\ undo' = None
    /\ UNCHANGED <<up, disk, shown>>

\* The process dies, in the middle of a save too; peers.json stays as it is.
Crash ==
    /\ up
    /\ up' = FALSE
    /\ peers' = Empty
    /\ pending' = Empty
    /\ undo' = None
    /\ UNCHANGED <<disk, shown>>

\* What Load takes over from the file: not the pending entries of older releases.
RestoredAll(p) == p
Restored(p) == IF p # None /\ p.state # "pending" THEN p ELSE None

\* Load at start; it writes the file back if it was missing or an entry was dropped.
Load ==
    /\ ~up
    /\ up' = TRUE
    /\ peers' = [i \in IDs |-> Restored(disk[i])]
    /\ disk' = [i \in IDs |-> Restored(disk[i])]
    /\ UNCHANGED <<pending, undo, shown>>

\* Time passes, also while a save is under way.
Older(req) == IF req # None /\ req.age < TTL THEN [req EXCEPT !.age = @ + 1] ELSE req
Tick ==
    /\ up
    /\ pending' = [i \in IDs |-> Older(pending[i])]
    /\ undo' = IF undo = None THEN None ELSE [undo EXCEPT !.req = Older(@)]
    /\ UNCHANGED <<up, peers, disk, shown>>

Next ==
    \/ \E i \in IDs, f \in FPs, n \in Names, c \in Codes, t \in Tokens : PutPending(i, f, n, c, t)
    \/ \E i \in IDs : Show(i) \/ Unpair(i)
    \/ \E q \in Queries : Reject(q)
    \/ \E i \in IDs, n \in Names : UpdateName(i, n)
    \/ Cancel \/ Approve \/ ResolveTrusted
    \/ SaveOk \/ SaveFail \/ Crash \/ Load \/ Tick

Spec == Init /\ [][Next]_vars
-----------------------------------------------------------------------------
(* Shape of the store.  In memory no peer is ever stored as pending, also  *)
(* after a file of an older release was loaded (Load).                     *)
TypeOK ==
    /\ up \in BOOLEAN
    /\ peers \in [IDs -> Peer \cup {None}]
    /\ pending \in [IDs -> Request \cup {None}]
    /\ disk \in [IDs -> Peer \cup LegacyPending \cup {None}]
    /\ undo \in Undo \cup {None}
    /\ shown \in Snapshot \cup {None}

(* A request is never pending for a peer that is trusted, through failed   *)
(* saves and their rollback too.  Get and List let a pending entry hide    *)
(* the stored one, so connectLoop would stop dialling such a peer.         *)
PendingNeverTrusted == \A i \in IDs : pending[i] # None => ~IsTrusted(peers, i)

(* Whenever another goroutine can read the store, what it reads is what    *)
(* the next start would load: no session is ever authenticated by trust    *)
(* that was not saved, and no unpaired peer comes back.                    *)
DurableWhenUnlocked == Unlocked => disk = peers

(* TrustedFingerprint walks a Go map and returns the first hit: the answer *)
(* is determined only because one fingerprint is trusted for one ID.       *)
OneTrustedIDPerFingerprint ==
    \A i, j \in IDs :
        IsTrusted(peers, i) /\ IsTrusted(peers, j) /\ peers[i].fp = peers[j].fp => i = j

\* The requests of the LAN never take more than maxPending entries.
PendingBounded == Cardinality({i \in IDs : pending[i] # None}) <= MaxPending

(* A peer's pinned fingerprint is never replaced: a saved trusted entry    *)
(* keeps it until the peer is rejected or unpaired, over crashes too.      *)
PinnedFingerprint ==
    [][\A i \in IDs : IsTrusted(disk, i) /\ IsTrusted(disk', i)
                        => disk'[i].fp = disk[i].fp]_vars

(* The saved trust behaves as the abstract register: one certificate of   *)
(* the device at a time, added and forgotten one device at a time, through *)
(* concurrent commands, failed saves, crashes and restarts (saveLocked).   *)
SavedTrust == [i \in IDs |-> IF IsTrusted(disk, i) THEN disk[i].fp ELSE None]
Register == INSTANCE TrustRegister WITH trust <- SavedTrust
ImplementsRegister == Register!Spec

(* Trust is only ever added for the very request the user was shown, and   *)
(* before it expires: not for a newer request of the same device that      *)
(* happens to have the same code.  (Putting back a trusted peer whose      *)
(* rejection or removal could not be saved adds none; nor does a restart.) *)
ApprovedAsShown ==
    [][\A i \in IDs :
         up /\ ~IsTrusted(peers, i) /\ IsTrusted(peers', i) =>
           \/ undo # None /\ undo.id = i
           \/ /\ shown # None /\ shown.id = i
              /\ pending[i] # None /\ pending[i].age < TTL
              /\ pending[i].token = shown.token
              /\ peers'[i].fp = shown.fp]_vars

(* A save makes one operation durable: the one that holds the lock.  An    *)
(* operation that failed leaves nothing behind for a later one to save.    *)
SaveCommitsOneChange ==
    [][\A i \in IDs : up /\ disk'[i] # disk[i] => undo # None /\ undo.id = i]_vars
=============================================================================
