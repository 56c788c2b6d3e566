-------------------------- MODULE TrustStoreProofs --------------------------
(***************************************************************************)
(* Proofs about TrustStore, for every set of devices, certificates, names, *)
(* codes and tokens and every TTL and maxPending.                          *)
(***************************************************************************)
EXTENDS TrustStore, FiniteSetTheorems, TLAPS

USE StoreAssumption DEF Queries

Reqs  == Request \cup {None}
Stock == Peer \cup {None}

-----------------------------------------------------------------------------
(* Pruning (prunePendingLocked) only removes entries.                      *)
LEMMA PrunedType ==
    ASSUME TypeOK
    PROVE  /\ Pruned \in [IDs -> Reqs]
           /\ \A i \in IDs : Pruned[i] # None => Pruned[i] = pending[i]
  BY DEF TypeOK, Pruned, Live, Reqs

(* What resolveLocked finds is an entry of the map its state says.         *)
LEMMA ResolveFinds ==
    ASSUME TypeOK, NEW q, NEW states, NEW pend \in [IDs -> Reqs],
           NEW e \in Resolve(q, states, pend)
    PROVE  /\ e[1] \in IDs
           /\ e[2] \in states
           /\ e[2] = "pending" => pend[e[1]] # None
           /\ e[2] # "pending" => peers[e[1]] # None
           /\ Entry(e, pend) \in Peer \cup Request
  <1>1. e \in Stored(pend) /\ e[2] \in states
    <2>1. e \in Stored(pend) \/ (e = <<q, "pending">> /\ <<q, "pending">> \in Stored(pend))
      BY DEF Resolve
    <2>2. e \in Stored(pend)
      BY <2>1
    <2>. QED
      BY <2>2 DEF Resolve
  <1>2. \/ \E i \in IDs : pend[i] # None /\ e = <<i, "pending">>
        \/ \E i \in IDs : peers[i] # None /\ e = <<i, peers[i].state>>
    BY <1>1 DEF Stored
  <1>3. CASE \E i \in IDs : pend[i] # None /\ e = <<i, "pending">>
    BY <1>1, <1>3 DEF Entry, Reqs
  <1>4. CASE \E i \in IDs : peers[i] # None /\ e = <<i, peers[i].state>>
    <2>1. PICK i \in IDs : peers[i] # None /\ e = <<i, peers[i].state>>
      BY <1>4
    <2>2. peers[i] \in Peer
      BY <2>1 DEF TypeOK
    <2>. QED
      BY <1>1, <2>1, <2>2 DEF Entry, Peer
  <1>. QED
    BY <1>2, <1>3, <1>4

(* A method that goes on to saveLocked leaves well-formed maps.            *)
LEMMA BeginSaveType ==
    ASSUME TypeOK, NEW i \in IDs, NEW p \in Stock, NEW r \in Reqs,
           NEW pend \in [IDs -> Reqs], BeginSave(i, p, r, pend)
    PROVE  /\ up' \in BOOLEAN
           /\ peers' \in [IDs -> Stock]
           /\ pending' \in [IDs -> Reqs]
           /\ disk' \in [IDs -> Peer \cup LegacyPending \cup {None}]
           /\ undo' \in Undo
  BY DEF TypeOK, BeginSave, Undo, Stock, Reqs

(* The first start finds no file, or one with a request of an old release. *)
LEMMA InitType == Init => TypeOK
  <1>. SUFFICES ASSUME Init PROVE TypeOK
    OBVIOUS
  <1>1. disk \in [IDs -> Peer \cup LegacyPending \cup {None}]
    BY DEF Init, Empty, LegacyPending
  <1>. QED
    BY <1>1 DEF Init, TypeOK, Empty

(* Every operation of the store, every outcome of a save, a crash and a    *)
(* restart leave the state well formed.                                    *)
LEMMA NextType == TypeOK /\ [Next]_vars => TypeOK'
  <1>. SUFFICES ASSUME TypeOK, [Next]_vars PROVE TypeOK'
    OBVIOUS
  <1>p. /\ Pruned \in [IDs -> Reqs]
        /\ \A i \in IDs : Pruned[i] # None => Pruned[i] = pending[i]
    BY PrunedType
  <1>1. ASSUME NEW i \in IDs, NEW f \in FPs, NEW n \in Names, NEW c \in Codes, NEW t \in Tokens,
               PutPending(i, f, n, c, t)
        PROVE  TypeOK'
    <2>1. pending' \in [IDs -> Reqs]
      <3>1. [fp |-> f, name |-> n, code |-> c, token |-> t, age |-> 0] \in Request
        BY DEF Request
      <3>. QED
        BY <1>p, <1>1, <3>1 DEF PutPending, Refuse, Reqs
    <2>. QED
      BY <1>1, <2>1 DEF PutPending, Refuse, TypeOK, Reqs
  <1>2. ASSUME NEW i \in IDs, Show(i)
        PROVE  TypeOK'
    <2>1. Pruned[i] \in Request
      BY <1>p, <1>2 DEF Show, Reqs
    <2>2. shown' \in Snapshot
      BY <1>2, <2>1 DEF Show, Request, Snapshot
    <2>. QED
      BY <1>p, <1>2, <2>2 DEF Show, TypeOK, Reqs
  <1>3. ASSUME NEW i \in IDs, Unpair(i)
        PROVE  TypeOK'
    <2>1. pending \in [IDs -> Reqs]
      BY DEF TypeOK, Reqs
    <2>2. PICK e \in Resolve(i, AnyState, pending) : BeginSave(e[1], None, None, pending)
      BY <1>3 DEF Unpair
    <2>3. e[1] \in IDs
      BY <2>1, ResolveFinds
    <2>4. /\ up' \in BOOLEAN
          /\ peers' \in [IDs -> Stock]
          /\ pending' \in [IDs -> Reqs]
          /\ disk' \in [IDs -> Peer \cup LegacyPending \cup {None}]
          /\ undo' \in Undo
      BY <2>1, <2>2, <2>3, BeginSaveType DEF Stock, Reqs
    <2>. QED
      BY <1>3, <2>4 DEF Unpair, TypeOK, Stock, Reqs
  <1>4. ASSUME NEW q \in Queries, Reject(q)
        PROVE  TypeOK'
    <2>1. CASE \E e \in Resolve(q, AnyState, Pruned) :
                 BeginSave(e[1], [state |-> "rejected", fp |-> Entry(e, Pruned).fp,
                                  name |-> Entry(e, Pruned).name], None, Pruned)
      <3>1. PICK e \in Resolve(q, AnyState, Pruned) :
                 BeginSave(e[1], [state |-> "rejected", fp |-> Entry(e, Pruned).fp,
                                  name |-> Entry(e, Pruned).name], None, Pruned)
        BY <2>1
      <3>2. e[1] \in IDs /\ Entry(e, Pruned) \in Peer \cup Request
        BY <1>p, ResolveFinds
      <3>3. [state |-> "rejected", fp |-> Entry(e, Pruned).fp, name |-> Entry(e, Pruned).name] \in Stock
        BY <3>2 DEF Peer, Request, Stock
      <3>4. /\ up' \in BOOLEAN
            /\ peers' \in [IDs -> Stock]
            /\ pending' \in [IDs -> Reqs]
            /\ disk' \in [IDs -> Peer \cup LegacyPending \cup {None}]
            /\ undo' \in Undo
        BY <1>p, <3>1, <3>2, <3>3, BeginSaveType DEF Reqs
      <3>. QED
        BY <1>4, <3>4 DEF Reject, TypeOK, Stock, Reqs
    <2>2. CASE Refuse(Pruned)
      BY <1>p, <1>4, <2>2 DEF Reject, Refuse, TypeOK, Reqs
    <2>. QED
      BY <1>4, <2>1, <2>2 DEF Reject
  <1>5. ASSUME NEW i \in IDs, NEW n \in Names, UpdateName(i, n)
        PROVE  TypeOK'
    <2>1. pending \in [IDs -> Reqs] /\ pending[i] \in Reqs
      BY DEF TypeOK, Reqs
    <2>2. [peers[i] EXCEPT !.name = n] \in Stock
      BY <1>5 DEF UpdateName, TypeOK, Peer, Stock
    <2>3. BeginSave(i, [peers[i] EXCEPT !.name = n], pending[i], pending)
      BY <1>5 DEF UpdateName
    <2>4. /\ up' \in BOOLEAN
          /\ peers' \in [IDs -> Stock]
          /\ pending' \in [IDs -> Reqs]
          /\ disk' \in [IDs -> Peer \cup LegacyPending \cup {None}]
          /\ undo' \in Undo
      BY <2>1, <2>2, <2>3, BeginSaveType
    <2>. QED
      BY <1>5, <2>4 DEF UpdateName, TypeOK, Stock, Reqs
  <1>6. CASE Cancel
    BY <1>6 DEF Cancel, TypeOK
  <1>7. CASE Approve
    <2>1. CASE \E e \in Resolve(shown.id, {"pending"}, Pruned) :
                 BeginSave(e[1], [state |-> "trusted", fp |-> Pruned[e[1]].fp,
                                  name |-> Pruned[e[1]].name], None, Pruned)
      <3>1. PICK e \in Resolve(shown.id, {"pending"}, Pruned) :
                 BeginSave(e[1], [state |-> "trusted", fp |-> Pruned[e[1]].fp,
                                  name |-> Pruned[e[1]].name], None, Pruned)
        BY <2>1
      <3>2. e[1] \in IDs /\ Pruned[e[1]] # None
        BY <1>p, ResolveFinds
      <3>3. [state |-> "trusted", fp |-> Pruned[e[1]].fp, name |-> Pruned[e[1]].name] \in Stock
        BY <1>p, <3>2 DEF Peer, Request, Stock, Reqs
      <3>4. /\ up' \in BOOLEAN
            /\ peers' \in [IDs -> Stock]
            /\ pending' \in [IDs -> Reqs]
            /\ disk' \in [IDs -> Peer \cup LegacyPending \cup {None}]
            /\ undo' \in Undo
        BY <1>p, <3>1, <3>2, <3>3, BeginSaveType DEF Reqs
      <3>. QED
        BY <1>7, <3>4 DEF Approve, TypeOK, Stock, Reqs
    <2>2. CASE Refuse(Pruned)
      BY <1>p, <1>7, <2>2 DEF Approve, Refuse, TypeOK, Reqs
    <2>. QED
      BY <1>7, <2>1, <2>2 DEF Approve
  <1>8. CASE ResolveTrusted
    BY <1>p, <1>8 DEF ResolveTrusted, Refuse, TypeOK, Reqs
  <1>9. CASE SaveOk
    BY <1>9 DEF SaveOk, TypeOK
  <1>10. CASE SaveFail
    <2>1. undo \in Undo
      BY <1>10 DEF SaveFail, TypeOK
    <2>. QED
      BY <1>10, <2>1 DEF SaveFail, Rollback, TypeOK, Undo
  <1>11. CASE Crash
    BY <1>11 DEF Crash, TypeOK, Empty
  <1>12. CASE Load
    <2>1. \A i \in IDs : Restored(disk[i]) \in Stock
      BY DEF TypeOK, Restored, Peer, LegacyPending, Stock
    <2>. QED
      BY <1>12, <2>1 DEF Load, TypeOK, Stock
  <1>13. CASE Tick
    <2>1. \A r \in Reqs : Older(r) \in Reqs
      BY DEF Older, Request, Reqs
    <2>2. undo' \in Undo \cup {None}
      BY <1>13, <2>1 DEF Tick, TypeOK, Undo, Reqs
    <2>. QED
      BY <1>13, <2>1, <2>2 DEF Tick, TypeOK, Reqs
  <1>14. CASE UNCHANGED vars
    BY <1>14 DEF vars, TypeOK
  <1>. QED
    BY <1>1, <1>2, <1>3, <1>4, <1>5, <1>6, <1>7, <1>8, <1>9, <1>10, <1>11, <1>12, <1>13, <1>14
       DEF Next, Queries

(* The store is well formed in every reachable state; in particular Load   *)
(* never takes over a pending entry of an older release.                   *)
THEOREM TypeCorrect == Spec => []TypeOK
  <1>1. Init => TypeOK
    BY InitType
  <1>2. TypeOK /\ [Next]_vars => TypeOK'
    BY NextType
  <1>. QED
    BY <1>1, <1>2, PTL DEF Spec

-----------------------------------------------------------------------------
(***************************************************************************)
(* The inductive invariant.  LockInv relates memory, disk and the undo     *)
(* record of a save in progress; TrustInv keeps requests and trust apart,  *)
(* also for what a rollback would put back; OwnerInv says that every entry *)
(* anywhere is filed under the device its certificate names.               *)
(***************************************************************************)
TrustedEntry(p) == p # None /\ p.state = "trusted"

LockInv ==
    /\ ~up => undo = None /\ \A i \in IDs : pending[i] = None /\ peers[i] = None
    /\ up /\ undo = None => \A i \in IDs : disk[i] = peers[i]
    /\ undo # None => up /\ \A i \in IDs : disk[i] = IF i = undo.id THEN undo.peer ELSE peers[i]

TrustInv ==
    /\ \A i \in IDs : pending[i] # None => ~TrustedEntry(peers[i])
    /\ undo # None =>
         /\ undo.req # None => ~TrustedEntry(undo.peer)
         /\ TrustedEntry(undo.peer) /\ TrustedEntry(peers[undo.id])
              => peers[undo.id].fp = undo.peer.fp

OwnerInv ==
    /\ \A i \in IDs : /\ pending[i] # None => Owner[pending[i].fp] = i
                      /\ peers[i] # None => Owner[peers[i].fp] = i
                      /\ disk[i] # None => Owner[disk[i].fp] = i
    /\ undo # None => /\ undo.req # None => Owner[undo.req.fp] = undo.id
                      /\ undo.peer # None => Owner[undo.peer.fp] = undo.id

StoreInv == TypeOK /\ LockInv /\ TrustInv /\ OwnerInv

(* What the steps of Next amount to for the invariant.                     *)
Keeps(pend) ==
    /\ pend \in [IDs -> Reqs]
    /\ \A i \in IDs : pend[i] # None => pend[i] = pending[i]

Shrinks == UNCHANGED <<up, peers, disk, undo>> /\ Keeps(pending')

Inserts(i, f, n, c, t) ==
    /\ Unlocked
    /\ Owner[f] = i
    /\ t \notin Held
    /\ ~TrustedEntry(peers[i])
    /\ Pruned[i] # None \/ ~(Cardinality({j \in IDs : Pruned[j] # None}) >= MaxPending)
    /\ UNCHANGED <<up, peers, disk, undo, shown>>
    /\ pending' = [Pruned EXCEPT ![i] =
                      [fp |-> f, name |-> n, code |-> c, token |-> t, age |-> 0]]

Sound(i, p, r) ==
    /\ p # None => Owner[p.fp] = i
    /\ TrustedEntry(p) => r = None
    /\ TrustedEntry(p) /\ TrustedEntry(peers[i]) => p.fp = peers[i].fp

Begins(i, p, r, pend) ==
    /\ Unlocked
    /\ Keeps(pend)
    /\ r = None \/ r = pend[i]
    /\ Sound(i, p, r)
    /\ BeginSave(i, p, r, pend)

Step ==
    \/ Shrinks
    \/ \E i \in IDs, f \in FPs, n \in Names, c \in Codes, t \in Tokens : Inserts(i, f, n, c, t)
    \/ \E i \in IDs, p \in Stock, r \in Reqs, pend \in [IDs -> Reqs] : Begins(i, p, r, pend)
    \/ SaveOk \/ SaveFail \/ Crash \/ Load \/ Tick

(* Each operation of the store is one of these: approve and rename are     *)
(* sound because of TrustInv, all of them because of OwnerInv.             *)
LEMMA NextIsStep ==
    ASSUME StoreInv, [Next]_vars PROVE Step
  <1>. USE DEF StoreInv
  <1>p. Keeps(Pruned) /\ Keeps(pending)
    BY PrunedType DEF Keeps, TypeOK, Reqs
  <1>1. ASSUME NEW i \in IDs, NEW f \in FPs, NEW n \in Names, NEW c \in Codes, NEW t \in Tokens,
               PutPending(i, f, n, c, t)
        PROVE  Step
    <2>1. CASE Refused(i, f, Pruned)
      BY <1>p, <1>1, <2>1 DEF PutPending, Refuse, Shrinks, Step
    <2>2. CASE ~Refused(i, f, Pruned)
      <3>1. Inserts(i, f, n, c, t)
        BY <1>1, <2>2 DEF PutPending, Refused, CertificateNames, Inserts, IsTrusted, TrustedEntry
      <3>. QED
        BY <3>1 DEF Step
    <2>. QED
      BY <2>1, <2>2
  <1>2. ASSUME NEW i \in IDs, Show(i)
        PROVE  Step
    BY <1>p, <1>2 DEF Show, Shrinks, Step
  <1>3. ASSUME NEW i \in IDs, Unpair(i)
        PROVE  Step
    <2>1. PICK e \in Resolve(i, AnyState, pending) : BeginSave(e[1], None, None, pending)
      BY <1>3 DEF Unpair
    <2>2. e[1] \in IDs
      BY <1>p, ResolveFinds DEF Keeps
    <2>3. Begins(e[1], None, None, pending)
      BY <1>p, <1>3, <2>1 DEF Unpair, Begins, Sound, TrustedEntry
    <2>. QED
      BY <1>p, <2>2, <2>3 DEF Keeps, Step, Stock, Reqs
  <1>4. ASSUME NEW q \in Queries, Reject(q)
        PROVE  Step
    <2>1. CASE Refuse(Pruned)
      BY <1>p, <2>1 DEF Refuse, Shrinks, Step
    <2>2. ASSUME NEW e \in Resolve(q, AnyState, Pruned),
                 BeginSave(e[1], [state |-> "rejected", fp |-> Entry(e, Pruned).fp,
                                  name |-> Entry(e, Pruned).name], None, Pruned)
          PROVE  Step
      <3>. DEFINE p == [state |-> "rejected", fp |-> Entry(e, Pruned).fp,
                        name |-> Entry(e, Pruned).name]
      <3>1. /\ e[1] \in IDs
            /\ e[2] = "pending" => Pruned[e[1]] # None
            /\ e[2] # "pending" => peers[e[1]] # None
            /\ Entry(e, Pruned) \in Peer \cup Request
        BY <1>p, ResolveFinds DEF Keeps
      <3>2. p \in Stock
        BY <3>1 DEF Peer, Request, Stock
      <3>3. Owner[p.fp] = e[1]
        BY <1>p, <3>1 DEF Entry, OwnerInv, Keeps
      <3>4. Begins(e[1], p, None, Pruned)
        BY <1>p, <1>4, <2>2, <3>3 DEF Reject, Begins, Sound, TrustedEntry
      <3>. QED
        BY <1>p, <3>1, <3>2, <3>4 DEF Keeps, Step, Reqs
    <2>. QED
      BY <1>4, <2>1, <2>2 DEF Reject
  <1>5. ASSUME NEW i \in IDs, NEW n \in Names, UpdateName(i, n)
        PROVE  Step
    <2>. DEFINE p == [peers[i] EXCEPT !.name = n]
    <2>1. peers[i] \in Peer
      BY <1>5 DEF UpdateName, TypeOK
    <2>2. p \in Stock /\ p.fp = peers[i].fp /\ p.state = peers[i].state
      BY <2>1 DEF Peer, Stock
    <2>3. Sound(i, p, pending[i])
      BY <1>5, <2>1, <2>2 DEF UpdateName, Sound, TrustedEntry, TrustInv, OwnerInv
    <2>4. Begins(i, p, pending[i], pending)
      BY <1>p, <1>5, <2>3 DEF UpdateName, Begins
    <2>5. pending[i] \in Reqs /\ pending \in [IDs -> Reqs]
      BY <1>p DEF Keeps
    <2>. QED
      BY <2>2, <2>4, <2>5 DEF Step
  <1>6. CASE Cancel
    BY <1>p, <1>6 DEF Cancel, Shrinks, Step
  <1>7. CASE Approve
    <2>1. CASE Refuse(Pruned)
      BY <1>p, <2>1 DEF Refuse, Shrinks, Step
    <2>2. ASSUME NEW e \in Resolve(shown.id, {"pending"}, Pruned),
                 BeginSave(e[1], [state |-> "trusted", fp |-> Pruned[e[1]].fp,
                                  name |-> Pruned[e[1]].name], None, Pruned)
          PROVE  Step
      <3>. DEFINE p == [state |-> "trusted", fp |-> Pruned[e[1]].fp,
                        name |-> Pruned[e[1]].name]
      <3>1. e[1] \in IDs /\ Pruned[e[1]] # None
        BY <1>p, ResolveFinds DEF Keeps
      <3>2. Pruned[e[1]] \in Request /\ Pruned[e[1]] = pending[e[1]]
        BY <1>p, <3>1 DEF Keeps, Reqs
      <3>3. p \in Stock
        BY <3>2 DEF Peer, Request, Stock
      <3>4. Owner[p.fp] = e[1] /\ ~TrustedEntry(peers[e[1]])
        BY <3>1, <3>2 DEF OwnerInv, TrustInv
      <3>5. Begins(e[1], p, None, Pruned)
        BY <1>p, <1>7, <2>2, <3>4 DEF Approve, Begins, Sound
      <3>. QED
        BY <1>p, <3>1, <3>3, <3>5 DEF Keeps, Step, Reqs
    <2>. QED
      BY <1>7, <2>1, <2>2 DEF Approve
  <1>8. CASE ResolveTrusted
    BY <1>p, <1>8 DEF ResolveTrusted, Refuse, Shrinks, Step
  <1>9. CASE SaveOk \/ SaveFail \/ Crash \/ Load \/ Tick
    BY <1>9 DEF Step
  <1>10. CASE UNCHANGED vars
    BY <1>p, <1>10 DEF vars, Shrinks, Step
  <1>. QED
    BY <1>1, <1>2, <1>3, <1>4, <1>5, <1>6, <1>7, <1>8, <1>9, <1>10 DEF Next, Queries

(* Before the first start the invariant holds: memory is empty, and the    *)
(* file holds at most a request under the device its certificate names.    *)
LEMMA InitStoreInv == Init => StoreInv
  <1>. SUFFICES ASSUME Init PROVE StoreInv
    OBVIOUS
  <1>1. TypeOK
    BY InitType
  <1>2. LockInv /\ TrustInv
    BY DEF Init, Empty, LockInv, TrustInv
  <1>3. \A i \in IDs : disk[i] # None => Owner[disk[i].fp] = i
    BY DEF Init, Empty, LegacyPending
  <1>4. OwnerInv
    BY <1>3 DEF Init, Empty, OwnerInv
  <1>. QED
    BY <1>1, <1>2, <1>4 DEF StoreInv

(* Time only ages requests, the ones a rollback would put back too.        *)
LEMMA TickAges ==
    ASSUME TypeOK, Tick
    PROVE  /\ \A i \in IDs : pending'[i] # None =>
                 /\ pending[i] # None
                 /\ pending'[i].fp = pending[i].fp
                 /\ pending'[i].token = pending[i].token
           /\ undo' = None <=> undo = None
           /\ undo # None => /\ undo'.id = undo.id /\ undo'.peer = undo.peer
                             /\ undo'.req # None => /\ undo.req # None
                                                     /\ undo'.req.fp = undo.req.fp
                                                     /\ undo'.req.token = undo.req.token
  <1>1. \A r \in Reqs : /\ Older(r) \in Reqs
                        /\ Older(r) # None => r # None /\ Older(r).fp = r.fp /\ Older(r).token = r.token
    BY DEF Older, Reqs, Request
  <1>2. \A i \in IDs : pending[i] \in Reqs /\ pending'[i] = Older(pending[i])
    BY DEF TypeOK, Tick, Reqs
  <1>3. undo = None => undo' = None
    BY DEF Tick
  <1>4. ASSUME undo # None
        PROVE  /\ undo.req \in Reqs
               /\ undo' \in Undo /\ undo'.id = undo.id /\ undo'.peer = undo.peer
               /\ undo'.req = Older(undo.req)
    <2>1. undo \in Undo
      BY <1>4 DEF TypeOK
    <2>2. undo' = [undo EXCEPT !.req = Older(undo.req)]
      BY <1>4 DEF Tick
    <2>. QED
      BY <1>1, <2>1, <2>2 DEF Undo, Reqs
  <1>. QED
    BY <1>1, <1>2, <1>3, <1>4

(* A save in progress, its two outcomes, crashes and restarts keep memory, *)
(* disk and the undo record related.                                       *)
LEMMA StepLock == ASSUME StoreInv, Step PROVE LockInv'
  <1>. USE DEF StoreInv, LockInv, TypeOK
  <1>1. CASE Shrinks
    BY <1>1 DEF Shrinks, Keeps
  <1>2. ASSUME NEW i \in IDs, NEW f \in FPs, NEW n \in Names, NEW c \in Codes, NEW t \in Tokens,
               Inserts(i, f, n, c, t)
        PROVE  LockInv'
    BY <1>2 DEF Inserts, Unlocked
  <1>3. ASSUME NEW i \in IDs, NEW p \in Stock, NEW r \in Reqs, NEW pend \in [IDs -> Reqs],
               Begins(i, p, r, pend)
        PROVE  LockInv'
    <2>1. undo' # None
      BY <1>3, BeginSaveType DEF Begins
    <2>. QED
      BY <1>3, <2>1 DEF Begins, BeginSave, Unlocked
  <1>4. CASE SaveOk
    BY <1>4 DEF SaveOk
  <1>5. CASE SaveFail
    BY <1>5 DEF SaveFail, Rollback, Undo
  <1>6. CASE Crash
    BY <1>6 DEF Crash, Empty
  <1>7. CASE Load
    BY <1>7 DEF Load
  <1>8. CASE Tick
    BY <1>8, TickAges DEF Tick
  <1>. QED
    BY <1>1, <1>2, <1>3, <1>4, <1>5, <1>6, <1>7, <1>8 DEF Step

(* No step makes a device both trusted and pending, or prepares a rollback *)
(* or a commit that would.                                                 *)
LEMMA StepTrust == ASSUME StoreInv, Step PROVE TrustInv'
  <1>. USE DEF StoreInv, TrustInv, TypeOK
  <1>1. CASE Shrinks
    BY <1>1 DEF Shrinks, Keeps
  <1>2. ASSUME NEW i \in IDs, NEW f \in FPs, NEW n \in Names, NEW c \in Codes, NEW t \in Tokens,
               Inserts(i, f, n, c, t)
        PROVE  TrustInv'
    BY <1>2, PrunedType DEF Inserts, Unlocked
  <1>3. ASSUME NEW i \in IDs, NEW p \in Stock, NEW r \in Reqs, NEW pend \in [IDs -> Reqs],
               Begins(i, p, r, pend)
        PROVE  TrustInv'
    BY <1>3 DEF Begins, BeginSave, Keeps, Sound
  <1>4. CASE SaveOk
    BY <1>4 DEF SaveOk
  <1>5. CASE SaveFail
    BY <1>5 DEF SaveFail, Rollback, Undo
  <1>6. CASE Crash
    BY <1>6 DEF Crash, Empty
  <1>7. CASE Load
    BY <1>7 DEF Load, LockInv
  <1>8. CASE Tick
    BY <1>8, TickAges DEF Tick
  <1>. QED
    BY <1>1, <1>2, <1>3, <1>4, <1>5, <1>6, <1>7, <1>8 DEF Step

(* Every entry stays filed under the device its certificate names.         *)
LEMMA StepOwner == ASSUME StoreInv, Step PROVE OwnerInv'
  <1>. USE DEF StoreInv, OwnerInv, TypeOK
  <1>1. CASE Shrinks
    BY <1>1 DEF Shrinks, Keeps
  <1>2. ASSUME NEW i \in IDs, NEW f \in FPs, NEW n \in Names, NEW c \in Codes, NEW t \in Tokens,
               Inserts(i, f, n, c, t)
        PROVE  OwnerInv'
    BY <1>2, PrunedType DEF Inserts, Unlocked
  <1>3. ASSUME NEW i \in IDs, NEW p \in Stock, NEW r \in Reqs, NEW pend \in [IDs -> Reqs],
               Begins(i, p, r, pend)
        PROVE  OwnerInv'
    BY <1>3 DEF Begins, BeginSave, Keeps, Sound
  <1>4. CASE SaveOk
    BY <1>4 DEF SaveOk
  <1>5. CASE SaveFail
    BY <1>5 DEF SaveFail, Rollback, Undo
  <1>6. CASE Crash
    BY <1>6 DEF Crash, Empty
  <1>7. CASE Load
    BY <1>7 DEF Load, LockInv, Restored
  <1>8. CASE Tick
    BY <1>8, TickAges DEF Tick
  <1>. QED
    BY <1>1, <1>2, <1>3, <1>4, <1>5, <1>6, <1>7, <1>8 DEF Step

(* The invariant is inductive: no operation of the store, outcome of a     *)
(* save, crash or restart breaks it.                                       *)
LEMMA NextStoreInv == StoreInv /\ [Next]_vars => StoreInv'
  <1>. SUFFICES ASSUME StoreInv, [Next]_vars PROVE StoreInv'
    OBVIOUS
  <1>1. Step
    BY NextIsStep
  <1>2. TypeOK'
    BY NextType DEF StoreInv
  <1>3. LockInv' /\ TrustInv' /\ OwnerInv'
    BY <1>1, StepLock, StepTrust, StepOwner
  <1>. QED
    BY <1>2, <1>3 DEF StoreInv

(* Memory, file and the undo record of a save stay related as StoreInv     *)
(* says, in every state the daemon can reach (store.go: the rollbacks, the *)
(* rename in saveLocked, Load).                                            *)
THEOREM StoreInvariant == Spec => []StoreInv
  <1>1. Init => StoreInv
    BY InitStoreInv
  <1>2. StoreInv /\ [Next]_vars => StoreInv'
    BY NextStoreInv
  <1>. QED
    BY <1>1, <1>2, PTL DEF Spec

-----------------------------------------------------------------------------
(* The store's safety properties follow from the invariant.                *)

(* Nothing trusted is ever hidden by a pending request of the same device  *)
(* (Get, List), also after a save of an approval or a removal has failed.  *)
THEOREM PendingNeverTrustedHolds == Spec => []PendingNeverTrusted
  <1>1. StoreInv => PendingNeverTrusted
    BY DEF StoreInv, TrustInv, PendingNeverTrusted, IsTrusted, TrustedEntry
  <1>. QED
    BY <1>1, StoreInvariant, PTL

(* Whoever takes the lock reads what the next start would load, whatever   *)
(* saves have failed or were cut short before (saveLocked and rollback).   *)
THEOREM DurableWhenUnlockedHolds == Spec => []DurableWhenUnlocked
  <1>1. StoreInv => DurableWhenUnlocked
    <2>. SUFFICES ASSUME StoreInv, Unlocked PROVE disk = peers
      BY DEF DurableWhenUnlocked
    <2>1. \A i \in IDs : disk[i] = peers[i]
      BY DEF StoreInv, LockInv, Unlocked
    <2>. QED
      BY <2>1 DEF StoreInv, TypeOK
  <1>. QED
    BY <1>1, StoreInvariant, PTL

(* TrustedFingerprint finds at most one peer, so the order in which it     *)
(* walks the map does not matter (ValidateCertificateIdentity).            *)
THEOREM OneTrustedIDPerFingerprintHolds == Spec => []OneTrustedIDPerFingerprint
  <1>1. StoreInv => OneTrustedIDPerFingerprint
    BY DEF StoreInv, OwnerInv, OneTrustedIDPerFingerprint, IsTrusted
  <1>. QED
    BY <1>1, StoreInvariant, PTL

(* What a step can do to the file: a save commits the change of the one    *)
(* peer whose undo record it holds, and a start only drops old requests.   *)
LEMMA DiskStep ==
    ASSUME StoreInv, [Next]_vars
    PROVE  \/ disk' = disk
           \/ /\ undo # None
              /\ \A i \in IDs : i # undo.id => disk'[i] = disk[i]
              /\ disk[undo.id] = undo.peer
              /\ disk'[undo.id] = peers[undo.id]
           \/ /\ ~up
              /\ \A i \in IDs : TrustedEntry(disk[i]) => disk'[i] = disk[i]
              /\ \A i \in IDs : ~TrustedEntry(disk[i]) => ~TrustedEntry(disk'[i])
  <1>1. Step
    BY NextIsStep
  <1>2. CASE SaveOk
    BY <1>2 DEF SaveOk, StoreInv, LockInv, TypeOK, Undo
  <1>3. CASE Load
    BY <1>3 DEF Load, Restored, TrustedEntry, StoreInv, TypeOK
  <1>4. CASE ~SaveOk /\ ~Load
    BY <1>1, <1>4 DEF Step, Shrinks, Inserts, Begins, BeginSave, SaveFail, Crash, Tick
  <1>. QED
    BY <1>2, <1>3, <1>4

(* A saved trusted fingerprint is never replaced by another one without    *)
(* the peer being rejected or unpaired in between.                         *)
THEOREM PinnedFingerprintHolds == Spec => PinnedFingerprint
  <1>1. StoreInv /\ [Next]_vars =>
          [\A i \in IDs : IsTrusted(disk, i) /\ IsTrusted(disk', i)
                            => disk'[i].fp = disk[i].fp]_vars
    <2>. SUFFICES ASSUME StoreInv, [Next]_vars,
                         NEW i \in IDs, IsTrusted(disk, i), IsTrusted(disk', i)
                  PROVE  disk'[i].fp = disk[i].fp
      OBVIOUS
    <2>. QED
      BY DiskStep DEF StoreInv, TrustInv, TrustedEntry, IsTrusted
  <1>. QED
    BY <1>1, StoreInvariant, PTL DEF Spec, PinnedFingerprint

(* A save makes durable the operation that holds the lock and no other.    *)
THEOREM SaveCommitsOneChangeHolds == Spec => SaveCommitsOneChange
  <1>1. StoreInv /\ [Next]_vars =>
          [\A i \in IDs : up /\ disk'[i] # disk[i] => undo # None /\ undo.id = i]_vars
    BY DiskStep
  <1>. QED
    BY <1>1, StoreInvariant, PTL DEF Spec, SaveCommitsOneChange

(* The store implements the abstract trust register.                       *)
THEOREM RefinesRegister == Spec => ImplementsRegister
  <1>1. Init => Register!Init
    BY DEF Init, Register!Init, SavedTrust, Empty, IsTrusted, LegacyPending
  <1>2. StoreInv /\ [Next]_vars => [Register!Next]_SavedTrust
    <2>. SUFFICES ASSUME StoreInv, [Next]_vars PROVE [Register!Next]_SavedTrust
      OBVIOUS
    <2>1. CASE disk' = disk
      BY <2>1 DEF SavedTrust, IsTrusted
    <2>2. CASE /\ ~up
               /\ \A i \in IDs : TrustedEntry(disk[i]) => disk'[i] = disk[i]
               /\ \A i \in IDs : ~TrustedEntry(disk[i]) => ~TrustedEntry(disk'[i])
      <3>1. \A i \in IDs : (IF IsTrusted(disk', i) THEN disk'[i].fp ELSE None)
                             = (IF IsTrusted(disk, i) THEN disk[i].fp ELSE None)
        BY <2>2 DEF IsTrusted, TrustedEntry
      <3>. QED
        BY <3>1 DEF SavedTrust
    <2>3. CASE /\ undo # None
               /\ \A i \in IDs : i # undo.id => disk'[i] = disk[i]
               /\ disk[undo.id] = undo.peer
               /\ disk'[undo.id] = peers[undo.id]
      <3>. DEFINE k == undo.id
      <3>1. k \in IDs
        BY <2>3 DEF StoreInv, TypeOK, Undo
      <3>2. \A i \in IDs : i # k => SavedTrust'[i] = SavedTrust[i]
        BY <2>3 DEF SavedTrust, IsTrusted
      <3>3. /\ SavedTrust[k] = IF TrustedEntry(undo.peer) THEN undo.peer.fp ELSE None
            /\ SavedTrust'[k] = IF TrustedEntry(peers[k]) THEN peers[k].fp ELSE None
        BY <2>3, <3>1 DEF SavedTrust, IsTrusted, TrustedEntry
      <3>4. SavedTrust' = [SavedTrust EXCEPT ![k] = SavedTrust'[k]]
        BY <3>1, <3>2 DEF SavedTrust
      <3>5. CASE SavedTrust'[k] = SavedTrust[k]
        BY <3>1, <3>4, <3>5 DEF SavedTrust
      <3>6. CASE SavedTrust[k] # None /\ SavedTrust'[k] = None
        BY <3>1, <3>4, <3>6 DEF Register!Next, Register!Forget
      <3>7. CASE SavedTrust[k] = None /\ SavedTrust'[k] # None
        <4>1. TrustedEntry(peers[k]) /\ SavedTrust'[k] = peers[k].fp
          BY <3>3, <3>7
        <4>2. peers[k].fp \in FPs /\ Owner[peers[k].fp] = k
          BY <3>1, <4>1 DEF StoreInv, TypeOK, OwnerInv, TrustedEntry, Peer
        <4>3. Register!Trust(k, peers[k].fp)
          BY <3>4, <3>7, <4>1, <4>2 DEF Register!Trust
        <4>. QED
          BY <3>1, <4>2, <4>3 DEF Register!Next
      <3>8. SavedTrust[k] # None /\ SavedTrust'[k] # None => SavedTrust'[k] = SavedTrust[k]
        BY <2>3, <3>3 DEF StoreInv, TrustInv
      <3>. QED
        BY <3>5, <3>6, <3>7, <3>8
    <2>. QED
      BY <2>1, <2>2, <2>3, DiskStep
  <1>. QED
    BY <1>1, <1>2, StoreInvariant, PTL DEF Spec, ImplementsRegister, Register!Spec

-----------------------------------------------------------------------------
(***************************************************************************)
(* The bound on requests.  A rollback puts a request back that may not be  *)
(* counted while the save is under way, so PendingBounded is not inductive *)
(* by itself: Claimed counts that request too.  It still is no larger than *)
(* before, since no other request can be stored while s.mu is held.        *)
(***************************************************************************)
Claimed ==
    {i \in IDs : \/ pending[i] # None
                 \/ undo # None /\ undo.id = i /\ undo.req # None}

ClaimedBounded == Cardinality(Claimed) <= MaxPending

\* A set of devices is no larger than one that contains it.
LEMMA FewerIDs ==
    ASSUME NEW S, NEW T, T \subseteq IDs, S \subseteq T
    PROVE  /\ IsFiniteSet(S) /\ Cardinality(S) \in Nat
           /\ Cardinality(T) \in Nat /\ Cardinality(S) <= Cardinality(T)
  <1>1. IsFiniteSet(T)
    BY FS_Subset
  <1>. QED
    BY <1>1, FS_Subset, FS_CardinalityType

(* Of all steps only the insertion of a request can claim another place.   *)
LEMMA ClaimsShrink ==
    ASSUME StoreInv, Step,
           ~ \E i \in IDs, f \in FPs, n \in Names, c \in Codes, t \in Tokens : Inserts(i, f, n, c, t)
    PROVE  Claimed' \subseteq Claimed
  <1>1. CASE Shrinks
    BY <1>1 DEF Shrinks, Keeps, Claimed
  <1>2. ASSUME NEW i \in IDs, NEW p \in Stock, NEW r \in Reqs, NEW pend \in [IDs -> Reqs],
               Begins(i, p, r, pend)
        PROVE  Claimed' \subseteq Claimed
    <2>1. undo' # None /\ undo'.id = i /\ undo'.req = pend[i]
      BY <1>2 DEF Begins, BeginSave, StoreInv, TypeOK, Undo, Stock, Reqs
    <2>2. pending' = [pend EXCEPT ![i] = r] /\ Keeps(pend) /\ (r = None \/ r = pend[i])
      BY <1>2 DEF Begins, BeginSave
    <2>3. \A j \in IDs : pending'[j] # None => pending[j] # None
      BY <2>2 DEF Keeps
    <2>4. pend[i] # None => pending[i] # None
      BY <2>2 DEF Keeps
    <2>. QED
      BY <2>1, <2>3, <2>4 DEF Claimed
  <1>3. CASE SaveOk
    BY <1>3 DEF SaveOk, Claimed
  <1>4. CASE SaveFail
    BY <1>4 DEF SaveFail, Rollback, Claimed, StoreInv, TypeOK
  <1>5. CASE Crash
    BY <1>5 DEF Crash, Claimed, Empty
  <1>6. CASE Load
    BY <1>6 DEF Load, Claimed
  <1>7. CASE Tick
    <2>1. \A i \in IDs : pending'[i] # None => pending[i] # None
      BY <1>7 DEF Tick, Older
    <2>2. undo' # None => undo # None /\ undo'.id = undo.id
                          /\ (undo'.req # None => undo.req # None)
      BY <1>7 DEF Tick, Older, StoreInv, TypeOK, Undo
    <2>. QED
      BY <2>1, <2>2 DEF Claimed
  <1>. QED
    BY <1>1, <1>2, <1>3, <1>4, <1>5, <1>6, <1>7 DEF Step

(* An insertion claims a place only if one is left (PutPending).           *)
LEMMA InsertClaims ==
    ASSUME StoreInv, ClaimedBounded, NEW i \in IDs, NEW f \in FPs, NEW n \in Names,
           NEW c \in Codes, NEW t \in Tokens, Inserts(i, f, n, c, t)
    PROVE  ClaimedBounded'
  <1>. DEFINE Before == {j \in IDs : Pruned[j] # None}
  <1>1. undo = None /\ undo' = None /\ (\A j \in IDs : Pruned[j] # None => pending[j] # None)
    BY PrunedType DEF Inserts, Unlocked, StoreInv
  <1>2. pending' = [Pruned EXCEPT ![i] =
                      [fp |-> f, name |-> n, code |-> c, token |-> t, age |-> 0]]
    BY DEF Inserts
  <1>3. Claimed' \subseteq Before \cup {i} /\ Before \subseteq Claimed /\ Claimed \subseteq IDs
    BY <1>1, <1>2 DEF Claimed, Pruned
  <1>4. /\ Cardinality(Before) <= MaxPending /\ Cardinality(Before) \in Nat
        /\ IsFiniteSet(Before)
    BY <1>3, FewerIDs DEF ClaimedBounded
  <1>5. Cardinality(Claimed') <= Cardinality(Before \cup {i})
    BY <1>3, FewerIDs
  <1>6. Cardinality(Before \cup {i}) <= MaxPending
    <2>1. CASE Pruned[i] # None
      BY <1>4, <2>1, FS_AddElement
    <2>2. CASE Pruned[i] = None
      <3>1. ~(Cardinality(Before) >= MaxPending)
        BY <2>2 DEF Inserts
      <3>2. Cardinality(Before \cup {i}) = Cardinality(Before) + 1
        BY <1>4, <2>2, FS_AddElement
      <3>. QED
        BY <1>4, <3>1, <3>2
    <2>. QED
      BY <2>1, <2>2
  <1>7. Cardinality(Claimed') \in Nat /\ Cardinality(Before \cup {i}) \in Nat
    BY <1>3, <1>4, FewerIDs
  <1>. QED
    BY <1>5, <1>6, <1>7 DEF ClaimedBounded

(* The LAN never fills the pending map beyond maxPending, for any limit:   *)
(* not by any sequence of requests, expiries, decisions and failed saves.  *)
THEOREM PendingBoundedHolds == Spec => []PendingBounded
  <1>1. Init => ClaimedBounded
    <2>. SUFFICES ASSUME Init PROVE ClaimedBounded
      OBVIOUS
    <2>1. Claimed = {}
      BY DEF Init, Empty, Claimed
    <2>. QED
      BY <2>1, FS_EmptySet DEF ClaimedBounded
  <1>2. StoreInv /\ ClaimedBounded /\ [Next]_vars => ClaimedBounded'
    <2>. SUFFICES ASSUME StoreInv, ClaimedBounded, [Next]_vars PROVE ClaimedBounded'
      OBVIOUS
    <2>1. CASE \E i \in IDs, f \in FPs, n \in Names, c \in Codes, t \in Tokens : Inserts(i, f, n, c, t)
      BY <2>1, InsertClaims
    <2>2. CASE ~ \E i \in IDs, f \in FPs, n \in Names, c \in Codes, t \in Tokens : Inserts(i, f, n, c, t)
      <3>1. Claimed' \subseteq Claimed /\ Claimed \subseteq IDs
        BY <2>2, NextIsStep, ClaimsShrink DEF Claimed
      <3>2. /\ Cardinality(Claimed') <= Cardinality(Claimed)
            /\ Cardinality(Claimed') \in Nat /\ Cardinality(Claimed) \in Nat
        BY <3>1, FewerIDs
      <3>. QED
        BY <3>2 DEF ClaimedBounded
    <2>. QED
      BY <2>1, <2>2
  <1>3. ClaimedBounded => PendingBounded
    <2>1. {i \in IDs : pending[i] # None} \subseteq Claimed /\ Claimed \subseteq IDs
      BY DEF Claimed
    <2>. QED
      BY <2>1, FewerIDs DEF ClaimedBounded, PendingBounded
  <1>. QED
    BY <1>1, <1>2, <1>3, StoreInvariant, PTL DEF Spec

-----------------------------------------------------------------------------
(***************************************************************************)
(* Approval tokens.  The query of Approve is an ID, but resolveLocked may  *)
(* still find another peer by its name or a prefix of its ID; that entry   *)
(* is not approved because its token is another one.  TokenInv says that a *)
(* token belongs to one device, wherever it is held: in the pending map,   *)
(* in what a rollback puts back, or on the screen of a terminal.           *)
(***************************************************************************)
TokenInv ==
    /\ \A i, j \in IDs :
         pending[i] # None /\ pending[j] # None /\ pending[i].token = pending[j].token => i = j
    /\ undo # None /\ undo.req # None =>
         \A i \in IDs : pending[i] # None /\ pending[i].token = undo.req.token => i = undo.id
    /\ shown # None =>
         /\ \A i \in IDs : pending[i] # None /\ pending[i].token = shown.token => i = shown.id
         /\ undo # None /\ undo.req # None /\ undo.req.token = shown.token => undo.id = shown.id

\* The screen shows what it did before, nothing, or an entry that was just read.
Reads(i) ==
    /\ Unlocked /\ undo' = undo
    /\ pending' = Pruned
    /\ Pruned[i] # None
    /\ shown' # None /\ shown'.id = i /\ shown'.token = Pruned[i].token

LEMMA ShownStep ==
    ASSUME [Next]_vars
    PROVE  shown' = shown \/ shown' = None \/ \E i \in IDs : TypeOK => Reads(i)
  <1>1. ASSUME NEW i \in IDs, Show(i), TypeOK PROVE Reads(i)
    <2>1. Pruned[i] \in Request
      BY <1>1, PrunedType DEF Show, Reqs
    <2>2. shown' \in Snapshot
      BY <1>1, <2>1 DEF Show, Request, Snapshot
    <2>. QED
      BY <1>1, <2>2 DEF Show, Reads, Unlocked
  <1>. QED
    BY <1>1 DEF Next, PutPending, Unpair, Reject, UpdateName, Cancel, Approve,
                ResolveTrusted, SaveOk, SaveFail, Crash, Load, Tick, vars

LEMMA TokenStep ==
    ASSUME StoreInv, TokenInv, [Next]_vars
    PROVE  TokenInv'
  <1>. USE DEF StoreInv
  <1>1. ASSUME NEW i \in IDs, Reads(i) PROVE TokenInv'
    BY <1>1, PrunedType DEF Reads, Unlocked, TokenInv
  <1>2. ASSUME shown' = shown \/ shown' = None PROVE TokenInv'
    <2>1. CASE Shrinks
      BY <1>2, <2>1 DEF Shrinks, Keeps, TokenInv
    <2>2. ASSUME NEW i \in IDs, NEW f \in FPs, NEW n \in Names, NEW c \in Codes, NEW t \in Tokens,
                 Inserts(i, f, n, c, t)
          PROVE  TokenInv'
      <3>1. undo = None /\ undo' = None /\ shown' = shown
        BY <2>2 DEF Inserts, Unlocked
      <3>2. /\ \A j \in IDs : pending[j] # None => pending[j].token # t
            /\ shown # None => shown.token # t
        BY <2>2 DEF Inserts, Held
      <3>3. \A j \in IDs : pending'[j] # None =>
              \/ j # i /\ pending'[j] = pending[j]
              \/ j = i /\ pending'[j].token = t
        BY <2>2, PrunedType DEF Inserts
      <3>. QED
        BY <3>1, <3>2, <3>3 DEF TokenInv
    <2>3. ASSUME NEW i \in IDs, NEW p \in Stock, NEW r \in Reqs, NEW pend \in [IDs -> Reqs],
                 Begins(i, p, r, pend)
          PROVE  TokenInv'
      <3>1. undo' # None /\ undo'.id = i /\ undo'.req = pend[i]
        BY <2>3 DEF Begins, BeginSave, TypeOK, Undo, Stock, Reqs
      <3>2. pending' = [pend EXCEPT ![i] = r] /\ Keeps(pend) /\ (r = None \/ r = pend[i])
        BY <2>3 DEF Begins, BeginSave
      <3>3. \A j \in IDs : pending'[j] # None => pending'[j] = pending[j]
        BY <3>2 DEF Keeps
      <3>4. pend[i] # None => pend[i] = pending[i]
        BY <3>2 DEF Keeps
      <3>. QED
        BY <1>2, <3>1, <3>3, <3>4 DEF TokenInv
    <2>4. CASE SaveOk
      BY <1>2, <2>4 DEF SaveOk, TokenInv
    <2>5. CASE SaveFail
      <3>1. /\ undo' = None
            /\ \A j \in IDs : pending'[j] = IF j = undo.id THEN undo.req ELSE pending[j]
        BY <2>5 DEF SaveFail, Rollback, TypeOK
      <3>. QED
        BY <1>2, <2>5, <3>1 DEF SaveFail, TokenInv
    <2>6. CASE Crash
      BY <1>2, <2>6 DEF Crash, Empty, TokenInv
    <2>7. CASE Load
      BY <1>2, <2>7 DEF Load, TokenInv
    <2>8. CASE Tick
      <3>1. \A r \in Reqs : Older(r) # None => r # None /\ Older(r).token = r.token
        BY DEF Older, Request, Reqs
      <3>2. \A i \in IDs : pending'[i] # None =>
              pending[i] # None /\ pending'[i].token = pending[i].token
        BY <2>8, <3>1 DEF Tick, TypeOK, Reqs
      <3>3. undo' # None /\ undo'.req # None =>
              /\ undo # None /\ undo.req # None /\ undo'.id = undo.id
              /\ undo'.req.token = undo.req.token
        BY <2>8, <3>1 DEF Tick, TypeOK, Undo, Reqs
      <3>. QED
        BY <1>2, <3>2, <3>3 DEF TokenInv
    <2>. QED
      BY <2>1, <2>2, <2>3, <2>4, <2>5, <2>6, <2>7, <2>8, NextIsStep DEF Step
  <1>. QED
    BY <1>1, <1>2, ShownStep

\* A step that makes a peer trusted in memory is an approval, or undoes what failed.
LEMMA TrustingStep ==
    ASSUME StoreInv, [Next]_vars, NEW i \in IDs,
           up, ~IsTrusted(peers, i), IsTrusted(peers', i), undo = None
    PROVE  Approve
  <1>. USE DEF StoreInv
  <1>1. ASSUME NEW j \in IDs, NEW n \in Names, UpdateName(j, n) PROVE FALSE
    BY <1>1 DEF UpdateName, BeginSave, IsTrusted, TypeOK, Peer
  <1>2. ASSUME NEW j \in IDs, Unpair(j) PROVE FALSE
    <2>1. PICK e \in Resolve(j, AnyState, pending) : BeginSave(e[1], None, None, pending)
      BY <1>2 DEF Unpair
    <2>. QED
      BY <2>1 DEF BeginSave, IsTrusted, TypeOK
  <1>3. ASSUME NEW q \in Queries, Reject(q) PROVE FALSE
    <2>1. \/ peers' = peers
          \/ \E e \in Resolve(q, AnyState, Pruned) :
               peers' = [peers EXCEPT ![e[1]] =
                           [state |-> "rejected", fp |-> Entry(e, Pruned).fp,
                            name |-> Entry(e, Pruned).name]]
      BY <1>3 DEF Reject, BeginSave, Refuse
    <2>2. peers' # peers
      BY DEF IsTrusted
    <2>3. PICK e \in Resolve(q, AnyState, Pruned) :
            peers' = [peers EXCEPT ![e[1]] =
                        [state |-> "rejected", fp |-> Entry(e, Pruned).fp,
                         name |-> Entry(e, Pruned).name]]
      BY <2>1, <2>2
    <2>. DEFINE p == [state |-> "rejected", fp |-> Entry(e, Pruned).fp,
                      name |-> Entry(e, Pruned).name]
    <2>4. p.state = "rejected"
      OBVIOUS
    <2>5. peers' = [peers EXCEPT ![e[1]] = p]
      BY <2>3
    <2>. HIDE DEF p
    <2>6. peers'[i] = peers[i] \/ peers'[i] = p
      BY <2>5 DEF TypeOK
    <2>. QED
      BY <2>4, <2>6 DEF IsTrusted
  <1>4. ASSUME NEW j \in IDs, NEW f \in FPs, NEW n \in Names, NEW c \in Codes, NEW t \in Tokens,
               PutPending(j, f, n, c, t)
        PROVE  FALSE
    BY <1>4 DEF PutPending, Refuse
  <1>5. CASE Crash
    BY <1>5 DEF Crash, IsTrusted, Empty
  <1>. QED
    BY <1>1, <1>2, <1>3, <1>4, <1>5
       DEF Next, Show, Cancel, ResolveTrusted, Refuse, SaveOk, SaveFail, Load, Tick, vars, Queries

(* A device only becomes trusted by the approval of the very request that  *)
(* the terminal showed its user (Approve), or when its rejection or its    *)
(* removal could not be saved.                                             *)
THEOREM ApprovedAsShownHolds == Spec => ApprovedAsShown
  <1>1. Init => TokenInv
    BY DEF Init, Empty, TokenInv
  <1>2. StoreInv /\ TokenInv /\ [Next]_vars => TokenInv'
    BY TokenStep
  <1>3. StoreInv /\ TokenInv /\ [Next]_vars =>
          [\A i \in IDs :
             up /\ ~IsTrusted(peers, i) /\ IsTrusted(peers', i) =>
               \/ undo # None /\ undo.id = i
               \/ /\ shown # None /\ shown.id = i
                  /\ pending[i] # None /\ pending[i].age < TTL
                  /\ pending[i].token = shown.token
                  /\ peers'[i].fp = shown.fp]_vars
    <2>. SUFFICES ASSUME StoreInv, TokenInv, [Next]_vars, NEW i \in IDs,
                         up, ~IsTrusted(peers, i), IsTrusted(peers', i),
                         ~(undo # None /\ undo.id = i)
                  PROVE  /\ shown # None /\ shown.id = i
                         /\ pending[i] # None /\ pending[i].age < TTL
                         /\ pending[i].token = shown.token
                         /\ peers'[i].fp = shown.fp
      OBVIOUS
    <2>. USE DEF StoreInv
    <2>1. undo = None
      <3>1. \/ peers'[i] = peers[i] \/ Approve \/ undo = None
            \/ (undo # None /\ SaveFail) \/ Crash
        BY DEF Next, PutPending, Show, Unpair, Reject, UpdateName, Cancel, ResolveTrusted, Refuse,
               Unlocked, SaveOk, Load, Tick, vars
      <3>2. CASE undo # None /\ SaveFail
        BY <3>2 DEF SaveFail, Rollback, IsTrusted, TypeOK
      <3>3. CASE Crash
        BY <3>3 DEF Crash, IsTrusted, Empty
      <3>. QED
        BY <3>1, <3>2, <3>3 DEF IsTrusted, Approve, Unlocked
    <2>2. Approve
      BY <2>1, TrustingStep
    <2>3. PICK e \in Resolve(shown.id, {"pending"}, Pruned) :
            /\ SameRequest(shown, Pruned[e[1]])
            /\ BeginSave(e[1], [state |-> "trusted", fp |-> Pruned[e[1]].fp,
                                name |-> Pruned[e[1]].name], None, Pruned)
      BY <2>2 DEF Approve, Refuse, IsTrusted
    <2>4. Pruned \in [IDs -> Reqs] /\ \A j \in IDs : Pruned[j] # None => Pruned[j] = pending[j]
      BY PrunedType
    <2>5. e[1] \in IDs /\ Pruned[e[1]] # None
      BY <2>4, ResolveFinds
    <2>6. e[1] = i /\ peers'[i].fp = Pruned[i].fp
      BY <2>3, <2>5 DEF BeginSave, IsTrusted, TypeOK
    <2>7. Pruned[i] = pending[i] /\ pending[i] # None
      BY <2>4, <2>5, <2>6
    <2>8. pending[i].age < TTL
      BY <2>5, <2>6, <2>7 DEF Pruned, Live, TypeOK, Request
    <2>9. shown # None /\ pending[i].token = shown.token /\ pending[i].fp = shown.fp
      BY <2>2, <2>3, <2>6, <2>7 DEF Approve, SameRequest
    <2>10. shown.id = i
      BY <2>7, <2>9 DEF TokenInv
    <2>. QED
      BY <2>6, <2>7, <2>8, <2>9, <2>10
  <1>. QED
    BY <1>1, <1>2, <1>3, StoreInvariant, PTL DEF Spec, ApprovedAsShown
=============================================================================
