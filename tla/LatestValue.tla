----------------------------- MODULE LatestValue -----------------------------
(***************************************************************************)
(* The latest-value queues of internal/daemon/daemon.go: a channel of      *)
(* capacity one whose producers replace an unsent value instead of waiting *)
(* for the consumer.  Two instances of the same algorithm:                 *)
(*   pc.out      producer localLoop (enqueuePeer), consumer writeLoop;     *)
(*   clipWrites  producers the reader goroutines of all connections        *)
(*               (enqueueClipboard), consumer clipboardWriteLoop.          *)
(* A value is represented by its place in the order of the enqueue calls.  *)
(* The names of the specification begin with Queue because FramesProofs    *)
(* extends this module beside Frames.                                      *)
(***************************************************************************)
EXTENDS Naturals

CONSTANTS
    Producers,    \* the goroutines that enqueue
    MaxValues     \* bound on the number of values enqueued

ASSUME QueueAssumption == MaxValues \in Nat \ {0}

None == 0
Values == 1..MaxValues

VARIABLES
    slot,      \* what the channel holds, or None
    pc,        \* the select statement a producer is at
    val,       \* the value a producer enqueues, or enqueued last
    newest,    \* the last value an enqueue call was made with
    taken,     \* the last value the consumer took
    closed,    \* pc.done is closed, or d.ctx is done: the consumer is gone
    returned,  \* history: the values whose calls have returned (None from the start)
    stale      \* history: the values whose calls returned before a later call began

queueVars == <<slot, pc, val, newest, taken, closed, returned, stale>>

QueueInit ==
    /\ slot = None
    /\ pc = [p \in Producers |-> "idle"]
    /\ val = [p \in Producers |-> None]
    /\ newest = None
    /\ taken = None
    /\ closed = FALSE
    /\ returned = {None}
    /\ stale = {}

-----------------------------------------------------------------------------
(* The call and its first non-blocking send.  enqueuePeer returns at once  *)
(* if done is closed; enqueueClipboard goes on, and its last select may    *)
(* then still pick the channel, which nobody reads any more.               *)
Enqueue(p) ==
    /\ pc[p] = "idle"
    /\ newest < MaxValues
    /\ newest' = newest + 1
    /\ stale' = stale \cup returned
    /\ \/ /\ closed
          /\ returned' = returned \cup {newest + 1}
          /\ UNCHANGED <<slot, pc, val>>
       \/ /\ slot = None
          /\ slot' = newest + 1
          /\ val' = [val EXCEPT ![p] = newest + 1]
          /\ returned' = returned \cup {newest + 1}
          /\ UNCHANGED pc
       \/ /\ slot # None
          /\ pc' = [pc EXCEPT ![p] = "drain"]
          /\ val' = [val EXCEPT ![p] = newest + 1]
          /\ UNCHANGED <<slot, returned>>
    /\ UNCHANGED <<taken, closed>>

\* The non-blocking receive that makes room.
DropNew(p) == slot' = slot /\ pc' = [pc EXCEPT ![p] = "idle"]
DrainNothing(p) == slot' = slot /\ pc' = [pc EXCEPT ![p] = "put"]
MakeRoom(p) == slot' = None /\ pc' = [pc EXCEPT ![p] = "put"]

Drain(p) ==
    /\ pc[p] = "drain"
    /\ MakeRoom(p)
    /\ UNCHANGED <<val, newest, taken, closed, returned, stale>>

\* The last select returns.
Return(p) ==
    /\ pc[p] = "put"
    /\ pc' = [pc EXCEPT ![p] = "idle"]
    /\ returned' = returned \cup {val[p]}
    /\ UNCHANGED <<val, newest, taken, closed, stale>>

\* It waits for room ...
Put(p) == Return(p) /\ slot = None /\ slot' = val[p]

\* ... or for the consumer's end.
WaitOn(p) == FALSE
ConsumerGone(p) == closed

GiveUp(p) == Return(p) /\ ConsumerGone(p) /\ UNCHANGED slot

\* The consumer's receive, in writeLoop or clipboardWriteLoop.
Take ==
    /\ ~closed
    /\ slot # None
    /\ taken' = slot
    /\ slot' = None
    /\ UNCHANGED <<pc, val, newest, closed, returned, stale>>

\* unregister closes pc.done; the end of the daemon cancels d.ctx.
Close ==
    /\ ~closed
    /\ closed' = TRUE
    /\ UNCHANGED <<slot, pc, val, newest, taken, returned, stale>>

QueueNext ==
    \/ \E p \in Producers : Enqueue(p) \/ Drain(p) \/ Put(p) \/ GiveUp(p)
    \/ Take \/ Close

QueueSpec == QueueInit /\ [][QueueNext]_queueVars

(* Goroutines are scheduled, and a Go channel serves its blocked senders   *)
(* first come first served (so Put is strongly fair).  Nothing forces a    *)
(* value to be enqueued or the queue to be closed.                         *)
QueueFairness ==
    /\ \A p \in Producers : WF_queueVars(Drain(p)) /\ SF_queueVars(Put(p)) /\ WF_queueVars(GiveUp(p))
    /\ WF_queueVars(Take)

QueueFairSpec == QueueSpec /\ QueueFairness
-----------------------------------------------------------------------------
(* When all enqueue calls have returned and the queue is empty, the value  *)
(* the consumer acted on last is not one whose call had returned before    *)
(* another began: coalescing drops or overtakes only among calls that      *)
(* overlap.  With one producer (pc.out) it is simply the newest value.     *)
LastWins ==
    (\A p \in Producers : pc[p] = "idle") /\ slot = None /\ ~closed => taken \notin stale

(* A producer that has made room waits only while another's value is in    *)
(* the channel, or another is about to drain it.  With one producer it     *)
(* never waits, so a peer whose writeLoop is stuck in a send does not hold *)
(* up localLoop and with it the delivery to the other peers.               *)
WaitsOnlyForOthers ==
    \A p \in Producers :
        pc[p] = "put" /\ slot # None =>
            \E q \in Producers \ {p} : val[q] = slot \/ pc[q] = "drain"

(* An enqueue call returns, also when the queue's consumer goes away while *)
(* the producer is between its selects (the done and ctx.Done cases).      *)
EnqueueReturns == \A p \in Producers : pc[p] # "idle" ~> pc[p] = "idle"
=============================================================================
