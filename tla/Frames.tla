------------------------------- MODULE Frames -------------------------------
(***************************************************************************)
(* The frames of a connection between two daemons: Write, writeAll and     *)
(* Read of internal/protocol/protocol.go, and in internal/daemon/daemon.go *)
(* send with its lock and deadline, writeLoop, and readLoop with its two   *)
(* goroutines: the one that sends pings and ends the session, and the      *)
(* reader, which answers a ping itself and reads nothing meanwhile.        *)
(*                                                                         *)
(* A frame is its header and len bytes of payload; a byte on the wire is   *)
(* the number of the frame it belongs to and its place in it, 0 being the  *)
(* header (written and read as one).                                       *)
(***************************************************************************)
EXTENDS Naturals, Sequences, FiniteSets

CONSTANTS
    A, B,        \* the two daemons
    MaxText,     \* MaxClipboardBytes
    Expand,      \* how many bytes of JSON one byte of text may become
    Overhead,    \* the rest of a message
    MaxFrame,    \* DefaultMaxFrame
    Room,        \* bytes the sockets of a direction hold before a write waits
    MaxEach      \* bound: clipboard messages, and pings, sent by each end

Ends == {A, B}
Other(e) == IF e = A THEN B ELSE A

ASSUME FrameAssumption ==
    /\ A # B
    /\ MaxText \in Nat \ {0} /\ Expand \in Nat \ {0} /\ Overhead \in Nat \ {0}
    /\ MaxFrame \in Nat /\ MaxFrame >= Overhead + Expand * MaxText
    /\ Room \in Nat \ {0}

Goroutines == {"writeLoop", "readLoop", "reader"}
KindOf(g) == [writeLoop |-> "clipboard", readLoop |-> "ping", reader |-> "pong"][g]

Messages == [kind : {"clipboard"}, len : (Overhead + 1)..(Overhead + Expand * MaxText)]
            \cup [kind : {"ping", "pong"}, len : {Overhead}]

VARIABLES
    sent,    \* the messages of each end in the order their frames were begun
    job,     \* the frame a goroutine is writing, and its next byte
    torn,    \* a write of this end failed: crypto/tls fails every later one
    stream,  \* the bytes under way from this end to the other
    part,    \* the bytes of the frame this end's reader is reading
    got,     \* the messages this end has read
    reader,  \* "read", "pong" while it sends an answer, "gone" after an error
    open,    \* this end's socket is open
    cause,   \* the error that ended this end's reading, or made it close
    cut      \* the network carries nothing any more

vars == <<sent, job, torn, stream, part, got, reader, open, cause, cut>>

NoJob == [id |-> 0, next |-> 0]

Init ==
    /\ sent = [e \in Ends |-> <<>>] /\ got = sent /\ stream = sent /\ part = sent
    /\ job = [e \in Ends |-> [g \in Goroutines |-> NoJob]]
    /\ torn = [e \in Ends |-> FALSE]
    /\ reader = [e \in Ends |-> "read"]
    /\ open = [e \in Ends |-> TRUE]
    /\ cause = [e \in Ends |-> "none"]
    /\ cut = FALSE

-----------------------------------------------------------------------------
\* pc.write: one goroutine at a time is in send.
NoLock(e) == TRUE
LockFree(e) == \A g \in Goroutines : job[e][g] = NoJob

\* The limit Write and Read are called with.
LimitOfText == Overhead + MaxText
Limit == MaxFrame

\* A goroutine has something to send: a text, a tick of the pinger, a ping to answer.
Wants(e, g) ==
    /\ job[e][g] = NoJob /\ open[e]
    /\ IF g = "reader" THEN reader[e] = "pong"
       ELSE Cardinality({k \in DOMAIN sent[e] : sent[e][k].kind = KindOf(g)}) < MaxEach

(* What a failed send leads to: writeLoop closes the connection, readLoop  *)
(* returns and its caller closes it, and the reader goes on reading.       *)
SendFails(e, g, why) ==
    /\ torn' = [torn EXCEPT ![e] = TRUE]
    /\ open' = [open EXCEPT ![e] = (g = "reader")]
    /\ reader' = [reader EXCEPT ![e] = IF g = "reader" THEN "read" ELSE @]
    /\ cause' = [cause EXCEPT ![e] = IF g = "reader" THEN @ ELSE why]

\* send takes the lock, and Write checks the length before the first byte.
Begin(e, g, m) ==
    /\ Wants(e, g) /\ LockFree(e)
    /\ m.kind = KindOf(g)
    /\ \/ /\ ~torn[e] /\ m.len <= Limit
          /\ sent' = [sent EXCEPT ![e] = Append(@, m)]
          /\ job' = [job EXCEPT ![e][g] = [id |-> Len(sent[e]) + 1, next |-> 0]]
          /\ UNCHANGED <<torn, open, reader, cause>>
       \/ /\ torn[e] \/ m.len > Limit
          /\ SendFails(e, g, IF torn[e] THEN "error" ELSE "size")
          /\ UNCHANGED <<sent, job>>
    /\ UNCHANGED <<stream, part, got, cut>>

\* writeAll hands over the next byte; after the last one send returns.
WriteByte(e, g) ==
    /\ job[e][g] # NoJob
    /\ ~torn[e] /\ open[e] /\ open[Other(e)] /\ Len(stream[e]) < Room
    /\ stream' = [stream EXCEPT ![e] = Append(@, [id |-> job[e][g].id, at |-> job[e][g].next])]
    /\ LET last == job[e][g].next = sent[e][job[e][g].id].len
           rest == [id |-> job[e][g].id, next |-> job[e][g].next + 1]
       IN  /\ job' = [job EXCEPT ![e][g] = IF last THEN NoJob ELSE rest]
           /\ reader' = [reader EXCEPT ![e] = IF last /\ g = "reader" THEN "read" ELSE @]
    /\ UNCHANGED <<sent, torn, part, got, open, cause, cut>>

\* The write deadline of send ends a write that waits for room.
NoDeadline(e) == FALSE
DeadlinePasses(e) == Len(stream[e]) = Room

\* A write fails: closed by either end, torn before, or past its deadline.
WriteFails(e, g) ==
    /\ job[e][g] # NoJob
    /\ torn[e] \/ ~open[e] \/ ~open[Other(e)] \/ DeadlinePasses(e)
    /\ job' = [job EXCEPT ![e][g] = NoJob]
    /\ SendFails(e, g, "error")
    /\ UNCHANGED <<sent, stream, part, got, cut>>
-----------------------------------------------------------------------------
(* Read: the header says how many bytes to wait for (ReadFull), and these  *)
(* must be one message.                                                    *)
Length(p, e) == sent[Other(e)][p[1].id].len
WaitsForOneMore(p, e) == Len(p) = 2 + Length(p, e)
Complete(p, e) == Len(p) = 1 + Length(p, e)
Decodes(p) == \A k \in DOMAIN p : p[k] = [id |-> p[1].id, at |-> k - 1]

\* The next byte for e: it stays in part, completes a message, or is an error.
ReadByte(e) ==
    /\ reader[e] = "read" /\ open[e] /\ ~cut
    /\ stream[Other(e)] # <<>>
    /\ stream' = [stream EXCEPT ![Other(e)] = Tail(@)]
    /\ LET p == Append(part[e], Head(stream[Other(e)]))
           m == sent[Other(e)][p[1].id]
       IN  \/ /\ Length(p, e) <= Limit /\ ~Complete(p, e)
              /\ part' = [part EXCEPT ![e] = p]
              /\ UNCHANGED <<got, reader, cause>>
           \/ /\ Length(p, e) <= Limit /\ Complete(p, e) /\ Decodes(p)
              /\ part' = [part EXCEPT ![e] = <<>>]
              /\ got' = [got EXCEPT ![e] = Append(@, m)]
              /\ reader' = [reader EXCEPT ![e] = IF m.kind = "ping" THEN "pong" ELSE "read"]
              /\ UNCHANGED cause
           \/ /\ Length(p, e) > Limit \/ (Complete(p, e) /\ ~Decodes(p))
              /\ reader' = [reader EXCEPT ![e] = "gone"]
              /\ cause' = [cause EXCEPT ![e] = "malformed"]
              /\ UNCHANGED <<part, got>>
    /\ UNCHANGED <<sent, job, torn, open, cut>>

\* The same with the bytes read so far taken for the message.
TruncatedOnError(e) ==
    /\ reader[e] = "read"
    /\ ~open[e] \/ cut \/ (stream[Other(e)] = <<>> /\ ~open[Other(e)])
    /\ reader' = [reader EXCEPT ![e] = "gone"]
    /\ cause' = [cause EXCEPT ![e] = IF @ = "none" THEN "error" ELSE @]
    /\ got' = IF part[e] = <<>> THEN got
              ELSE [got EXCEPT ![e] = Append(@, [sent[Other(e)][part[e][1].id] EXCEPT !.len = Len(part[e]) - 1])]
    /\ UNCHANGED <<sent, job, torn, stream, part, open, cut>>

\* EOF, also within a frame, a closed socket, or the read deadline.
ReadFails(e) ==
    /\ reader[e] = "read"
    /\ ~open[e] \/ cut \/ (stream[Other(e)] = <<>> /\ ~open[Other(e)])
    /\ reader' = [reader EXCEPT ![e] = "gone"]
    /\ cause' = [cause EXCEPT ![e] = IF @ = "none" THEN "error" ELSE @]
    /\ UNCHANGED <<sent, job, torn, stream, part, got, open, cut>>

\* readLoop takes the reader's error and returns, unless it is still in send.
ReadLoopReturns(e) ==
    /\ reader[e] = "gone" /\ open[e] /\ job[e]["readLoop"] = NoJob
    /\ open' = [open EXCEPT ![e] = FALSE]
    /\ UNCHANGED <<sent, job, torn, stream, part, got, reader, cause, cut>>

\* Sleep, Wi-Fi loss.
Cut == ~cut /\ cut' = TRUE /\ UNCHANGED <<sent, job, torn, stream, part, got, reader, open, cause>>

Sends(e, g) == WriteByte(e, g) \/ WriteFails(e, g)
Begins(e, g) == \E m \in Messages : Begin(e, g, m)

Next ==
    \/ \E e \in Ends, g \in Goroutines : Begins(e, g) \/ Sends(e, g)
    \/ \E e \in Ends : ReadByte(e) \/ ReadFails(e) \/ ReadLoopReturns(e)
    \/ Cut

Spec == Init /\ [][Next]_vars

(* Goroutines are scheduled, deadlines fire, and a sync.Mutex gets to a    *)
(* waiter that has waited long (so a reader's Begin is strongly fair).     *)
(* Nothing forces a text or a ping to be sent, or the network to be cut.   *)
Fairness ==
    /\ \A e \in Ends, g \in Goroutines : WF_vars(Sends(e, g))
    /\ \A e \in Ends : /\ SF_vars(Begins(e, "reader"))
                       /\ WF_vars(ReadByte(e)) /\ WF_vars(ReadFails(e)) /\ WF_vars(ReadLoopReturns(e))

FairSpec == Spec /\ Fairness
-----------------------------------------------------------------------------
FromA == INSTANCE MessageChannel WITH sent <- sent[A], got <- got[B]
FromB == INSTANCE MessageChannel WITH sent <- sent[B], got <- got[A]

(* In both directions the connection is a channel of whole messages in     *)
(* order, however the bytes of three senders are split, read in parts, or  *)
(* cut off (send's lock, writeAll, ReadFull).                              *)
ImplementsChannel == FromA!Spec /\ FromB!Spec

(* No permitted text, however its bytes are escaped, is refused for its    *)
(* length by Write or Read, and a reader is never out of step with the     *)
(* frames: a connection ends by errors of the network only.                *)
OnlyNetworkErrors == \A e \in Ends : cause[e] \in {"none", "error"}

\* Nobody is in send, and no reader has an answer to send.
AtRest ==
    \A e \in Ends :
        /\ \A g \in Goroutines : job[e][g] = NoJob
        /\ reader[e] = "pong" => ~open[e]

\* Everything begun was read, or the connection had its failure.
AllArrived ==
    \/ \A e \in Ends : got[Other(e)] = sent[e]
    \/ cut
    \/ \E e \in Ends : torn[e]

(* Every send returns, and every reader gets back to reading, although     *)
(* both readers may wait for a lock whose holder waits for the other end's *)
(* reader (the pong is sent by the reader; the write deadline of send).    *)
SendReturns == []<>AtRest

(* As long as the network carries the connection and no write fails, what  *)
(* was begun arrives (ReadFull goes on after every part).                  *)
Arrives == []<>AllArrived
=============================================================================
