-------------------------- MODULE ClipboardDevice --------------------------
(***************************************************************************)
(* One device between its user and one peer: the platform adapter          *)
(* (internal/clipboard), localLoop, clipboardWriteLoop and the suppressor  *)
(* (internal/sync/suppression.go) that keeps a text the peer sent from     *)
(* being sent back when the adapter reports it.                            *)
(*                                                                         *)
(* A device watches its clipboard in one of two ways:                      *)
(*   "poll"   macOS: the change counter is read every 100 ms and, if it    *)
(*            moved, the text is read in a second call; a write clears the *)
(*            pasteboard (which moves the counter) and then sets the text; *)
(*   "watch"  Linux: wl-paste runs a callback for every change, and each   *)
(*            callback is read by a goroutine of its own; a write is done  *)
(*            by a wl-copy process that takes the selection some time      *)
(*            after Write has returned; watchLoop starts wl-paste again    *)
(*            when it exits, and it then reports what it finds.            *)
(* clipWrites holds the latest text (LatestValue has its details), and the *)
(* peer gets what is sent at once; empty and oversized texts are filtered  *)
(* at every stage and are left out.                                        *)
(***************************************************************************)
EXTENDS Naturals, FiniteSets, Sequences, SequencesExt

CONSTANTS
    Texts,        \* clipboard texts, which are told apart by their hash
    Platforms,    \* the platforms in question: "poll", "watch" or both
    TTL,          \* the suppressor's ttl, in ticks
    MaxEntries,   \* maxSuppressionEntries
    MaxCopies,    \* bound: how often the user copies
    MaxReceived,  \* bound: how many texts arrive from the peer
    MaxExits,     \* bound: how often wl-paste exits
    None          \* no text

ASSUME DeviceAssumption ==
    /\ None \notin Texts
    /\ Platforms \subseteq {"poll", "watch"}
    /\ TTL \in Nat \ {0} /\ MaxEntries \in Nat \ {0}
    /\ MaxCopies \in Nat /\ MaxReceived \in Nat /\ MaxExits \in Nat

VARIABLES
    platform,   \* how this device watches its clipboard; it never changes
    board,      \* the text on the system clipboard
    unseen,     \* poll: the change counter has moved since it was last read
    poller,     \* poll: "read" between reading the counter and reading the text
    copiers,    \* watch: for each text, the wl-copy processes that do not own the selection yet
    callbacks,  \* watch: for each text, the goroutines that have it for the event channel
    watching,   \* watch: wl-paste is running
    exits,      \* watch: how often it has exited
    events,     \* the adapter's event channel
    entries,    \* the suppressor's entries, the oldest first
    inbox,      \* clipWrites
    writer,     \* the text clipboardWriteLoop is writing, and where it is
    copied, received, written, sent, \* how often each text was copied, came, was written, was sent
    lost,       \* history: how often its entry was pushed out of the full suppressor, or
                \* expired while something was under way
    owner,      \* who changed the clipboard last: "user", "peer" or "nobody"
    view        \* the last text exchanged with the peer, in either direction

watcher == <<watching, exits>>
adapter == <<unseen, poller, copiers, callbacks, watcher>>
counts == <<copied, received, written, sent>>
suppressor == <<entries, lost>>
vars == <<platform, board, adapter, events, suppressor, inbox, writer, counts, owner, view>>

Idle == [text |-> None, at |-> "idle"]

Init ==
    /\ platform \in Platforms
    /\ board = None /\ unseen = FALSE /\ poller = "idle"
    /\ copied = [t \in Texts |-> 0] /\ received = copied /\ written = copied /\ sent = copied
    /\ copiers = copied /\ callbacks = copied
    /\ events = <<>> /\ entries = <<>> /\ lost = copied
    /\ watching = (platform = "watch") /\ exits = 0
    /\ inbox = None /\ writer = Idle
    /\ owner = "nobody" /\ view = None

-----------------------------------------------------------------------------
(* The suppressor.  prune keeps what has not expired, in its order; an     *)
(* entry that is added beyond the maximum pushes out the oldest.           *)
Live(s) == {k \in DOMAIN s : s[k].age < TTL}

Fresh(s) ==
    LET Nth(i) == CHOOSE k \in Live(s) : Cardinality({j \in Live(s) : j <= k}) = i
    IN  [i \in 1..Cardinality(Live(s)) |-> s[Nth(i)]]

Full(s) == Len(s) >= MaxEntries

Added(s, t) ==
    LET kept == IF Full(s) THEN SubSeq(s, Len(s) - MaxEntries + 2, Len(s)) ELSE s
    IN  Append(kept, [text |-> t, age |-> 0])

\* Consume takes out the first entry with the hash of the text.
NeverSuppressed(s, t) == FALSE
Suppressed(s, t) == \E k \in DOMAIN s : s[k].text = t
Consumed(s, t) == RemoveFirstMatch(s, LAMBDA x : x.text = t)

\* The system clipboard changes hands: the counter moves, the watcher calls back.
Change(t) ==
    /\ board' = t
    /\ unseen' = (unseen \/ platform = "poll")
    /\ callbacks' = IF watching THEN [callbacks EXCEPT ![t] = @ + 1] ELSE callbacks
    /\ UNCHANGED <<poller, watcher>>

Total(f) == FoldFunction(+, 0, f)

\* The user copies a text in some application.
Copy(t) ==
    /\ Total(copied) < MaxCopies
    /\ Change(t)
    /\ copied' = [copied EXCEPT ![t] = @ + 1]
    /\ owner' = "user"
    /\ UNCHANGED <<platform, copiers, events, suppressor, inbox, writer, written, sent, received,
                   view>>

\* A clipboard frame of the peer reaches clipWrites.
Receive(t) ==
    /\ Total(received) < MaxReceived
    /\ received' = [received EXCEPT ![t] = @ + 1]
    /\ inbox' = t
    /\ view' = t
    /\ UNCHANGED <<platform, board, adapter, events, suppressor, writer, copied, written, sent,
                   owner>>

\* clipboardWriteLoop takes a text and adds its entry before it writes.
WriterAdds ==
    /\ writer = Idle
    /\ inbox # None
    /\ LET s == Fresh(entries)
       IN  /\ entries' = Added(s, inbox)
           /\ lost' = IF Full(s) THEN [lost EXCEPT ![Head(s).text] = @ + 1] ELSE lost
    /\ writer' = [text |-> inbox, at |-> "write"]
    /\ inbox' = None
    /\ UNCHANGED <<platform, board, adapter, events, counts, owner, view>>

\* Write on Linux returns once wl-copy, which it does not wait for, has the text.
WriterFeeds ==
    /\ platform = "watch" /\ writer.at = "write"
    /\ copiers' = [copiers EXCEPT ![writer.text] = @ + 1]
    /\ writer' = Idle
    /\ written' = [written EXCEPT ![writer.text] = @ + 1]
    /\ UNCHANGED <<platform, board, unseen, poller, callbacks, watcher, events, suppressor, inbox,
                   copied, sent, received, owner, view>>

\* One of the wl-copy processes takes the selection: two of them in any order.
CopierOwns(t) ==
    /\ copiers[t] > 0
    /\ Change(t)
    /\ copiers' = [copiers EXCEPT ![t] = @ - 1]
    /\ owner' = "peer"
    /\ UNCHANGED <<platform, events, suppressor, inbox, writer, counts, view>>

\* Write on macOS: clearContents, which moves the counter, ...
WriterClears ==
    /\ platform = "poll" /\ writer.at = "write"
    /\ Change(None)
    /\ writer' = [writer EXCEPT !.at = "set"]
    /\ owner' = "peer"
    /\ UNCHANGED <<platform, copiers, events, suppressor, inbox, counts, view>>

\* ... and setString, which does not; it fails if someone else has taken ownership.
WriterSets ==
    /\ writer.at = "set"
    /\ board = None
    /\ board' = writer.text
    /\ writer' = Idle
    /\ written' = [written EXCEPT ![writer.text] = @ + 1]
    /\ owner' = "peer"
    /\ UNCHANGED <<platform, adapter, events, suppressor, inbox, copied, sent, received, view>>

\* Write fails, before or between the two calls: the entry is taken back.
WriterFails ==
    /\ writer.at \in {"write", "set"}
    /\ entries' = Consumed(Fresh(entries), writer.text)
    /\ writer' = Idle
    /\ owner' = "nobody"
    /\ UNCHANGED <<platform, board, adapter, events, inbox, counts, lost, view>>
-----------------------------------------------------------------------------
\* The poller notes the counter before it reads the text.
PollCount ==
    /\ platform = "poll" /\ poller = "idle" /\ unseen
    /\ unseen' = FALSE
    /\ poller' = "read"
    /\ UNCHANGED <<platform, board, copiers, callbacks, watcher, events, suppressor, inbox, writer,
                   counts, owner, view>>

\* The adapter waits for room in the event channel; it drops nothing.
EmittedIfRoom(s, t) == IF s = <<>> THEN Append(s, t) ELSE s
Emitted(s, t) == Append(s, t)

\* The text is read; a change since the counter was read stays to be seen.
PollRead ==
    /\ poller = "read"
    /\ events' = IF board = None THEN events ELSE Emitted(events, board)
    /\ poller' = "idle"
    /\ UNCHANGED <<platform, board, unseen, copiers, callbacks, watcher, suppressor, inbox, writer,
                   counts, owner, view>>

\* One of the accepted callbacks gets its text into the channel, in any order.
Callback(t) ==
    /\ callbacks[t] > 0
    /\ events' = Emitted(events, t)
    /\ callbacks' = [callbacks EXCEPT ![t] = @ - 1]
    /\ UNCHANGED <<platform, board, unseen, poller, copiers, watcher, suppressor, inbox, writer,
                   counts, owner, view>>

\* wl-paste exits, for whatever reason.
WatcherExits ==
    /\ watching /\ exits < MaxExits
    /\ watching' = FALSE
    /\ exits' = exits + 1
    /\ UNCHANGED <<platform, board, unseen, poller, copiers, callbacks, events, suppressor, inbox,
                   writer, counts, owner, view>>

\* watchLoop starts it again, after its backoff: the selection it finds is reported once more.
WatcherStarts ==
    /\ platform = "watch" /\ ~watching
    /\ watching' = TRUE
    /\ callbacks' = IF board = None THEN callbacks ELSE [callbacks EXCEPT ![board] = @ + 1]
    /\ UNCHANGED <<platform, board, unseen, poller, copiers, exits, events, suppressor, inbox,
                   writer, counts, owner, view>>

\* localLoop: an event is suppressed once for each write, or sent to the peer.
LocalLoop ==
    /\ events # <<>>
    /\ events' = Tail(events)
    /\ LET t == Head(events)
           s == Fresh(entries)
       IN  \/ /\ Suppressed(s, t)
              /\ entries' = Consumed(s, t)
              /\ UNCHANGED <<sent, view>>
           \/ /\ ~Suppressed(s, t)
              /\ entries' = s
              /\ sent' = [sent EXCEPT ![t] = @ + 1]
              /\ view' = t
    /\ UNCHANGED <<platform, board, adapter, inbox, writer, copied, written, received, lost, owner>>

\* Nothing is on its way from the clipboard to the peer or back.
Quiet ==
    /\ inbox = None /\ writer = Idle /\ ~unseen /\ poller = "idle"
    /\ events = <<>> /\ \A t \in Texts : copiers[t] = 0 /\ callbacks[t] = 0

(* A tick of the suppressor's clock.  An entry that expires while anything *)
(* is under way, a write that takes as long as the ttl among it, may be    *)
(* missed when its report comes.                                           *)
Older(s) == [k \in DOMAIN s |-> [s[k] EXCEPT !.age = @ + 1]]
Expired(s, t) == {k \in DOMAIN s \ Live(s) : s[k].text = t}

Tick ==
    /\ entries # <<>>
    /\ LET s == Older(entries)
       IN  /\ entries' = Fresh(s)
           /\ lost' = IF Quiet THEN lost
                      ELSE [t \in Texts |-> lost[t] + Cardinality(Expired(s, t))]
    /\ UNCHANGED <<platform, board, adapter, events, inbox, writer, counts, owner, view>>

Next ==
    \/ \E t \in Texts : Copy(t) \/ Receive(t)
    \/ WriterAdds \/ WriterFeeds \/ WriterClears \/ WriterSets \/ WriterFails
    \/ \E t \in Texts : CopierOwns(t) \/ Callback(t)
    \/ PollCount \/ PollRead
    \/ WatcherExits \/ WatcherStarts
    \/ LocalLoop
    \/ Tick

Spec == Init /\ [][Next]_vars
-----------------------------------------------------------------------------
(* On Linux a text is never sent more often than the user copied it, but   *)
(* for one report of each wl-paste that had to be started again and one of *)
(* each entry pushed out of the full list or expired before its report     *)
(* came: one of its events is suppressed for each write, also if the user  *)
(* copies the same text meanwhile, a write fails, the events arrive out of *)
(* order or wl-paste misses some (Add before Write, Consume on failure).   *)
OneSendPerCopy ==
    platform = "watch" => \A t \in Texts : sent[t] <= copied[t] + exits + lost[t]

(* On macOS the poller may report one change twice, as it reads the text   *)
(* after the counter; however its readings interleave with the writes and  *)
(* the user's copies, a text goes back to the peer at most once for each   *)
(* time it was written and each entry of it that was pushed out or expired *)
(* before its report came, so that two devices do not multiply it (Consume *)
(* once per write).                                                        *)
EchoBounded ==
    platform = "poll" => \A t \in Texts : sent[t] <= 2 * copied[t] + written[t] + lost[t]

(* When everything has been handled and the user was the last to change    *)
(* the clipboard, the peer has what the user copied last.                  *)
FinalCopyDelivered == Quiet /\ owner = "user" => view = board

(* A text that never came from the peer reaches it if the user copied it   *)
(* last, on a polling device as the last of all: it is not lost to the     *)
(* polling, to the entries of other texts, to writes that fail or are      *)
(* overtaken, or to a wl-paste that was not running when it was copied     *)
(* (the adapters' Start and watchLoop, localLoop).                         *)
OwnCopyDelivered ==
    Quiet /\ owner = "user" /\ received[board] = 0 =>
        /\ platform = "poll" => view = board
        /\ watching => sent[board] > 0
=============================================================================
