--------------------------- MODULE MessageChannel ---------------------------
(***************************************************************************)
(* What internal/protocol promises for one direction of a connection: the  *)
(* reader gets the messages that were sent, whole, in order, none twice,   *)
(* until the connection ends; a message is then missing only together with *)
(* all that were sent after it.                                            *)
(***************************************************************************)
EXTENDS Naturals, Sequences

CONSTANT Messages

VARIABLES
    sent,   \* the messages in the order their senders got the connection
    got     \* the messages the reader has returned

Init == sent = <<>> /\ got = <<>>

Send == \E m \in Messages : sent' = Append(sent, m) /\ UNCHANGED got

Deliver ==
    /\ Len(got) < Len(sent)
    /\ got' = Append(got, sent[Len(got) + 1])
    /\ UNCHANGED sent

Next == Send \/ Deliver

Spec == Init /\ [][Next]_<<sent, got>>
=============================================================================
