---------------------------- MODULE OutboundQueue -----------------------------
(***************************************************************************)
(* What a relay client promises whoever calls its send(): messages are     *)
(* written in the order they were given, none twice, and a message is put  *)
(* straight on the wire only when none is waiting before it.  The only     *)
(* way to lose a waiting message is to discard the whole queue.            *)
(***************************************************************************)
EXTENDS Naturals, Sequences

VARIABLES
    accepted, \* how many messages have been given to send()
    written,  \* the numbers of those written to a connection, in that order
    waiting   \* the numbers of those that wait for one

Init == accepted = 0 /\ written = <<>> /\ waiting = <<>>

WriteAtOnce ==
    /\ waiting = <<>>
    /\ accepted' = accepted + 1
    /\ written' = Append(written, accepted + 1)
    /\ UNCHANGED waiting

Hold ==
    /\ accepted' = accepted + 1
    /\ waiting' = Append(waiting, accepted + 1)
    /\ UNCHANGED written

Flush ==
    /\ written' = written \o waiting
    /\ waiting' = <<>>
    /\ UNCHANGED accepted

Discard == waiting' = <<>> /\ UNCHANGED <<accepted, written>>

Next == WriteAtOnce \/ Hold \/ Flush \/ Discard

Spec == Init /\ [][Next]_<<accepted, written, waiting>>

-----------------------------------------------------------------------------
\* What is written is in the order of the calls of send(), and none is written
\* twice; what was discarded is missing (relay-client.ts:165-172, 201-207).
WrittenInOrder ==
    \A i, j \in 1 .. Len(written) : i < j => written[i] < written[j]
===============================================================================
