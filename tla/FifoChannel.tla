---------------------------- MODULE FifoChannel -----------------------------
(***************************************************************************)
(* What a MessageQueue promises (message_queue.h): a FIFO channel.  Taking *)
(* from a non-empty channel returns the oldest message; the null pointer   *)
(* is returned only when there is nothing to take.                         *)
(***************************************************************************)
EXTENDS Sequences

CONSTANTS Payload, NoMessage

VARIABLES
    chan,     \* the messages that can be taken
    result    \* what the last dequeue returned

Init == chan = <<>> /\ result = NoMessage

Enqueue(m) ==
    /\ chan' = Append(chan, m)
    /\ UNCHANGED result

Dequeue ==
    /\ chan # <<>>
    /\ result' = Head(chan)
    /\ chan' = Tail(chan)

Timeout ==
    /\ chan = <<>>
    /\ result' = NoMessage
    /\ UNCHANGED chan

Next == (\E m \in Payload : Enqueue(m)) \/ Dequeue \/ Timeout

Spec == Init /\ [][Next]_<<chan, result>>
=============================================================================
