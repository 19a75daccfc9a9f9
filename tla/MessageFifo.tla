----------------------------- MODULE MessageFifo -----------------------------
(***************************************************************************)
(* What the queue of received messages is to a TcpSession: a sequence.     *)
(* The strand puts in behind, one message at a time; the application takes *)
(* out in front, and is told that it is empty only when it is.             *)
(* MessageQueue promises less, because its producers overlap.              *)
(***************************************************************************)
EXTENDS Sequences

CONSTANTS Item, NoItem

VARIABLES queue,   \* the messages on their way
          answer   \* what the last Dequeue() gave: an item, or NoItem for "empty"

vars == <<queue, answer>>

Init == queue = <<>> /\ answer = NoItem

Put(m) == queue' = Append(queue, m) /\ UNCHANGED answer

Take == /\ queue # <<>>
        /\ answer' = Head(queue)
        /\ queue' = Tail(queue)

SeeEmpty == queue = <<>> /\ answer' = NoItem /\ UNCHANGED queue

Next == (\E m \in Item : Put(m)) \/ Take \/ SeeEmpty

Spec == Init /\ [][Next]_vars

=============================================================================
