---------------------------- MODULE MessageQueue ----------------------------
(***************************************************************************)
(* What cncpp::MPSCQueueNonIntrusive promises: the items come out one by   *)
(* one in a single order that respects every producer's own order, none is *)
(* lost and none comes out twice.  A consumer may be told that the queue   *)
(* is empty only when it is, or when the oldest item in it belongs to an   *)
(* Enqueue() call that has not returned yet.                               *)
(***************************************************************************)
EXTENDS Naturals, Sequences

CONSTANTS Producer, Item, NoItem

VARIABLES sent,      \* every item sent so far, in the order of the queue
          sending,   \* per producer: the place in sent of the item whose
                     \* Enqueue() has not returned yet, 0 if there is none
          received,  \* how many items have come out
          answer     \* what the last Dequeue() gave: an item, or NoItem for "empty"

vars == <<sent, sending, received, answer>>

Init == /\ sent = <<>>
        /\ sending = [p \in Producer |-> 0]
        /\ received = 0
        /\ answer = NoItem

Send(p, m) == /\ sending[p] = 0
              /\ sent' = Append(sent, m)
              /\ sending' = [sending EXCEPT ![p] = Len(sent) + 1]
              /\ UNCHANGED <<received, answer>>

Publish(p) == /\ sending[p] # 0
              /\ sending' = [sending EXCEPT ![p] = 0]
              /\ UNCHANGED <<sent, received, answer>>

Pending(i) == \E p \in Producer : sending[p] = i

Receive == /\ received < Len(sent)
           /\ ~Pending(received + 1)
           /\ received' = received + 1
           /\ answer' = sent[received + 1]
           /\ UNCHANGED <<sent, sending>>

SeeEmpty == /\ received = Len(sent) \/ Pending(received + 1)
            /\ answer' = NoItem
            /\ UNCHANGED <<sent, sending, received>>

Next == \/ \E p \in Producer : (\E m \in Item : Send(p, m)) \/ Publish(p)
        \/ Receive
        \/ SeeEmpty

Spec == Init /\ [][Next]_vars

=============================================================================
