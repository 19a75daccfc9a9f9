------------------------------ MODULE MPSCQueue ------------------------------
(***************************************************************************)
(* cncpp::MPSCQueueNonIntrusive (src/Base/MPSCQueue.h), the lock-free      *)
(* queue through which TcpSession hands its messages to the thread that    *)
(* calls processReceivedMsg(), at the level of its memory: nodes are       *)
(* allocated and deleted, an address may be used again, and each atomic    *)
(* access is a step of its own.                                            *)
(*                                                                         *)
(* The order of the steps is that of the program: the exchange of _head is *)
(* acq_rel, a link is stored with release and loaded with acquire, so the  *)
(* consumer that sees a link sees the Data written before it.              *)
(***************************************************************************)
EXTENDS Integers, Sequences, FiniteSets

CONSTANTS Producer,  \* threads that call Enqueue()
          Item,      \* the payloads, each enqueued at most once
          Addr,      \* addresses of nodes
          NULL       \* the null pointer, also "no item"

ASSUME AddrAssumption == NULL \notin Addr /\ NULL \notin Item /\ Addr # {}

VARIABLES head,      \* _head
          tail,      \* _tail
          Next_,     \* per address: Node::Next
          Data,      \* per address: Node::Data
          live,      \* the nodes that are allocated
          unsent,    \* items no Enqueue() call has been made with
          pc,        \* per producer: where it is in Enqueue()
          node,      \* per producer: its local node
          prevHead,  \* per producer: its local prevHead
          cpc,       \* where the consumer is in Dequeue() or the destructor
          next,      \* the consumer's local next
          old,       \* the consumer's local tail
          result,    \* what the last Dequeue() gave, NULL when it returned false
          closing,   \* the destructor has been called
          chain,     \* history: the values of _head, in that order
          sent,      \* history: the items, in the order of the exchanges
          place,     \* history: per producer the place in sent of the item whose
                     \* node it has not linked yet, 0 if there is none
          taken      \* history: how many items have been dequeued

producerVars == <<unsent, pc, node, prevHead>>
consumerVars == <<cpc, next, old, result, closing, taken>>
exchanged    == <<head, chain, sent>>
vars == <<exchanged, tail, Next_, Data, live, place, producerVars, consumerVars>>

\* The constructor allocates the first node, which carries no data.
Init == \E front \in Addr :
    /\ head = front
    /\ tail = front
    /\ Next_ = [a \in Addr |-> NULL]
    /\ Data = [a \in Addr |-> NULL]
    /\ live = {front}
    /\ unsent = Item
    /\ pc = [p \in Producer |-> "idle"]
    /\ node = [p \in Producer |-> NULL]
    /\ prevHead = [p \in Producer |-> NULL]
    /\ cpc = "idle"
    /\ next = NULL
    /\ old = NULL
    /\ result = NULL
    /\ closing = FALSE
    /\ chain = <<front>>
    /\ sent = <<>>
    /\ place = [p \in Producer |-> 0]
    /\ taken = 0

-----------------------------------------------------------------------------
(* Enqueue(), called by any number of threads *)

\* new Node(input): an address that is not in use, with a null Next.
NewNode(p, m, a) ==
    /\ pc[p] = "idle" /\ ~closing
    /\ m \in unsent
    /\ a \in Addr \ live
    /\ live' = live \cup {a}
    /\ Data' = [Data EXCEPT ![a] = m]
    /\ Next_' = [Next_ EXCEPT ![a] = NULL]
    /\ node' = [node EXCEPT ![p] = a]
    /\ unsent' = unsent \ {m}
    /\ pc' = [pc EXCEPT ![p] = "exchange"]
    /\ UNCHANGED <<exchanged, tail, place, prevHead, consumerVars>>

\* prevHead = _head.exchange(node)
Exchange(p) ==
    /\ pc[p] = "exchange"
    /\ prevHead' = [prevHead EXCEPT ![p] = head]
    /\ head' = node[p]
    /\ chain' = Append(chain, node[p])
    /\ sent' = Append(sent, Data[node[p]])
    /\ place' = [place EXCEPT ![p] = Len(sent) + 1]
    /\ pc' = [pc EXCEPT ![p] = "link"]
    /\ UNCHANGED <<tail, Next_, Data, live, unsent, node, consumerVars>>

\* Mutant: the link is forgotten.
LinkNothing(p) ==
    /\ pc[p] = "link"
    /\ node' = [node EXCEPT ![p] = NULL]
    /\ prevHead' = [prevHead EXCEPT ![p] = NULL]
    /\ place' = [place EXCEPT ![p] = 0]
    /\ pc' = [pc EXCEPT ![p] = "idle"]
    /\ UNCHANGED <<exchanged, tail, Next_, Data, live, unsent, consumerVars>>

\* prevHead->Next.store(node)
Link(p) ==
    /\ pc[p] = "link"
    /\ Next_' = [Next_ EXCEPT ![prevHead[p]] = node[p]]
    /\ node' = [node EXCEPT ![p] = NULL]
    /\ prevHead' = [prevHead EXCEPT ![p] = NULL]
    /\ place' = [place EXCEPT ![p] = 0]
    /\ pc' = [pc EXCEPT ![p] = "idle"]
    /\ UNCHANGED <<exchanged, tail, Data, live, unsent, consumerVars>>

-----------------------------------------------------------------------------
(* Dequeue(), called by one thread at a time *)

\* The consumer loads its tail and the link behind it.  Without a link Dequeue()
\* returns false; in the destructor that ends the loop.
LoadNext ==
    /\ cpc = "idle"
    /\ IF Next_[tail] = NULL
       THEN /\ result' = NULL
            /\ cpc' = IF closing THEN "front" ELSE "idle"
            /\ UNCHANGED <<next, old>>
       ELSE /\ next' = Next_[tail]
            /\ old' = tail
            /\ cpc' = "read"
            /\ UNCHANGED result
    /\ UNCHANGED <<exchanged, place, tail, Next_, Data, live, producerVars, closing, taken>>

\* Mutant: the data is taken from the node that is about to be deleted.
ReadDataOfTail ==
    /\ cpc = "read" /\ result' = Data[old] /\ tail' = next
    /\ taken' = taken + 1
    /\ cpc' = "delete"
    /\ UNCHANGED <<exchanged, place, Next_, Data, live, producerVars, next, old, closing>>

\* result = next->Data, then _tail.store(next).  No other thread reads _tail.
ReadData ==
    /\ cpc = "read"
    /\ result' = Data[next]
    /\ tail' = next
    /\ taken' = taken + 1
    /\ cpc' = "delete"
    /\ UNCHANGED <<exchanged, place, Next_, Data, live, producerVars, next, old, closing>>

\* Mutant: the new tail is deleted instead of the old one.
DeleteNewTail ==
    /\ cpc = "delete" /\ live' = live \ {next} /\ next' = NULL /\ old' = NULL
    /\ cpc' = "idle"
    /\ UNCHANGED <<exchanged, place, tail, Next_, Data, producerVars, result, closing, taken>>

\* delete tail
DeleteTail ==
    /\ cpc = "delete"
    /\ live' = live \ {old}
    /\ next' = NULL
    /\ old' = NULL
    /\ cpc' = "idle"
    /\ UNCHANGED <<exchanged, place, tail, Next_, Data, producerVars, result, closing, taken>>

\* The destructor may run once nobody else uses the queue.  It dequeues what is
\* left, then deletes the node that is left.
Close ==
    /\ cpc = "idle" /\ ~closing
    /\ \A p \in Producer : pc[p] = "idle"
    /\ closing' = TRUE
    /\ UNCHANGED <<exchanged, place, tail, Next_, Data, live, producerVars, cpc, next, old, result, taken>>

DeleteFront ==
    /\ cpc = "front"
    /\ live' = live \ {head}
    /\ cpc' = "gone"
    /\ UNCHANGED <<exchanged, place, tail, Next_, Data, producerVars, next, old, result, closing, taken>>

-----------------------------------------------------------------------------
ProducerStep(p) == (\E m \in Item, a \in Addr : NewNode(p, m, a)) \/ Exchange(p) \/ Link(p)
Dequeue == LoadNext \/ ReadData \/ DeleteTail

Next == \/ \E p \in Producer : ProducerStep(p)
        \/ Dequeue
        \/ Close
        \/ DeleteFront

Spec == Init /\ [][Next]_vars

\* An Enqueue() that was begun runs to its end, and the consumer keeps polling.
Fairness == /\ \A p \in Producer : WF_vars(Exchange(p)) /\ WF_vars(Link(p))
            /\ WF_vars(Dequeue)

FairSpec == Spec /\ Fairness

-----------------------------------------------------------------------------
(* Properties *)

TypeOK ==
    /\ head \in Addr /\ tail \in Addr
    /\ Next_ \in [Addr -> Addr \cup {NULL}]
    /\ Data \in [Addr -> Item \cup {NULL}]
    /\ live \subseteq Addr
    /\ unsent \subseteq Item
    /\ pc \in [Producer -> {"idle", "exchange", "link"}]
    /\ node \in [Producer -> Addr \cup {NULL}]
    /\ prevHead \in [Producer -> Addr \cup {NULL}]
    /\ cpc \in {"idle", "read", "delete", "front", "gone"}
    /\ next \in Addr \cup {NULL} /\ old \in Addr \cup {NULL}
    /\ cpc = "read" => next # NULL /\ old # NULL
    /\ result \in Item \cup {NULL}
    /\ closing \in BOOLEAN
    /\ chain \in Seq(Addr)
    /\ sent \in Seq(Item)
    /\ place \in [Producer -> Nat]
    /\ taken \in Nat

\* No thread touches a node after it was deleted: the node behind whose link a
\* producer still is cannot be deleted under it, and the consumer reads and
\* deletes nodes that are allocated (so it also never deletes one twice).
NoUseAfterFree ==
    /\ \A p \in Producer :
         /\ pc[p] = "exchange" => node[p] \in live
         /\ pc[p] = "link" => prevHead[p] \in live
    /\ cpc = "idle" => tail \in live
    /\ cpc = "read" => {old, next} \subseteq live
    /\ cpc = "delete" => old \in live /\ tail \in live /\ old # tail
    /\ cpc = "front" => head \in live

\* No node is leaked: the allocated ones are the nodes of the queue from _tail to
\* _head, the new nodes of the producers and the one the consumer is deleting;
\* after the destructor there is none.
NoLeak ==
    live = (IF cpc = "gone" THEN {} ELSE {chain[i] : i \in taken + 1 .. Len(chain)})
           \cup {node[p] : p \in {q \in Producer : pc[q] = "exchange"}}
           \cup (IF cpc = "delete" THEN {old} ELSE {})

\* Both: a node is deleted by the one who leaves it, once, and after its last use.
NodesOwned == NoUseAfterFree /\ NoLeak

Queue == INSTANCE MessageQueue WITH
            NoItem   <- NULL,
            sending  <- place,
            received <- taken,
            answer   <- result

\* The linked nodes implement the queue of MessageQueue, reused addresses and
\* unlinked nodes notwithstanding.
QueueSpec == Queue!Spec

\* Every item whose Enqueue() was begun comes out, unless the destructor runs.
EveryItemReceived ==
    \A m \in Item : (m \notin unsent) ~> (closing \/ \E i \in 1 .. taken : sent[i] = m)

=============================================================================
