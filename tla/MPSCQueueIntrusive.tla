------------------------- MODULE MPSCQueueIntrusive -------------------------
(***************************************************************************)
(* cncpp::MPSCQueueIntrusive (src/Base/MPSCQueue.h): the lock-free queue   *)
(* whose nodes are the items themselves, linked through a member of their  *)
(* own, with a dummy that the consumer puts in behind the last item so     *)
(* that it can be taken out.  An item that came out belongs to the         *)
(* consumer, who may enqueue it again.  Each atomic access is a step.      *)
(***************************************************************************)
EXTENDS Integers, Sequences

CONSTANTS Sender,   \* threads that call Enqueue()
          Node,     \* the items
          Dummy,    \* _dummy
          Null,
          MaxSent   \* bound on the calls of Enqueue()

VARIABLES first,    \* _tail: the consumer's end
          newest,   \* _head: the producers' end
          link,     \* per item and dummy: its IntrusiveLink
          free,     \* items that are not in the queue, nor on their way
          ppc,      \* per producer: where it is in Enqueue()
          input,    \* per producer: the item
          prev,     \* per producer, and the consumer for its dummy: prevHead
          at,       \* where the consumer is in Dequeue(), or "gone"
          out,      \* what the last Dequeue() gave, Null when it returned false
          draining, \* the destructor has been called
          items,    \* history: the items, in the order of the exchanges
          unlinked, \* history: per producer the place in items of the one it has not linked
          got,      \* history: how many items came out
          overlap   \* history: an Enqueue() has overlapped the Dequeue() under way

senderVars == <<ppc, input>>
intrusive == <<first, newest, link, free, senderVars, prev, at, out, draining,
               items, unlinked, got, overlap>>

Init == /\ first = Dummy /\ newest = Dummy
        /\ link = [n \in Node \cup {Dummy} |-> Null] /\ free = Node
        /\ ppc = [p \in Sender |-> "idle"] /\ input = [p \in Sender |-> Null]
        /\ prev = [p \in Sender \cup {Dummy} |-> Null]
        /\ at = "idle" /\ out = Null /\ draining = FALSE
        /\ items = <<>> /\ unlinked = [p \in Sender |-> 0] /\ got = 0 /\ overlap = FALSE

-----------------------------------------------------------------------------
(* Enqueue() *)

StoreNull(p, n) ==
    /\ ppc[p] = "idle" /\ ~draining /\ n \in free /\ Len(items) < MaxSent
    /\ free' = free \ {n} /\ input' = [input EXCEPT ![p] = n]
    /\ link' = [link EXCEPT ![n] = Null]
    /\ ppc' = [ppc EXCEPT ![p] = "exchange"]
    /\ UNCHANGED <<first, newest, prev, at, out, draining, items, unlinked, got, overlap>>

Exchange(p) ==
    /\ ppc[p] = "exchange" /\ ppc' = [ppc EXCEPT ![p] = "link"]
    /\ prev' = [prev EXCEPT ![p] = newest] /\ newest' = input[p]
    /\ items' = Append(items, input[p])
    /\ unlinked' = [unlinked EXCEPT ![p] = Len(items')] /\ overlap' = (at # "idle")
    /\ UNCHANGED <<first, link, free, input, at, out, draining, got>>

Link(p) ==
    /\ ppc[p] = "link" /\ ppc' = [ppc EXCEPT ![p] = "idle"]
    /\ link' = [link EXCEPT ![prev[p]] = input[p]]
    /\ unlinked' = [unlinked EXCEPT ![p] = 0]
    /\ UNCHANGED <<first, newest, free, input, prev, at, out, draining, items, got, overlap>>

-----------------------------------------------------------------------------
(* Dequeue() *)

Gives(n, next) == /\ first' = next /\ free' = free \cup {n}
                  /\ out' = n /\ got' = got + 1 /\ at' = "idle" /\ overlap' = FALSE

\* false; in the loop of the destructor this is its end.
GivesNothing == /\ out' = Null /\ at' = (IF draining THEN "gone" ELSE "idle")
                /\ overlap' = FALSE /\ UNCHANGED <<first, free, got>>

Linking == \E p \in Sender : unlinked[p] # 0

Goes(label) == /\ at' = label /\ overlap' = (overlap \/ Linking)
               /\ UNCHANGED <<first, free, out, got>>

\* The first load of a link: an empty queue, a dummy to be left, an item to be taken, or
\* the last item.
Load == /\ at = "idle"
        /\ LET next == link[first]
           IN  IF first = Dummy
               THEN IF next = Null THEN GivesNothing
                    ELSE /\ first' = next /\ at' = "load" /\ overlap' = Linking
                         /\ UNCHANGED <<free, out, got>>
               ELSE IF next # Null THEN Gives(first, next) ELSE Goes("head")
        /\ UNCHANGED <<link, newest, prev>>

\* The load behind the dummy.
LoadNext == /\ at = "load"
            /\ IF link[first] # Null THEN Gives(first, link[first]) ELSE Goes("head")
            /\ UNCHANGED <<link, newest, prev>>

\* Mutant: _head is not looked at.
LoadHeadBlind == at = "head" /\ Goes("null") /\ UNCHANGED <<link, newest, prev>>

LoadHead == /\ at = "head"
            /\ IF first # newest THEN GivesNothing ELSE Goes("null")
            /\ UNCHANGED <<link, newest, prev>>

\* Enqueue(_dummyPtr)
DummyNull     == /\ at = "null" /\ Goes("exchange")
                 /\ link' = [link EXCEPT ![Dummy] = Null]
                 /\ UNCHANGED <<newest, prev>>
DummyExchange == /\ at = "exchange" /\ Goes("link")
                 /\ prev' = [prev EXCEPT ![Dummy] = newest] /\ newest' = Dummy
                 /\ UNCHANGED link
DummyLink     == /\ at = "link" /\ Goes("last")
                 /\ link' = [link EXCEPT ![prev[Dummy]] = Dummy]
                 /\ UNCHANGED <<newest, prev>>

LoadLast == /\ at = "last"
            /\ IF link[first] # Null THEN Gives(first, link[first]) ELSE GivesNothing
            /\ UNCHANGED <<link, newest, prev>>

Dequeue == /\ \/ Load \/ LoadNext \/ LoadHead
              \/ DummyNull \/ DummyExchange \/ DummyLink \/ LoadLast
           /\ UNCHANGED <<senderVars, draining, items, unlinked>>

\* The destructor, when no call is under way: Dequeue() until it returns false.
Drain == /\ at = "idle" /\ ~draining /\ \A p \in Sender : ppc[p] = "idle"
         /\ draining' = TRUE
         /\ UNCHANGED <<first, newest, link, free, senderVars, prev, at, out, items, unlinked, got, overlap>>

Next == \/ \E p \in Sender : (\E n \in Node : StoreNull(p, n)) \/ Exchange(p) \/ Link(p)
        \/ Dequeue
        \/ Drain

Spec == Init /\ [][Next]_intrusive

\* An Enqueue() that was begun runs to its end, and the consumer keeps polling.
Fairness == /\ \A p \in Sender : WF_intrusive(Exchange(p)) /\ WF_intrusive(Link(p))
            /\ WF_intrusive(Dequeue)

-----------------------------------------------------------------------------
(* Properties *)

Queue == INSTANCE MessageQueue WITH
            Producer <- Sender, Item <- Node, NoItem <- Null,
            sent <- items, sending <- unlinked, received <- got, answer <- out

\* It says "empty" more often than MessageQueue: also when an Enqueue() of any item
\* overlapped the call.
SeesEmpty == /\ got = Len(items) \/ Linking \/ overlap
             /\ out' = Null
             /\ UNCHANGED <<items, unlinked, got>>

\* What came out and was not enqueued again is touched by nobody else.
Untouched == /\ \A p \in Sender : ppc[p] = "link" => prev[p] \notin free
             /\ at # "gone" => first \notin free /\ newest \notin free
             /\ at = "link" => prev[Dummy] \notin free

\* The linked items, with the dummy among them, implement the queue of MessageQueue, but
\* for its answers when it has nothing to give; nobody but their owner touches the items
\* that came out, and all have come out when the destructor ends.
IntrusiveSpec ==
    /\ Queue!Init
    /\ [][\/ \E p \in Sender : (\E n \in Node : Queue!Send(p, n)) \/ Queue!Publish(p)
          \/ Queue!Receive
          \/ SeesEmpty]_<<items, unlinked, got, out>>
    /\ [](Untouched /\ (at = "gone" => got = Len(items)))

\* All items come out, also when the destructor runs.
EveryItemOut == \A i \in 1 .. MaxSent : Len(items) = i ~> got >= i

=============================================================================
