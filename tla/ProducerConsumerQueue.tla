------------------------ MODULE ProducerConsumerQueue ------------------------
(***************************************************************************)
(* ProducerConsumerQueue (src/Base/ProducerConsumerQueue.h): a queue whose *)
(* consumers can wait for an item, and which can be cancelled.             *)
(*                                                                         *)
(* Every member function holds the mutex from its beginning to its end,    *)
(* but for the wait() of WaitAndPop(), which gives it up and has to get it *)
(* again after it was notified, or after it woke up without being          *)
(* notified.  Whoever calls may call anything at any time; a thread that   *)
(* is in WaitAndPop() calls nothing else.                                  *)
(***************************************************************************)
EXTENDS Integers, Sequences, FiniteSets

CONSTANTS Consumer,  \* threads that take items
          Item       \* items, each pushed at most once

ASSUME QueueAssumption == IsFiniteSet(Consumer)

VARIABLES queue,     \* _queue
          shutdown,  \* _shutdown
          asleep,    \* consumers blocked in _condition.wait()
          woken,     \* consumers that wait() has to get the mutex for again
          pushed,    \* history: the items, in the order they were pushed
          taken,     \* history: the items that consumers got, in that order
          deleted    \* history: the items that Cancel() deleted

vars == <<queue, shutdown, asleep, woken, pushed, taken, deleted>>

Idle == Consumer \ (asleep \cup woken)

Init == /\ queue = <<>> /\ shutdown = FALSE
        /\ asleep = {} /\ woken = {}
        /\ pushed = <<>> /\ taken = <<>> /\ deleted = <<>>

\* Mutant: no notification when the queue was not empty.
NotifyOneIfEmpty ==
    IF asleep = {} \/ queue # <<>>
    THEN UNCHANGED <<asleep, woken>>
    ELSE \E c \in asleep : asleep' = asleep \ {c} /\ woken' = woken \cup {c}

\* notify_one()
NotifyOne ==
    IF asleep = {}
    THEN UNCHANGED <<asleep, woken>>
    ELSE \E c \in asleep : asleep' = asleep \ {c} /\ woken' = woken \cup {c}

\* Push() does not look at _shutdown.
Push(i) ==
    /\ i \notin {pushed[k] : k \in DOMAIN pushed}
    /\ queue' = Append(queue, i)
    /\ pushed' = Append(pushed, i)
    /\ NotifyOne
    /\ UNCHANGED <<shutdown, taken, deleted>>

\* The front item goes to a consumer.
TakeFront ==
    /\ taken' = Append(taken, Head(queue))
    /\ queue' = Tail(queue)
    /\ UNCHANGED <<shutdown, pushed, deleted>>

Nothing == UNCHANGED <<queue, shutdown, pushed, taken, deleted>>

\* Pop(), by a thread that is not waiting: it gets the front item or false.
Pop ==
    /\ Idle # {}
    /\ IF queue = <<>> \/ shutdown THEN Nothing ELSE TakeFront
    /\ UNCHANGED <<asleep, woken>>

\* Mutant: _shutdown is not looked at when there is an item.
LoopBlind(c) ==
    IF queue = <<>> /\ ~shutdown
    THEN asleep' = asleep \cup {c} /\ woken' = woken \ {c} /\ Nothing
    ELSE /\ asleep' = asleep \ {c} /\ woken' = woken \ {c}
         /\ IF queue = <<>> THEN Nothing ELSE TakeFront

\* The loop of WaitAndPop(), from where the mutex is held to where it is given up.
Loop(c) ==
    IF queue = <<>> /\ ~shutdown
    THEN asleep' = asleep \cup {c} /\ woken' = woken \ {c} /\ Nothing
    ELSE /\ asleep' = asleep \ {c} /\ woken' = woken \ {c}
         /\ IF queue = <<>> \/ shutdown THEN Nothing ELSE TakeFront

WaitAndPop(c) == c \in Idle /\ Loop(c)

\* A consumer that was notified has the mutex again.
Resume(c) == c \in woken /\ Loop(c)

\* A wake-up without notification.
Spurious(c) ==
    /\ c \in asleep
    /\ asleep' = asleep \ {c} /\ woken' = woken \cup {c}
    /\ Nothing

\* Mutant: only one consumer is notified.
CancelNotifiesOne ==
    /\ deleted' = deleted \o queue /\ queue' = <<>> /\ shutdown' = TRUE
    /\ NotifyOne
    /\ UNCHANGED <<pushed, taken>>

Cancel ==
    /\ deleted' = deleted \o queue
    /\ queue' = <<>>
    /\ shutdown' = TRUE
    /\ asleep' = {} /\ woken' = woken \cup asleep
    /\ UNCHANGED <<pushed, taken>>

Next == \/ \E i \in Item : Push(i)
        \/ Pop
        \/ \E c \in Consumer : WaitAndPop(c) \/ Resume(c) \/ Spurious(c)
        \/ Cancel

\* Whoever was notified gets the mutex some time; nobody has to call anything.
Spec == /\ Init /\ [][Next]_vars
        /\ \A c \in Consumer : WF_vars(Resume(c))

-----------------------------------------------------------------------------
(* Properties *)

TypeOK ==
    /\ queue \in Seq(Item) /\ pushed \in Seq(Item)
    /\ taken \in Seq(Item) /\ deleted \in Seq(Item)
    /\ shutdown \in BOOLEAN
    /\ asleep \subseteq Consumer /\ woken \subseteq Consumer
    /\ asleep \cap woken = {}

\* As long as a consumer sleeps in WaitAndPop(), nobody has cancelled, and for each item
\* in the queue another consumer is on its way to it: no notification is lost, although
\* Push() notifies one consumer at most, Pop() may take the item that one was
\* notified for, and consumers wake up for no reason.
NoLostWakeup == asleep # {} => ~shutdown /\ Len(queue) <= Cardinality(woken)

\* Nothing is lost, repeated or reordered: the items are those that consumers got,
\* followed by those Cancel() deleted, followed by those in the queue; those that are
\* pushed after Cancel() stay there for good.
NothingLost == pushed = taken \o deleted \o queue

\* After Cancel() every waiting consumer returns, and an item that somebody sleeps for
\* does not stay in the queue.
WaitsEnd ==
    /\ \A c \in Consumer : shutdown /\ c \in asleep \cup woken ~> c \in Idle
    /\ \A i \in Item :
          asleep # {} /\ (\E k \in DOMAIN queue : queue[k] = i) ~>
              asleep = {} \/ i \notin {queue[k] : k \in DOMAIN queue}

=============================================================================
