----------------------- MODULE MCProducerConsumerQueue -----------------------
(***************************************************************************)
(* Small instances of the queues with a mutex and of Thread, side by side: *)
(* `part' names the one that a behaviour is about, and the others rest in  *)
(* their initial states.                                                   *)
(***************************************************************************)
EXTENDS ProducerConsumerQueue

CONSTANTS Producer, MaxPuts,  \* who puts into a SyncQueue, and how often each
          Putter, Taker,      \* who calls a SyncQueueBlocking
          Adder, MaxAdds      \* who adds to a LockedQueue, and how often in all

VARIABLES part,
          data_list, need_stop, adding, calls, seen, undefined, added, removed, late,
          list, needStop, sleeping, notified, returned, got,
          items, held, canceled, hand, peeked, used, order,
          stopped, thread, loop, owner, restarted

syncVars     == <<data_list, need_stop, adding, calls, seen, undefined, added, removed, late>>
blockingVars == <<list, needStop, sleeping, notified, returned, got>>
lockedVars   == <<items, held, canceled, hand, peeked, used, order>>
threadVars   == <<stopped, thread, loop, owner, restarted>>

Sync     == INSTANCE SyncQueue
Blocking == INSTANCE SyncQueueBlocking
Locked   == INSTANCE LockedQueue
Thr      == INSTANCE ThreadLifecycle

MCInit == /\ part \in {"waiting", "sync", "blocking", "locked", "thread"}
          /\ Init /\ Sync!Init /\ Blocking!Init /\ Locked!Init /\ Thr!Init

MCNext ==
    /\ UNCHANGED part
    /\ \/ part = "waiting" /\ Next /\ UNCHANGED <<syncVars, blockingVars, lockedVars, threadVars>>
       \/ part = "sync" /\ Sync!Next /\ UNCHANGED <<vars, blockingVars, lockedVars, threadVars>>
       \/ part = "blocking" /\ Blocking!Next /\ UNCHANGED <<vars, syncVars, lockedVars, threadVars>>
       \/ part = "locked" /\ Locked!Next /\ UNCHANGED <<vars, syncVars, blockingVars, threadVars>>
       \/ part = "thread" /\ Thr!Next /\ UNCHANGED <<vars, syncVars, blockingVars, lockedVars>>

all == <<part, vars, syncVars, blockingVars, lockedVars, threadVars>>

\* What is fair is never enabled in a part that rests.
MCSpec == /\ MCInit /\ [][MCNext]_all
          /\ \A c \in Consumer : WF_vars(Resume(c))
          /\ Blocking!Fairness /\ Thr!Fairness

StopLetsOneIn   == Sync!StopLetsOneIn
ReaddKeepsOrder == Locked!ReaddKeepsOrder

\* A stop() releases everybody who waits in a SyncQueueBlocking, and ends the loop of a Thread.
StopTakesEffect == Blocking!StopReleasesAll /\ Thr!ThreadStops

=============================================================================
