-------------------------- MODULE SyncQueueBlocking --------------------------
(***************************************************************************)
(* SyncQueueBlocking (src/Base/SyncQueue.h): the queue with the functions  *)
(* of SyncQueue whose put() and take() wait.  Each thread makes one call.  *)
(*                                                                         *)
(* add() waits until need_stop_ is set, and returns without adding when it *)
(* is set: what follows, the push and its notification, is never reached.  *)
(***************************************************************************)
EXTENDS Integers, Sequences

CONSTANTS Putter,  \* threads that call put()
          Taker    \* threads that call take()

Thread == Putter \cup Taker

VARIABLES list,      \* data_list_
          needStop,  \* need_stop_
          sleeping,  \* threads blocked in a wait(), on the condition of their kind
          notified,  \* threads that a wait() has to get the mutex for again
          returned,  \* threads whose call has returned
          got        \* history: the takers that were given an item

blocking == <<list, needStop, sleeping, notified, returned, got>>

Init == /\ list = <<>> /\ needStop = FALSE
        /\ sleeping = {} /\ notified = {} /\ returned = {} /\ got = {}

Wait(t) == /\ sleeping' = sleeping \cup {t} /\ notified' = notified \ {t}
           /\ UNCHANGED <<list, needStop, returned, got>>

Return(t) == returned' = returned \cup {t} /\ UNCHANGED needStop

\* t returns and notifies one of the threads ts that sleep.
ReturnNotifying(t, ts) ==
    /\ Return(t)
    /\ \E s \in IF ts \cap sleeping = {} THEN {t} ELSE ts \cap sleeping :
          sleeping' = sleeping \ {s} /\ notified' = (notified \cup {s}) \ {t}

ReturnEmpty(t) == /\ Return(t)
                  /\ notified' = notified \ {t} /\ UNCHANGED <<list, sleeping, got>>

\* put(), from where it has the mutex.
Put(t) == IF needStop THEN ReturnEmpty(t) ELSE Wait(t)

\* take(T&) takes the first item and take(list) all.
Take(t) ==
    IF needStop THEN ReturnEmpty(t)
    ELSE IF list = <<>> THEN Wait(t)
    ELSE /\ \E k \in {1, Len(list)} : list' = SubSeq(list, k + 1, Len(list))
         /\ got' = got \cup {t}
         /\ ReturnNotifying(t, Putter)

Run(t) == (t \in Putter /\ Put(t)) \/ (t \in Taker /\ Take(t))

Call(t)   == t \notin sleeping \cup notified \cup returned /\ Run(t)
Resume(t) == t \in notified /\ Run(t)

Spurious(t) ==
    /\ t \in sleeping
    /\ sleeping' = sleeping \ {t} /\ notified' = notified \cup {t}
    /\ UNCHANGED <<list, needStop, returned, got>>

\* Mutant: stop() notifies those who wait for an item only.
WaitersForItems == Taker

\* Both conditions are notified.
Notified == Putter \cup Taker

\* stop(), under the mutex and then without it.
Stop == /\ needStop' = TRUE
        /\ UNCHANGED <<list, sleeping, notified, returned, got>>

NotifyAll == /\ needStop
             /\ notified' = notified \cup (sleeping \cap Notified)
             /\ sleeping' = sleeping \ Notified
             /\ UNCHANGED <<list, needStop, returned, got>>

Next == \/ \E t \in Thread : Call(t) \/ Resume(t) \/ Spurious(t)
        \/ Stop \/ NotifyAll

Spec == Init /\ [][Next]_blocking

\* stop() goes on to its notifications, and who was notified gets the mutex.
Fairness == WF_blocking(NotifyAll) /\ \A t \in Thread : WF_blocking(Resume(t))

-----------------------------------------------------------------------------
(* Properties *)

\* A call returns after stop() and never before, and no item is ever passed on.
NothingPassedOn == returned # {} => needStop /\ got = {}

\* What a call returns with is nothing; and nobody who waits in put() or take() is
\* forgotten by stop(), also who goes to sleep while it runs.
StopReleasesAll ==
    /\ []NothingPassedOn
    /\ \A t \in Thread : needStop /\ t \in sleeping \cup notified ~> t \in returned

=============================================================================
