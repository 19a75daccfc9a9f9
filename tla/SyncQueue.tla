------------------------------ MODULE SyncQueue ------------------------------
(***************************************************************************)
(* SyncQueue (src/Base/SyncQueue.h): a list behind a mutex that producers  *)
(* fill, that a consumer empties without waiting, and that can be stopped. *)
(*                                                                         *)
(* add() reads need_stop_ before it takes the mutex.  The read is a plain  *)
(* one next to a locked write; put() calls into the mutex each time, so    *)
(* the compiler reads the member anew in each call, and it gets the value  *)
(* from before or after the write.                                         *)
(***************************************************************************)
EXTENDS Integers, Sequences

CONSTANTS Producer,  \* threads that call put()
          MaxPuts    \* bound: the items of one producer

VARIABLES data_list,  \* data_list_
          need_stop,  \* need_stop_
          adding,     \* producers between the two halves of add()
          calls,      \* how often each producer called put()
          seen,       \* the consumer's last empty() returned false
          undefined,  \* front() of an empty list was used
          added,      \* history: the items in the order they were added
          removed,    \* history: the items in the order they were removed
          late        \* history: the items that were added after stop()

vars == <<data_list, need_stop, adding, calls, seen, undefined, added, removed, late>>

Init == /\ data_list = <<>> /\ need_stop = FALSE
        /\ adding = {} /\ calls = [p \in Producer |-> 0]
        /\ seen = FALSE /\ undefined = FALSE
        /\ added = <<>> /\ removed = <<>> /\ late = {}

\* Mutant: stop() is not looked at.
PutAlways(p) ==
    /\ p \notin adding /\ calls[p] < MaxPuts
    /\ calls' = [calls EXCEPT ![p] = @ + 1] /\ adding' = adding \cup {p}
    /\ UNCHANGED <<data_list, need_stop, seen, undefined, added, removed, late>>

\* put(), up to the mutex; a stopped queue drops the item.
Put(p) ==
    /\ p \notin adding /\ calls[p] < MaxPuts
    /\ calls' = [calls EXCEPT ![p] = @ + 1]
    /\ adding' = IF need_stop THEN adding ELSE adding \cup {p}
    /\ UNCHANGED <<data_list, need_stop, seen, undefined, added, removed, late>>

\* The rest of put(), under the mutex.
Add(p) ==
    LET item == <<p, calls[p]>>
    IN  /\ p \in adding /\ adding' = adding \ {p}
        /\ data_list' = Append(data_list, item)
        /\ added' = Append(added, item)
        /\ late' = IF need_stop THEN late \cup {item} ELSE late
        /\ UNCHANGED <<need_stop, calls, seen, undefined, removed>>

\* take(list), which replaces the consumer's list.
TakeAll ==
    /\ removed' = removed \o data_list /\ data_list' = <<>> /\ seen' = FALSE
    /\ UNCHANGED <<need_stop, adding, calls, undefined, added, late>>

\* empty(), also size()
Empty == /\ seen' = (data_list # <<>>)
         /\ UNCHANGED <<data_list, need_stop, adding, calls, undefined, added, removed, late>>

\* take(T&), by a consumer that called empty() first; it does not look itself.
TakeOne ==
    /\ seen /\ seen' = FALSE
    /\ IF data_list = <<>>
       THEN undefined' = TRUE /\ UNCHANGED <<data_list, removed>>
       ELSE /\ removed' = Append(removed, Head(data_list)) /\ data_list' = Tail(data_list)
            /\ UNCHANGED undefined
    /\ UNCHANGED <<need_stop, adding, calls, added, late>>

Stop == /\ need_stop' = TRUE
        /\ UNCHANGED <<data_list, adding, calls, seen, undefined, added, removed, late>>

Next == \/ \E p \in Producer : Put(p) \/ Add(p)
        \/ TakeAll \/ Empty \/ TakeOne
        \/ Stop

Spec == Init /\ [][Next]_vars

-----------------------------------------------------------------------------
(* Properties *)

\* Items come out once and in the order they were added, and take(T&) finds the item
\* that empty() has seen, if one thread alone takes; what stop() lets through late is
\* one item of each producer at most, which was on its way when stop() was called.
StopLetsOneIn ==
    /\ added = removed \o data_list /\ ~undefined
    /\ \A p \in Producer, m, n \in 1 .. MaxPuts : <<p, m>> \in late /\ <<p, n>> \in late => m = n

=============================================================================
