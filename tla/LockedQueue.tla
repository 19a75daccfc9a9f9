----------------------------- MODULE LockedQueue -----------------------------
(***************************************************************************)
(* LockedQueue (src/Base/LockedQueue.h): a deque behind a mutex, whose     *)
(* consumer can look at the front item, and give back what it took.        *)
(*                                                                         *)
(* peek(false) returns with the mutex held, until unlock(); every other    *)
(* function takes it and gives it up.  One thread consumes; it looks at    *)
(* empty() before peek() and pop_front(), which do not look themselves.    *)
(***************************************************************************)
EXTENDS Integers, Sequences

CONSTANTS Adder,   \* threads that call add()
          MaxAdds  \* bound: the items of all adders

None == <<>>

VARIABLES items,     \* _queue
          held,      \* the consumer holds _lock between two calls
          canceled,  \* _canceled
          hand,      \* items the consumer took, neither used nor given back
          peeked,    \* what the reference that peek() returned refers to
          used,      \* items the consumer is done with
          order      \* history: the items in the order they were added

locked == <<items, held, canceled, hand, peeked, used, order>>

Init == /\ items = <<>> /\ held = FALSE /\ canceled = FALSE
        /\ hand = <<>> /\ peeked = None /\ used = <<>> /\ order = <<>>

\* add(), which does not look at _canceled.
Add(a) ==
    LET item == <<a, Len(order) + 1>>
    IN  /\ ~held /\ Len(order) < MaxAdds
        /\ items' = Append(items, item) /\ order' = Append(order, item)
        /\ UNCHANGED <<held, canceled, hand, peeked, used>>

\* _queue.pop_front(), of an item that the consumer has got.
PopFront ==
    /\ items # <<>>
    /\ hand' = Append(hand, Head(items)) /\ items' = Tail(items) /\ peeked' = None

\* next(result), and next(result, check) where the check accepts.
TakeNext == ~held /\ PopFront /\ UNCHANGED <<held, canceled, used, order>>

\* next(result, check) where it does not: result is the item, which stays.
Refuse == /\ ~held /\ items # <<>>
          /\ peeked' = Head(items)
          /\ UNCHANGED <<items, held, canceled, hand, used, order>>

\* peek(), with or without unlocking.
Peek(autoUnlock) ==
    /\ ~held /\ items # <<>>
    /\ peeked' = Head(items) /\ held' = ~autoUnlock
    /\ UNCHANGED <<items, canceled, hand, used, order>>

Unlock == held /\ held' = FALSE /\ UNCHANGED <<items, canceled, hand, peeked, used, order>>

\* Mutant: the items go to the end of the queue.
AtEnd(s) == items \o s

\* _queue.insert(_queue.begin(), begin, end)
AtFront(s) == s \o items

\* The consumer is done with the first items of its hand and calls readd() for the others.
Readd(k) ==
    /\ ~held /\ hand # <<>> /\ k \in 0 .. Len(hand)
    /\ used' = used \o SubSeq(hand, 1, k)
    /\ items' = AtFront(SubSeq(hand, k + 1, Len(hand)))
    /\ hand' = <<>> /\ peeked' = None
    /\ UNCHANGED <<held, canceled, order>>

Cancel == /\ ~held /\ canceled' = TRUE
          /\ UNCHANGED <<items, held, hand, peeked, used, order>>

Next == \/ \E a \in Adder : Add(a)
        \/ TakeNext \/ Refuse \/ Unlock \/ Cancel
        \/ \E autoUnlock \in BOOLEAN : Peek(autoUnlock)
        \/ \E k \in 0 .. MaxAdds : Readd(k)

Spec == Init /\ [][Next]_locked

-----------------------------------------------------------------------------
(* Properties *)

\* The items are used once and in the order they were added, whatever the consumer takes
\* and gives back while others add; an item that was peeked or refused stays the one that
\* pop_front() and next() remove, with the mutex held or not.
ReaddKeepsOrder ==
    /\ order = used \o hand \o items
    /\ peeked # None => items # <<>> /\ peeked = Head(items)

=============================================================================
