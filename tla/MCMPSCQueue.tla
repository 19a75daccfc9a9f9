----------------------------- MODULE MCMPSCQueue -----------------------------
(***************************************************************************)
(* Small instances of MPSCQueue and, beside it, of MPSCQueueIntrusive:     *)
(* `part' names the one that a behaviour is about, and the other rests.    *)
(***************************************************************************)
EXTENDS MPSCQueue

CONSTANTS Sender, Node, Dummy, MaxSent,  \* of MPSCQueueIntrusive
          p1, p2, p3, m1, m2, m3, a1, a2, a3, a4

\* The dummy is no item, and prev has a place for it beside the producers.
ASSUME IntrusiveAssumption ==
    Dummy \notin Node /\ Dummy \notin Sender /\ NULL \notin Node \cup {Dummy}

ThreeProducers == {p1, p2, p3}
ThreeItems     == {m1, m2, m3}
FourNodes      == {a1, a2, a3, a4}
TwoProducers   == {p1, p2}
TwoItems       == {m1, m2}

VARIABLES part, first, newest, link, free, ppc, input, prev, at, out, draining,
          items, unlinked, got, overlap

intrusiveVars == <<first, newest, link, free, ppc, input, prev, at, out, draining,
                   items, unlinked, got, overlap>>

Intrusive == INSTANCE MPSCQueueIntrusive WITH Null <- NULL

MCInit == /\ part \in {"nonintrusive", "intrusive"} /\ Init /\ Intrusive!Init
          /\ part = "intrusive" => head = a1

MCNext == /\ UNCHANGED part
          /\ \/ part = "nonintrusive" /\ Next /\ UNCHANGED intrusiveVars
             \/ part = "intrusive" /\ Intrusive!Next /\ UNCHANGED vars

\* The fairness of both; a queue that rests has nothing enabled.
PartFairness ==
    /\ \A p \in Producer : WF_vars(Exchange(p)) /\ WF_vars(Link(p))
    /\ WF_vars(part = "nonintrusive" /\ Dequeue)
    /\ \A p \in Sender : /\ WF_intrusiveVars(Intrusive!Exchange(p))
                         /\ WF_intrusiveVars(Intrusive!Link(p))
    /\ WF_intrusiveVars(part = "intrusive" /\ Intrusive!Dequeue)

MCSpec == MCInit /\ [][MCNext]_<<part, vars, intrusiveVars>> /\ PartFairness

\* The property of MPSCQueueIntrusive, which its resting state satisfies too.
IntrusiveSpec == Intrusive!IntrusiveSpec

\* Every item whose Enqueue() was begun comes out of either queue.
EverythingComesOut == EveryItemReceived /\ Intrusive!EveryItemOut

=============================================================================
