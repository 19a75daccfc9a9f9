------------------------------ MODULE ConnLease ------------------------------
(***************************************************************************)
(* What cncpp::MyConnPool promises: a connection is lent to one holder at  *)
(* a time, a connection that is lent is not closed by anybody else, and a  *)
(* new one is opened only when none is spare.  All of it lasts until       *)
(* somebody clears the pool of connections that are in use.                *)
(***************************************************************************)
CONSTANTS Holder, Conn, NoConn

VARIABLES lease,  \* per holder: the connection lent to it
          spare,  \* open connections that are lent to nobody
          sound   \* FALSE once the pool was cleared under its holders

vars == <<lease, spare, sound>>

Init == /\ lease = [h \in Holder |-> NoConn]
        /\ spare = {}
        /\ sound = TRUE

Leased == {lease[h] : h \in Holder}

\* Lending a spare connection may close others that were spare for too long.
Lend(h, c) == /\ sound /\ sound' = TRUE
              /\ lease[h] = NoConn
              /\ c \in spare
              /\ lease' = [lease EXCEPT ![h] = c]
              /\ spare' \subseteq spare \ {c}

\* A new connection: none is spare, or all that were have been closed.
Open(h, c) == /\ sound /\ sound' = TRUE
              /\ lease[h] = NoConn
              /\ c \in Conn \ Leased
              /\ lease' = [lease EXCEPT ![h] = c]
              /\ spare' = {}

Return(h) == /\ sound /\ sound' = TRUE
             /\ lease[h] # NoConn
             /\ lease' = [lease EXCEPT ![h] = NoConn]
             /\ spare' = spare \cup {lease[h]}

\* A holder closes the connection that was lent to it.
Close(h) == /\ sound /\ sound' = TRUE
            /\ lease[h] # NoConn
            /\ lease' = [lease EXCEPT ![h] = NoConn]
            /\ UNCHANGED spare

CloseSpare == /\ sound /\ sound' = TRUE
              /\ spare' \subseteq spare
              /\ UNCHANGED lease

\* Clearing the pool of connections in use ends the promise.
Clear   == sound /\ sound' = FALSE /\ spare' = {} /\ UNCHANGED lease
Unsound == ~sound /\ sound' = FALSE

Next == \/ \E h \in Holder : \/ \E c \in Conn : Lend(h, c) \/ Open(h, c)
                             \/ Return(h)
                             \/ Close(h)
        \/ CloseSpare
        \/ Clear
        \/ Unsound

Spec == Init /\ [][Next]_vars

=============================================================================
