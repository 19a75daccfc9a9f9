-------------------------- MODULE MysqlTransactions --------------------------
(***************************************************************************)
(* Transactions on pooled connections: MysqlConn (src/Base/MySqlconn.cpp)  *)
(* lent by MyConnPool, whose isConnected() is always TRUE for it, so that  *)
(* whatever was released is lent again as it is.                           *)
(*                                                                         *)
(* The pool is the one of ConnLease.  mysqlpp and the server are external: *)
(* a statement outside a transaction is permanent at once, START           *)
(* TRANSACTION commits what is open, a connection that is lost or closed   *)
(* rolls it back.  connected() is a flag of the client, which does not     *)
(* notice that a connection is lost; statements on it throw.               *)
(***************************************************************************)
CONSTANTS Holder,  \* scopes with a ScopedMySqlConn
          Conn,    \* MysqlConn objects
          NoConn

VARIABLES lease,            \* per holder: the connection lent to it
          spare,            \* open connections that are lent to nobody
          m_inTransaction,  \* the connections for which it is set
          opened,           \* connections with an open transaction on the server
          lost,             \* connections that the server no longer has
          pending,          \* per connection: whose statements are in its transaction
          left,             \* history: holders that released inside a transaction
          permanent         \* history: <<who made it permanent, whose statement it was>>

mysql == <<lease, spare, m_inTransaction, opened, lost, pending, left, permanent>>

Init == /\ lease = [h \in Holder |-> NoConn] /\ spare = {}
        /\ m_inTransaction = {} /\ opened = {} /\ lost = {}
        /\ pending = [c \in Conn |-> {}]
        /\ left = {} /\ permanent = {}

Leased == {lease[h] : h \in Holder} \ {NoConn}

\* ~MysqlConn() of some connections: a rollback that may fail, and disconnect().
Destroy(S) == /\ m_inTransaction' = m_inTransaction \ S
              /\ opened' = opened \ S /\ lost' = lost \ S
              /\ pending' = [c \in Conn |-> IF c \in S THEN {} ELSE pending[c]]

Lend(h) ==
    /\ lease[h] = NoConn
    /\ \E c \in spare, kept \in SUBSET spare :
          /\ lease' = [lease EXCEPT ![h] = c] /\ spare' = kept \ {c}
          /\ Destroy(spare \ (kept \cup {c}))
    /\ UNCHANGED <<left, permanent>>

\* The constructor, where connect() succeeds; otherwise it throws.
Open(h) ==
    /\ lease[h] = NoConn /\ spare = {}
    /\ \E c \in Conn \ Leased : lease' = [lease EXCEPT ![h] = c]
    /\ UNCHANGED <<spare, m_inTransaction, opened, lost, pending, left, permanent>>

Release(h) ==
    /\ lease[h] # NoConn
    /\ lease' = [lease EXCEPT ![h] = NoConn] /\ spare' = spare \cup {lease[h]}
    /\ left' = IF lease[h] \in opened THEN left \cup {h} ELSE left
    /\ UNCHANGED <<m_inTransaction, opened, lost, pending, permanent>>

CloseSpare == /\ \E S \in SUBSET spare : spare' = spare \ S /\ Destroy(S)
              /\ UNCHANGED <<lease, left, permanent>>

\* On a lost connection every statement throws and changes nothing.
Usable(h) == lease[h] # NoConn /\ lease[h] \notin lost

\* query() and execute().  In a transaction the statement waits for its end; or it makes the
\* server end the transaction, which nobody tells m_inTransaction: a deadlock rolls it back
\* with the statement, and a statement that commits implicitly commits it.
Execute(h) ==
    /\ Usable(h)
    /\ LET c == lease[h]
       IN \/ /\ c \notin opened /\ permanent' = permanent \cup {<<h, h>>}
             /\ UNCHANGED <<opened, pending>>
          \/ /\ c \in opened /\ pending' = [pending EXCEPT ![c] = @ \cup {h}]
             /\ UNCHANGED <<opened, permanent>>
          \/ /\ c \in opened /\ opened' = opened \ {c}
             /\ pending' = [pending EXCEPT ![c] = {}]
             /\ permanent' \in {permanent, permanent \cup ({h} \X (pending[c] \cup {h}))}
    /\ UNCHANGED <<lease, spare, m_inTransaction, lost, left>>

\* The server ends the transaction of c; h has asked for it.
Ends(h, c, commits) ==
    /\ permanent' = IF commits THEN permanent \cup ({h} \X pending[c]) ELSE permanent
    /\ pending' = [pending EXCEPT ![c] = {}]

beginTransaction(h) ==
    /\ Usable(h)
    /\ Ends(h, lease[h], TRUE)
    /\ opened' = opened \cup {lease[h]} /\ m_inTransaction' = m_inTransaction \cup {lease[h]}
    /\ UNCHANGED <<lease, spare, lost, left>>

\* Mutant: the rollback leaves the transaction open.
rollbackNothing(h) ==
    /\ Usable(h)
    /\ m_inTransaction' = m_inTransaction \ {lease[h]}
    /\ UNCHANGED <<lease, spare, opened, lost, pending, left, permanent>>

commit(h) ==
    /\ Usable(h)
    /\ Ends(h, lease[h], TRUE)
    /\ opened' = opened \ {lease[h]} /\ m_inTransaction' = m_inTransaction \ {lease[h]}
    /\ UNCHANGED <<lease, spare, lost, left>>

rollback(h) ==
    /\ Usable(h)
    /\ Ends(h, lease[h], FALSE)
    /\ opened' = opened \ {lease[h]} /\ m_inTransaction' = m_inTransaction \ {lease[h]}
    /\ UNCHANGED <<lease, spare, lost, left>>

\* The server drops a connection; m_inTransaction stays.
Lose(c) ==
    /\ c \in spare \cup Leased /\ lost' = lost \cup {c}
    /\ opened' = opened \ {c} /\ pending' = [pending EXCEPT ![c] = {}]
    /\ UNCHANGED <<lease, spare, m_inTransaction, left, permanent>>

Next == \/ \E h \in Holder : \/ Lend(h) \/ Open(h) \/ Release(h)
                             \/ Execute(h) \/ beginTransaction(h) \/ commit(h) \/ rollback(h)
        \/ \E c \in Conn : Lose(c)
        \/ CloseSpare

Spec == Init /\ [][Next]_mysql

-----------------------------------------------------------------------------
(* Properties *)

\* What a holder makes permanent is its own work, and it works in a transaction only if it
\* began one, as long as nobody releases a connection inside a transaction: then the next
\* holder is in that transaction, and commits it by beginning its own.  The destructor rolls
\* back whatever is open: m_inTransaction may be set where the server has ended the
\* transaction or lost the connection, but is never missing.
OwnTransactions ==
    /\ \A p \in permanent : p[1] = p[2] \/ p[2] \in left
    /\ left = {} => /\ opened \subseteq Leased
                    /\ \A h \in Holder : lease[h] \in opened => pending[lease[h]] \subseteq {h}
    /\ opened \subseteq m_inTransaction

=============================================================================
