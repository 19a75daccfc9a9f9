---------------------------- MODULE MCMysqlBatch ----------------------------
(***************************************************************************)
(* Small instances of MysqlBatch and, beside it, of MysqlTransactions and  *)
(* StockProgram: `part' names the one that a behaviour is about, and the   *)
(* others rest.                                                            *)
(***************************************************************************)
EXTENDS MysqlBatch

CONSTANTS Holder, Conn, NoConn, Item, MaxLines

ASSUME ConnAssumption == NoConn \notin Conn

VARIABLES part,
          lease, spare, m_inTransaction, opened, lost, pending, left, permanent,
          file, at, stock_vec, done, table, failed, loaded

mysqlVars == <<lease, spare, m_inTransaction, opened, lost, pending, left, permanent>>
stockVars == <<file, at, stock_vec, done, table, failed, loaded>>

Mysql == INSTANCE MysqlTransactions
Stock == INSTANCE StockProgram

MCInit == /\ part \in {"batch", "mysql", "stock"}
          /\ Init /\ (part # "batch" => cont = <<>> /\ max_packet = 0)
          /\ Mysql!Init /\ Stock!Init

MCNext == /\ UNCHANGED part
          /\ \/ part = "batch" /\ Next /\ UNCHANGED <<mysqlVars, stockVars>>
             \/ part = "mysql" /\ Mysql!Next /\ UNCHANGED <<vars, stockVars>>
             \/ part = "stock" /\ Stock!Next /\ UNCHANGED <<vars, mysqlVars>>

MCSpec == MCInit /\ [][MCNext]_<<part, vars, mysqlVars, stockVars>>

OwnTransactions == Mysql!OwnTransactions
FileIsStored    == Stock!FileIsStored

=============================================================================
