------------------------------ MODULE MysqlBatch ------------------------------
(***************************************************************************)
(* MysqlConn::replaceAll() (src/Base/MySqlconn.h): a container of rows is  *)
(* written with REPLACE statements.  A statement is executed as soon as it *)
(* has grown past max_allowed_packet less a surplus, and what is left      *)
(* after the last row in a statement of its own.                           *)
(*                                                                         *)
(* Of a row only the length of its value_list() is kept, of a statement    *)
(* its length.  The server refuses a statement longer than the packet; any *)
(* other may fail as well, in one of two ways: execute() gives a false     *)
(* result, and nothing was stored, or it throws, and nobody can say.       *)
(***************************************************************************)
EXTENDS Integers, Sequences, FiniteSets

CONSTANTS Surplus,   \* surplus_size, 1000 in the code
          HeadLen,   \* length of "REPLACE INTO `table` (fields) VALUES"
          RowLens,   \* lengths of value lists
          MaxRows,   \* bound on the number of rows
          Packets    \* values of max_allowed_packet, 0 where it is not found

ASSUME BatchAssumption == /\ Surplus \in Nat /\ HeadLen \in Nat /\ MaxRows \in Nat
                          /\ RowLens \subseteq Nat /\ Packets \subseteq Nat

VARIABLES cont,        \* the rows, by their lengths
          max_packet,  \* max_allowed_packet of the server
          pc,          \* where the call is
          next,        \* how many rows have been put into a statement
          size,        \* query.str().size()
          readycount,  \* rows in the statement under construction
          saved_size,
          result,      \* what the call returned
          sent,        \* history: rows in the statements that were executed
          stored       \* history: how many rows were stored for certain

input == <<cont, max_packet>>
vars  == <<input, pc, next, size, readycount, saved_size, result, sent, stored>>

\* The return value -1, which as a uint64_t is a count as well.
ERROR == -1

Init == /\ cont \in UNION {[1 .. n -> RowLens] : n \in 0 .. MaxRows}
        /\ max_packet \in Packets
        /\ pc = "begin"
        /\ next = 0 /\ size = 0 /\ readycount = 0 /\ saved_size = 0
        /\ result = 0 /\ sent = <<>> /\ stored = 0

\* Mutant: the surplus is not taken off.
MaxSafeFull == max_packet

\* getMaxSafeMysqlPacketSize()
MaxSafe == IF max_packet <= Surplus THEN 0 ELSE max_packet - Surplus

Return(r) == pc' = "done" /\ result' = r

Begin ==
    /\ pc = "begin"
    /\ IF cont = <<>> \/ MaxSafe = 0
       THEN Return(0) /\ UNCHANGED size
       ELSE pc' = "rows" /\ size' = HeadLen /\ UNCHANGED result
    /\ UNCHANGED <<input, next, readycount, saved_size, sent, stored>>

\* The size of the packet is asked for outside the try block: what the query throws
\* goes through to the caller.
BeginThrows ==
    /\ pc = "begin" /\ cont # <<>>
    /\ pc' = "thrown"
    /\ UNCHANGED <<input, next, size, readycount, saved_size, result, sent, stored>>

\* The length of the statement with one more row: "(", the values, ")", and a
\* comma before all rows but the first.
Grown(row) == size + cont[row] + (IF readycount > 0 THEN 3 ELSE 2)

\* One turn of the loop.
AddRow ==
    /\ pc = "rows" /\ next < Len(cont)
    /\ next' = next + 1
    /\ size' = Grown(next')
    /\ readycount' = readycount + 1
    /\ pc' = IF size' > MaxSafe THEN "execute" ELSE "rows"
    /\ UNCHANGED <<input, saved_size, result, sent, stored>>

\* Mutant: what is left after the last row is not executed.
EndOfRowsForgets ==
    /\ pc = "rows" /\ next = Len(cont)
    /\ Return(saved_size)
    /\ UNCHANGED <<input, next, size, readycount, saved_size, sent, stored>>

\* The loop is over.
EndOfRows ==
    /\ pc = "rows" /\ next = Len(cont)
    /\ IF readycount > 0 THEN pc' = "last" /\ UNCHANGED result ELSE Return(saved_size)
    /\ UNCHANGED <<input, next, size, readycount, saved_size, sent, stored>>

\* The rows of the statement under construction.
Statement == [i \in 1 .. readycount |-> next - readycount + i]

Executing == pc \in {"execute", "last"}

\* execute() stored the rows; a row that replaces another counts twice.
Stores(n) ==
    /\ Executing
    /\ size <= max_packet
    /\ n \in readycount .. 2 * readycount
    /\ saved_size' = saved_size + n
    /\ sent' = sent \o Statement
    /\ stored' = stored + readycount
    /\ size' = HeadLen
    /\ readycount' = 0
    /\ IF pc = "last" THEN Return(saved_size') ELSE pc' = "rows" /\ UNCHANGED result
    /\ UNCHANGED <<input, next>>

\* Mutant: the rows of the failed statement are counted.
FailsCounted ==
    /\ Executing /\ Return(saved_size + readycount)
    /\ sent' = sent \o Statement
    /\ UNCHANGED <<input, next, size, readycount, saved_size, stored>>

\* execute() gave a false result.
Fails ==
    /\ Executing
    /\ Return(saved_size)
    /\ sent' = sent \o Statement
    /\ UNCHANGED <<input, next, size, readycount, saved_size, stored>>

\* execute() threw; what earlier statements stored stays in the table.
Throws ==
    /\ Executing
    /\ Return(ERROR)
    /\ sent' = sent \o Statement
    /\ UNCHANGED <<input, next, size, readycount, saved_size, stored>>

Next == \/ Begin \/ BeginThrows \/ AddRow \/ EndOfRows
        \/ \E n \in 1 .. 2 * MaxRows : Stores(n)
        \/ Fails \/ Throws

Spec == Init /\ [][Next]_vars

-----------------------------------------------------------------------------
(* Properties *)

TypeOK ==
    /\ cont \in Seq(RowLens) /\ max_packet \in Packets
    /\ pc \in {"begin", "rows", "execute", "last", "done", "thrown"}
    /\ next \in 0 .. Len(cont) /\ size \in Nat /\ readycount \in Nat
    /\ saved_size \in Nat /\ stored \in Nat
    /\ result \in Nat \cup {ERROR}
    /\ sent \in Seq(Nat)

\* No row is sent twice and none is left out between two statements, and where every
\* row that was sent is stored, every row there is was sent.
RowsOnce ==
    /\ \A i \in DOMAIN sent : sent[i] = i
    /\ pc = "done" /\ MaxSafe > 0 /\ stored = Len(sent) /\ result # ERROR => stored = Len(cont)

\* Every row fits into the surplus, and the head into the rest of the packet.
RowsShort == HeadLen <= MaxSafe /\ \A i \in DOMAIN cont : cont[i] + 3 <= Surplus

\* The size is compared after the row that exceeds it was added, yet the server never
\* gets a statement that is too long for it, as long as each row fits in the surplus.
FitsPacket == RowsShort /\ Executing => size <= max_packet

\* The return value tells what is in the table: each row stored counts once or
\* twice, and 0 means that nothing was stored, also after a failure half-way.
ResultTells == pc = "done" /\ result # ERROR => stored <= result /\ result <= 2 * stored

=============================================================================
