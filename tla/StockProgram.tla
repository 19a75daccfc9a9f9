---------------------------- MODULE StockProgram ----------------------------
(***************************************************************************)
(* The program mysqlppexe (src/mysqlppexe): it reads the lines of a file,  *)
(* empties the table, writes all rows with one replaceAll(), then each row *)
(* again with replaceDB(), and at last loads the table.  Nothing is done   *)
(* in a transaction, and nobody looks at what the calls return.            *)
(*                                                                         *)
(* Of a line only what decides its fate is kept: whether it has six fields *)
(* and numbers where they belong, whether the server accepts its           *)
(* value_list(), which escapes nothing, and its item, which is the key of  *)
(* the table (external: the schema is not in the repository).  replaceAll  *)
(* is MysqlBatch; here it cuts the rows into statements anywhere, and a    *)
(* statement with a row that the server refuses is refused as a whole.     *)
(***************************************************************************)
EXTENDS Integers, Sequences

Sets == INSTANCE FiniteSetsExt

CONSTANTS Item,      \* keys
          MaxLines   \* bound on the lines of the file

Kind == {"short", "nonumber", "refused", "good"}

VARIABLES file,       \* the lines that were read, as <<kind, item>>
          at,         \* where main() is
          stock_vec,  \* the numbers of the lines that rows were made of
          done,       \* how many rows replaceAll(), then the loop after it, is done with
          table,      \* per item the line of its row, 0 if there is none; an older row is -1
          failed,     \* history: a call failed that need not have
          loaded      \* what the last loadWhere() returned

stock == <<file, at, stock_vec, done, table, failed, loaded>>

NoRows == [i \in Item |-> 0]

Init == /\ file = <<>> /\ at = "read" /\ stock_vec = <<>> /\ done = 0
        /\ table = [i \in Item |-> -1]
        /\ failed = FALSE /\ loaded = NoRows

\* read_stock_items(): a line without six fields is skipped, one without its numbers makes
\* the constructor of Stock throw, which nobody catches.
ReadLine(line) ==
    /\ at = "read" /\ Len(file) < MaxLines
    /\ file' = Append(file, line)
    /\ at' = IF line[1] = "nonumber" THEN "ended" ELSE at
    /\ stock_vec' = IF line[1] \in {"refused", "good"}
                    THEN Append(stock_vec, Len(file')) ELSE stock_vec
    /\ UNCHANGED <<done, table, failed, loaded>>

\* The end of the file; or it cannot be opened, and test_replaceall() returns.
EndOfFile ==
    /\ at = "read" /\ at' = "delete"
    /\ UNCHANGED <<file, stock_vec, done, table, failed, loaded>>

NoFile ==
    /\ at = "read" /\ file = <<>> /\ at' = "load" /\ failed' = TRUE
    /\ UNCHANGED <<file, stock_vec, done, table, loaded>>

\* A row is written, under its key.
Written(t, n) == [t EXCEPT ![file[n][2]] = n]

\* Rows are written in their order: of those with one key the last remains.
WrittenAll(t, rows) ==
    [i \in Item |-> LET those == {k \in DOMAIN rows : file[rows[k]][2] = i}
                    IN  IF those = {} THEN t[i] ELSE rows[Sets!Max(those)]]

\* Stock::deleteWhere("")
DeleteWhere ==
    /\ at = "delete" /\ at' = "replace"
    /\ \/ table' = NoRows /\ UNCHANGED failed
       \/ failed' = TRUE /\ UNCHANGED table
    /\ UNCHANGED <<file, stock_vec, done, loaded>>

\* Stock::replaceAll(), one statement with the rows up to the n-th: it is executed; or it
\* fails, or is refused, and replaceAll() returns.  Also when there is no packet size.
ReplaceAll(n) ==
    LET rows == SubSeq(stock_vec, done + 1, n)
    IN  /\ at = "replace" /\ n \in done + 1 .. Len(stock_vec)
        /\ \/ /\ \A k \in DOMAIN rows : file[rows[k]][1] = "good"
              /\ table' = WrittenAll(table, rows) /\ done' = n
              /\ UNCHANGED <<at, failed>>
           \/ /\ \E k \in DOMAIN rows : file[rows[k]][1] = "refused"
              /\ at' = "each" /\ done' = 0 /\ UNCHANGED <<table, failed>>
           \/ at' = "each" /\ done' = 0 /\ failed' = TRUE /\ UNCHANGED table
        /\ UNCHANGED <<file, stock_vec, loaded>>

ReplacedAll ==
    /\ at = "replace" /\ done = Len(stock_vec) /\ at' = "each" /\ done' = 0
    /\ UNCHANGED <<file, stock_vec, table, failed, loaded>>

\* Mutant: the loop ends with the first row that was refused.
AfterRefusedStops == at' = "load" /\ UNCHANGED done

\* The loop does not look at what replaceDB() returns.
AfterRefused == done' = done + 1 /\ UNCHANGED at

\* Stock::replaceDB() of the next row.
ReplaceDB ==
    /\ at = "each" /\ done < Len(stock_vec)
    /\ LET n == stock_vec[done + 1]
       IN  \/ /\ file[n][1] = "good" /\ table' = Written(table, n)
              /\ done' = done + 1 /\ UNCHANGED <<at, failed>>
           \/ file[n][1] = "refused" /\ AfterRefused /\ UNCHANGED <<table, failed>>
           \/ done' = done + 1 /\ failed' = TRUE /\ UNCHANGED <<at, table>>
    /\ UNCHANGED <<file, stock_vec, loaded>>

EachReplaced ==
    /\ at = "each" /\ done = Len(stock_vec) /\ at' = "load"
    /\ UNCHANGED <<file, stock_vec, done, table, failed, loaded>>

\* loadWhere(""), which gives no rows after an error.
LoadWhere ==
    /\ at = "load" /\ at' = "end"
    /\ \/ loaded' = table /\ UNCHANGED failed
       \/ loaded' = NoRows /\ failed' = TRUE
    /\ UNCHANGED <<file, stock_vec, done, table>>

\* A ScopedMySqlConn has to connect, in vain; or the packet size cannot be asked for.
ConnectFails ==
    /\ at \in {"delete", "replace", "each", "load"} /\ at' = "ended"
    /\ UNCHANGED <<file, stock_vec, done, table, failed, loaded>>

Next == \/ \E line \in Kind \X Item : ReadLine(line)
        \/ EndOfFile \/ NoFile
        \/ DeleteWhere
        \/ \E n \in 1 .. MaxLines : ReplaceAll(n)
        \/ ReplacedAll \/ ReplaceDB \/ EachReplaced
        \/ LoadWhere
        \/ ConnectFails

Spec == Init /\ [][Next]_stock

-----------------------------------------------------------------------------
(* Properties *)

LinesOf(i) == {n \in DOMAIN file : file[n] = <<"good", i>>}

\* At the end the table holds, for each item, the last row of the file that the server
\* accepts, and nothing else, although one bad row makes replaceAll() give up and rows are
\* written twice; and that is what is loaded.  If a call failed, it holds at least no row
\* that was not in the file or there before.
FileIsStored == at = "end" =>
    \A i \in Item :
        /\ table[i] \in LinesOf(i) \cup {0} \cup (IF failed THEN {-1} ELSE {})
        /\ ~failed => /\ \A n \in LinesOf(i) : n <= table[i]
                      /\ loaded = table

=============================================================================
