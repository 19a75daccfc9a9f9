--------------------------- MODULE MysqlBatchProofs ---------------------------
(***************************************************************************)
(* Proofs about MysqlBatch, for all lengths of rows and sizes of packets;  *)
(* and, in the instances of MCMysqlBatch, about MysqlTransactions, for any *)
(* holders and connections, and StockProgram, for files of any length.     *)
(***************************************************************************)
EXTENDS MCMysqlBatch, SequenceTheorems, WellFoundedInduction, TLAPS

-----------------------------------------------------------------------------
(* Numbers *)

\* A set of numbers has a least one, a bounded one a greatest one.
LEMMA LeastNat ==
  ASSUME NEW T \in SUBSET Nat, T # {}
  PROVE  \E x \in T : \A y \in T : x <= y
<1> DEFINE R == OpToRel(<, Nat)
<1>1. IsWellFoundedOn(R, Nat)
  BY NatLessThanWellFounded
<1>2. \A x, y \in Nat : y < x => <<y, x>> \in R
  BY DEF OpToRel
<1> HIDE DEF R
<1>3. \E x \in T : \A y \in T : ~ (<<y, x>> \in R)
  BY <1>1, WFMin
<1>4. \E x \in T : \A y \in T : ~ (y < x)
  BY <1>2, <1>3, Zenon
<1> QED
  BY <1>4

LEMMA GreatestNat ==
  ASSUME NEW n \in Nat, NEW T \in SUBSET (0 .. n), T # {}
  PROVE  \E x \in T : \A y \in T : y <= x
<1> DEFINE D == {k \in Nat : n - k \in T}
<1>1. D \in SUBSET Nat /\ D # {}
  <2>1. PICK x \in T : TRUE
    OBVIOUS
  <2>2. x \in 0 .. n /\ n - (n - x) = x
    OBVIOUS
  <2>3. n - x \in D
    BY <2>2
  <2> QED
    BY <2>3
<1>2. PICK d \in D : \A e \in D : d <= e
  BY <1>1, LeastNat
<1>3. ASSUME NEW y \in T PROVE y <= n - d
  <2>1. y \in 0 .. n /\ n - (n - y) = y
    OBVIOUS
  <2>2. n - y \in D
    BY <2>1
  <2> QED
    BY <1>2, <2>1, <2>2, SMTT(30)
<1> QED
  BY <1>2, <1>3

-----------------------------------------------------------------------------

Running == pc \in {"rows", "execute", "last"}

\* How long the statement can be at each point.
SizeOK == /\ Running => MaxSafe > 0
          /\ RowsShort => /\ pc \in {"rows", "last"} => size <= MaxSafe
                          /\ pc = "execute" => size <= MaxSafe + Surplus

\* What has been sent are the first rows, all but those of the statement under
\* construction.
RowsOK == /\ \A i \in DOMAIN sent : sent[i] = i
          /\ pc = "begin" => next = 0 /\ readycount = 0 /\ sent = <<>> /\ stored = 0
          /\ Running => stored = Len(sent) /\ Len(sent) = next - readycount
          /\ Executing => readycount > 0
          /\ pc = "last" => next = Len(cont)
          /\ pc = "done" /\ MaxSafe > 0 /\ stored = Len(sent) /\ result # ERROR =>
                stored = Len(cont)

\* The count in relation to the table, during the call and after it.
CountOK == /\ stored <= saved_size /\ saved_size <= 2 * stored
           /\ ResultTells

IInv == TypeOK /\ SizeOK /\ RowsOK /\ CountOK

\* The rows of a statement continue what was sent before.
LEMMA Continues ==
    \A s, t \in Seq(Nat) : (\A i \in 1 .. Len(s) : s[i] = i) /\ (\A i \in 1 .. Len(t) : t[i] = Len(s) + i) =>
        /\ s \o t \in Seq(Nat)
        /\ Len(s \o t) = Len(s) + Len(t)
        /\ \A i \in 1 .. Len(s) + Len(t) : (s \o t)[i] = i
  <1> SUFFICES ASSUME NEW s \in Seq(Nat), NEW t \in Seq(Nat),
                      \A i \in 1 .. Len(s) : s[i] = i, \A i \in 1 .. Len(t) : t[i] = Len(s) + i
               PROVE  /\ s \o t \in Seq(Nat)
                      /\ Len(s \o t) = Len(s) + Len(t)
                      /\ \A i \in 1 .. Len(s) + Len(t) : (s \o t)[i] = i
    OBVIOUS
  <1>1. s \o t \in Seq(Nat) /\ Len(s \o t) = Len(s) + Len(t)
    OBVIOUS
  <1>2. ASSUME NEW i \in 1 .. Len(s) + Len(t) PROVE (s \o t)[i] = i
    <2>1. CASE i <= Len(s)
      BY <2>1
    <2>2. CASE i > Len(s)
      <3>1. (s \o t)[i] = t[i - Len(s)]
        BY <2>2
      <3>2. i - Len(s) \in 1 .. Len(t)
        BY <2>2
      <3> QED
        BY <3>1, <3>2
    <2> QED
      BY <2>1, <2>2
  <1> QED
    BY <1>1, <1>2

\* The rows of the statement under construction.
LEMMA StatementRows ==
    ASSUME next \in Nat, readycount \in Nat, readycount <= next
    PROVE  /\ Statement \in Seq(Nat)
           /\ Len(Statement) = readycount
           /\ \A i \in 1 .. readycount : Statement[i] = next - readycount + i
  <1>1. Statement \in [1 .. readycount -> Nat]
    BY DEF Statement
  <1>2. Statement \in Seq(Nat) /\ Len(Statement) = readycount
    BY <1>1
  <1> QED
    BY <1>2 DEF Statement

LEMMA InitIInv == Init => IInv
  <1> SUFFICES ASSUME Init PROVE IInv
    OBVIOUS
  <1> USE BatchAssumption DEF Init
  <1>1. cont \in Seq(RowLens)
    <2>1. PICK n \in 0 .. MaxRows : cont \in [1 .. n -> RowLens]
      OBVIOUS
    <2> QED
      BY <2>1
  <1> QED
    BY <1>1 DEF IInv, TypeOK, SizeOK, RowsOK, CountOK, ResultTells, Running, Executing

\* Every step keeps the invariant.
LEMMA NextIInv == IInv /\ [Next]_vars => IInv'
  <1> SUFFICES ASSUME IInv, [Next]_vars PROVE IInv'
    OBVIOUS
  <1> USE BatchAssumption DEF IInv, Running, Executing, ERROR, Return, input
  <1>c. max_packet \in Nat /\ MaxSafe \in Nat /\ (MaxSafe > 0 => MaxSafe + Surplus = max_packet)
    BY DEF TypeOK, MaxSafe
  <1>d. ASSUME NEW i \in 1 .. Len(cont) PROVE cont[i] \in Nat
    <2>1. cont \in Seq(RowLens)
      BY DEF TypeOK
    <2>2. cont[i] \in RowLens
      BY ONLY <2>1, i \in 1 .. Len(cont)
    <2> QED
      BY ONLY <2>2, BatchAssumption DEF BatchAssumption
  <1>1. CASE Begin
    <2>1. UNCHANGED <<cont, max_packet, next, readycount, saved_size, sent, stored>>
      BY <1>1 DEF Begin
    <2>2. MaxSafe' = MaxSafe /\ RowsShort' = RowsShort
      BY <2>1 DEF MaxSafe, RowsShort
    <2>3. TypeOK'
      BY <1>1, <2>1 DEF Begin, TypeOK
    <2>4. SizeOK'
      BY <1>1, <1>c, <2>1, <2>2 DEF Begin, SizeOK, RowsShort, TypeOK
    <2>5. RowsOK'
      BY <1>1, <1>c, <2>1, <2>2 DEF Begin, RowsOK, TypeOK
    <2>6. CountOK'
      BY <1>1, <2>1 DEF Begin, CountOK, RowsOK, ResultTells, TypeOK
    <2> QED
      BY <2>3, <2>4, <2>5, <2>6
  <1>2. CASE AddRow
    <2>1. UNCHANGED <<cont, max_packet, saved_size, result, sent, stored>>
      BY <1>2 DEF AddRow
    <2>2. MaxSafe' = MaxSafe /\ RowsShort' = RowsShort
      BY <2>1 DEF MaxSafe, RowsShort
    <2>a. next + 1 \in 1 .. Len(cont) /\ cont[next + 1] \in Nat
      BY <1>2, <1>d DEF AddRow, TypeOK
    <2>b. size' = size + cont[next + 1] + (IF readycount > 0 THEN 3 ELSE 2)
      BY <1>2, <2>1 DEF AddRow, Grown
    <2>3. TypeOK'
      BY <1>2, <2>1, <2>a, <2>b, SMTT(30) DEF AddRow, TypeOK
    <2>4. SizeOK'
      <3>1. RowsShort => size <= MaxSafe /\ cont[next + 1] + 3 <= Surplus
        BY <1>2, <2>a DEF AddRow, SizeOK, RowsShort
      <3>2. size \in Nat /\ MaxSafe \in Nat /\ MaxSafe > 0
        BY <1>2, <1>c DEF AddRow, SizeOK, TypeOK
      <3>3. RowsShort => size' <= MaxSafe + Surplus
        BY <2>a, <2>b, <3>1, <3>2
      <3>4. pc' = IF size' > MaxSafe THEN "execute" ELSE "rows"
        BY <1>2 DEF AddRow
      <3>5. size' \in Nat
        BY <2>3 DEF TypeOK
      <3> QED
        BY <2>2, <3>2, <3>3, <3>4, <3>5 DEF SizeOK
    <2>5. RowsOK'
      BY <1>2, <2>1, <2>2 DEF AddRow, RowsOK, TypeOK
    <2>6. CountOK'
      BY <1>2, <2>1 DEF AddRow, CountOK, ResultTells
    <2> QED
      BY <2>3, <2>4, <2>5, <2>6
  <1>3. CASE EndOfRows
    <2>1. UNCHANGED <<cont, max_packet, next, size, readycount, saved_size, sent, stored>>
      BY <1>3 DEF EndOfRows
    <2>2. MaxSafe' = MaxSafe /\ RowsShort' = RowsShort
      BY <2>1 DEF MaxSafe, RowsShort
    <2>3. TypeOK'
      BY <1>3, <2>1 DEF EndOfRows, TypeOK
    <2>4. SizeOK'
      BY <1>3, <1>c, <2>1, <2>2 DEF EndOfRows, SizeOK, TypeOK
    <2>5. RowsOK'
      BY <1>3, <2>1, <2>2 DEF EndOfRows, RowsOK, TypeOK
    <2>6. CountOK'
      BY <1>3, <2>1 DEF EndOfRows, CountOK, ResultTells
    <2> QED
      BY <2>3, <2>4, <2>5, <2>6
  <1>4. ASSUME NEW n \in 1 .. 2 * MaxRows, Stores(n) PROVE IInv'
    <2>1. UNCHANGED <<cont, max_packet, next>>
      BY <1>4 DEF Stores
    <2>2. MaxSafe' = MaxSafe /\ RowsShort' = RowsShort
      BY <2>1 DEF MaxSafe, RowsShort
    <2>a. /\ sent' \in Seq(Nat) /\ Len(sent') = next
          /\ \A i \in DOMAIN sent' : sent'[i] = i
      <3>1. sent \in Seq(Nat) /\ next \in Nat /\ readycount \in Nat /\ Len(sent) = next - readycount
        BY <1>4 DEF Stores, TypeOK, RowsOK
      <3>2. \A i \in 1 .. Len(sent) : sent[i] = i
        BY <3>1 DEF RowsOK
      <3>3. /\ Statement \in Seq(Nat) /\ Len(Statement) = readycount
            /\ \A i \in 1 .. readycount : Statement[i] = Len(sent) + i
        BY <3>1, StatementRows
      <3>4. PICK s \in Seq(Nat), t \in Seq(Nat) : s = sent /\ t = Statement
        BY <3>1, <3>3
      <3>5. sent' = s \o t
        BY <1>4, <3>4 DEF Stores
      <3>6. /\ s \o t \in Seq(Nat) /\ Len(s \o t) = Len(s) + Len(t)
            /\ \A i \in 1 .. Len(s) + Len(t) : (s \o t)[i] = i
        <4>1. (\A i \in 1 .. Len(s) : s[i] = i) /\ (\A i \in 1 .. Len(t) : t[i] = Len(s) + i)
          BY ONLY <3>2, <3>3, <3>4
        <4> QED
          BY ONLY <4>1, Continues, s \in Seq(Nat), t \in Seq(Nat)
      <3>7. Len(s) + Len(t) = next
        BY ONLY <3>1, <3>3, <3>4
      <3>8. DOMAIN (s \o t) = 1 .. Len(s) + Len(t)
        BY ONLY <3>6
      <3> QED
        BY ONLY <3>5, <3>6, <3>7, <3>8
    <2>b. stored' = next /\ saved_size' \in Nat /\ stored' <= saved_size' /\ saved_size' <= 2 * stored'
      BY <1>4 DEF Stores, TypeOK, RowsOK, CountOK
    <2>3. TypeOK'
      BY <1>4, <2>1, <2>a, <2>b DEF Stores, TypeOK
    <2>4. SizeOK'
      BY <1>4, <1>c, <2>1, <2>2 DEF Stores, SizeOK, TypeOK, RowsShort
    <2>5. RowsOK'
      BY <1>4, <2>1, <2>2, <2>a, <2>b, SMTT(30) DEF Stores, RowsOK, TypeOK
    <2>6. CountOK'
      BY <1>4, <2>b DEF Stores, CountOK, ResultTells
    <2> QED
      BY <2>3, <2>4, <2>5, <2>6
  <1>5. CASE Fails \/ Throws
    <2>1. UNCHANGED <<cont, max_packet, next, size, readycount, saved_size, stored>>
      BY <1>5 DEF Fails, Throws
    <2>2. MaxSafe' = MaxSafe /\ RowsShort' = RowsShort
      BY <2>1 DEF MaxSafe, RowsShort
    <2>a. /\ sent' \in Seq(Nat) /\ Len(sent') = next
          /\ \A i \in DOMAIN sent' : sent'[i] = i
      <3>1. sent \in Seq(Nat) /\ next \in Nat /\ readycount \in Nat /\ Len(sent) = next - readycount
        BY <1>5 DEF Fails, Throws, TypeOK, RowsOK
      <3>2. \A i \in 1 .. Len(sent) : sent[i] = i
        BY <3>1 DEF RowsOK
      <3>3. /\ Statement \in Seq(Nat) /\ Len(Statement) = readycount
            /\ \A i \in 1 .. readycount : Statement[i] = Len(sent) + i
        BY <3>1, StatementRows
      <3>4. PICK s \in Seq(Nat), t \in Seq(Nat) : s = sent /\ t = Statement
        BY <3>1, <3>3
      <3>5. sent' = s \o t
        BY <1>5, <3>4 DEF Fails, Throws
      <3>6. /\ s \o t \in Seq(Nat) /\ Len(s \o t) = Len(s) + Len(t)
            /\ \A i \in 1 .. Len(s) + Len(t) : (s \o t)[i] = i
        <4>1. (\A i \in 1 .. Len(s) : s[i] = i) /\ (\A i \in 1 .. Len(t) : t[i] = Len(s) + i)
          BY ONLY <3>2, <3>3, <3>4
        <4> QED
          BY ONLY <4>1, Continues, s \in Seq(Nat), t \in Seq(Nat)
      <3>7. Len(s) + Len(t) = next
        BY ONLY <3>1, <3>3, <3>4
      <3>8. DOMAIN (s \o t) = 1 .. Len(s) + Len(t)
        BY ONLY <3>6
      <3> QED
        BY ONLY <3>5, <3>6, <3>7, <3>8
    <2>b. stored' < Len(sent')
      BY <1>5, <2>1, <2>a DEF Fails, Throws, TypeOK, RowsOK
    <2>3. TypeOK'
      BY <1>5, <2>1, <2>a DEF Fails, Throws, TypeOK
    <2>4. SizeOK'
      BY <1>5, <2>1, <2>2 DEF Fails, Throws, SizeOK
    <2>5. RowsOK'
      BY <1>5, <2>1, <2>2, <2>a, <2>b DEF Fails, Throws, RowsOK, TypeOK
    <2>6. CountOK'
      BY <1>5, <2>1 DEF Fails, Throws, CountOK, ResultTells
    <2> QED
      BY <2>3, <2>4, <2>5, <2>6
  <1>6. CASE BeginThrows
    BY <1>6 DEF BeginThrows, TypeOK, SizeOK, RowsOK, CountOK, ResultTells, MaxSafe, RowsShort
  <1>7. CASE UNCHANGED vars
    BY <1>7 DEF vars, TypeOK, SizeOK, RowsOK, CountOK, ResultTells, MaxSafe, RowsShort
  <1> QED
    BY <1>1, <1>2, <1>3, <1>4, <1>5, <1>6, <1>7 DEF Next

\* The invariant holds throughout.
THEOREM Inductive == Spec => []IInv
  BY InitIInv, NextIInv, PTL DEF Spec

\* All variables keep their types.
THEOREM TypeCorrect == Spec => []TypeOK
  BY Inductive, PTL DEF IInv

\* No row is sent twice or left out, whatever the lengths of the rows.
THEOREM EveryRowOnce == Spec => []RowsOnce
  <1>1. IInv => RowsOnce
    BY DEF IInv, RowsOK, RowsOnce
  <1> QED
    BY Inductive, <1>1, PTL

\* A surplus that has room for every row keeps every statement within the packet.
THEOREM NeverTooLong == Spec => []FitsPacket
  <1>1. IInv => FitsPacket
    BY BatchAssumption
    DEF IInv, TypeOK, SizeOK, FitsPacket, Executing, Running, MaxSafe
  <1> QED
    BY Inductive, <1>1, PTL

\* The return value says how much is in the table.
THEOREM CountIsRight == Spec => []ResultTells
  <1>1. IInv => ResultTells
    BY DEF IInv, CountOK
  <1> QED
    BY Inductive, <1>1, PTL

-----------------------------------------------------------------------------
(* MysqlTransactions *)

\* A connection is lent to one holder at a time or spare, and only one that is open has
\* anything to it.
MysqlTypes ==
    /\ lease \in [Holder -> Conn \cup {NoConn}] /\ spare \subseteq Conn
    /\ \A h \in Holder : lease[h] \notin spare
    /\ \A h, g \in Holder : lease[h] = lease[g] /\ lease[h] # NoConn => h = g
    /\ m_inTransaction \subseteq spare \cup Mysql!Leased
    /\ opened \subseteq spare \cup Mysql!Leased
    /\ pending \in [Conn -> SUBSET Holder]

\* Whose statements are in a transaction still holds the connection, or released it
\* inside a transaction.
TransactionsOK ==
    /\ \A c \in Conn : pending[c] # {} => c \in opened
    /\ \A c \in Conn : \A p \in pending[c] : lease[p] = c \/ p \in left
    /\ \A p \in permanent : p[1] = p[2] \/ p[2] \in left
    /\ left = {} => opened \subseteq Mysql!Leased
    /\ opened \subseteq m_inTransaction

MysqlInv == MysqlTypes /\ TransactionsOK

LEMMA InitMysqlInv == Mysql!Init => MysqlInv
BY ConnAssumption DEF Mysql!Init, MysqlInv, MysqlTypes, TransactionsOK

\* Connections that are spare are destroyed.
LEMMA DestroyMysql ==
  ASSUME MysqlInv, NEW S \in SUBSET spare, Mysql!Destroy(S),
         UNCHANGED <<left, permanent>>,
         lease' \in [Holder -> Conn \cup {NoConn}], spare' \subseteq spare \ S,
         \A h \in Holder : lease[h] # NoConn => lease'[h] = lease[h],
         \A h \in Holder : lease[h] = NoConn /\ lease'[h] # NoConn => lease'[h] \in spare \ S,
         \A h, g \in Holder : lease'[h] = lease'[g] /\ lease'[h] # NoConn => h = g,
         \A h \in Holder : lease'[h] \notin spare',
         spare \ S \subseteq spare' \cup Mysql!Leased'
  PROVE  MysqlInv'
<1> USE ConnAssumption DEF MysqlInv
<1>1. /\ m_inTransaction' = m_inTransaction \ S /\ opened' = opened \ S /\ lost' = lost \ S
      /\ pending' \in [Conn -> SUBSET Holder]
      /\ \A c \in Conn : pending'[c] = IF c \in S THEN {} ELSE pending[c]
  BY DEF Mysql!Destroy, MysqlTypes
<1>2. Mysql!Leased \subseteq Mysql!Leased' /\ S \cap Mysql!Leased = {} /\ S \cap Mysql!Leased' = {}
  BY DEF Mysql!Leased, MysqlTypes
<1>3. MysqlTypes'
  BY <1>1, <1>2 DEF MysqlTypes
<1>4. TransactionsOK'
  <2>1. \A c \in Conn : pending'[c] # {} => c \in opened'
    BY <1>1 DEF TransactionsOK
  <2>2. \A c \in Conn : \A p \in pending'[c] : lease'[p] = c \/ p \in left'
    BY <1>1 DEF TransactionsOK, MysqlTypes
  <2>3. \A p \in permanent' : p[1] = p[2] \/ p[2] \in left'
    BY DEF TransactionsOK
  <2>4. left' = {} => opened' \subseteq Mysql!Leased'
    BY <1>1, <1>2 DEF TransactionsOK
  <2>5. opened' \subseteq m_inTransaction'
    BY <1>1 DEF TransactionsOK
  <2> QED
    BY <2>1, <2>2, <2>3, <2>4, <2>5 DEF TransactionsOK
<1> QED
  BY <1>3, <1>4

LEMMA LendMysql == ASSUME MysqlInv, NEW h \in Holder, Mysql!Lend(h) PROVE MysqlInv'
<1> USE ConnAssumption
<1>1. PICK c \in spare, kept \in SUBSET spare :
         /\ lease' = [lease EXCEPT ![h] = c] /\ spare' = kept \ {c}
         /\ Mysql!Destroy(spare \ (kept \cup {c}))
  BY DEF Mysql!Lend
<1>2. lease[h] = NoConn /\ UNCHANGED <<left, permanent>>
  BY DEF Mysql!Lend
<1>3. /\ lease' \in [Holder -> Conn \cup {NoConn}] /\ c \in Conn
      /\ \A g \in Holder : lease'[g] = IF g = h THEN c ELSE lease[g]
      /\ \A g \in Holder : lease[g] # c
  BY <1>1 DEF MysqlInv, MysqlTypes
<1>4. /\ \A g, k \in Holder : lease'[g] = lease'[k] /\ lease'[g] # NoConn => g = k
      /\ \A g \in Holder : lease'[g] \notin spare'
  BY <1>1, <1>3 DEF MysqlInv, MysqlTypes
<1>5. c \in Mysql!Leased'
  BY <1>3 DEF Mysql!Leased
<1> DEFINE S == spare \ (kept \cup {c})
<1>6. S \in SUBSET spare /\ Mysql!Destroy(S) /\ spare' \subseteq spare \ S
      /\ spare \ S \subseteq spare' \cup Mysql!Leased' /\ c \in spare \ S
  BY <1>1, <1>5
<1> HIDE DEF S
<1>7. /\ \A g \in Holder : lease[g] # NoConn => lease'[g] = lease[g]
      /\ \A g \in Holder : lease[g] = NoConn /\ lease'[g] # NoConn => lease'[g] \in spare \ S
  BY <1>2, <1>3, <1>6
<1> QED
  BY <1>2, <1>3, <1>4, <1>6, <1>7, DestroyMysql

LEMMA CloseSpareMysql == ASSUME MysqlInv, Mysql!CloseSpare PROVE MysqlInv'
<1>1. PICK S \in SUBSET spare : spare' = spare \ S /\ Mysql!Destroy(S)
  BY DEF Mysql!CloseSpare
<1>2. UNCHANGED <<lease, left, permanent>>
  BY DEF Mysql!CloseSpare
<1>3. spare \ S \subseteq spare' \cup Mysql!Leased'
  BY <1>1
<1> QED
  BY <1>1, <1>2, <1>3, DestroyMysql DEF MysqlInv, MysqlTypes

LEMMA OpenMysql == ASSUME MysqlInv, NEW h \in Holder, Mysql!Open(h) PROVE MysqlInv'
<1> USE ConnAssumption DEF MysqlInv
<1>1. PICK c \in Conn \ Mysql!Leased : lease' = [lease EXCEPT ![h] = c]
  BY DEF Mysql!Open
<1>2. /\ lease[h] = NoConn /\ spare = {}
      /\ UNCHANGED <<spare, m_inTransaction, opened, lost, pending, left, permanent>>
  BY DEF Mysql!Open
<1>3. /\ lease' \in [Holder -> Conn \cup {NoConn}]
      /\ \A g \in Holder : lease'[g] = IF g = h THEN c ELSE lease[g]
      /\ \A g \in Holder : lease[g] # c
  BY <1>1 DEF MysqlTypes, Mysql!Leased
<1>4. Mysql!Leased \subseteq Mysql!Leased'
  BY <1>2, <1>3 DEF Mysql!Leased
<1>5. MysqlTypes'
  BY <1>1, <1>2, <1>3, <1>4 DEF MysqlTypes
<1>6. TransactionsOK'
  <2>1. \A d \in Conn : \A p \in pending'[d] : lease'[p] = d \/ p \in left'
    BY <1>2, <1>3 DEF TransactionsOK, MysqlTypes
  <2> QED
    BY <1>2, <1>4, <2>1 DEF TransactionsOK
<1> QED
  BY <1>5, <1>6

LEMMA ReleaseMysql == ASSUME MysqlInv, NEW h \in Holder, Mysql!Release(h) PROVE MysqlInv'
<1> USE ConnAssumption DEF MysqlInv
<1> DEFINE c == lease[h]
<1>1. /\ c \in Conn /\ spare' = spare \cup {c}
      /\ lease' \in [Holder -> Conn \cup {NoConn}]
      /\ \A g \in Holder : lease'[g] = IF g = h THEN NoConn ELSE lease[g]
      /\ left' = (IF c \in opened THEN left \cup {h} ELSE left)
      /\ UNCHANGED <<m_inTransaction, opened, lost, pending, permanent>>
  BY DEF Mysql!Release, MysqlTypes
<1>2. Mysql!Leased \subseteq Mysql!Leased' \cup {c}
  BY <1>1 DEF Mysql!Leased
<1>3. MysqlTypes'
  BY <1>1, <1>2 DEF MysqlTypes
<1>4. TransactionsOK'
  <2>1. \A d \in Conn : \A p \in pending'[d] : lease'[p] = d \/ p \in left'
    BY <1>1 DEF TransactionsOK, MysqlTypes
  <2>2. left' = {} => opened' \subseteq Mysql!Leased'
    BY <1>1, <1>2 DEF TransactionsOK
  <2> QED
    BY <1>1, <2>1, <2>2 DEF TransactionsOK
<1> QED
  BY <1>3, <1>4

LEMMA ExecuteMysql == ASSUME MysqlInv, NEW h \in Holder, Mysql!Execute(h) PROVE MysqlInv'
<1> USE ConnAssumption DEF MysqlInv
<1> DEFINE c == lease[h]
<1>1. /\ c \in Conn /\ UNCHANGED <<lease, spare, m_inTransaction, lost, left>>
      /\ Mysql!Leased' = Mysql!Leased
  BY DEF Mysql!Execute, Mysql!Usable, MysqlTypes, Mysql!Leased
<1>2. CASE c \in opened /\ pending' = [pending EXCEPT ![c] = @ \cup {h}]
           /\ UNCHANGED <<opened, permanent>>
  <2>1. /\ pending' \in [Conn -> SUBSET Holder]
        /\ \A d \in Conn : pending'[d] = IF d = c THEN pending[d] \cup {h} ELSE pending[d]
    BY <1>1, <1>2 DEF MysqlTypes
  <2> QED
    BY <1>1, <1>2, <2>1 DEF MysqlTypes, TransactionsOK
<1>3. CASE permanent' = permanent \cup {<<h, h>>} /\ UNCHANGED <<opened, pending>>
  BY <1>1, <1>3 DEF MysqlTypes, TransactionsOK
<1>4. CASE /\ opened' = opened \ {c} /\ pending' = [pending EXCEPT ![c] = {}]
           /\ permanent' \in {permanent, permanent \cup ({h} \X (pending[c] \cup {h}))}
  <2>1. /\ pending' \in [Conn -> SUBSET Holder]
        /\ \A d \in Conn : pending'[d] = IF d = c THEN {} ELSE pending[d]
    BY <1>1, <1>4 DEF MysqlTypes
  <2>2. \A p \in pending[c] \cup {h} : p = h \/ p \in left
    BY <1>1 DEF TransactionsOK, MysqlTypes
  <2>3. \A p \in permanent' : p[1] = p[2] \/ p[2] \in left'
    BY <1>1, <1>4, <2>2 DEF TransactionsOK
  <2>4. left' = {} => opened' \subseteq Mysql!Leased'
    BY <1>1, <1>4 DEF TransactionsOK
  <2>5. opened' \subseteq m_inTransaction'
    BY <1>1, <1>4 DEF TransactionsOK
  <2>6. TransactionsOK'
    BY <1>1, <1>4, <2>1, <2>3, <2>4, <2>5 DEF TransactionsOK
  <2> QED
    BY <1>1, <1>4, <2>1, <2>6 DEF MysqlTypes
<1> QED
  BY <1>2, <1>3, <1>4 DEF Mysql!Execute

\* beginTransaction(), commit() and rollback(): all that was in the transaction is the
\* holder's, or of those who left it.
LEMMA EndsMysql ==
  ASSUME MysqlInv, NEW h \in Holder,
         Mysql!beginTransaction(h) \/ Mysql!commit(h) \/ Mysql!rollback(h)
  PROVE  MysqlInv'
<1> USE ConnAssumption DEF MysqlInv
<1> DEFINE c == lease[h]
<1>1. /\ c \in Conn /\ c \notin lost /\ UNCHANGED <<lease, spare, lost, left>>
      /\ Mysql!Leased' = Mysql!Leased /\ c \in Mysql!Leased
  BY ZenonT(30) DEF Mysql!beginTransaction, Mysql!commit, Mysql!rollback, Mysql!Usable, MysqlTypes, Mysql!Leased
<1>2. /\ permanent' = permanent \/ permanent' = permanent \cup ({h} \X pending[c])
      /\ pending' \in [Conn -> SUBSET Holder]
      /\ \A d \in Conn : pending'[d] = IF d = c THEN {} ELSE pending[d]
  BY <1>1 DEF Mysql!beginTransaction, Mysql!commit, Mysql!rollback, Mysql!Ends, MysqlTypes
<1>3. \/ opened' = opened \cup {c} /\ m_inTransaction' = m_inTransaction \cup {c}
      \/ opened' = opened \ {c} /\ m_inTransaction' = m_inTransaction \ {c}
  BY DEF Mysql!beginTransaction, Mysql!commit, Mysql!rollback
<1>4. MysqlTypes'
  BY <1>1, <1>2, <1>3 DEF MysqlTypes
<1>5. TransactionsOK'
  <2>1. \A p \in pending[c] : p = h \/ p \in left
    BY <1>1 DEF TransactionsOK, MysqlTypes
  <2>2. \A p \in permanent' : p[1] = p[2] \/ p[2] \in left'
    BY <1>1, <1>2, <2>1 DEF TransactionsOK
  <2>3. opened' \subseteq m_inTransaction'
    BY <1>1, <1>3 DEF TransactionsOK
  <2>4. left' = {} => opened' \subseteq Mysql!Leased'
    BY <1>1, <1>3 DEF TransactionsOK
  <2>5. /\ \A d \in Conn : pending'[d] # {} => d \in opened'
        /\ \A d \in Conn : \A p \in pending'[d] : lease'[p] = d \/ p \in left'
    BY <1>1, <1>2, <1>3 DEF TransactionsOK
  <2> QED
    BY <2>2, <2>3, <2>4, <2>5 DEF TransactionsOK
<1> QED
  BY <1>4, <1>5

LEMMA LoseMysql == ASSUME MysqlInv, NEW c \in Conn, Mysql!Lose(c) PROVE MysqlInv'
<1> USE ConnAssumption DEF MysqlInv
<1>1. /\ UNCHANGED <<lease, spare, m_inTransaction, left, permanent>>
      /\ Mysql!Leased' = Mysql!Leased
      /\ lost' = lost \cup {c} /\ opened' = opened \ {c}
      /\ pending' \in [Conn -> SUBSET Holder]
      /\ \A d \in Conn : pending'[d] = IF d = c THEN {} ELSE pending[d]
  BY DEF Mysql!Lose, MysqlTypes, Mysql!Leased
<1>2. MysqlTypes'
  BY <1>1 DEF MysqlTypes
<1>3. TransactionsOK'
  BY <1>1 DEF TransactionsOK
<1> QED
  BY <1>2, <1>3

LEMMA NextMysqlInv == MysqlInv /\ [Mysql!Next]_(Mysql!mysql) => MysqlInv'
<1> SUFFICES ASSUME MysqlInv, [Mysql!Next]_(Mysql!mysql) PROVE MysqlInv'
  OBVIOUS
<1>1. CASE UNCHANGED Mysql!mysql
  BY <1>1 DEF Mysql!mysql, MysqlInv, MysqlTypes, TransactionsOK, Mysql!Leased
<1>2. CASE Mysql!Next
  BY <1>2, LendMysql, OpenMysql, ReleaseMysql, ExecuteMysql, EndsMysql, LoseMysql, CloseSpareMysql
     DEF Mysql!Next
<1> QED
  BY <1>1, <1>2

\* Nobody commits somebody else's statements, or works in a transaction that it did not
\* begin, unless a connection was released inside a transaction; and m_inTransaction is set
\* wherever a transaction is open, also when the server ends transactions by itself.
THEOREM NobodyElsesWork == Mysql!Spec => []OwnTransactions
<1>1. MysqlInv => OwnTransactions
  <2> SUFFICES ASSUME MysqlInv PROVE Mysql!OwnTransactions
    BY DEF OwnTransactions
  <2>1. ASSUME left = {}, NEW h \in Holder, lease[h] \in opened PROVE pending[lease[h]] \subseteq {h}
    <3>1. lease[h] \in Conn
      BY <2>1, ConnAssumption DEF MysqlInv, MysqlTypes, Mysql!Leased
    <3> QED
      BY <2>1, <3>1, ConnAssumption DEF MysqlInv, MysqlTypes, TransactionsOK
  <2> QED
    BY <2>1 DEF MysqlInv, TransactionsOK, Mysql!OwnTransactions
<1>2. Mysql!Init => MysqlInv
  BY InitMysqlInv
<1> QED
  BY <1>1, <1>2, NextMysqlInv, PTL DEF Mysql!Spec

-----------------------------------------------------------------------------
(* StockProgram *)

\* The rows are the lines that rows can be made of, in the order of the file.
RowsOfFile ==
    /\ file \in Seq(Stock!Kind \X Item) /\ stock_vec \in Seq(Nat)
    /\ done \in 0 .. Len(stock_vec)
    /\ \A k \in 1 .. Len(stock_vec) :
          stock_vec[k] \in 1 .. Len(file) /\ file[stock_vec[k]][1] \in {"refused", "good"}
    /\ \A j, k \in 1 .. Len(stock_vec) : j < k => stock_vec[j] < stock_vec[k]
    /\ at # "ended" => \A n \in 1 .. Len(file) :
          file[n][1] = "good" => \E k \in 1 .. Len(stock_vec) : stock_vec[k] = n

\* What the table holds, and from which step on what it held before is gone.
TableOfLines ==
    /\ at \in {"read", "delete", "replace", "each", "load", "end", "ended"}
    /\ table \in [Item -> Int]
    /\ \A i \in Item : table[i] \in Stock!LinesOf(i) \cup {0, -1}
    /\ at = "read" => \A i \in Item : table[i] = -1
    /\ at \in {"replace", "each", "load", "end"} /\ ~failed =>
          \A i \in Item : table[i] \in Stock!LinesOf(i) \cup {0}

\* The second time rows are written in their order, so that none is older than a row that
\* was written this time, whatever replaceAll() left.
RewrittenInOrder ==
    at = "each" /\ ~failed => \A k \in 1 .. done :
        file[stock_vec[k]][1] = "good" => stock_vec[k] <= table[file[stock_vec[k]][2]]

Complete ==
    /\ at \in {"load", "end"} /\ ~failed =>
          \A i \in Item : \A n \in Stock!LinesOf(i) : n <= table[i]
    /\ at = "end" /\ ~failed => loaded = table

StockInv == RowsOfFile /\ TableOfLines /\ RewrittenInOrder /\ Complete

LEMMA InitStockInv == Stock!Init => StockInv
<1> SUFFICES ASSUME Stock!Init PROVE StockInv
  OBVIOUS
<1>1. /\ file = <<>> /\ stock_vec = <<>> /\ at = "read" /\ done = 0 /\ failed = FALSE
      /\ table = [i \in Item |-> -1]
  BY DEF Stock!Init
<1>2. RowsOfFile
  BY <1>1 DEF RowsOfFile
<1>3. TableOfLines
  BY <1>1 DEF TableOfLines
<1> QED
  BY <1>1, <1>2, <1>3 DEF StockInv, RewrittenInOrder, Complete

\* A line and the lines of its item.
LEMMA LineOf ==
  ASSUME RowsOfFile, NEW n \in 1 .. Len(file)
  PROVE  /\ file[n][1] \in Stock!Kind /\ file[n][2] \in Item
         /\ \A i \in Item : n \in Stock!LinesOf(i) <=> file[n][1] = "good" /\ file[n][2] = i
<1>1. file[n] \in Stock!Kind \X Item
  BY DEF RowsOfFile
<1>2. PICK k \in Stock!Kind, j \in Item : file[n] = <<k, j>>
  BY <1>1
<1>3. n \in DOMAIN file
  BY DEF RowsOfFile
<1> QED
  BY <1>2, <1>3 DEF Stock!LinesOf

LEMMA LinesAre ==
  ASSUME RowsOfFile, NEW i \in Item, NEW n \in Stock!LinesOf(i)
  PROVE  n \in 1 .. Len(file) /\ file[n][1] = "good" /\ file[n][2] = i
BY DEF Stock!LinesOf, RowsOfFile

LEMMA ReadLineStock ==
  ASSUME StockInv, NEW line \in Stock!Kind \X Item, Stock!ReadLine(line) PROVE StockInv'
<1> USE DEF StockInv
<1>1. /\ at = "read" /\ file' = Append(file, line) /\ at' \in {"read", "ended"}
      /\ at' = "ended" <=> line[1] = "nonumber"
      /\ UNCHANGED <<done, table, failed, loaded>>
      /\ file \in Seq(Stock!Kind \X Item) /\ stock_vec \in Seq(Nat)
  BY DEF Stock!ReadLine, RowsOfFile
<1>2. /\ file' \in Seq(Stock!Kind \X Item) /\ Len(file') = Len(file) + 1 /\ Len(file) \in Nat
      /\ file'[Len(file')] = line
      /\ \A n \in 1 .. Len(file) : file'[n] = file[n]
  BY <1>1
<1>3. line[1] \in Stock!Kind
  <2>1. PICK k \in Stock!Kind, i \in Item : line = <<k, i>>
    OBVIOUS
  <2> QED
    BY <2>1
<1>4. RowsOfFile'
  <2>1. CASE line[1] \in {"refused", "good"}
    <3>1. stock_vec' = Append(stock_vec, Len(file'))
      BY <2>1 DEF Stock!ReadLine
    <3>2. /\ stock_vec' \in Seq(Nat) /\ Len(stock_vec') = Len(stock_vec) + 1 /\ Len(stock_vec) \in Nat
          /\ stock_vec'[Len(stock_vec')] = Len(file')
          /\ \A k \in 1 .. Len(stock_vec) : stock_vec'[k] = stock_vec[k]
      BY <1>1, <1>2, <3>1
    <3> DEFINE m == Len(stock_vec)
               l == Len(file)
    <3>a. /\ m \in Nat /\ l \in Nat /\ Len(stock_vec') = m + 1 /\ Len(file') = l + 1
          /\ stock_vec'[m + 1] = l + 1 /\ file'[l + 1] = line
          /\ \A k \in 1 .. m : stock_vec'[k] = stock_vec[k] /\ stock_vec[k] \in 1 .. l
                                 /\ file[stock_vec[k]][1] \in {"refused", "good"}
          /\ \A n \in 1 .. l : file'[n] = file[n]
          /\ \A j, k \in 1 .. m : j < k => stock_vec[j] < stock_vec[k]
          /\ \A n \in 1 .. l : file[n][1] = "good" => \E k \in 1 .. m : stock_vec[k] = n
      BY <1>1, <1>2, <3>2 DEF RowsOfFile
    <3> HIDE DEF m, l
    <3>3. ASSUME NEW k \in 1 .. m + 1
          PROVE  stock_vec'[k] \in 1 .. l + 1 /\ file'[stock_vec'[k]][1] \in {"refused", "good"}
      BY <2>1, <3>a, SMTT(30)
    <3>4. ASSUME NEW j \in 1 .. m + 1, NEW k \in 1 .. m + 1, j < k
          PROVE  stock_vec'[j] < stock_vec'[k]
      <4>1. j \in 1 .. m /\ stock_vec'[j] = stock_vec[j] /\ stock_vec[j] \in 1 .. l
        BY <3>4, <3>a
      <4>2. CASE k = m + 1
        BY <3>a, <4>1, <4>2
      <4>3. CASE k \in 1 .. m
        BY <3>4, <3>a, <4>1, <4>3
      <4> QED
        BY <3>a, <4>2, <4>3
    <3>5. ASSUME NEW n \in 1 .. l + 1, file'[n][1] = "good"
          PROVE  \E k \in 1 .. m + 1 : stock_vec'[k] = n
      <4>1. CASE n = l + 1
        <5>1. m + 1 \in 1 .. m + 1 /\ stock_vec'[m + 1] = n
          BY <3>a, <4>1
        <5> QED
          BY <5>1
      <4>2. CASE n \in 1 .. l
        <5>1. PICK k \in 1 .. m : stock_vec[k] = n
          BY <3>5, <3>a, <4>2
        <5>2. k \in 1 .. m + 1 /\ stock_vec'[k] = n
          BY <3>a, <5>1
        <5> QED
          BY <5>2
      <4> QED
        BY <3>a, <4>1, <4>2
    <3>6. done' \in 0 .. m + 1
      BY <1>1, <3>a DEF RowsOfFile, m
    <3> QED
      BY <1>2, <3>2, <3>a, <3>3, <3>4, <3>5, <3>6 DEF RowsOfFile
  <2>2. CASE line[1] \notin {"refused", "good"}
    <3>1. stock_vec' = stock_vec
      BY <2>2 DEF Stock!ReadLine
    <3>2. ASSUME NEW n \in 1 .. Len(file'), file'[n][1] = "good"
          PROVE  \E k \in 1 .. Len(stock_vec') : stock_vec'[k] = n
      BY <1>1, <1>2, <2>2, <3>1, <3>2 DEF RowsOfFile
    <3> QED
      BY <1>1, <1>2, <3>1, <3>2 DEF RowsOfFile
  <2> QED
    BY <2>1, <2>2
<1>5. TableOfLines'
  BY <1>1 DEF TableOfLines
<1> QED
  BY <1>1, <1>4, <1>5 DEF RewrittenInOrder, Complete

\* After reading, the lines and the rows made of them stay.
LEMMA RowsStay ==
  ASSUME RowsOfFile, UNCHANGED <<file, stock_vec>>, done' \in 0 .. Len(stock_vec), at # "ended"
  PROVE  RowsOfFile' /\ \A i \in Item : Stock!LinesOf(i)' = Stock!LinesOf(i)
BY DEF RowsOfFile, Stock!LinesOf

\* The steps that write nothing.
LEMMA OtherStock ==
  ASSUME StockInv,
         \/ Stock!EndOfFile \/ Stock!NoFile \/ Stock!ReplacedAll
         \/ Stock!EachReplaced \/ Stock!LoadWhere \/ Stock!ConnectFails
  PROVE  StockInv'
<1> USE DEF StockInv
<1>1. /\ UNCHANGED <<file, stock_vec, table>> /\ done' \in {0, done} /\ at # "ended"
      /\ done \in 0 .. Len(stock_vec) /\ (~failed' => ~failed)
  BY DEF Stock!EndOfFile, Stock!NoFile, Stock!ReplacedAll, Stock!EachReplaced, Stock!LoadWhere,
         Stock!ConnectFails, RowsOfFile, TableOfLines
<1>2. RowsOfFile' /\ \A i \in Item : Stock!LinesOf(i)' = Stock!LinesOf(i)
  BY <1>1, RowsStay
<1>3. CASE Stock!EndOfFile \/ Stock!NoFile \/ Stock!ConnectFails
  <2>1. /\ at' \in {"delete", "load", "ended"}
        /\ at' = "load" => failed'
    BY <1>3 DEF Stock!EndOfFile, Stock!NoFile, Stock!ConnectFails
  <2>2. TableOfLines'
    BY <1>1, <1>2, <2>1 DEF TableOfLines
  <2> QED
    BY <1>2, <2>1, <2>2 DEF RewrittenInOrder, Complete
<1>4. CASE Stock!ReplacedAll
  <2>1. at = "replace" /\ at' = "each" /\ done' = 0 /\ failed' = failed
    BY <1>4 DEF Stock!ReplacedAll
  <2>2. TableOfLines'
    BY <1>1, <1>2, <2>1 DEF TableOfLines
  <2>3. RewrittenInOrder'
    BY <2>1 DEF RewrittenInOrder
  <2> QED
    BY <1>2, <2>1, <2>2, <2>3 DEF Complete
<1>5. CASE Stock!EachReplaced
  <2>1. at = "each" /\ at' = "load" /\ done = Len(stock_vec) /\ failed' = failed
    BY <1>5 DEF Stock!EachReplaced
  <2>2. TableOfLines'
    BY <1>1, <1>2, <2>1 DEF TableOfLines
  <2>3. ASSUME ~failed, NEW i \in Item, NEW n \in Stock!LinesOf(i) PROVE n <= table[i]
    <3>1. n \in 1 .. Len(file) /\ file[n][1] = "good" /\ file[n][2] = i
      BY LinesAre
    <3>2. PICK k \in 1 .. Len(stock_vec) : stock_vec[k] = n
      BY <2>1, <3>1 DEF RowsOfFile
    <3> QED
      BY <2>1, <2>3, <3>1, <3>2 DEF RewrittenInOrder
  <2> QED
    BY <1>1, <1>2, <2>1, <2>2, <2>3 DEF RewrittenInOrder, Complete
<1>6. CASE Stock!LoadWhere
  <2>1. /\ at = "load" /\ at' = "end"
        /\ (loaded' = table /\ failed' = failed) \/ failed' = TRUE
    BY <1>6 DEF Stock!LoadWhere
  <2>2. TableOfLines'
    BY <1>1, <1>2, <2>1 DEF TableOfLines
  <2> QED
    BY <1>1, <1>2, <2>1, <2>2 DEF RewrittenInOrder, Complete
<1> QED
  BY <1>3, <1>4, <1>5, <1>6

LEMMA DeleteWhereStock == ASSUME StockInv, Stock!DeleteWhere PROVE StockInv'
<1> USE DEF StockInv
<1>1. /\ UNCHANGED <<file, stock_vec, done>> /\ at = "delete" /\ at' = "replace"
      /\ \/ table' = [i \in Item |-> 0] /\ failed' = failed
         \/ failed' = TRUE /\ table' = table
  BY DEF Stock!DeleteWhere, Stock!NoRows
<1>2. RowsOfFile' /\ \A i \in Item : Stock!LinesOf(i)' = Stock!LinesOf(i)
  BY <1>1, RowsStay DEF RowsOfFile
<1>3. TableOfLines'
  BY <1>1, <1>2 DEF TableOfLines
<1> QED
  BY <1>1, <1>2, <1>3 DEF RewrittenInOrder, Complete

\* A statement leaves under each key the row that was there or one of its own.
LEMMA WritesRows ==
  ASSUME RowsOfFile, NEW rows \in Seq(Nat), NEW i \in Item,
         \A k \in 1 .. Len(rows) : rows[k] \in 1 .. Len(file) /\ file[rows[k]][1] = "good"
  PROVE  Stock!WrittenAll(table, rows)[i] \in Stock!LinesOf(i) \cup {table[i]}
<1> DEFINE those == {k \in DOMAIN rows : file[rows[k]][2] = i}
<1>1. Stock!WrittenAll(table, rows)[i] = IF those = {} THEN table[i] ELSE rows[Stock!Sets!Max(those)]
  BY DEF Stock!WrittenAll
<1>2. ASSUME those # {} PROVE Stock!Sets!Max(those) \in those
  <2>1. Len(rows) \in Nat /\ those \in SUBSET (0 .. Len(rows))
    OBVIOUS
  <2>2. \E x \in those : \A y \in those : y <= x
    BY <1>2, <2>1, GreatestNat
  <2>3. \E x \in those : \A y \in those : x >= y
    BY <2>1, <2>2
  <2> QED
    BY <2>3 DEF Stock!Sets!Max
<1>3. \A k \in those : rows[k] \in Stock!LinesOf(i)
  <2> SUFFICES ASSUME NEW k \in those PROVE rows[k] \in Stock!LinesOf(i)
    OBVIOUS
  <2>1. k \in 1 .. Len(rows) /\ file[rows[k]][2] = i
    OBVIOUS
  <2>2. rows[k] \in 1 .. Len(file) /\ file[rows[k]][1] = "good"
    BY <2>1
  <2> QED
    BY <2>1, <2>2, LineOf
<1> HIDE DEF those
<1> QED
  BY <1>1, <1>2, <1>3

LEMMA ReplaceAllStock == ASSUME StockInv, NEW n \in Nat, Stock!ReplaceAll(n) PROVE StockInv'
<1> USE DEF StockInv
<1> DEFINE rows == SubSeq(stock_vec, done + 1, n)
<1>1. /\ at = "replace" /\ n \in done + 1 .. Len(stock_vec) /\ UNCHANGED <<file, stock_vec, loaded>>
      /\ done \in 0 .. Len(stock_vec)
  BY DEF Stock!ReplaceAll, RowsOfFile
<1>2. \/ /\ \A k \in DOMAIN rows : file[rows[k]][1] = "good"
         /\ table' = Stock!WrittenAll(table, rows) /\ done' = n
         /\ UNCHANGED <<at, failed>>
      \/ at' = "each" /\ done' = 0 /\ (~failed' => ~failed) /\ table' = table
  BY DEF Stock!ReplaceAll
<1>3. RowsOfFile' /\ \A i \in Item : Stock!LinesOf(i)' = Stock!LinesOf(i)
  BY <1>1, <1>2, RowsStay DEF RowsOfFile
<1>4. CASE /\ \A k \in DOMAIN rows : file[rows[k]][1] = "good"
           /\ table' = Stock!WrittenAll(table, rows) /\ done' = n
           /\ UNCHANGED <<at, failed>>
  <2>1. /\ rows \in Seq(Nat)
        /\ \A k \in 1 .. Len(rows) : rows[k] \in 1 .. Len(file) /\ file[rows[k]][1] = "good"
    <3>1. /\ stock_vec \in Seq(Nat) /\ Len(stock_vec) \in Nat
          /\ \A k \in 1 .. Len(stock_vec) : stock_vec[k] \in 1 .. Len(file)
      BY DEF RowsOfFile
    <3>2. \A k \in done + 1 .. n : stock_vec[k] \in Nat
      BY <1>1, <3>1
    <3>3. /\ rows \in Seq(Nat) /\ Len(rows) = n - done
          /\ \A k \in 1 .. n - done : rows[k] = stock_vec[done + k]
      <4>1. done + 1 \in Int /\ n \in Int /\ done \in Nat /\ done + 1 <= n
        BY <1>1, <3>1
      <4>2. /\ rows \in Seq(Nat)
            /\ Len(rows) = IF done + 1 <= n THEN n - (done + 1) + 1 ELSE 0
            /\ \A k \in 1 .. n - (done + 1) + 1 : rows[k] = stock_vec[(done + 1) + k - 1]
        BY <3>2, <4>1, SubSeqProperties
      <4> HIDE DEF rows
      <4>3. n - (done + 1) + 1 = n - done /\ Len(rows) = n - done
        BY <4>1, <4>2
      <4>4. ASSUME NEW k \in 1 .. n - done PROVE rows[k] = stock_vec[done + k]
        <5>1. (done + 1) + k - 1 = done + k
          BY <4>1
        <5> QED
          BY <4>2, <4>3, <5>1
      <4> QED
        BY <4>2, <4>3, <4>4
    <3>4. DOMAIN rows = 1 .. Len(rows)
      BY <3>3
    <3>5. ASSUME NEW k \in 1 .. n - done
          PROVE  rows[k] \in 1 .. Len(file) /\ file[rows[k]][1] = "good"
      <4>1. done + k \in 1 .. Len(stock_vec) /\ k \in DOMAIN rows
        BY <1>1, <3>1, <3>3, <3>4
      <4> QED
        BY <1>4, <3>1, <3>3, <4>1
    <3> QED
      BY <3>3, <3>5
  <2>2. \A i \in Item : table'[i] \in Stock!LinesOf(i) \cup {table[i]}
    BY <1>4, <2>1, WritesRows
  <2>3. table' \in [Item -> Int]
    <3>1. table' = [i \in Item |-> table'[i]]
      BY <1>4 DEF Stock!WrittenAll
    <3>2. \A i \in Item : table'[i] \in Int
      BY <2>2, LinesAre DEF TableOfLines
    <3> QED
      BY <3>1, <3>2
  <2>4. TableOfLines'
    BY <1>1, <1>3, <1>4, <2>2, <2>3 DEF TableOfLines
  <2> QED
    BY <1>1, <1>3, <1>4, <2>4 DEF RewrittenInOrder, Complete
<1>5. CASE at' = "each" /\ done' = 0 /\ (~failed' => ~failed) /\ table' = table
  <2>1. TableOfLines'
    BY <1>1, <1>3, <1>5 DEF TableOfLines
  <2>2. RewrittenInOrder'
    BY <1>5 DEF RewrittenInOrder
  <2> QED
    BY <1>3, <1>5, <2>1, <2>2 DEF Complete
<1> QED
  BY <1>2, <1>4, <1>5

LEMMA ReplaceDBStock == ASSUME StockInv, Stock!ReplaceDB PROVE StockInv'
<1> USE DEF StockInv
<1> DEFINE n == stock_vec[done + 1]
<1>1. /\ at = "each" /\ at' = at /\ done' = done + 1 /\ done + 1 \in 1 .. Len(stock_vec)
      /\ UNCHANGED <<file, stock_vec>>
      /\ \/ file[n][1] = "good" /\ table' = [table EXCEPT ![file[n][2]] = n] /\ failed' = failed
         \/ file[n][1] = "refused" /\ table' = table /\ failed' = failed
         \/ failed' = TRUE /\ table' = table
  BY DEF Stock!ReplaceDB, Stock!AfterRefused, Stock!Written, RowsOfFile
<1>2. RowsOfFile' /\ \A i \in Item : Stock!LinesOf(i)' = Stock!LinesOf(i)
  BY <1>1, RowsStay DEF RowsOfFile
<1>3. n \in 1 .. Len(file) /\ file[n][2] \in Item
  BY <1>1, LineOf DEF RowsOfFile
<1>4. TableOfLines'
  <2>1. table' \in [Item -> Int]
    BY <1>1, <1>3 DEF TableOfLines
  <2>2. \A i \in Item : table'[i] = table[i] \/ table'[i] \in Stock!LinesOf(i)
    BY <1>1, <1>3, LineOf DEF TableOfLines
  <2> QED
    BY <1>1, <1>2, <2>1, <2>2 DEF TableOfLines
<1>5. RewrittenInOrder'
  <2> SUFFICES ASSUME ~failed', NEW k \in 1 .. done + 1, file[stock_vec[k]][1] = "good"
               PROVE  stock_vec[k] <= table'[file[stock_vec[k]][2]]
    BY <1>1 DEF RewrittenInOrder
  <2>1. ~failed /\ done \in Nat /\ (file[n][1] = "good" => table' = [table EXCEPT ![file[n][2]] = n])
        /\ (file[n][1] # "good" => table' = table)
    BY <1>1 DEF TableOfLines, RowsOfFile
  <2>2. CASE k = done + 1
    BY <1>3, <2>1, <2>2 DEF TableOfLines
  <2>3. CASE k \in 1 .. done
    <3>1. stock_vec[k] <= table[file[stock_vec[k]][2]]
      BY <1>1, <2>1, <2>3 DEF RewrittenInOrder
    <3>2. k \in 1 .. Len(stock_vec) /\ k < done + 1 /\ stock_vec[k] \in 1 .. Len(file)
      BY <1>1, <2>3, <2>1 DEF RowsOfFile
    <3>3. stock_vec[k] < n
      BY <1>1, <3>2 DEF RowsOfFile
    <3>4. file[stock_vec[k]][2] \in Item
      BY <3>2, LineOf
    <3>5. /\ table'[file[stock_vec[k]][2]] \in {table[file[stock_vec[k]][2]], n}
          /\ n \in Int /\ stock_vec[k] \in Int
      BY <1>3, <2>1, <3>2, <3>4, SMTT(30) DEF TableOfLines
    <3> QED
      BY <3>1, <3>3, <3>5
  <2> QED
    BY <2>1, <2>2, <2>3
<1> QED
  BY <1>1, <1>2, <1>4, <1>5 DEF Complete

LEMMA NextStockInv == StockInv /\ [Stock!Next]_(Stock!stock) => StockInv'
<1> SUFFICES ASSUME StockInv, [Stock!Next]_(Stock!stock) PROVE StockInv'
  OBVIOUS
<1>1. CASE UNCHANGED Stock!stock
  BY <1>1 DEF Stock!stock, StockInv, RowsOfFile, TableOfLines, RewrittenInOrder, Complete,
              Stock!LinesOf
<1>2. ASSUME NEW n \in 1 .. MaxLines, Stock!ReplaceAll(n) PROVE StockInv'
  <2>1. n \in Nat
    OBVIOUS
  <2> QED
    BY <1>2, <2>1, ReplaceAllStock
<1>3. CASE Stock!Next
  BY <1>2, <1>3, ReadLineStock, OtherStock, DeleteWhereStock, ReplaceDBStock DEF Stock!Next
<1> QED
  BY <1>1, <1>3

\* At the end the table holds for each item the last row of the file that the server
\* accepts, however replaceAll() cut the rows into statements and wherever it gave up; or,
\* after a failed call, at least no row from anywhere else.
THEOREM StoredAtTheEnd == Stock!Spec => []FileIsStored
<1>1. StockInv => FileIsStored
  BY DEF StockInv, TableOfLines, Complete, FileIsStored, Stock!FileIsStored
<1> QED
  BY <1>1, InitStockInv, NextStockInv, PTL DEF Stock!Spec

=============================================================================
