--------------------------- MODULE NetProofs ---------------------------
(***************************************************************************)
(* Proofs about src/net, in the instances of MCNet: Message, for any       *)
(* number of messages and sizes; the ring buffer, for any number and size  *)
(* of buffers; TcpSession, which implements MessageStream for any messages *)
(* and any cuts of the stream; and the server with the index of its        *)
(* IoConnectPool, for pools of any size.                                   *)
(***************************************************************************)
EXTENDS TcpSession, MCNet, SequenceTheorems, FiniteSetTheorems, WellFoundedInduction,
        TLAPS

-----------------------------------------------------------------------------
(* Numbers and sequences *)

\* A set of numbers has a least one.
LEMMA LeastNat ==
  ASSUME NEW T \in SUBSET Nat, T # {}
  PROVE  \E x \in T : \A y \in T : x <= y
<1> DEFINE R == OpToRel(<, Nat)
<1>1. IsWellFoundedOn(R, Nat)
  BY NatLessThanWellFounded
<1>2. \A x, y \in Nat : y < x => <<y, x>> \in R
  BY DEF OpToRel
<1> HIDE DEF R
<1>3. \E x \in T : \A y \in T : ~ (<<y, x>> \in R)
  BY <1>1, WFMin
<1>4. \E x \in T : \A y \in T : ~ (y < x)
  BY <1>2, <1>3, Zenon
<1> QED
  BY <1>4

\* Induction over a set of numbers.
LEMMA NatSetInduction ==
  ASSUME NEW S, 0 \in S, \A n \in Nat : n \in S => n + 1 \in S
  PROVE  Nat \subseteq S
<1> SUFFICES ASSUME Nat \ S # {} PROVE FALSE
  OBVIOUS
<1>1. PICK m \in Nat \ S : \A k \in Nat \ S : m <= k
  BY LeastNat
<1>2. m - 1 \in Nat /\ m - 1 \in S
  BY <1>1
<1> QED
  BY <1>1, <1>2

\* k elements of a sequence, after the first m.
LEMMA SliceCells ==
  ASSUME NEW S, NEW s \in Seq(S), NEW m \in Nat, NEW k \in Nat, m + k <= Len(s)
  PROVE  /\ SubSeq(s, m + 1, m + k) \in Seq(S)
         /\ Len(SubSeq(s, m + 1, m + k)) = k
         /\ \A i \in 1 .. k : SubSeq(s, m + 1, m + k)[i] = s[m + i]
<1>1. PICK n \in Nat : n = Len(s)
  BY LenProperties
<1>2. \A i \in m + 1 .. m + k : s[i] \in S
  BY <1>1, ElementOfSeq
<1>3. m + 1 \in Int /\ m + k \in Int
  OBVIOUS
<1> DEFINE t == SubSeq(s, m + 1, m + k)
<1>4. /\ t \in Seq(S)
      /\ Len(t) = IF m + 1 <= m + k THEN m + k - (m + 1) + 1 ELSE 0
      /\ \A i \in 1 .. m + k - (m + 1) + 1 : t[i] = s[m + 1 + i - 1]
  BY <1>2, <1>3, SubSeqProperties
<1> HIDE DEF t
<1>5. Len(t) = k
  BY <1>4
<1>6. ASSUME NEW i \in 1 .. k PROVE t[i] = s[m + i]
  <2>1. i \in 1 .. m + k - (m + 1) + 1 /\ m + 1 + i - 1 = m + i
    OBVIOUS
  <2> QED
    BY <1>4, <2>1
<1> QED
  BY <1>4, <1>5, <1>6 DEF t

-----------------------------------------------------------------------------
(* Message *)

Blocks == [data : Seq(Int), len : Nat, rd : {1}, wr : Nat, text : Seq(Int), stamp : Int,
           moved : BOOLEAN, loose : BOOLEAN]

\* The memory fits what len_ says where nothing but the constructor and writeBody() made
\* it; and of a message that was not moved from, the memory holds the header and the text.
BlockOK(b) ==
    /\ b \in Blocks
    /\ Len(b.data) >= 1
    /\ ~b.loose => b.len <= Len(b.data)
    /\ ~b.moved =>
         /\ b.wr = Len(b.text) + 1 /\ b.wr <= Len(b.data)
         /\ \A i \in 1 .. Len(b.text) : b.data[i + 1] = b.text[i]
         /\ b.stamp # -1 => b.stamp \in 0 .. Len(b.text) /\ b.data[1] = b.stamp

BlocksInv ==
    /\ overrun \in {"none", "copy"}
    /\ msgs = [m \in Msg |-> msgs[m]]
    /\ overrun = "none" => \A m \in Msg : msgs[m] # Messages!NoMsg => BlockOK(msgs[m])

LEMMA InitBlocks == Messages!Init => BlocksInv
BY DEF Messages!Init, BlocksInv

\* A step that touches one message, or two.
LEMMA OneBlock ==
  ASSUME BlocksInv, NEW m \in Msg, NEW b, msgs' = [msgs EXCEPT ![m] = b],
         overrun' \in {"none", "copy"},
         overrun' = "none" => overrun = "none" /\ (b = Messages!NoMsg \/ BlockOK(b))
  PROVE  BlocksInv'
<1>1. msgs' = [k \in Msg |-> msgs'[k]] /\ \A k \in Msg : msgs'[k] = IF k = m THEN b ELSE msgs[k]
  BY DEF BlocksInv
<1> QED
  BY <1>1 DEF BlocksInv, Messages!NoMsg

LEMMA TwoBlocks ==
  ASSUME BlocksInv, NEW m \in Msg, NEW n \in Msg, m # n, NEW b, NEW c,
         msgs' = [msgs EXCEPT ![m] = b, ![n] = c], overrun' = overrun,
         BlockOK(b), BlockOK(c)
  PROVE  BlocksInv'
<1>1. msgs' = [k \in Msg |-> msgs'[k]]
      /\ \A k \in Msg : msgs'[k] = IF k = n THEN c ELSE IF k = m THEN b ELSE msgs[k]
  BY DEF BlocksInv
<1> QED
  BY <1>1 DEF BlocksInv, Messages!NoMsg

\* Memory that nobody has written.
LEMMA MemoryType ==
  ASSUME NEW n \in Nat
  PROVE  Messages!Memory(n) \in Seq(Int) /\ Len(Messages!Memory(n)) = n
<1>1. Messages!Memory(n) \in [1 .. n -> Int]
  BY DEF Messages!Memory, Messages!Garbage
<1> QED
  BY <1>1

LEMMA ConstructBlock ==
  ASSUME BlocksInv, NEW m \in Msg, NEW size \in Sizes, Messages!Construct(m, size)
  PROVE  BlocksInv'
<1> DEFINE b == [data |-> Messages!Memory(size + 1), len |-> size + 1, rd |-> 1, wr |-> 1,
                 text |-> <<>>, stamp |-> -1, moved |-> FALSE, loose |-> FALSE]
<1>1. size + 1 \in Nat /\ size + 1 >= 1
  BY MessageAssumption
<1>2. Messages!Memory(size + 1) \in Seq(Int) /\ Len(Messages!Memory(size + 1)) = size + 1
  BY <1>1, MemoryType
<1>3. BlockOK(b)
  BY <1>1, <1>2 DEF BlockOK, Blocks
<1>4. msgs' = [msgs EXCEPT ![m] = b] /\ overrun = "none" /\ overrun' = "none"
  BY DEF Messages!Construct, Messages!Free, Messages!Header, Messages!Garbage
<1> QED
  BY <1>3, <1>4, OneBlock

\* Copies: memory for n bytes, of which the first are those of b.
LEMMA CopiedType ==
  ASSUME NEW b, BlockOK(b), NEW n \in Nat, ~b.moved, b.wr <= n
  PROVE  LET c == Messages!Copied(b, n)
         IN  /\ c \in Seq(Int) /\ Len(c) = n
             /\ \A i \in 1 .. b.wr : c[i] = b.data[i]
<1> DEFINE c == Messages!Copied(b, n)
<1>1. \A i \in 1 .. n : i <= b.wr => b.data[i] \in Int
  BY DEF BlockOK, Blocks
<1>2. c \in [1 .. n -> Int]
  BY <1>1 DEF Messages!Copied, Messages!Garbage
<1>3. c \in Seq(Int) /\ Len(c) = n
  BY <1>2
<1>4. b.wr \in Nat
  BY DEF BlockOK, Blocks
<1>5. \A i \in 1 .. b.wr : c[i] = b.data[i]
  BY <1>4 DEF Messages!Copied
<1> QED
  BY <1>3, <1>5

\* Another memory with the same bytes up to wr_offset_.
LEMMA SameText ==
  ASSUME NEW b, BlockOK(b), ~b.moved, NEW d \in Seq(Int), NEW l \in Nat, NEW loose \in BOOLEAN,
         b.wr <= Len(d), \A i \in 1 .. b.wr : d[i] = b.data[i], ~loose => l <= Len(d)
  PROVE  BlockOK([b EXCEPT !.data = d, !.len = l, !.loose = loose])
<1> DEFINE c == [b EXCEPT !.data = d, !.len = l, !.loose = loose]
<1>1. /\ b \in Blocks /\ b.wr = Len(b.text) + 1 /\ Len(b.text) \in Nat
      /\ \A i \in 1 .. Len(b.text) : b.data[i + 1] = b.text[i]
      /\ b.stamp # -1 => b.stamp \in 0 .. Len(b.text) /\ b.data[1] = b.stamp
  BY DEF BlockOK, Blocks
<1>2. c \in Blocks
  BY <1>1 DEF Blocks
<1>3. c.data = d /\ c.len = l /\ c.loose = loose /\ c.wr = b.wr /\ c.text = b.text
      /\ c.stamp = b.stamp /\ c.moved = b.moved
  BY <1>1 DEF Blocks
<1> HIDE DEF c
<1>4. ASSUME NEW i \in 1 .. Len(b.text) PROVE d[i + 1] = b.text[i]
  <2>1. i + 1 \in 1 .. b.wr
    BY <1>1
  <2>2. d[i + 1] = b.data[i + 1]
    BY <2>1
  <2> QED
    BY <1>1, <2>2
<1>5. Len(d) \in Nat /\ Len(d) >= 1 /\ 1 \in 1 .. b.wr
  BY <1>1
<1>6. d[1] = b.data[1]
  BY <1>5
<1>7. ~c.loose => c.len <= Len(c.data)
  BY <1>3
<1>8. BlockOK(c)
  BY <1>1, <1>2, <1>3, <1>4, <1>5, <1>6, <1>7 DEF BlockOK
<1> QED
  BY <1>8 DEF c

LEMMA CopyBlock ==
  ASSUME BlocksInv, NEW m \in Msg, NEW n \in Msg,
         Messages!CopyConstruct(m, n) \/ Messages!CopyAssign(m, n)
  PROVE  BlocksInv'
<1> DEFINE b == msgs[n]
<1>1. /\ overrun = "none" /\ b # Messages!NoMsg /\ ~b.moved /\ overrun' = overrun
      /\ Messages!CopyAssign(m, n) => msgs[m] # Messages!NoMsg
  BY DEF Messages!CopyConstruct, Messages!CopyAssign, Messages!Known, Messages!Lives, Messages!Free
<1>2. BlockOK(b) /\ b \in Blocks /\ b.wr \in Nat /\ b.len \in Nat
  BY <1>1 DEF BlocksInv, BlockOK, Blocks
<1>3. PICK k \in Nat : /\ b.wr <= k
                       /\ msgs' = [msgs EXCEPT ![m] = [b EXCEPT !.data = Messages!Copied(b, k), !.loose = TRUE]]
  <2>1. CASE Messages!CopyConstruct(m, n)
    <3>1. Messages!Greater(MaxSize, b.wr) \in Nat /\ b.wr <= Messages!Greater(MaxSize, b.wr)
      BY <1>2, MessageAssumption DEF Messages!Greater
    <3> QED
      BY <2>1, <3>1 DEF Messages!CopyConstruct
  <2>2. CASE Messages!CopyAssign(m, n)
    <3>1. Len(msgs[m].data) \in Nat
      BY <1>1, <2>2 DEF BlocksInv, BlockOK, Blocks
    <3>2. /\ Messages!Greater(Len(msgs[m].data), b.wr) \in Nat
          /\ b.wr <= Messages!Greater(Len(msgs[m].data), b.wr)
      BY <1>2, <3>1 DEF Messages!Greater
    <3> QED
      BY <2>2, <3>2 DEF Messages!CopyAssign
  <2> QED
    BY <2>1, <2>2
<1> DEFINE d == Messages!Copied(b, k)
<1>4. d \in Seq(Int) /\ Len(d) = k /\ \A i \in 1 .. b.wr : d[i] = b.data[i]
  BY <1>1, <1>2, <1>3, CopiedType
<1>5. BlockOK([b EXCEPT !.data = d, !.len = b.len, !.loose = TRUE])
  BY <1>1, <1>2, <1>3, <1>4, SameText
<1>6. [b EXCEPT !.data = d, !.len = b.len, !.loose = TRUE] = [b EXCEPT !.data = d, !.loose = TRUE]
  BY <1>2 DEF Blocks
<1> HIDE DEF b, d
<1>7. BlockOK([b EXCEPT !.data = d, !.loose = TRUE])
  BY <1>5, <1>6
<1> QED
  BY <1>1, <1>3, <1>7, OneBlock DEF d, b

\* What a move leaves behind.
LEMMA LeavesBlock ==
  ASSUME NEW n \in Msg, BlockOK(msgs[n]), NEW memory \in Seq(Int), Len(memory) >= 1
  PROVE  BlockOK(Messages!Leaves(n, memory))
BY DEF BlockOK, Blocks, Messages!Leaves

LEMMA MoveBlock ==
  ASSUME BlocksInv, NEW m \in Msg, NEW n \in Msg,
         Messages!MoveConstruct(m, n) \/ Messages!MoveAssign(m, n)
  PROVE  BlocksInv'
<1>1. /\ overrun = "none" /\ msgs[n] # Messages!NoMsg /\ overrun' = overrun /\ m # n
      /\ Messages!MoveAssign(m, n) => msgs[m] # Messages!NoMsg
  BY DEF Messages!MoveConstruct, Messages!MoveAssign, Messages!Known, Messages!Lives, Messages!Free
<1>2. BlockOK(msgs[n])
  BY <1>1 DEF BlocksInv
<1>3. PICK memory \in Seq(Int) :
         Len(memory) >= 1 /\ msgs' = [msgs EXCEPT ![m] = msgs[n], ![n] = Messages!Leaves(n, memory)]
  <2>1. CASE Messages!MoveConstruct(m, n)
    <3>1. Messages!Memory(MaxSize) \in Seq(Int) /\ Len(Messages!Memory(MaxSize)) = MaxSize
      BY MessageAssumption, MemoryType
    <3>2. Len(Messages!Memory(MaxSize)) >= 1
      BY <3>1, MessageAssumption
    <3>3. msgs' = [msgs EXCEPT ![m] = msgs[n], ![n] = Messages!Leaves(n, Messages!Memory(MaxSize))]
      BY <2>1 DEF Messages!MoveConstruct
    <3> QED
      BY <3>1, <3>2, <3>3
  <2>2. CASE Messages!MoveAssign(m, n)
    <3>1. msgs[m].data \in Seq(Int) /\ Len(msgs[m].data) >= 1
      BY <1>1, <2>2 DEF BlocksInv, BlockOK, Blocks
    <3> QED
      BY <2>2, <3>1 DEF Messages!MoveAssign
  <2> QED
    BY <2>1, <2>2
<1>4. BlockOK(Messages!Leaves(n, memory))
  BY <1>2, <1>3, LeavesBlock
<1> QED
  BY <1>1, <1>2, <1>3, <1>4, TwoBlocks

LEMMA ResetBlock ==
  ASSUME BlocksInv, NEW m \in Msg, Messages!Reset(m) \/ Messages!Destroy(m) PROVE BlocksInv'
<1>1. overrun = "none" /\ msgs[m] # Messages!NoMsg /\ overrun' = overrun
  BY DEF Messages!Reset, Messages!Destroy, Messages!Lives
<1>2. CASE Messages!Reset(m)
  <2> DEFINE b == [msgs[m] EXCEPT !.rd = 1, !.wr = 1, !.text = <<>>, !.stamp = -1, !.moved = FALSE]
  <2>1. BlockOK(msgs[m])
    BY <1>1 DEF BlocksInv
  <2>2. BlockOK(b)
    <3>1. b \in Blocks
      <4>1. msgs[m] \in Blocks
        BY <2>1 DEF BlockOK
      <4>2. \A t \in Seq(Int), x \in Int :
              [msgs[m] EXCEPT !.rd = 1, !.wr = 1, !.text = t, !.stamp = x, !.moved = FALSE]
                 \in Blocks
        BY <4>1 DEF Blocks
      <4>3. <<>> \in Seq(Int) /\ -1 \in Int
        OBVIOUS
      <4> QED
        BY <4>2, <4>3
    <3>2. /\ b.data = msgs[m].data /\ b.len = msgs[m].len /\ b.loose = msgs[m].loose
          /\ b.wr = 1 /\ b.text = <<>> /\ b.stamp = -1
      BY <2>1 DEF BlockOK, Blocks
    <3>3. Len(msgs[m].data) >= 1 /\ (~msgs[m].loose => msgs[m].len <= Len(msgs[m].data))
      BY <2>1 DEF BlockOK
    <3> HIDE DEF b
    <3> QED
      BY <3>1, <3>2, <3>3 DEF BlockOK
  <2>3. msgs' = [msgs EXCEPT ![m] = b]
    BY <1>2 DEF Messages!Reset, Messages!Header, Messages!Garbage, BlocksInv
  <2> QED
    BY <1>1, <2>2, <2>3, OneBlock
<1>3. CASE Messages!Destroy(m)
  BY <1>1, <1>3, OneBlock DEF Messages!Destroy
<1> QED
  BY <1>2, <1>3

LEMMA StampBlock ==
  ASSUME BlocksInv, NEW m \in Msg, Messages!setMsgLen(m) PROVE BlocksInv'
<1> DEFINE b == msgs[m]
           n == Len(b.text) % Width
           c == [b EXCEPT !.data = [@ EXCEPT ![1] = n], !.stamp = n]
<1>1. overrun = "none" /\ b # Messages!NoMsg /\ overrun' = overrun /\ ~b.moved
  BY DEF Messages!setMsgLen, Messages!Known, Messages!Lives
<1>2. BlockOK(b)
  BY <1>1 DEF BlocksInv
<1>3. Len(b.text) \in Nat /\ Width \in Nat \ {0}
  BY <1>2, MessageAssumption DEF BlockOK, Blocks
<1>4. n \in 0 .. Len(b.text)
  <2>1. \A a \in Nat, w \in Nat \ {0} : a % w \in 0 .. a
    OBVIOUS
  <2> QED
    BY <1>3, <2>1
<1> HIDE DEF n
<1>5. [b.data EXCEPT ![1] = n] \in Seq(Int) /\ Len([b.data EXCEPT ![1] = n]) = Len(b.data)
      /\ [b.data EXCEPT ![1] = n][1] = n
      /\ \A i \in 1 .. Len(b.text) : [b.data EXCEPT ![1] = n][i + 1] = b.data[i + 1]
  <2>1. b.data \in Seq(Int) /\ Len(b.data) >= 1 /\ n \in Int
    BY <1>2, <1>4 DEF BlockOK, Blocks
  <2>2. Len(b.text) + 1 <= Len(b.data) /\ Len(b.data) \in Nat
    BY <1>1, <1>2, <2>1 DEF BlockOK
  <2>3. [b.data EXCEPT ![1] = n] \in [1 .. Len(b.data) -> Int]
    BY <2>1, <2>2
  <2>4. [b.data EXCEPT ![1] = n] \in Seq(Int) /\ Len([b.data EXCEPT ![1] = n]) = Len(b.data)
    <3>1. PICK l \in Nat : l = Len(b.data)
      BY <2>2
    <3>2. PICK d \in [1 .. l -> Int] : d = [b.data EXCEPT ![1] = n]
      BY <2>3, <3>1
    <3>3. d \in Seq(Int) /\ Len(d) = l
      OBVIOUS
    <3> QED
      BY <3>1, <3>2, <3>3
  <2> QED
    BY <1>3, <2>1, <2>2, <2>4
<1>6. BlockOK(c)
  <2>1. c \in Blocks /\ b \in Blocks
    <3>1. b \in Blocks /\ n \in Int
      BY <1>2, <1>3, <1>4 DEF BlockOK
    <3>2. \A d \in Seq(Int), x \in Int : [b EXCEPT !.data = d, !.stamp = x] \in Blocks
      BY <3>1 DEF Blocks
    <3>3. [b EXCEPT !.data = [b.data EXCEPT ![1] = n], !.stamp = n] \in Blocks
      BY <1>5, <3>1, <3>2
    <3> QED
      BY <3>1, <3>3
  <2>2. /\ c.data = [b.data EXCEPT ![1] = n] /\ c.stamp = n /\ c.len = b.len /\ c.wr = b.wr
        /\ c.text = b.text /\ c.moved = b.moved /\ c.loose = b.loose
    BY <2>1 DEF Blocks
  <2> HIDE DEF c
  <2>3. /\ c.data[1] = n /\ Len(c.data) = Len(b.data)
        /\ \A i \in 1 .. Len(c.text) : c.data[i + 1] = b.data[i + 1]
    BY <1>5, <2>2
  <2> QED
    BY <1>1, <1>2, <1>4, <2>1, <2>2, <2>3 DEF BlockOK
<1>7. msgs' = [msgs EXCEPT ![m] = c]
  BY <1>2 DEF Messages!setMsgLen, BlocksInv, BlockOK, Blocks, n
<1> QED
  BY <1>1, <1>6, <1>7, OneBlock

\* n bytes more, where there is room for them.
LEMMA PutBlock ==
  ASSUME NEW b, BlockOK(b), ~b.moved, NEW bytes \in Seq(Int), b.wr + Len(bytes) <= Len(b.data)
  PROVE  BlockOK(Messages!Put(b, bytes))
<1> DEFINE c == Messages!Put(b, bytes)
           d == [i \in DOMAIN b.data |->
                   IF i \in b.wr + 1 .. b.wr + Len(bytes) THEN bytes[i - b.wr] ELSE b.data[i]]
<1>1. PICK n \in Nat : n = Len(bytes) /\ bytes \in [1 .. n -> Int]
  OBVIOUS
<1>2. b \in Blocks /\ b.data \in Seq(Int) /\ b.text \in Seq(Int) /\ b.wr \in Nat
  BY DEF BlockOK, Blocks
<1>3. PICK l \in Nat : l = Len(b.data) /\ b.data \in [1 .. l -> Int] /\ DOMAIN b.data = 1 .. l
  BY <1>2
<1>4. PICK k \in Nat : k = Len(b.text) /\ b.text \in [1 .. k -> Int]
  BY <1>2
<1>5. b.wr = k + 1 /\ k + 1 + n <= l /\ 1 <= l
  BY <1>1, <1>3, <1>4 DEF BlockOK
<1>6. d \in [1 .. l -> Int]
  <2>1. ASSUME NEW i \in 1 .. l
        PROVE  (IF i \in b.wr + 1 .. b.wr + Len(bytes) THEN bytes[i - b.wr] ELSE b.data[i]) \in Int
    <3>1. i \in b.wr + 1 .. b.wr + Len(bytes) => i - b.wr \in 1 .. n
      BY <1>1, <1>5
    <3>2. i \in b.wr + 1 .. b.wr + Len(bytes) => bytes[i - b.wr] \in Int
      BY <1>1, <3>1
    <3> QED
      BY <1>3, <3>2
  <2>2. d = [i \in 1 .. l |->
               IF i \in b.wr + 1 .. b.wr + Len(bytes) THEN bytes[i - b.wr] ELSE b.data[i]]
    <3>1. DOMAIN b.data = 1 .. l
      BY <1>3
    <3> QED
      BY <3>1, Zenon
  <2> QED
    BY <2>1, <2>2
<1>7. d \in Seq(Int) /\ Len(d) = l
  <2> HIDE DEF d
  <2> QED
    BY <1>6
<1>8. b.text \o bytes \in Seq(Int) /\ Len(b.text \o bytes) = k + n
      /\ \A i \in 1 .. k + n : (b.text \o bytes)[i] = IF i <= k THEN b.text[i] ELSE bytes[i - k]
  BY <1>1, <1>2, <1>4
<1>9. c = [b EXCEPT !.data = d, !.wr = b.wr + n, !.text = b.text \o bytes, !.stamp = -1]
  BY <1>1 DEF Messages!Put, Messages!Garbage
<1> DEFINE t == b.text \o bytes
           w == b.wr + n
<1>10. t \in Seq(Int) /\ w \in Nat /\ w = k + n + 1
  BY <1>2, <1>5, <1>8
<1>11. ASSUME NEW i \in 1 .. k + n PROVE d[i + 1] = t[i]
  <2>1. PICK j \in DOMAIN b.data : j = i + 1 /\ j \in Nat
    BY <1>3, <1>5
  <2>2. d[j] = IF j \in b.wr + 1 .. b.wr + Len(bytes) THEN bytes[j - b.wr] ELSE b.data[j]
    BY Zenon
  <2> HIDE DEF d, t
  <2>3. ASSUME i <= k PROVE d[j] = t[i]
    <3>1. i \in 1 .. Len(b.text) /\ ~(j \in b.wr + 1 .. b.wr + Len(bytes))
      BY <1>1, <1>4, <1>5, <2>1, <2>3
    <3>2. b.data[i + 1] = b.text[i]
      BY <3>1 DEF BlockOK
    <3>3. t[i] = b.text[i]
      BY <1>8, <2>3 DEF t
    <3> QED
      BY <2>1, <2>2, <3>1, <3>2, <3>3
  <2>4. ASSUME i > k PROVE d[j] = t[i]
    <3>1. j \in b.wr + 1 .. b.wr + Len(bytes) /\ j - b.wr = i - k
      BY <1>1, <1>5, <2>1, <2>4
    <3>2. t[i] = bytes[i - k]
      <4>1. t[i] = IF i <= k THEN b.text[i] ELSE bytes[i - k]
        BY <1>8 DEF t
      <4>2. ~(i <= k)
        BY <2>4
      <4> QED
        BY <4>1, <4>2
    <3> QED
      BY <2>2, <3>1, <3>2
  <2>5. i <= k \/ i > k
    OBVIOUS
  <2> QED
    BY <2>1, <2>3, <2>4, <2>5
<1> HIDE DEF d, t, w
<1>12. c = [b EXCEPT !.data = d, !.wr = w, !.text = t, !.stamp = -1]
  BY <1>9 DEF t, w
<1>13. c \in Blocks
  <2>1. -1 \in Int
    OBVIOUS
  <2> HIDE DEF c
  <2>2. \A x \in Int : [b EXCEPT !.data = d, !.wr = w, !.text = t, !.stamp = x] \in Blocks
    BY <1>2, <1>7, <1>10 DEF Blocks
  <2>3. [b EXCEPT !.data = d, !.wr = w, !.text = t, !.stamp = -1] \in Blocks
    BY <2>1, <2>2
  <2> QED
    BY <1>12, <2>3
<1>14. /\ c.data = d /\ c.wr = w /\ c.text = t /\ c.stamp = -1 /\ c.len = b.len
       /\ c.loose = b.loose /\ c.moved = b.moved
  <2> HIDE DEF c
  <2> QED
    BY <1>2, <1>12 DEF Blocks
<1> HIDE DEF c
<1>15. Len(t) = k + n
  BY <1>8 DEF t
<1>16. ~b.loose => b.len <= l
  BY <1>3 DEF BlockOK
<1>17. BlockOK(c)
  BY <1>5, <1>7, <1>10, <1>11, <1>13, <1>14, <1>15, <1>16 DEF BlockOK
<1> QED
  BY <1>17 DEF c

LEMMA WriteBlock ==
  ASSUME BlocksInv, NEW m \in Msg, overrun = "none", NEW b, BlockOK(b), ~b.moved, NEW n \in Nat,
         ~b.loose => b.wr + n <= Len(b.data), Messages!Writes(m, b, Messages!Bytes(b, n))
  PROVE  BlocksInv'
<1>1. PICK k \in Nat : k = Len(b.text)
  BY DEF BlockOK, Blocks
<1>2. PICK bytes \in Seq(Int) : bytes = Messages!Bytes(b, n) /\ Len(bytes) = n
  <2>1. Messages!Bytes(b, n) \in [1 .. n -> Int]
    BY <1>1 DEF Messages!Bytes
  <2>2. Messages!Bytes(b, n) \in Seq(Int) /\ Len(Messages!Bytes(b, n)) = n
    BY <2>1
  <2> QED
    BY <2>2
<1>3. /\ msgs' = [msgs EXCEPT ![m] = Messages!Put(b, bytes)]
      /\ overrun' = IF ~Messages!Spills(b, n) THEN "none" ELSE IF b.loose THEN "copy" ELSE "own"
  BY <1>2 DEF Messages!Writes
<1>4. b.wr \in Nat /\ Len(b.data) \in Nat
  BY DEF BlockOK, Blocks
<1>5. Messages!Spills(b, n) => b.loose
  BY <1>4 DEF Messages!Spills
<1>6. overrun' \in {"none", "copy"}
  BY <1>3, <1>5
<1>7. overrun' = "none" => BlockOK(Messages!Put(b, bytes))
  <2>1. ~Messages!Spills(b, n) => b.wr + Len(bytes) <= Len(b.data)
    BY <1>2, <1>4 DEF Messages!Spills
  <2> QED
    BY <1>3, <2>1, PutBlock
<1> QED
  BY <1>3, <1>6, <1>7, OneBlock

LEMMA AppendBlock ==
  ASSUME BlocksInv, NEW m \in Msg, NEW size \in Nat,
         Messages!append_data(m, size) \/ Messages!writeBody(m, size)
  PROVE  BlocksInv'
<1> DEFINE b == msgs[m]
           room == Messages!canWrSize(b)
<1>1. overrun = "none" /\ b # Messages!NoMsg /\ ~b.moved
  BY DEF Messages!append_data, Messages!writeBody, Messages!Known, Messages!Lives
<1>2. BlockOK(b)
  BY <1>1 DEF BlocksInv
<1>3. /\ b.wr \in Nat /\ b.len \in Nat /\ Len(b.data) \in Nat /\ b.wr <= Len(b.data)
      /\ ~b.loose => b.len <= Len(b.data)
  BY <1>1, <1>2 DEF BlockOK, Blocks
<1>4. room \in Nat /\ (b.wr + room <= b.len \/ room = 0)
  BY <1>3 DEF Messages!canWrSize
<1>5. \A n \in Nat : n <= room => (~b.loose => b.wr + n <= Len(b.data))
  <2> HIDE DEF b, room
  <2> QED
    BY <1>3, <1>4
<1> HIDE DEF room
<1>6. CASE Messages!append_data(m, size)
  <2>1. PICK n \in Nat : n <= room /\ Messages!Writes(m, b, Messages!Bytes(b, n))
    BY <1>4, <1>6 DEF Messages!append_data, room
  <2>2. ~b.loose => b.wr + n <= Len(b.data)
    BY <1>5, <2>1
  <2> QED
    BY <1>1, <1>2, <2>1, <2>2, WriteBlock
<1>7. CASE Messages!writeBody(m, size) /\ size <= room
  <2>1. Messages!Writes(m, b, Messages!Bytes(b, size))
    BY <1>4, <1>7 DEF Messages!writeBody, room
  <2>2. ~b.loose => b.wr + size <= Len(b.data)
    BY <1>5, <1>7
  <2> QED
    BY <1>1, <1>2, <2>1, <2>2, WriteBlock
<1>8. CASE Messages!writeBody(m, size) /\ ~(size <= room)
  <2> DEFINE n == b.wr + size
             d == Messages!Copied(b, n)
             g == [b EXCEPT !.data = d, !.len = n, !.loose = FALSE]
  <2>1. n \in Nat /\ b.wr <= n
    BY <1>3
  <2>2. d \in Seq(Int) /\ Len(d) = n /\ \A i \in 1 .. b.wr : d[i] = b.data[i]
    BY <1>1, <1>2, <2>1, CopiedType
  <2>3. Messages!Grown(b, size) = g
    <3>1. b \in Blocks
      BY <1>2 DEF BlockOK
    <3> QED
      BY <3>1 DEF Messages!Grown, Blocks
  <2>4. Messages!Writes(m, g, Messages!Bytes(b, size))
    BY <1>4, <1>8, <2>3 DEF Messages!writeBody, room
  <2> HIDE DEF b, d, n
  <2>5. BlockOK(g)
    <3>1. FALSE \in BOOLEAN /\ n <= Len(d) /\ b.wr <= Len(d)
      BY <2>1, <2>2
    <3> QED
      BY <1>1, <1>2, <2>1, <2>2, <3>1, SameText
  <2>6. g.wr = b.wr /\ g.data = d /\ g.text = b.text /\ g.moved = b.moved
    <3>1. b \in Blocks
      BY <1>2 DEF BlockOK
    <3> QED
      BY <3>1 DEF Blocks
  <2> HIDE DEF g
  <2>7. Messages!Writes(m, g, Messages!Bytes(g, size))
    BY <2>4, <2>6 DEF Messages!Bytes
  <2>8. ~g.loose => g.wr + size <= Len(g.data)
    BY <1>3, <2>2, <2>6 DEF n
  <2> QED
    BY <1>1, <2>5, <2>6, <2>7, <2>8, WriteBlock
<1> QED
  BY <1>3, <1>4, <1>6, <1>7, <1>8

LEMMA NextBlocks == BlocksInv /\ [Messages!Next]_messageVars => BlocksInv'
<1> SUFFICES ASSUME BlocksInv, [Messages!Next]_messageVars PROVE BlocksInv'
  OBVIOUS
<1>1. CASE UNCHANGED messageVars
  BY <1>1 DEF messageVars, BlocksInv, Messages!NoMsg
<1>2. CASE Messages!Next
  <2>1. PICK m \in Msg :
          \/ \E size \in Sizes : Messages!Construct(m, size)
          \/ \E n \in Msg : \/ Messages!CopyConstruct(m, n) \/ Messages!CopyAssign(m, n)
                           \/ Messages!MoveConstruct(m, n) \/ Messages!MoveAssign(m, n)
          \/ Messages!Destroy(m) \/ Messages!Reset(m)
          \/ \E n \in Amounts : Messages!append_data(m, n) \/ Messages!writeBody(m, n)
          \/ Messages!setMsgLen(m)
    BY <1>2 DEF Messages!Next
  <2>2. Amounts \subseteq Nat
    BY MessageAssumption
  <2> QED
    BY <2>1, <2>2, ConstructBlock, CopyBlock, MoveBlock, ResetBlock, AppendBlock, StampBlock
<1> QED
  BY <1>1, <1>2

\* What readBody() makes of such a message.
LEMMA ReadsBack ==
  ASSUME NEW b, BlockOK(b), ~b.moved
  PROVE  /\ SubSeq(b.data, b.rd + 1, b.wr) = b.text
         /\ b.stamp # -1 => Messages!readBody(b) = SubSeq(b.text, 1, b.stamp)
<1>1. /\ b.data \in Seq(Int) /\ b.text \in Seq(Int) /\ b.rd = 1
  BY DEF BlockOK, Blocks
<1>2. PICK k \in Nat : k = Len(b.text)
  BY <1>1
<1>3. PICK l \in Nat : l = Len(b.data)
  BY <1>1
<1>4. /\ b.wr = k + 1 /\ k + 1 <= l
      /\ \A i \in 1 .. k : b.data[i + 1] = b.text[i]
      /\ b.stamp # -1 => b.stamp \in 0 .. k /\ b.data[1] = b.stamp
  BY <1>2, <1>3 DEF BlockOK
<1>5. ASSUME NEW n \in 0 .. k PROVE SubSeq(b.data, 2, n + 1) = SubSeq(b.text, 1, n)
  <2>1. PICK u \in Seq(Int) :
          u = SubSeq(b.data, 2, n + 1) /\ Len(u) = n /\ \A i \in 1 .. n : u[i] = b.data[1 + i]
    <3>1. PICK m \in Nat : m = 1 /\ m + n <= Len(b.data) /\ m + n = n + 1 /\ m + 1 = 2 /\ n \in Nat
      BY <1>3, <1>4
    <3>2. /\ SubSeq(b.data, m + 1, m + n) \in Seq(Int)
          /\ Len(SubSeq(b.data, m + 1, m + n)) = n
          /\ \A i \in 1 .. n : SubSeq(b.data, m + 1, m + n)[i] = b.data[m + i]
      BY <1>1, <3>1, SliceCells
    <3> QED
      BY <3>1, <3>2
  <2>2. PICK v \in Seq(Int) :
          v = SubSeq(b.text, 1, n) /\ Len(v) = n /\ \A i \in 1 .. n : v[i] = b.text[0 + i]
    <3>1. PICK m \in Nat : m = 0 /\ m + n <= Len(b.text) /\ m + n = n /\ m + 1 = 1 /\ n \in Nat
      BY <1>2
    <3>2. /\ SubSeq(b.text, m + 1, m + n) \in Seq(Int)
          /\ Len(SubSeq(b.text, m + 1, m + n)) = n
          /\ \A i \in 1 .. n : SubSeq(b.text, m + 1, m + n)[i] = b.text[m + i]
      BY <1>1, <3>1, SliceCells
    <3> QED
      BY <3>1, <3>2
  <2>3. \A i \in 1 .. n : u[i] = v[i]
    BY <1>4, <2>1, <2>2
  <2>4. u = v
    BY <2>1, <2>2, <2>3, SeqEqual
  <2> QED
    BY <2>1, <2>2, <2>4
<1>6. SubSeq(b.data, 2, k + 1) = b.text
  <2>1. SubSeq(b.text, 1, k) = b.text
    BY <1>1, <1>2
  <2> QED
    BY <1>5, <2>1
<1>7. ASSUME b.stamp # -1 PROVE Messages!readBody(b) = SubSeq(b.text, 1, b.stamp)
  <2>1. PICK n \in 0 .. k : b.stamp = n /\ b.data[1] = n
    BY <1>4, <1>7
  <2>2. ~(b.wr - b.rd < n) /\ b.rd + 1 = 2 /\ b.rd + n = n + 1
    BY <1>1, <1>4
  <2>3. Messages!readBody(b) = SubSeq(b.data, 2, n + 1)
    BY <2>1, <2>2 DEF Messages!readBody
  <2> QED
    BY <1>5, <2>1, <2>3
<1> QED
  BY <1>1, <1>4, <1>6, <1>7

\* Message::writeBody() and readBody(): the body and the length that were written are what
\* is read back, through growth, copies, moves and a second life after either, and no
\* message that is neither a copy nor what a move left writes beyond its memory.
THEOREM BodySurvives == Messages!Spec => []BodyRoundTrip
<1>1. Messages!Init => BlocksInv
  BY InitBlocks
<1>2. BlocksInv /\ [Messages!Next]_Messages!messageVars => BlocksInv'
  BY NextBlocks DEF messageVars, Messages!messageVars
<1>3. BlocksInv => BodyRoundTrip
  <2> SUFFICES ASSUME BlocksInv PROVE BodyRoundTrip
    OBVIOUS
  <2>1. overrun # "own"
    BY DEF BlocksInv
  <2>2. ASSUME NEW m \in Msg, Messages!Known(m)
        PROVE  LET b == msgs[m]
               IN /\ SubSeq(b.data, b.rd + 1, b.wr) = b.text
                  /\ b.stamp # Messages!Garbage =>
                       Messages!readBody(b) = SubSeq(b.text, 1, b.stamp)
    <3>1. BlockOK(msgs[m]) /\ ~msgs[m].moved
      BY <2>2 DEF BlocksInv, Messages!Known, Messages!Lives
    <3> QED
      BY <3>1, ReadsBack DEF Messages!Garbage
  <2> QED
    BY <2>1, <2>2 DEF BodyRoundTrip, Messages!BodyRoundTrip
<1> QED
  BY <1>1, <1>2, <1>3, PTL DEF Messages!Spec

-----------------------------------------------------------------------------
(* RingBuffer and BufferPool *)

\* The buffers in a list, and what is left of it without the first.
LEMMA AppendOwned ==
  ASSUME NEW s \in Seq(Buffer), NEW b \in Buffer
  PROVE  /\ Append(s, b) \in Seq(Buffer)
         /\ ToSet(Append(s, b)) = ToSet(s) \cup {b}
         /\ IsInjective(s) /\ b \notin ToSet(s) => IsInjective(Append(s, b))
<1>1. PICK n \in Nat : n = Len(s) /\ DOMAIN s = 1 .. n
  OBVIOUS
<1>2. PICK t \in Seq(Buffer) : /\ t = Append(s, b) /\ DOMAIN t = 1 .. n + 1
                               /\ \A i \in 1 .. n : t[i] = s[i]
                               /\ t[n + 1] = b
  <2>1. /\ Append(s, b) \in Seq(Buffer) /\ Len(Append(s, b)) = n + 1
        /\ \A i \in 1 .. n : Append(s, b)[i] = s[i]
        /\ Append(s, b)[n + 1] = b
    BY <1>1, AppendProperties
  <2>2. DOMAIN Append(s, b) = 1 .. n + 1
    BY <2>1, LenProperties
  <2> QED
    BY <2>1, <2>2, Zenon
<1>3. \A i \in 1 .. n + 1 : i \in 1 .. n \/ i = n + 1
  OBVIOUS
<1>4. ToSet(t) = ToSet(s) \cup {b}
  <2>1. ASSUME NEW x \in ToSet(t) PROVE x \in ToSet(s) \cup {b}
    BY <1>1, <1>2, <1>3 DEF ToSet
  <2>2. ASSUME NEW x \in ToSet(s) \cup {b} PROVE x \in ToSet(t)
    <3>1. n + 1 \in DOMAIN t /\ \A i \in DOMAIN s : i \in DOMAIN t /\ t[i] = s[i]
      BY <1>1, <1>2
    <3> QED
      BY <1>2, <3>1 DEF ToSet
  <2> QED
    BY <2>1, <2>2
<1>5. IsInjective(s) /\ b \notin ToSet(s) => IsInjective(t)
  BY <1>1, <1>2, <1>3 DEF IsInjective, ToSet
<1> QED
  BY <1>2, <1>4, <1>5

LEMMA TailOwned ==
  ASSUME NEW s \in Seq(Buffer), s # <<>>, IsInjective(s)
  PROVE  /\ Tail(s) \in Seq(Buffer) /\ Head(s) \in Buffer /\ Head(s) \in ToSet(s)
         /\ ToSet(Tail(s)) = ToSet(s) \ {Head(s)}
         /\ IsInjective(Tail(s))
<1>1. PICK n \in Nat : n = Len(s) /\ DOMAIN s = 1 .. n /\ n >= 1
  OBVIOUS
<1>2. Head(s) = s[1] /\ Head(s) \in Buffer
  BY <1>1
<1>3. PICK t \in Seq(Buffer) : /\ t = Tail(s) /\ DOMAIN t = 1 .. n - 1
                               /\ \A i \in 1 .. n - 1 : t[i] = s[i + 1]
  <2>1. /\ Tail(s) \in Seq(Buffer) /\ Len(Tail(s)) = n - 1
        /\ \A i \in 1 .. n - 1 : Tail(s)[i] = s[i + 1]
    BY <1>1, HeadTailProperties
  <2>2. DOMAIN Tail(s) = 1 .. n - 1
    BY <2>1, LenProperties
  <2> QED
    BY <2>1, <2>2, Zenon
<1>4. ToSet(t) = ToSet(s) \ {s[1]}
  <2>1. ASSUME NEW x \in ToSet(t) PROVE x \in ToSet(s) /\ x # s[1]
    <3>1. PICK i \in 1 .. n - 1 : x = s[i + 1]
      BY <1>3 DEF ToSet
    <3>2. i + 1 \in DOMAIN s /\ 1 \in DOMAIN s /\ i + 1 # 1
      BY <1>1
    <3> QED
      BY <3>1, <3>2 DEF ToSet, IsInjective
  <2>2. ASSUME NEW x \in ToSet(s), x # s[1] PROVE x \in ToSet(t)
    <3>1. PICK i \in 1 .. n : x = s[i]
      BY <1>1 DEF ToSet
    <3>2. PICK j \in 1 .. n - 1 : j + 1 = i
      <4>1. i # 1
        BY <2>2, <3>1
      <4>2. i - 1 \in 1 .. n - 1 /\ (i - 1) + 1 = i
        BY <4>1
      <4> QED
        BY <4>2
    <3>3. t[j] = x
      BY <1>3, <3>1, <3>2
    <3> QED
      BY <1>3, <3>3 DEF ToSet
  <2> QED
    BY <2>1, <2>2
<1>5. IsInjective(t)
  <2>1. SUFFICES ASSUME NEW i \in 1 .. n - 1, NEW j \in 1 .. n - 1, t[i] = t[j] PROVE i = j
    BY <1>3 DEF IsInjective
  <2>2. s[i + 1] = s[j + 1] /\ i + 1 \in DOMAIN s /\ j + 1 \in DOMAIN s
    BY <1>1, <1>3, <2>1
  <2>3. i + 1 = j + 1
    BY <2>2 DEF IsInjective
  <2> QED
    BY <2>3
<1> QED
  BY <1>2, <1>3, <1>4, <1>5, <1>1 DEF ToSet

\* The bytes between the read and the write offsets of the buffers in bs, one buffer
\* after the other, are the bytes from + 1 .. to of the stream.
Filled(d, b) == Len(d[b])

Row(bytes, x, w, last) == \A i \in x + 1 .. w : bytes[i] = last - (w - i)

Flow(bs, d, r, from, to) ==
    /\ \A k \in 1 .. Len(bs) : r[bs[k]] <= Filled(d, bs[k])
    /\ \E e \in [0 .. Len(bs) -> Nat] :
         /\ e[0] = from /\ e[Len(bs)] = to
         /\ \A k \in 1 .. Len(bs) :
              /\ e[k] = e[k - 1] + (Filled(d, bs[k]) - r[bs[k]])
              /\ Row(d[bs[k]], r[bs[k]], Filled(d, bs[k]), e[k])

LEMMA EmptyFlow == ASSUME NEW d, NEW r PROVE Flow(<<>>, d, r, 0, 0)
<1>1. PICK n \in Nat : n = Len(<<>>) /\ n = 0
  OBVIOUS
<1>2. PICK e \in [0 .. n -> Nat] : e[0] = 0
  <2>1. [i \in 0 .. n |-> 0] \in [0 .. n -> Nat] /\ [i \in 0 .. n |-> 0][0] = 0
    BY <1>1
  <2> QED
    BY <2>1
<1>3. 1 .. n = {}
  BY <1>1
<1> QED
  BY <1>1, <1>2, <1>3 DEF Flow

\* Other buffers do not matter.
LEMMA SameFlow ==
  ASSUME NEW bs \in Seq(Buffer), NEW d, NEW r, NEW from, NEW to, Flow(bs, d, r, from, to),
         NEW d2, NEW r2,
         \A b \in ToSet(bs) : d2[b] = d[b] /\ r2[b] = r[b]
  PROVE  Flow(bs, d2, r2, from, to)
<1>1. \A k \in 1 .. Len(bs) : bs[k] \in ToSet(bs)
  BY DEF ToSet
<1>2. \A k \in 1 .. Len(bs) : /\ d2[bs[k]] = d[bs[k]] /\ r2[bs[k]] = r[bs[k]]
                              /\ Filled(d2, bs[k]) = Filled(d, bs[k])
  BY <1>1 DEF Filled
<1>3. \A k \in 1 .. Len(bs) : r2[bs[k]] <= Filled(d2, bs[k])
  BY <1>2 DEF Flow
<1>4. PICK e \in [0 .. Len(bs) -> Nat] :
         /\ e[0] = from /\ e[Len(bs)] = to
         /\ \A k \in 1 .. Len(bs) :
              /\ e[k] = e[k - 1] + (Filled(d, bs[k]) - r[bs[k]])
              /\ Row(d[bs[k]], r[bs[k]], Filled(d, bs[k]), e[k])
  BY DEF Flow
<1>5. ASSUME NEW k \in 1 .. Len(bs)
      PROVE  /\ e[k] = e[k - 1] + (Filled(d2, bs[k]) - r2[bs[k]])
             /\ Row(d2[bs[k]], r2[bs[k]], Filled(d2, bs[k]), e[k])
  <2>1. /\ d2[bs[k]] = d[bs[k]] /\ r2[bs[k]] = r[bs[k]]
        /\ Filled(d2, bs[k]) = Filled(d, bs[k])
    BY <1>2
  <2>2. /\ e[k] = e[k - 1] + (Filled(d, bs[k]) - r[bs[k]])
        /\ Row(d[bs[k]], r[bs[k]], Filled(d, bs[k]), e[k])
    BY <1>4
  <2> QED
    BY <2>1, <2>2
<1> QED
  BY <1>3, <1>4, <1>5, Zenon DEF Flow

\* What a list with such bytes has to read.
LEMMA FlowSize ==
  ASSUME NEW bs \in Seq(Buffer), NEW d \in [Buffer -> Seq(Int)], NEW r \in [Buffer -> Nat],
         NEW from \in Nat, NEW to \in Nat, Flow(bs, d, r, from, to)
  PROVE  /\ from <= to
         /\ bs # <<>> => Filled(d, bs[1]) - r[bs[1]] <= to - from
         /\ \A f : f = [k \in 0 .. Len(bs) |->
                          IF k = 0 THEN 0 ELSE f[k - 1] + (Filled(d, bs[k]) - r[bs[k]])]
                   => f[Len(bs)] = to - from
         /\ \E f : f = [k \in 0 .. Len(bs) |->
                          IF k = 0 THEN 0 ELSE f[k - 1] + (Filled(d, bs[k]) - r[bs[k]])]
<1>1. PICK n \in Nat : n = Len(bs)
  OBVIOUS
<1>2. /\ \A k \in 1 .. n : bs[k] \in Buffer
      /\ \A k \in 1 .. n : Filled(d, bs[k]) \in Nat /\ r[bs[k]] \in Nat
    BY <1>1 DEF Filled
<1>3. PICK e \in [0 .. n -> Nat] :
         /\ e[0] = from /\ e[n] = to
         /\ \A k \in 1 .. n : e[k] = e[k - 1] + (Filled(d, bs[k]) - r[bs[k]])
  BY <1>1 DEF Flow
<1>4. \A k \in 1 .. n : r[bs[k]] <= Filled(d, bs[k])
  BY <1>1 DEF Flow
<1> DEFINE S == {k \in Nat : k <= n => from <= e[k] /\ (k >= 1 => e[1] <= e[k])}
<1>5. 0 \in S
  BY <1>3
<1>6. ASSUME NEW k \in Nat, k \in S PROVE k + 1 \in S
  <2> SUFFICES ASSUME k + 1 <= n PROVE from <= e[k + 1] /\ e[1] <= e[k + 1]
    OBVIOUS
  <2>1. k + 1 \in 1 .. n /\ k \in 0 .. n /\ 1 \in 0 .. n
    OBVIOUS
  <2>2. PICK j \in 1 .. n : j = k + 1 /\ j - 1 = k
    BY <2>1
  <2>3. e[j] = e[k] + (Filled(d, bs[j]) - r[bs[j]]) /\ e[j] \in Nat /\ e[k] \in Nat /\ e[1] \in Nat
    BY <1>3, <2>1, <2>2
  <2>4. e[k] <= e[j]
    <3>1. PICK x \in Nat : x = Filled(d, bs[j])
      BY <1>2
    <3>2. PICK y \in Nat : y = r[bs[j]]
      BY <1>2
    <3>3. y <= x
      BY <1>4, <3>1, <3>2
    <3>4. e[j] = e[k] + (x - y)
      BY <2>3, <3>1, <3>2
    <3> QED
      BY <2>3, <3>3, <3>4
  <2>5. from <= e[k] /\ (k >= 1 => e[1] <= e[k])
    BY <1>6
  <2> QED
    BY <2>2, <2>3, <2>4, <2>5
<1>7. n \in S
  <2> HIDE DEF S
  <2> QED
    BY <1>5, <1>6, NatSetInduction
<1>8. bs # <<>> => Filled(d, bs[1]) - r[bs[1]] <= to - from
  <2> SUFFICES ASSUME bs # <<>> PROVE Filled(d, bs[1]) - r[bs[1]] <= to - from
    OBVIOUS
  <2>1. 1 \in 1 .. n /\ 1 - 1 = 0
    BY <1>1
  <2>2. e[1] = from + (Filled(d, bs[1]) - r[bs[1]]) /\ e[1] \in Nat /\ e[1] <= to
    BY <1>3, <1>7, <2>1
  <2> QED
    BY <1>2, <2>1, <2>2, SMTT(30)
<1> DEFINE Sums(f) == f = [k \in 0 .. n |->
                             IF k = 0 THEN 0 ELSE f[k - 1] + (Filled(d, bs[k]) - r[bs[k]])]
<1>9. ASSUME NEW f, Sums(f) PROVE f[n] = to - from
  <2> DEFINE T == {k \in Nat : k <= n => f[k] = e[k] - from}
  <2>1. \A k \in 0 .. n : f[k] = IF k = 0 THEN 0 ELSE f[k - 1] + (Filled(d, bs[k]) - r[bs[k]])
    BY <1>9
  <2>2. 0 \in T
    BY <1>3, <2>1
  <2>3. ASSUME NEW k \in Nat, k \in T PROVE k + 1 \in T
    <3> SUFFICES ASSUME k + 1 <= n PROVE f[k + 1] = e[k + 1] - from
      OBVIOUS
    <3>1. PICK j \in 1 .. n : j = k + 1 /\ j - 1 = k /\ j # 0 /\ j \in 0 .. n /\ k \in 0 .. n
      OBVIOUS
    <3>2. f[j] = f[k] + (Filled(d, bs[j]) - r[bs[j]])
      BY <2>1, <3>1
    <3>3. e[j] = e[k] + (Filled(d, bs[j]) - r[bs[j]]) /\ e[k] \in Nat /\ e[j] \in Nat
      BY <1>3, <3>1
    <3>4. f[k] = e[k] - from
      BY <2>3, <3>1
    <3>5. Filled(d, bs[j]) \in Nat /\ r[bs[j]] \in Nat
      BY <1>2
    <3>6. f[j] = e[j] - from
      BY <3>2, <3>3, <3>4, <3>5, SMTT(30)
    <3> QED
      BY <3>1, <3>6
  <2>4. n \in T
    <3> HIDE DEF T
    <3> QED
      BY <2>2, <2>3, NatSetInduction
  <2> QED
    BY <1>3, <2>4
<1>10. \E f : Sums(f)
  <2> DEFINE f == [k \in 0 .. n |-> e[k] - from]
  <2>1. \A k \in 0 .. n :
          e[k] - from = IF k = 0 THEN 0 ELSE f[k - 1] + (Filled(d, bs[k]) - r[bs[k]])
    <3>1. ASSUME NEW k \in 1 .. n
          PROVE  e[k] - from = f[k - 1] + (Filled(d, bs[k]) - r[bs[k]])
      <4>1. PICK j \in 0 .. n : j = k - 1
        OBVIOUS
      <4>2. PICK p \in Nat, q \in Nat : p = e[j] /\ q = e[k]
        BY <1>3
      <4>3. f[j] = p - from
        BY <4>2
      <4>4. PICK x \in Nat, y \in Nat : x = Filled(d, bs[k]) /\ y = r[bs[k]]
        BY <1>2
      <4>5. q = p + (x - y)
        BY <1>3, <4>1, <4>2, <4>4
      <4>6. f[k - 1] = p - from
        BY <4>1, <4>3, Zenon
      <4> HIDE DEF f
      <4>7. q - from = (p - from) + (x - y)
        BY <4>5
      <4> QED
        BY <4>2, <4>4, <4>6, <4>7, Zenon
    <3>2. e[0] - from = 0
      BY <1>3
    <3>3. \A k \in 0 .. n : k = 0 \/ (k \in 1 .. n /\ k # 0)
      OBVIOUS
    <3> HIDE DEF f
    <3> QED
      BY <3>1, <3>2, <3>3
  <2>2. Sums(f)
    BY <2>1
  <2> HIDE DEF Sums
  <2> QED
    BY <2>2
<1>11. from <= to
  BY <1>3, <1>7
<1> QED
  BY <1>1, <1>8, <1>9, <1>10, <1>11, Zenon

\* n bytes are read from the first buffer.
LEMMA ReadFlow ==
  ASSUME NEW bs \in Seq(Buffer), bs # <<>>, IsInjective(bs),
         NEW d \in [Buffer -> Seq(Int)], NEW r \in [Buffer -> Nat], NEW r2 \in [Buffer -> Nat],
         NEW from \in Nat, NEW to \in Nat, Flow(bs, d, r, from, to),
         NEW n \in Nat, n <= Filled(d, bs[1]) - r[bs[1]],
         r2[bs[1]] = r[bs[1]] + n, \A b \in Buffer : b # bs[1] => r2[b] = r[b]
  PROVE  /\ Flow(bs, d, r2, from + n, to)
         /\ Row(d[bs[1]], r[bs[1]], r[bs[1]] + n, from + n)
<1>1. PICK m \in Nat : m = Len(bs) /\ m >= 1 /\ DOMAIN bs = 1 .. m
  OBVIOUS
<1>2. \A k \in 1 .. m : bs[k] \in Buffer /\ Filled(d, bs[k]) \in Nat /\ r[bs[k]] \in Nat
  BY <1>1 DEF Filled
<1>3. PICK e \in [0 .. m -> Nat] :
         /\ e[0] = from /\ e[m] = to
         /\ \A k \in 1 .. m :
              /\ e[k] = e[k - 1] + (Filled(d, bs[k]) - r[bs[k]])
              /\ Row(d[bs[k]], r[bs[k]], Filled(d, bs[k]), e[k])
  BY <1>1 DEF Flow
<1>4. \A k \in 1 .. m : k # 1 => r2[bs[k]] = r[bs[k]]
  <2>1. \A k \in 1 .. m : k # 1 => bs[k] # bs[1]
    <3>1. \A k \in 1 .. m : k \in DOMAIN bs /\ 1 \in DOMAIN bs
      BY <1>1
    <3> QED
      BY <3>1, Zenon DEF IsInjective
  <2> QED
    BY <1>2, <2>1
<1> DEFINE w == Filled(d, bs[1])
           x == r[bs[1]]
<1>5. /\ w \in Nat /\ x \in Nat /\ e[1] \in Nat /\ e[1] = from + (w - x) /\ x + n <= w
      /\ Row(d[bs[1]], x, w, e[1])
  <2>1. 1 \in 1 .. m /\ 1 \in 0 .. m /\ 1 - 1 = 0
    BY <1>1
  <2>2. w \in Nat /\ x \in Nat /\ e[1] \in Nat
    BY <1>2, <1>3, <2>1
  <2>3. e[1] = from + (w - x) /\ Row(d[bs[1]], x, w, e[1])
    BY <1>3, <2>1
  <2>4. x + n <= w
    <3>1. n <= w - x
      OBVIOUS
    <3> HIDE DEF w, x
    <3> QED
      BY <2>2, <3>1
  <2> HIDE DEF w, x
  <2> QED
    BY <2>2, <2>3, <2>4
<1>6. /\ Row(d[bs[1]], x + n, w, e[1]) /\ e[1] = (from + n) + (w - (x + n))
      /\ Row(d[bs[1]], x, x + n, from + n)
  <2> HIDE DEF w, x
  <2>1. PICK last \in Nat : last = e[1]
    BY <1>5
  <2> DEFINE bytes == d[bs[1]]
  <2> HIDE DEF bytes
  <2>2. /\ w \in Nat /\ x \in Nat /\ x + n <= w
        /\ Row(bytes, x, w, last) /\ last = from + (w - x)
    BY <1>5, <2>1 DEF bytes
  <2>3. PICK y \in Nat : y = x + n /\ x <= y /\ y <= w
    BY <2>2
  <2>4. PICK now \in Nat : now = from + n /\ now = from + (y - x)
    BY <2>2, <2>3
  <2>5. Row(bytes, y, w, last) /\ last = now + (w - y) /\ Row(bytes, x, y, now)
    <3>1. last = now + (w - y)
      BY <2>2, <2>3, <2>4
    <3>2. Row(bytes, y, w, last)
      BY <2>2, <2>3 DEF Row
    <3>3. Row(bytes, x, y, now)
      BY <2>2, <2>3, <2>4 DEF Row
    <3> QED
      BY <3>1, <3>2, <3>3
  <2> QED
    BY <2>1, <2>3, <2>4, <2>5 DEF bytes
<1> DEFINE f == [e EXCEPT ![0] = from + n]
<1>7. f \in [0 .. m -> Nat] /\ f[0] = from + n /\ \A k \in 1 .. m : f[k] = e[k]
  BY <1>3, SMTT(30)
<1> HIDE DEF f
<1>8. \A k \in 1 .. m : r2[bs[k]] <= Filled(d, bs[k])
  <2>1. \A k \in 1 .. m : r[bs[k]] <= Filled(d, bs[k])
    BY <1>1 DEF Flow
  <2>2. r2[bs[1]] <= Filled(d, bs[1])
    BY <1>5
  <2> QED
    BY <1>4, <2>1, <2>2
<1>9. ASSUME NEW k \in 1 .. m
      PROVE  /\ f[k] = f[k - 1] + (Filled(d, bs[k]) - r2[bs[k]])
             /\ Row(d[bs[k]], r2[bs[k]], Filled(d, bs[k]), f[k])
  <2>1. ASSUME k = 1
        PROVE  /\ f[k] = f[k - 1] + (Filled(d, bs[k]) - r2[bs[k]])
               /\ Row(d[bs[k]], r2[bs[k]], Filled(d, bs[k]), f[k])
    <3>1. f[k] = e[1] /\ f[k - 1] = from + n /\ bs[k] = bs[1] /\ r2[bs[k]] = x + n
      BY <1>1, <1>7, <2>1
    <3> QED
      BY <1>6, <3>1
  <2>2. ASSUME k # 1
        PROVE  /\ f[k] = f[k - 1] + (Filled(d, bs[k]) - r2[bs[k]])
               /\ Row(d[bs[k]], r2[bs[k]], Filled(d, bs[k]), f[k])
    <3>1. k - 1 \in 1 .. m
      BY <2>2
    <3>2. f[k] = e[k] /\ f[k - 1] = e[k - 1] /\ r2[bs[k]] = r[bs[k]]
      BY <1>4, <1>7, <2>2, <3>1
    <3> QED
      BY <1>3, <3>2
  <2> QED
    BY <2>1, <2>2
<1>10. f[m] = to
  BY <1>1, <1>3, <1>7
<1>11. Flow(bs, d, r2, from + n, to)
  BY <1>1, <1>7, <1>8, <1>9, <1>10 DEF Flow
<1> QED
  BY <1>6, <1>11

\* The first buffer is dropped, after its last byte.
LEMMA DropFlow ==
  ASSUME NEW bs \in Seq(Buffer), bs # <<>>,
         NEW d \in [Buffer -> Seq(Int)], NEW r \in [Buffer -> Nat],
         NEW from \in Nat, NEW to \in Nat, Flow(bs, d, r, from, to),
         r[bs[1]] >= Filled(d, bs[1])
  PROVE  Flow(Tail(bs), d, r, from, to)
<1>1. PICK m \in Nat : m = Len(bs) /\ m >= 1
  OBVIOUS
<1>2. \A k \in 1 .. m : /\ bs[k] \in Buffer /\ Filled(d, bs[k]) \in Nat /\ r[bs[k]] \in Nat
                        /\ r[bs[k]] <= Filled(d, bs[k])
  BY <1>1 DEF Flow, Filled
<1>3. PICK e \in [0 .. m -> Nat] :
         /\ e[0] = from /\ e[m] = to
         /\ \A k \in 1 .. m :
              /\ e[k] = e[k - 1] + (Filled(d, bs[k]) - r[bs[k]])
              /\ Row(d[bs[k]], r[bs[k]], Filled(d, bs[k]), e[k])
  BY <1>1 DEF Flow
<1>4. PICK t \in Seq(Buffer) : /\ t = Tail(bs) /\ Len(t) = m - 1
                               /\ \A k \in 1 .. m - 1 : t[k] = bs[k + 1]
  <2>1. /\ Tail(bs) \in Seq(Buffer) /\ Len(Tail(bs)) = m - 1
        /\ \A k \in 1 .. m - 1 : Tail(bs)[k] = bs[k + 1]
    BY <1>1, HeadTailProperties
  <2> QED
    BY <2>1, Zenon
<1>5. e[1] = from
  <2>1. 1 \in 1 .. m /\ 1 - 1 = 0
    BY <1>1
  <2>2. /\ e[1] = from + (Filled(d, bs[1]) - r[bs[1]])
        /\ Filled(d, bs[1]) \in Nat /\ r[bs[1]] \in Nat /\ r[bs[1]] <= Filled(d, bs[1])
    BY <1>2, <1>3, <2>1
  <2> QED
    BY <2>2
<1> DEFINE f == [k \in 0 .. m - 1 |-> e[k + 1]]
<1>6. f \in [0 .. m - 1 -> Nat] /\ \A k \in 0 .. m - 1 : f[k] = e[k + 1]
  <2>1. \A k \in 0 .. m - 1 : e[k + 1] \in Nat
    BY <1>3
  <2> QED
    BY <2>1
<1> HIDE DEF f
<1>7. f[0] = from /\ f[m - 1] = to
  BY <1>1, <1>3, <1>5, <1>6
<1>8. ASSUME NEW k \in 1 .. m - 1
      PROVE  /\ r[t[k]] <= Filled(d, t[k])
             /\ f[k] = f[k - 1] + (Filled(d, t[k]) - r[t[k]])
             /\ Row(d[t[k]], r[t[k]], Filled(d, t[k]), f[k])
  <2>1. PICK j \in 1 .. m : j = k + 1
    OBVIOUS
  <2>2. t[k] = bs[j] /\ f[k] = e[j] /\ f[k - 1] = e[j - 1]
    <3>1. k - 1 \in 0 .. m - 1 /\ (k - 1) + 1 = j - 1 /\ k \in 0 .. m - 1
      BY <2>1
    <3> QED
      BY <1>4, <1>6, <2>1, <3>1
  <2> QED
    BY <1>2, <1>3, <2>2
<1>9. Flow(t, d, r, from, to)
  <2>1. m - 1 = Len(t)
    BY <1>4
  <2> QED
    BY <2>1, <1>6, <1>7, <1>8, Zenon DEF Flow
<1> QED
  BY <1>4, <1>9

\* n bytes are put into the last buffer.
Begins(bytes, w, with) == \A i \in 1 .. w : bytes[i] = with[i]

LEMMA GrowFlow ==
  ASSUME NEW bs \in Seq(Buffer), NEW c \in Buffer, bs # <<>>, c = bs[Len(bs)], IsInjective(bs),
         NEW d \in [Buffer -> Seq(Int)], NEW d2 \in [Buffer -> Seq(Int)], NEW r \in [Buffer -> Nat],
         NEW from \in Nat, NEW to \in Nat, Flow(bs, d, r, from, to), NEW n \in Nat,
         NEW upto \in Nat, upto = to + n,
         \A b \in Buffer : b # c => d2[b] = d[b],
         Filled(d2, c) = Filled(d, c) + n,
         Begins(d2[c], Filled(d, c), d[c]),
         Row(d2[c], Filled(d, c), Filled(d2, c), upto)
  PROVE  Flow(bs, d2, r, from, upto)
<1>1. PICK m \in Nat : m = Len(bs) /\ m >= 1 /\ DOMAIN bs = 1 .. m /\ c = bs[m]
  OBVIOUS
<1>2. \A k \in 1 .. m : bs[k] \in Buffer /\ Filled(d, bs[k]) \in Nat /\ r[bs[k]] \in Nat
  BY <1>1 DEF Filled
<1>3. PICK e \in [0 .. m -> Nat] :
         /\ e[0] = from /\ e[m] = to
         /\ \A k \in 1 .. m :
              /\ e[k] = e[k - 1] + (Filled(d, bs[k]) - r[bs[k]])
              /\ Row(d[bs[k]], r[bs[k]], Filled(d, bs[k]), e[k])
  BY <1>1 DEF Flow
<1>4. \A k \in 1 .. m : k # m => d2[bs[k]] = d[bs[k]] /\ Filled(d2, bs[k]) = Filled(d, bs[k])
  <2>1. \A k \in 1 .. m : k # m => bs[k] # c
    <3>1. \A k \in 1 .. m : k \in DOMAIN bs /\ m \in DOMAIN bs
      BY <1>1
    <3> QED
      BY <1>1, <3>1, Zenon DEF IsInjective
  <2> QED
    BY <1>2, <2>1 DEF Filled
<1> DEFINE w == Filled(d, c)
           x == r[c]
<1>5. /\ w \in Nat /\ x \in Nat /\ e[m - 1] \in Nat /\ to = e[m - 1] + (w - x) /\ x <= w
      /\ Row(d[c], x, w, to)
  <2>1. m \in 1 .. m /\ m - 1 \in 0 .. m
    BY <1>1
  <2>2. x <= w
    BY <1>1, <2>1 DEF Flow
  <2> QED
    BY <1>1, <1>2, <1>3, <2>1, <2>2
<1>6. PICK v \in Nat, z \in Nat : v = w + n /\ z = e[m - 1] /\ x <= w /\ w <= v /\ to = z + (w - x)
  <2> HIDE DEF w, x
  <2>1. w + n \in Nat /\ w <= w + n
    BY <1>5
  <2> QED
    BY <1>5, <2>1
<1>7. Row(d2[c], x, v, upto) /\ upto = z + (v - x)
  <2> DEFINE old == d[c]
             new == d2[c]
  <2>1. \A i \in 1 .. w : new[i] = old[i]
    BY DEF Begins
  <2>2. Row(new, w, v, upto) /\ Row(old, x, w, to)
    BY <1>5, <1>6
  <2> HIDE DEF w, x, old, new
  <2>3. Row(new, x, v, upto)
    <3>1. SUFFICES ASSUME NEW i \in x + 1 .. v PROVE new[i] = upto - (v - i)
      BY DEF Row
    <3>2. ASSUME i <= w PROVE new[i] = upto - (v - i)
      <4>1. i \in x + 1 .. w /\ i \in 1 .. w
        BY <1>5, <3>2
      <4>2. new[i] = to - (w - i)
        BY <2>1, <2>2, <4>1 DEF Row
      <4> QED
        BY <1>5, <1>6, <4>1, <4>2
    <3>3. ASSUME ~(i <= w) PROVE new[i] = upto - (v - i)
      <4>1. i \in w + 1 .. v
        BY <1>5, <3>3
      <4> QED
        BY <2>2, <4>1 DEF Row
    <3> QED
      BY <3>2, <3>3
  <2>4. upto = z + (v - x)
    <3>1. w \in Nat /\ x \in Nat
      BY <1>5
    <3>2. v = w + n /\ to = z + (w - x) /\ upto = to + n
      BY <1>6
    <3>3. \A a, b2, c2, d3, e2 \in Nat : a = b2 + c2 /\ d3 = e2 + (b2 - x) => d3 + c2 = e2 + (a - x)
      BY <3>1
    <3> QED
      BY <3>1, <3>2, <3>3
  <2> QED
    BY <2>3, <2>4 DEF new
<1> DEFINE f == [e EXCEPT ![m] = upto]
<1>8. f \in [0 .. m -> Nat] /\ f[m] = upto /\ \A k \in 0 .. m : k # m => f[k] = e[k]
  BY <1>3, SMTT(30)
<1> HIDE DEF f
<1>9. ASSUME NEW k \in 1 .. m
      PROVE  /\ r[bs[k]] <= Filled(d2, bs[k])
             /\ f[k] = f[k - 1] + (Filled(d2, bs[k]) - r[bs[k]])
             /\ Row(d2[bs[k]], r[bs[k]], Filled(d2, bs[k]), f[k])
  <2>1. ASSUME k = m
        PROVE  /\ r[bs[k]] <= Filled(d2, bs[k])
               /\ f[k] = f[k - 1] + (Filled(d2, bs[k]) - r[bs[k]])
               /\ Row(d2[bs[k]], r[bs[k]], Filled(d2, bs[k]), f[k])
    <3>1. m - 1 \in 0 .. m /\ m - 1 # m /\ m \in 0 .. m
      BY <1>1, SMTT(30)
    <3>2. f[k] = upto /\ f[k - 1] = z /\ bs[k] = c /\ Filled(d2, c) = v /\ r[c] = x
      BY <1>1, <1>6, <1>8, <2>1, <3>1
    <3>3. x <= v
      <4>1. w \in Nat /\ x \in Nat
        BY <1>5
      <4> HIDE DEF w, x
      <4> QED
        BY <1>6, <4>1
    <3> QED
      BY <1>7, <3>2, <3>3
  <2>2. ASSUME k # m
        PROVE  /\ r[bs[k]] <= Filled(d2, bs[k])
               /\ f[k] = f[k - 1] + (Filled(d2, bs[k]) - r[bs[k]])
               /\ Row(d2[bs[k]], r[bs[k]], Filled(d2, bs[k]), f[k])
    <3>1. k - 1 \in 0 .. m /\ k - 1 # m /\ k \in 0 .. m
      BY <1>1, SMTT(30)
    <3>2. f[k] = e[k] /\ f[k - 1] = e[k - 1]
      BY <1>8, <2>2, <3>1
    <3>3. d2[bs[k]] = d[bs[k]] /\ Filled(d2, bs[k]) = Filled(d, bs[k])
      BY <1>4, <2>2
    <3>4. r[bs[k]] <= Filled(d, bs[k])
      BY <1>1 DEF Flow
    <3> QED
      BY <1>3, <3>2, <3>3, <3>4
  <2> QED
    BY <2>1, <2>2
<1>10. f[0] = from
  BY <1>1, <1>3, <1>8
<1> QED
  BY <1>1, <1>8, <1>9, <1>10 DEF Flow

\* A buffer with n bytes is put behind the last one.
LEMMA ExtendFlow ==
  ASSUME NEW bs \in Seq(Buffer), NEW c \in Buffer, c \notin ToSet(bs), NEW d, NEW r,
         NEW d2, NEW r2, NEW from \in Nat, NEW to \in Nat, Flow(bs, d, r, from, to), NEW n \in Nat,
         NEW upto \in Nat, upto = to + n,
         \A b \in Buffer : b # c => d2[b] = d[b] /\ r2[b] = r[b],
         Filled(d2, c) = n, r2[c] = 0, Row(d2[c], 0, n, upto)
  PROVE  Flow(Append(bs, c), d2, r2, from, upto)
<1>1. PICK m \in Nat : m = Len(bs) /\ DOMAIN bs = 1 .. m
  OBVIOUS
<1>2. \A b \in ToSet(bs) : d2[b] = d[b] /\ r2[b] = r[b]
  BY DEF ToSet
<1>3. Flow(bs, d2, r2, from, to)
  BY <1>2, SameFlow
<1>4. PICK e \in [0 .. m -> Nat] :
         /\ e[0] = from /\ e[m] = to
         /\ \A k \in 1 .. m :
              /\ e[k] = e[k - 1] + (Filled(d2, bs[k]) - r2[bs[k]])
              /\ Row(d2[bs[k]], r2[bs[k]], Filled(d2, bs[k]), e[k])
  BY <1>1, <1>3 DEF Flow
<1>5. PICK t \in Seq(Buffer) : /\ t = Append(bs, c) /\ Len(t) = m + 1
                               /\ \A k \in 1 .. m : t[k] = bs[k]
                               /\ t[m + 1] = c
  <2>1. /\ Append(bs, c) \in Seq(Buffer) /\ Len(Append(bs, c)) = m + 1
        /\ \A k \in 1 .. m : Append(bs, c)[k] = bs[k]
        /\ Append(bs, c)[m + 1] = c
    BY <1>1, AppendProperties
  <2> QED
    BY <2>1, Zenon
<1> DEFINE f == [k \in 0 .. m + 1 |-> IF k = m + 1 THEN upto ELSE e[k]]
<1>6. /\ f \in [0 .. m + 1 -> Nat] /\ f[m + 1] = upto
      /\ \A k \in 0 .. m : f[k] = e[k]
  <2>1. \A k \in 0 .. m + 1 : k = m + 1 \/ e[k] \in Nat
    BY <1>4
  <2> QED
    BY <2>1
<1> HIDE DEF f
<1>7. ASSUME NEW k \in 1 .. m + 1
      PROVE  /\ r2[t[k]] <= Filled(d2, t[k])
             /\ f[k] = f[k - 1] + (Filled(d2, t[k]) - r2[t[k]])
             /\ Row(d2[t[k]], r2[t[k]], Filled(d2, t[k]), f[k])
  <2>1. ASSUME k = m + 1
        PROVE  /\ r2[t[k]] <= Filled(d2, t[k])
               /\ f[k] = f[k - 1] + (Filled(d2, t[k]) - r2[t[k]])
               /\ Row(d2[t[k]], r2[t[k]], Filled(d2, t[k]), f[k])
    <3>1. k - 1 = m /\ m \in 0 .. m
      BY <2>1
    <3>2. f[k] = upto /\ f[k - 1] = to /\ t[k] = c
      BY <1>4, <1>5, <1>6, <2>1, <3>1
    <3>3. 0 <= n /\ upto = to + (n - 0)
      OBVIOUS
    <3> QED
      BY <3>2, <3>3
  <2>2. ASSUME k # m + 1
        PROVE  /\ r2[t[k]] <= Filled(d2, t[k])
               /\ f[k] = f[k - 1] + (Filled(d2, t[k]) - r2[t[k]])
               /\ Row(d2[t[k]], r2[t[k]], Filled(d2, t[k]), f[k])
    <3>1. k \in 1 .. m /\ k \in 0 .. m /\ k - 1 \in 0 .. m
      BY <2>2
    <3>2. f[k] = e[k] /\ f[k - 1] = e[k - 1] /\ t[k] = bs[k]
      BY <1>5, <1>6, <3>1
    <3>3. r2[bs[k]] <= Filled(d2, bs[k])
      BY <1>1, <1>3, <3>1 DEF Flow
    <3> QED
      BY <1>4, <3>1, <3>2, <3>3
  <2> QED
    BY <2>1, <2>2
<1>8. f[0] = from
  BY <1>4, <1>6
<1>9. Flow(t, d2, r2, from, upto)
  <2>1. PICK k \in Nat : k = m + 1 /\ k = Len(t)
    BY <1>5
  <2>2. /\ f \in [0 .. k -> Nat] /\ f[0] = from /\ f[k] = upto
        /\ \A i \in 1 .. k : /\ r2[t[i]] <= Filled(d2, t[i])
                            /\ f[i] = f[i - 1] + (Filled(d2, t[i]) - r2[t[i]])
                            /\ Row(d2[t[i]], r2[t[i]], Filled(d2, t[i]), f[i])
    BY <1>6, <1>7, <1>8, <2>1
  <2>3. \A i \in 1 .. Len(t) : r2[t[i]] <= Filled(d2, t[i])
    BY <2>1, <2>2
  <2>4. /\ f \in [0 .. Len(t) -> Nat] /\ f[0] = from /\ f[Len(t)] = upto
        /\ \A i \in 1 .. Len(t) : /\ f[i] = f[i - 1] + (Filled(d2, t[i]) - r2[t[i]])
                                 /\ Row(d2[t[i]], r2[t[i]], Filled(d2, t[i]), f[i])
    BY <2>1, <2>2
  <2> QED
    BY <2>3, <2>4, Zenon DEF Flow
<1> QED
  BY <1>5, <1>9

\* What is unread is the stream from the byte after the last one read to the last one
\* written; a call under way needs no more than there is, or than may come in.
RingInv ==
    /\ RingTypeOK /\ BytesInOrder /\ OwnedOnce
    /\ \A b \in lent : rd[b] = 0
    /\ Flow(buffers, data, rd, Len(out), written)
    /\ left <= written - Len(out)
    /\ written + todo <= MaxBytes

LEMMA RingTypes ==
  ASSUME RingTypeOK
  PROVE  /\ data \in [Buffer -> Seq(Int)] /\ rd \in [Buffer -> Nat]
         /\ Len(out) \in Nat /\ written \in Nat /\ todo \in Nat /\ left \in Nat
         /\ MaxBytes \in Nat /\ Capacity \in Nat \ {0}
         /\ \A b \in Buffer : Filled(data, b) \in 0 .. Capacity /\ Filled(data, b) = wr_offset(b)
<1>1. MaxBytes \in Nat /\ Capacity \in Nat \ {0}
  BY PoolAssumption, CapacityAssumption
<1>2. data \in [Buffer -> Seq(Int)]
  <2>1. \A s \in Seq(1 .. MaxBytes) : s \in Seq(Int)
    BY <1>1
  <2> QED
    BY <2>1 DEF RingTypeOK
<1>3. \A b \in Buffer : Filled(data, b) \in 0 .. Capacity /\ Filled(data, b) = wr_offset(b)
  <2>1. \A b \in Buffer : wr_offset(b) \in Nat
    BY <1>2, LenProperties DEF wr_offset
  <2>2. \A b \in Buffer : wr_offset(b) <= Capacity /\ Filled(data, b) = wr_offset(b)
    BY DEF RingTypeOK, Filled, wr_offset
  <2> QED
    BY <1>1, <2>1, <2>2
<1>4. rd \in [Buffer -> Nat] /\ written \in Nat /\ todo \in Nat /\ left \in Nat
  BY <1>1 DEF RingTypeOK
<1>5. Len(out) \in Nat
  BY LenProperties DEF RingTypeOK
<1> QED
  BY <1>1, <1>2, <1>3, <1>4, <1>5

\* canReadSize() is what has been written and not read.
LEMMA CanRead ==
  ASSUME RingInv
  PROVE  /\ canReadSize = written - Len(out) /\ Len(out) <= written
         /\ buffers # <<>> => Filled(data, buffers[1]) - rd[buffers[1]] <= written - Len(out)
         /\ \A k \in 1 .. Len(buffers) :
              canRdSize(buffers[k]) = Filled(data, buffers[k]) - rd[buffers[k]]
<1>1. RingTypeOK /\ buffers \in Seq(Buffer) /\ Flow(buffers, data, rd, Len(out), written)
  BY DEF RingInv, RingTypeOK
<1>2. /\ data \in [Buffer -> Seq(Int)] /\ rd \in [Buffer -> Nat] /\ Len(out) \in Nat
      /\ written \in Nat
      /\ \A b \in Buffer : Filled(data, b) \in Nat /\ Filled(data, b) = wr_offset(b)
  BY <1>1, RingTypes
<1> DEFINE P(f) == f = [k \in 0 .. Len(buffers) |->
                          IF k = 0 THEN 0
                          ELSE f[k - 1] + (Filled(data, buffers[k]) - rd[buffers[k]])]
           Q(f) == f = [k \in 0 .. Len(buffers) |->
                          IF k = 0 THEN 0 ELSE f[k - 1] + canRdSize(buffers[k])]
           sum == CHOOSE sum : Q(sum)
<1>3. /\ Len(out) <= written
      /\ buffers # <<>> => Filled(data, buffers[1]) - rd[buffers[1]] <= written - Len(out)
      /\ \A f : P(f) => f[Len(buffers)] = written - Len(out)
      /\ \E f : P(f)
  <2>1. PICK from \in Nat : from = Len(out)
    BY <1>2
  <2>2. Flow(buffers, data, rd, from, written)
    BY <1>1, <2>1
  <2>3. /\ from <= written
        /\ buffers # <<>> => Filled(data, buffers[1]) - rd[buffers[1]] <= written - from
        /\ \A f : P(f) => f[Len(buffers)] = written - from
        /\ \E f : P(f)
    BY <1>1, <1>2, <2>2, FlowSize, ZenonT(30)
  <2> QED
    BY <2>1, <2>3
<1>4. ASSUME NEW k \in 1 .. Len(buffers)
      PROVE  canRdSize(buffers[k]) = Filled(data, buffers[k]) - rd[buffers[k]]
  <2>1. buffers[k] \in Buffer
    BY <1>1
  <2>2. rd[buffers[k]] <= Filled(data, buffers[k])
    BY <1>1 DEF Flow
  <2>3. rd[buffers[k]] \in Nat /\ Filled(data, buffers[k]) \in Nat
        /\ Filled(data, buffers[k]) = wr_offset(buffers[k])
    BY <1>2, <2>1
  <2> QED
    BY <2>2, <2>3 DEF canRdSize
<1>5. ASSUME NEW f PROVE P(f) <=> Q(f)
  <2>1. ASSUME NEW k \in 0 .. Len(buffers)
        PROVE  (IF k = 0 THEN 0 ELSE f[k - 1] + (Filled(data, buffers[k]) - rd[buffers[k]]))
                 = (IF k = 0 THEN 0 ELSE f[k - 1] + canRdSize(buffers[k]))
    <3>1. Len(buffers) \in Nat
      BY <1>1, LenProperties
    <3>2. k = 0 \/ k \in 1 .. Len(buffers)
      BY <3>1
    <3> QED
      BY <1>4, <3>2
  <2> QED
    BY <2>1, Zenon
<1> HIDE DEF P, Q
<1>6. Q(sum)
  BY <1>3, <1>5
<1>7. canReadSize = sum[Len(buffers)]
  BY DEF canReadSize, Q
<1>8. canReadSize = written - Len(out)
  <2> HIDE DEF sum
  <2> QED
    BY <1>3, <1>5, <1>6, <1>7
<1> QED
  BY <1>3, <1>4, <1>8

\* The next n bytes of the stream.
LEMMA NextBytesType ==
  ASSUME RingTypeOK, NEW n \in Nat, NEW upto \in Nat, upto = written + n, upto <= MaxBytes
  PROVE  /\ NextBytes(n) \in Seq(1 .. MaxBytes) /\ Len(NextBytes(n)) = n
         /\ \A i \in 1 .. n : NextBytes(n)[i] = written + i
         /\ Row(NextBytes(n), 0, n, upto)
<1>1. written \in Nat /\ MaxBytes \in Nat
  BY RingTypes
<1>2. \A i \in 1 .. n : NextBytes(n)[i] = written + i
  BY DEF NextBytes
<1>3. NextBytes(n) \in [1 .. n -> 1 .. MaxBytes]
  BY <1>1 DEF NextBytes
<1>4. NextBytes(n) \in Seq(1 .. MaxBytes) /\ Len(NextBytes(n)) = n
  <2> DEFINE Byte == 1 .. MaxBytes
  <2>1. NextBytes(n) \in [1 .. n -> Byte]
    BY <1>3
  <2> HIDE DEF Byte
  <2>2. NextBytes(n) \in Seq(Byte) /\ Len(NextBytes(n)) = n
    BY <2>1
  <2> QED
    BY <2>2 DEF Byte
<1>5. Row(NextBytes(n), 0, n, upto)
  <2>1. \A i \in 0 + 1 .. n : i \in 1 .. n /\ written + i = upto - (n - i)
    BY <1>1
  <2> QED
    BY <1>2, <2>1 DEF Row
<1> QED
  BY <1>2, <1>4, <1>5

\* A buffer from getBuffer() belongs to nobody else.
LEMMA TakeBuffer ==
  ASSUME RingTypeOK, OwnedOnce, NEW b \in Buffer, NEW bytes \in Seq(1 .. MaxBytes),
         GetBuffer(b, bytes)
  PROVE  /\ buffer_pool' \in Seq(Buffer) /\ IsInjective(buffer_pool')
         /\ ToSet(buffer_pool') \subseteq ToSet(buffer_pool) /\ Len(buffer_pool') <= PoolMax
         /\ b \notin ToSet(buffers) /\ b \notin ToSet(buffer_pool') /\ b \notin lent
         /\ data' = [data EXCEPT ![b] = bytes] /\ rd' = [rd EXCEPT ![b] = 0]
<1>1. CASE buffer_pool = <<>>
  BY <1>1 DEF GetBuffer, Used, OwnedOnce, RingTypeOK
<1>2. CASE buffer_pool # <<>>
  <2>1. b = Head(buffer_pool) /\ buffer_pool' = Tail(buffer_pool)
        /\ data' = [data EXCEPT ![b] = bytes] /\ rd' = [rd EXCEPT ![b] = 0]
    BY <1>2 DEF GetBuffer
  <2>2. buffer_pool \in Seq(Buffer) /\ IsInjective(buffer_pool)
    BY DEF RingTypeOK, OwnedOnce
  <2>3. /\ Tail(buffer_pool) \in Seq(Buffer) /\ b \in ToSet(buffer_pool)
        /\ ToSet(Tail(buffer_pool)) = ToSet(buffer_pool) \ {b}
        /\ IsInjective(Tail(buffer_pool))
    BY <1>2, <2>1, <2>2, TailOwned
  <2>4. Len(Tail(buffer_pool)) <= PoolMax
    <3>1. Len(buffer_pool) <= PoolMax /\ Len(buffer_pool) \in Nat /\ PoolMax \in Nat
      BY <2>2, PoolAssumption, LenProperties DEF OwnedOnce
    <3>2. Len(Tail(buffer_pool)) = Len(buffer_pool) - 1
      BY <1>2, <2>2, HeadTailProperties
    <3> QED
      BY <3>1, <3>2
  <2>5. b \notin ToSet(buffers) /\ b \notin lent
    BY <2>3 DEF OwnedOnce
  <2> QED
    BY <2>1, <2>3, <2>4, <2>5
<1> QED
  BY <1>1, <1>2

\* The invariant, when neither the list nor what it holds changes.
LEMMA AllocBuffInv == ASSUME RingInv, NEW b \in Buffer, AllocBuff(b) PROVE RingInv'
<1>1. RingTypeOK /\ OwnedOnce /\ BytesInOrder
  BY DEF RingInv
<1>2. <<>> \in Seq(1 .. MaxBytes) /\ Len(<<>>) = 0
  OBVIOUS
<1>3. GetBuffer(b, <<>>) /\ lent' = lent \cup {b}
      /\ UNCHANGED <<buffers, left, todo, written, out>>
  BY DEF AllocBuff
<1>4. /\ buffer_pool' \in Seq(Buffer) /\ IsInjective(buffer_pool')
      /\ ToSet(buffer_pool') \subseteq ToSet(buffer_pool) /\ Len(buffer_pool') <= PoolMax
      /\ b \notin ToSet(buffers) /\ b \notin ToSet(buffer_pool') /\ b \notin lent
      /\ data' = [data EXCEPT ![b] = <<>>] /\ rd' = [rd EXCEPT ![b] = 0]
  BY <1>1, <1>2, <1>3, TakeBuffer
<1>5. \A c \in Buffer : c # b => data'[c] = data[c] /\ rd'[c] = rd[c]
  BY <1>4 DEF RingTypeOK, RingInv
<1>6. RingTypeOK'
  <2>1. data' \in [Buffer -> Seq(1 .. MaxBytes)] /\ rd' \in [Buffer -> 0 .. Capacity]
        /\ lent' \subseteq Buffer
    BY <1>1, <1>2, <1>3, <1>4, CapacityAssumption DEF RingTypeOK
  <2>2. \A c \in Buffer : Len(data'[c]) <= Capacity
    <3>1. data'[b] = <<>>
      BY <1>1, <1>4 DEF RingTypeOK
    <3>2. Len(data'[b]) <= Capacity
      BY <1>2, <3>1, CapacityAssumption
    <3> QED
      BY <1>1, <1>5, <3>2 DEF RingTypeOK, wr_offset
  <2> QED
    BY <1>1, <1>3, <1>4, <2>1, <2>2 DEF RingTypeOK, wr_offset
<1>7. OwnedOnce'
  BY <1>1, <1>3, <1>4 DEF OwnedOnce
<1>8. Flow(buffers, data', rd', Len(out), written)
  <2>1. \A c \in ToSet(buffers) : c \in Buffer /\ c # b
    BY <1>1, <1>4 DEF RingTypeOK, ToSet
  <2>2. \A c \in ToSet(buffers) : data'[c] = data[c] /\ rd'[c] = rd[c]
    BY <1>5, <2>1
  <2>3. Flow(buffers, data, rd, Len(out), written) /\ buffers \in Seq(Buffer)
    BY <1>1 DEF RingInv, RingTypeOK
  <2> QED
    BY <2>2, <2>3, SameFlow
<1>9. \A c \in lent' : rd'[c] = 0
  <2>1. rd'[b] = 0 /\ lent \subseteq Buffer
    BY <1>1, <1>4 DEF RingTypeOK
  <2> QED
    BY <1>3, <1>5, <2>1 DEF RingInv
<1> QED
  BY <1>3, <1>6, <1>7, <1>8, <1>9 DEF RingInv, BytesInOrder

LEMMA EmplaceBackInv ==
  ASSUME RingInv, NEW b \in Buffer, NEW n \in Nat, EmplaceBack(b, n) PROVE RingInv'
<1>1. RingTypeOK /\ OwnedOnce /\ BytesInOrder
  BY DEF RingInv
<1>2. /\ b \in lent /\ n <= Capacity /\ written + n <= MaxBytes /\ todo = 0 /\ left = 0
      /\ lent' = lent \ {b} /\ data' = [data EXCEPT ![b] = NextBytes(n)]
      /\ written' = written + n
      /\ buffers' = IF n = 0 THEN buffers ELSE Append(buffers, b)
      /\ UNCHANGED <<buffer_pool, rd, left, todo, out>>
  BY DEF EmplaceBack, Between
<1>3. written \in Nat /\ MaxBytes \in Nat /\ Len(out) \in Nat /\ Capacity \in Nat
  BY <1>1, RingTypes
<1>4. PICK upto \in Nat : upto = written + n /\ upto <= MaxBytes
  BY <1>2, <1>3
<1>5. /\ NextBytes(n) \in Seq(1 .. MaxBytes) /\ Len(NextBytes(n)) = n
      /\ Row(NextBytes(n), 0, n, upto)
  BY <1>1, <1>4, NextBytesType
<1>6. /\ b \notin ToSet(buffers) /\ b \notin ToSet(buffer_pool) /\ rd[b] = 0
      /\ buffers \in Seq(Buffer) /\ IsInjective(buffers)
  BY <1>1, <1>2 DEF OwnedOnce, RingTypeOK, RingInv
<1>7. /\ data'[b] = NextBytes(n)
      /\ \A c \in Buffer : c # b => data'[c] = data[c]
  BY <1>1, <1>2 DEF RingTypeOK
<1>8. buffers' \in Seq(Buffer) /\ IsInjective(buffers') /\ ToSet(buffers') \subseteq ToSet(buffers) \cup {b}
  BY <1>2, <1>6, AppendOwned
<1>9. RingTypeOK'
  <2>1. data' \in [Buffer -> Seq(1 .. MaxBytes)] /\ lent' \subseteq Buffer
    BY <1>1, <1>2, <1>5 DEF RingTypeOK
  <2>2. \A c \in Buffer : Len(data'[c]) <= Capacity
    BY <1>1, <1>2, <1>5, <1>7 DEF RingTypeOK, wr_offset
  <2>3. written' \in 0 .. MaxBytes
    BY <1>2, <1>3
  <2> QED
    BY <1>1, <1>2, <1>8, <2>1, <2>2, <2>3 DEF RingTypeOK, wr_offset
<1>10. OwnedOnce'
  BY <1>1, <1>2, <1>6, <1>8 DEF OwnedOnce
<1>11. Flow(buffers', data', rd, Len(out), upto)
  <2>1. PICK from \in Nat : from = Len(out)
    BY <1>3
  <2>2. Flow(buffers, data, rd, from, written)
    BY <2>1 DEF RingInv
  <2>3. CASE n = 0
    <3>1. \A c \in ToSet(buffers) : data'[c] = data[c] /\ rd[c] = rd[c]
      BY <1>6, <1>7 DEF ToSet
    <3>2. Flow(buffers, data', rd, from, written)
      BY <1>6, <2>2, <3>1, SameFlow
    <3> QED
      BY <1>2, <1>3, <1>4, <2>1, <2>3, <3>2
  <2>4. CASE n # 0
    <3>1. Filled(data', b) = n /\ Row(data'[b], 0, n, upto)
      BY <1>5, <1>7 DEF Filled
    <3>2. \A c \in Buffer : c # b => data'[c] = data[c] /\ rd[c] = rd[c]
      BY <1>7
    <3>3. Flow(Append(buffers, b), data', rd, from, upto)
      BY <1>3, <1>4, <1>6, <2>2, <3>1, <3>2, ExtendFlow
    <3> QED
      BY <1>2, <2>1, <2>4, <3>3
  <2> QED
    BY <2>3, <2>4
<1>12. \A c \in lent' : rd'[c] = 0
  BY <1>2 DEF RingInv
<1>13. left' <= written' - Len(out') /\ written' + todo' <= MaxBytes
  <2>1. Len(out) <= written
    BY CanRead
  <2> QED
    BY <1>2, <1>3, <2>1
<1>14. BytesInOrder'
  BY <1>1, <1>2 DEF BytesInOrder
<1> QED
  BY <1>2, <1>4, <1>9, <1>10, <1>11, <1>12, <1>13, <1>14 DEF RingInv

\* Steps that leave the buffers alone.
LEMMA IdleInv ==
  ASSUME RingInv,
         \/ \E b \in Buffer : GiveUp(b)
         \/ \E n \in Nat : WriteData(n) \/ Read(n)
         \/ UNCHANGED ringVars
  PROVE  RingInv'
<1>1. /\ UNCHANGED <<buffers, buffer_pool, data, rd, written, out>>
      /\ lent' \subseteq lent /\ left' \in Nat /\ todo' \in Nat
      /\ left' <= written - Len(out) /\ written + todo' <= MaxBytes
  <2>1. written \in Nat /\ Len(out) \in Nat /\ todo \in Nat /\ left \in Nat
    BY RingTypes DEF RingInv
  <2>2. canReadSize = written - Len(out) /\ left <= written - Len(out) /\ written + todo <= MaxBytes
    BY CanRead DEF RingInv
  <2>3. ASSUME NEW b \in Buffer, GiveUp(b)
        PROVE  /\ UNCHANGED <<buffers, buffer_pool, data, rd, written, out, left, todo>>
               /\ lent' \subseteq lent
    BY <2>3 DEF GiveUp
  <2>4. ASSUME NEW n \in Nat, WriteData(n)
        PROVE  /\ UNCHANGED <<buffers, buffer_pool, data, rd, written, out, left, lent>>
               /\ todo' = n /\ written + n <= MaxBytes
    BY <2>4 DEF WriteData
  <2>5. ASSUME NEW n \in Nat, Read(n)
        PROVE  /\ UNCHANGED <<buffers, buffer_pool, data, rd, written, out, todo, lent>>
               /\ left' = n /\ n <= canReadSize
    BY <2>5 DEF Read
  <2>6. CASE UNCHANGED ringVars
    BY <2>1, <2>2, <2>6 DEF ringVars
  <2> QED
    BY <2>1, <2>2, <2>3, <2>4, <2>5, <2>6
<1>2. RingTypeOK'
  BY <1>1 DEF RingInv, RingTypeOK, wr_offset
<1>3. OwnedOnce' /\ BytesInOrder'
  BY <1>1 DEF RingInv, OwnedOnce, BytesInOrder
<1> QED
  BY <1>1, <1>2, <1>3 DEF RingInv

LEMMA AppendToLastInv == ASSUME RingInv, AppendToLast PROVE RingInv'
<1> DEFINE b == buffers[Len(buffers)]
           n == Lesser(todo, canWrSize(b))
<1>1. RingTypeOK /\ OwnedOnce /\ BytesInOrder
  BY DEF RingInv
<1>2. /\ buffers # <<>> /\ n > 0 /\ todo > 0
      /\ data' = [data EXCEPT ![b] = data[b] \o NextBytes(n)]
      /\ written' = written + n /\ todo' = todo - n
      /\ UNCHANGED <<buffers, buffer_pool, rd, lent, left, out>>
  BY DEF AppendToLast, Last
<1>3. /\ buffers \in Seq(Buffer) /\ b \in Buffer /\ IsInjective(buffers) /\ b \in ToSet(buffers)
  BY <1>1, <1>2 DEF RingTypeOK, OwnedOnce, ToSet
<1>4. /\ written \in Nat /\ MaxBytes \in Nat /\ Len(out) \in Nat /\ Capacity \in Nat /\ todo \in Nat
      /\ left \in Nat /\ data \in [Buffer -> Seq(Int)] /\ rd \in [Buffer -> Nat]
      /\ Filled(data, b) \in 0 .. Capacity /\ Filled(data, b) = wr_offset(b)
  BY <1>1, <1>3, RingTypes
<1>5. n \in Nat /\ n <= todo /\ Filled(data, b) + n <= Capacity
  BY <1>4 DEF canWrSize, Lesser
<1> HIDE DEF n, b
<1>6. PICK upto \in Nat : upto = written + n /\ upto + (todo - n) <= MaxBytes /\ upto <= MaxBytes
  BY <1>4, <1>5 DEF RingInv
<1>7. /\ NextBytes(n) \in Seq(1 .. MaxBytes) /\ Len(NextBytes(n)) = n
      /\ \A i \in 1 .. n : NextBytes(n)[i] = written + i
  BY <1>1, <1>5, <1>6, NextBytesType
<1>8. PICK w \in Nat : w = Filled(data, b) /\ w = Len(data[b]) /\ w + n <= Capacity
  BY <1>4, <1>5 DEF Filled
<1> DEFINE old == data[b]
           new == data[b] \o NextBytes(n)
<1>9. /\ new \in Seq(1 .. MaxBytes) /\ Len(new) = w + n
      /\ \A i \in 1 .. w : new[i] = old[i]
      /\ \A i \in w + 1 .. w + n : new[i] = written + (i - w)
  <2>1. old \in Seq(1 .. MaxBytes) /\ Len(old) = w
    BY <1>1, <1>3, <1>8 DEF RingTypeOK
  <2> DEFINE more == NextBytes(n)
  <2>2. more \in Seq(1 .. MaxBytes) /\ Len(more) = n
    BY <1>7
  <2> HIDE DEF old, more
  <2>3. /\ old \o more \in Seq(1 .. MaxBytes) /\ Len(old \o more) = Len(old) + Len(more)
        /\ \A i \in 1 .. Len(old) + Len(more) :
             (old \o more)[i] = IF i <= Len(old) THEN old[i] ELSE more[i - Len(old)]
    BY <2>1, <2>2, ConcatProperties
  <2>4. /\ old \o more \in Seq(1 .. MaxBytes) /\ Len(old \o more) = w + n
        /\ \A i \in 1 .. w + n : (old \o more)[i] = IF i <= w THEN old[i] ELSE more[i - w]
    BY <2>1, <2>2, <2>3
  <2> DEFINE all == old \o more
  <2> HIDE DEF all
  <2>5. \A i \in 1 .. w : all[i] = old[i]
    BY <1>5, <2>4 DEF all
  <2>6. ASSUME NEW i \in w + 1 .. w + n PROVE all[i] = written + (i - w)
    <3>1. i \in 1 .. w + n /\ ~(i <= w) /\ i - w \in 1 .. n
      BY <1>5
    <3>2. all[i] = more[i - w]
      BY <2>4, <3>1 DEF all
    <3>3. more[i - w] = written + (i - w)
      BY <1>7, <3>1 DEF more
    <3> QED
      BY <3>2, <3>3
  <2> QED
    BY <2>4, <2>5, <2>6 DEF all, old, more
<1> HIDE DEF old, new
<1>10. data' \in [Buffer -> Seq(1 .. MaxBytes)] /\ data'[b] = new
       /\ \A c \in Buffer : c # b => data'[c] = data[c]
  BY <1>1, <1>2, <1>3, <1>9 DEF RingTypeOK, new
<1>11. RingTypeOK'
  <2>1. \A c \in Buffer : Len(data'[c]) <= Capacity
    BY <1>1, <1>8, <1>9, <1>10 DEF RingTypeOK, wr_offset
  <2>2. written' \in 0 .. MaxBytes /\ todo' \in Nat
    BY <1>2, <1>4, <1>5, <1>6
  <2> QED
    BY <1>1, <1>2, <1>10, <2>1, <2>2 DEF RingTypeOK, wr_offset
<1>12. Flow(buffers, data', rd, Len(out), upto)
  <2>1. PICK from \in Nat : from = Len(out)
    BY <1>4
  <2>2. Flow(buffers, data, rd, from, written)
    BY <2>1 DEF RingInv
  <2>3. Filled(data', b) = Filled(data, b) + n
    BY <1>8, <1>9, <1>10 DEF Filled
  <2>4. Row(data'[b], Filled(data, b), Filled(data', b), upto)
    <3>1. PICK v \in Nat : v = w + n
      BY <1>5
    <3>2. \A i \in w + 1 .. v : new[i] = upto - (v - i)
      BY <1>4, <1>5, <1>6, <1>9, <3>1
    <3>3. Row(new, w, v, upto)
      BY <3>2 DEF Row
    <3>4. Filled(data, b) = w /\ Filled(data', b) = v /\ data'[b] = new
      BY <1>8, <1>10, <2>3, <3>1
    <3> QED
      BY <3>3, <3>4
  <2>5. Begins(data'[b], Filled(data, b), data[b])
    BY <1>8, <1>9, <1>10 DEF old, Begins
  <2>6. data' \in [Buffer -> Seq(Int)]
    <3>1. \A s \in Seq(1 .. MaxBytes) : s \in Seq(Int)
      BY <1>4
    <3> QED
      BY <1>10, <3>1
  <2>7. b = buffers[Len(buffers)]
    BY DEF b
  <2>8. Flow(buffers, data', rd, from, upto)
    <3>1. /\ buffers \in Seq(Buffer) /\ b \in Buffer /\ buffers # <<>> /\ IsInjective(buffers)
          /\ data \in [Buffer -> Seq(Int)] /\ rd \in [Buffer -> Nat]
          /\ written \in Nat /\ n \in Nat /\ upto = written + n
          /\ \A c \in Buffer : c # b => data'[c] = data[c]
      BY <1>2, <1>3, <1>4, <1>5, <1>6, <1>10
    <3> QED
      BY <2>2, <2>3, <2>4, <2>5, <2>6, <2>7, <3>1, GrowFlow
  <2> QED
    BY <2>1, <2>8
<1>13. left' <= written' - Len(out') /\ written' + todo' <= MaxBytes
  BY <1>2, <1>4, <1>5, <1>6 DEF RingInv
<1>14. OwnedOnce' /\ BytesInOrder' /\ \A c \in lent' : rd'[c] = 0
  BY <1>1, <1>2 DEF OwnedOnce, BytesInOrder, RingInv
<1> QED
  BY <1>2, <1>6, <1>11, <1>12, <1>13, <1>14 DEF RingInv

LEMMA AppendNewInv == ASSUME RingInv, NEW b \in Buffer, AppendNew(b) PROVE RingInv'
<1> DEFINE n == Lesser(todo, Capacity)
<1>1. RingTypeOK /\ OwnedOnce /\ BytesInOrder
  BY DEF RingInv
<1>2. /\ todo > 0 /\ GetBuffer(b, NextBytes(n)) /\ written' = written + n /\ todo' = todo - n
      /\ buffers' = Append(buffers, b)
      /\ UNCHANGED <<lent, left, out>>
  BY DEF AppendNew
<1>3. /\ written \in Nat /\ MaxBytes \in Nat /\ Len(out) \in Nat /\ Capacity \in Nat /\ todo \in Nat
      /\ left \in Nat
  BY <1>1, RingTypes
<1>4. n \in Nat /\ n <= todo /\ n <= Capacity
  BY <1>3 DEF Lesser
<1> HIDE DEF n
<1>5. PICK upto \in Nat : upto = written + n /\ upto + (todo - n) <= MaxBytes /\ upto <= MaxBytes
  BY <1>3, <1>4 DEF RingInv
<1>6. /\ NextBytes(n) \in Seq(1 .. MaxBytes) /\ Len(NextBytes(n)) = n
      /\ Row(NextBytes(n), 0, n, upto)
  BY <1>1, <1>4, <1>5, NextBytesType
<1>7. /\ buffer_pool' \in Seq(Buffer) /\ IsInjective(buffer_pool')
      /\ ToSet(buffer_pool') \subseteq ToSet(buffer_pool) /\ Len(buffer_pool') <= PoolMax
      /\ b \notin ToSet(buffers) /\ b \notin ToSet(buffer_pool') /\ b \notin lent
      /\ data' = [data EXCEPT ![b] = NextBytes(n)] /\ rd' = [rd EXCEPT ![b] = 0]
  BY <1>1, <1>2, <1>6, TakeBuffer
<1>8. /\ data' \in [Buffer -> Seq(1 .. MaxBytes)] /\ rd' \in [Buffer -> 0 .. Capacity]
      /\ data'[b] = NextBytes(n) /\ rd'[b] = 0
      /\ \A c \in Buffer : c # b => data'[c] = data[c] /\ rd'[c] = rd[c]
  BY <1>1, <1>3, <1>6, <1>7 DEF RingTypeOK
<1>9. /\ buffers \in Seq(Buffer) /\ buffers' \in Seq(Buffer) /\ IsInjective(buffers')
      /\ ToSet(buffers') = ToSet(buffers) \cup {b}
  BY <1>1, <1>2, <1>7, AppendOwned DEF RingTypeOK, OwnedOnce
<1>10. RingTypeOK'
  <2>1. \A c \in Buffer : Len(data'[c]) <= Capacity
    BY <1>1, <1>4, <1>6, <1>8 DEF RingTypeOK, wr_offset
  <2>2. written' \in 0 .. MaxBytes /\ todo' \in Nat
    BY <1>2, <1>3, <1>4, <1>5
  <2> QED
    BY <1>1, <1>2, <1>7, <1>8, <1>9, <2>1, <2>2 DEF RingTypeOK, wr_offset
<1>11. OwnedOnce'
  BY <1>1, <1>2, <1>7, <1>9 DEF OwnedOnce
<1>12. Flow(buffers', data', rd', Len(out), upto)
  <2>1. PICK from \in Nat : from = Len(out)
    BY <1>3
  <2>2. Flow(buffers, data, rd, from, written)
    BY <2>1 DEF RingInv
  <2>3. Filled(data', b) = n /\ Row(data'[b], 0, n, upto)
    BY <1>6, <1>8 DEF Filled
  <2>4. Flow(Append(buffers, b), data', rd', from, upto)
    BY <1>3, <1>4, <1>5, <1>7, <1>8, <1>9, <2>2, <2>3, ExtendFlow
  <2> QED
    BY <1>2, <2>1, <2>4
<1>13. left' <= written' - Len(out') /\ written' + todo' <= MaxBytes
  BY <1>2, <1>3, <1>4, <1>5 DEF RingInv
<1>14. BytesInOrder' /\ \A c \in lent' : rd'[c] = 0
  <2>1. \A c \in lent : c \in Buffer /\ c # b
    BY <1>1, <1>7 DEF RingTypeOK
  <2> QED
    BY <1>1, <1>2, <1>8, <2>1 DEF BytesInOrder, RingInv
<1> QED
  BY <1>2, <1>5, <1>10, <1>11, <1>12, <1>13, <1>14 DEF RingInv

LEMMA ReadFrontInv ==
  ASSUME RingInv, ReadFront PROVE RingInv' /\ Len(out') + left' = Len(out) + left
<1> DEFINE b == Head(buffers)
           n == Lesser(canRdSize(b), left)
<1>1. RingTypeOK /\ OwnedOnce /\ BytesInOrder
  BY DEF RingInv
<1>2. /\ buffers # <<>> /\ left > 0 /\ canRdSize(b) > 0
      /\ out' = out \o SubSeq(data[b], rd[b] + 1, rd[b] + n)
      /\ rd' = [rd EXCEPT ![b] = rd[b] + n]
      /\ left' = left - n
      /\ UNCHANGED <<buffers, buffer_pool, data, lent, todo, written>>
  BY <1>1 DEF ReadFront, RingTypeOK
<1>3. /\ buffers \in Seq(Buffer) /\ b = buffers[1] /\ b \in Buffer /\ IsInjective(buffers)
      /\ b \in ToSet(buffers) /\ Len(buffers) >= 1
  BY <1>1, <1>2 DEF RingTypeOK, OwnedOnce, ToSet
<1>4. /\ written \in Nat /\ MaxBytes \in Nat /\ Len(out) \in Nat /\ Capacity \in Nat /\ left \in Nat
      /\ data \in [Buffer -> Seq(Int)] /\ rd \in [Buffer -> Nat] /\ todo \in Nat
      /\ Filled(data, b) \in 0 .. Capacity
  BY <1>1, <1>3, RingTypes
<1>5. canRdSize(b) = Filled(data, b) - rd[b] /\ Filled(data, b) - rd[b] <= written - Len(out)
      /\ left <= written - Len(out)
  <2>1. 1 \in 1 .. Len(buffers)
    BY <1>3, LenProperties
  <2> QED
    BY <1>2, <1>3, <2>1, CanRead DEF RingInv
<1>6. /\ n \in Nat /\ n <= Filled(data, b) - rd[b] /\ n <= left
  <2>1. PICK z \in Nat : z = canRdSize(b) /\ z = Filled(data, b) - rd[b]
    <3> HIDE DEF b
    <3>1. rd[b] \in Nat /\ Filled(data, b) \in Nat
      BY <1>3, <1>4
    <3> QED
      BY <1>2, <1>5, <3>1
  <2>2. n = Lesser(z, left)
    BY <2>1
  <2> HIDE DEF b, n
  <2> QED
    BY <1>4, <2>1, <2>2 DEF Lesser
<1> HIDE DEF n, b
<1>7. PICK x \in Nat, w \in Nat, from \in Nat, now \in Nat :
        x = rd[b] /\ w = Len(data[b]) /\ from = Len(out) /\ now = from + n
        /\ x + n <= w /\ now <= written /\ w <= Capacity
  <2>1. PICK x \in Nat, w \in Nat : x = rd[b] /\ w = Filled(data, b)
    BY <1>3, <1>4
  <2>2. n <= w - x /\ w <= Capacity
    BY <1>4, <1>6, <2>1
  <2>3. PICK from \in Nat, now \in Nat : from = Len(out) /\ now = from + n
    BY <1>4, <1>6
  <2>4. now <= written
    <3>1. w - x <= written - from
      BY <1>5, <2>1, <2>3
    <3> QED
      BY <1>4, <1>6, <2>2, <2>3, <3>1
  <2>5. x + n <= w
    BY <1>6, <2>2
  <2>6. w = Len(data[b])
    BY <2>1 DEF Filled
  <2> QED
    BY <2>1, <2>2, <2>3, <2>4, <2>5, <2>6
<1>8. /\ rd' \in [Buffer -> 0 .. Capacity] /\ rd'[b] = rd[b] + n
      /\ \A c \in Buffer : c # b => rd'[c] = rd[c]
  <2>1. x + n \in 0 .. Capacity
    <3>1. n \in Nat /\ x + n <= w /\ w <= Capacity /\ Capacity \in Nat
      BY <1>4, <1>6, <1>7
    <3> QED
      BY <3>1
  <2>2. rd[b] + n \in 0 .. Capacity /\ rd \in [Buffer -> 0 .. Capacity]
    BY <1>1, <1>7, <2>1 DEF RingTypeOK
  <2> QED
    BY <1>2, <1>3, <2>2
<1>9. Flow(buffers, data, rd', now, written) /\ Row(data[b], rd[b], rd[b] + n, now)
  <2>1. Flow(buffers, data, rd, from, written)
    BY <1>7 DEF RingInv
  <2>2. /\ rd' \in [Buffer -> Nat] /\ rd'[buffers[1]] = rd[buffers[1]] + n
        /\ n <= Filled(data, buffers[1]) - rd[buffers[1]]
        /\ \A c \in Buffer : c # buffers[1] => rd'[c] = rd[c]
    BY <1>3, <1>4, <1>6, <1>8
  <2>3. /\ Flow(buffers, data, rd', from + n, written)
        /\ Row(data[buffers[1]], rd[buffers[1]], rd[buffers[1]] + n, from + n)
    BY <1>2, <1>3, <1>4, <1>6, <2>1, <2>2, ReadFlow
  <2> QED
    BY <1>3, <1>7, <2>3
<1> DEFINE piece == SubSeq(data[b], rd[b] + 1, rd[b] + n)
<1>10. /\ piece \in Seq(1 .. MaxBytes) /\ Len(piece) = n
       /\ \A i \in 1 .. n : piece[i] = from + i
  <2> DEFINE s == data[b]
             p == SubSeq(s, x + 1, x + n)
  <2>1. s \in Seq(1 .. MaxBytes) /\ x + n <= Len(s)
    BY <1>1, <1>3, <1>7 DEF RingTypeOK
  <2>2. p \in Seq(1 .. MaxBytes) /\ Len(p) = n /\ \A i \in 1 .. n : p[i] = s[x + i]
    <3> DEFINE Byte == 1 .. MaxBytes
    <3>1. s \in Seq(Byte) /\ n \in Nat
      BY <1>6, <2>1
    <3> HIDE DEF s, Byte
    <3>2. p \in Seq(Byte) /\ Len(p) = n /\ \A i \in 1 .. n : p[i] = s[x + i]
      BY <2>1, <3>1, SliceCells
    <3> QED
      BY <3>2 DEF Byte
  <2>3. Row(s, x, x + n, now)
    BY <1>7, <1>9
  <2> HIDE DEF s, p
  <2>4. ASSUME NEW i \in 1 .. n PROVE p[i] = from + i
    <3>1. PICK v \in Nat, j \in Nat : v = x + n /\ j = x + i /\ j \in x + 1 .. v
      BY <1>6
    <3>2. s[j] = now - (v - j)
      BY <2>3, <3>1 DEF Row
    <3>3. now - (v - j) = from + i
      <4>1. now = from + n /\ v = x + n /\ j = x + i /\ n \in Nat
        BY <1>6, <1>7, <3>1
      <4> QED
        BY <4>1
    <3> QED
      BY <2>2, <3>1, <3>2, <3>3
  <2>5. piece = p
    BY <1>7 DEF s, p
  <2> HIDE DEF piece
  <2> QED
    BY <2>2, <2>4, <2>5
<1>11. /\ out' \in Seq(1 .. MaxBytes) /\ Len(out') = now
       /\ \A i \in 1 .. now : out'[i] = i
  <2>1. out' = out \o piece /\ out \in Seq(1 .. MaxBytes) /\ Len(out) = from
    BY <1>1, <1>2, <1>7 DEF RingTypeOK
  <2>2. \A i \in 1 .. from : out[i] = i
    BY <1>1, <2>1, LenProperties DEF BytesInOrder
  <2> HIDE DEF piece
  <2>3. /\ out \o piece \in Seq(1 .. MaxBytes) /\ Len(out \o piece) = Len(out) + Len(piece)
        /\ \A i \in 1 .. Len(out) + Len(piece) :
             (out \o piece)[i] = IF i <= Len(out) THEN out[i] ELSE piece[i - Len(out)]
    BY <1>10, <2>1, ConcatProperties
  <2>4. out' \in Seq(1 .. MaxBytes) /\ Len(out') = now
        /\ \A i \in 1 .. now : out'[i] = IF i <= from THEN out[i] ELSE piece[i - from]
    BY <1>7, <1>10, <2>1, <2>3
  <2>5. ASSUME NEW i \in 1 .. now PROVE out'[i] = i
    <3>1. ASSUME i <= from PROVE out'[i] = i
      BY <2>2, <2>4, <3>1
    <3>2. ASSUME ~(i <= from) PROVE out'[i] = i
      <4>1. i - from \in 1 .. n
        BY <1>6, <1>7, <3>2
      <4>2. piece[i - from] = from + (i - from)
        BY <1>10, <4>1
      <4> QED
        BY <2>4, <3>2, <4>2
    <3> QED
      BY <3>1, <3>2
  <2> QED
    BY <2>4, <2>5
<1>12. RingTypeOK'
  <2>1. left' \in Nat
    BY <1>2, <1>4, <1>6
  <2> QED
    BY <1>1, <1>2, <1>8, <1>11, <2>1 DEF RingTypeOK, wr_offset
<1>13. BytesInOrder'
  BY <1>11, LenProperties DEF BytesInOrder
<1>14. OwnedOnce'
  BY <1>1, <1>2 DEF OwnedOnce
<1>15. \A c \in lent' : rd'[c] = 0
  <2>1. \A c \in lent : c \in Buffer /\ c # b
    BY <1>1, <1>3 DEF RingTypeOK, OwnedOnce
  <2> QED
    BY <1>2, <1>8, <2>1 DEF RingInv
<1>16. left' <= written' - Len(out') /\ written' + todo' <= MaxBytes
  BY <1>2, <1>4, <1>5, <1>6, <1>7, <1>11, SMTT(30) DEF RingInv
<1>17. Len(out') + left' = Len(out) + left
  <2>1. left' = left - n /\ Len(out') = from + n /\ Len(out) = from /\ left \in Nat /\ n \in Nat
    BY <1>2, <1>4, <1>6, <1>7, <1>11
  <2> QED
    BY <2>1
<1> QED
  BY <1>2, <1>9, <1>11, <1>12, <1>13, <1>14, <1>15, <1>16, <1>17 DEF RingInv

LEMMA RecycleFrontInv == ASSUME RingInv, RecycleFront PROVE RingInv'
<1> DEFINE b == Head(buffers)
<1>1. RingTypeOK /\ OwnedOnce /\ BytesInOrder
  BY DEF RingInv
<1>2. /\ buffers # <<>> /\ canRdSize(b) = 0 /\ buffers' = Tail(buffers)
      /\ buffer_pool' = IF Len(buffer_pool) >= PoolMax THEN buffer_pool ELSE Append(buffer_pool, b)
      /\ UNCHANGED <<data, rd, lent, left, todo, written, out>>
  BY DEF RecycleFront, PutBuffer
<1>3. /\ buffers \in Seq(Buffer) /\ b = buffers[1] /\ IsInjective(buffers) /\ Len(buffers) >= 1
      /\ buffer_pool \in Seq(Buffer) /\ IsInjective(buffer_pool) /\ Len(buffer_pool) <= PoolMax
  BY <1>1, <1>2 DEF RingTypeOK, OwnedOnce
<1>4. /\ Tail(buffers) \in Seq(Buffer) /\ b \in Buffer /\ b \in ToSet(buffers)
      /\ ToSet(Tail(buffers)) = ToSet(buffers) \ {b}
      /\ IsInjective(Tail(buffers))
  BY <1>2, <1>3, TailOwned
<1>5. b \notin ToSet(buffer_pool) /\ b \notin lent
  BY <1>1, <1>4 DEF OwnedOnce
<1> HIDE DEF b
<1>6. /\ buffer_pool' \in Seq(Buffer) /\ IsInjective(buffer_pool') /\ Len(buffer_pool') <= PoolMax
      /\ ToSet(buffer_pool') \subseteq ToSet(buffer_pool) \cup {b}
  <2>1. CASE Len(buffer_pool) >= PoolMax
    BY <1>2, <1>3, <2>1
  <2>2. CASE ~(Len(buffer_pool) >= PoolMax)
    <3>1. buffer_pool' = Append(buffer_pool, b)
      BY <1>2, <2>2
    <3>2. Len(Append(buffer_pool, b)) = Len(buffer_pool) + 1 /\ Len(buffer_pool) \in Nat
      BY <1>3, <1>4, AppendProperties, LenProperties
    <3>3. Len(Append(buffer_pool, b)) <= PoolMax
      BY <2>2, <3>2, PoolAssumption
    <3> QED
      BY <1>3, <1>4, <1>5, <3>1, <3>3, AppendOwned
  <2> QED
    BY <2>1, <2>2
<1>7. RingTypeOK'
  BY <1>1, <1>2, <1>4, <1>6 DEF RingTypeOK, wr_offset
<1>8. OwnedOnce'
  <2>1. ToSet(buffers') \cap ToSet(buffer_pool') = {}
    BY <1>1, <1>2, <1>4, <1>6 DEF OwnedOnce
  <2>2. lent' \cap (ToSet(buffers') \cup ToSet(buffer_pool')) = {}
    BY <1>1, <1>2, <1>4, <1>5, <1>6 DEF OwnedOnce
  <2> QED
    BY <1>2, <1>4, <1>6, <2>1, <2>2 DEF OwnedOnce
<1>9. Flow(Tail(buffers), data, rd, Len(out), written)
  <2>1. /\ written \in Nat /\ Len(out) \in Nat
        /\ data \in [Buffer -> Seq(Int)] /\ rd \in [Buffer -> Nat]
        /\ Filled(data, b) \in Nat /\ Filled(data, b) = wr_offset(b)
    <3>1. /\ written \in Nat /\ Len(out) \in Nat /\ Capacity \in Nat
          /\ data \in [Buffer -> Seq(Int)] /\ rd \in [Buffer -> Nat]
          /\ Filled(data, b) \in 0 .. Capacity /\ Filled(data, b) = wr_offset(b)
      BY <1>1, <1>4, RingTypes, Zenon
    <3> QED
      BY <3>1
  <2>2. rd[buffers[1]] >= Filled(data, buffers[1])
    BY <1>2, <1>3, <1>4, <2>1 DEF canRdSize
  <2>3. PICK from \in Nat : from = Len(out)
    BY <2>1
  <2>4. Flow(buffers, data, rd, from, written)
    BY <2>3 DEF RingInv
  <2>5. Flow(Tail(buffers), data, rd, from, written)
    BY <1>2, <1>3, <2>1, <2>2, <2>4, DropFlow
  <2> QED
    BY <2>3, <2>5
<1> QED
  BY <1>1, <1>2, <1>7, <1>8, <1>9 DEF RingInv, BytesInOrder

LEMMA InitRing == RingInit => RingInv
<1> SUFFICES ASSUME RingInit PROVE RingInv
  OBVIOUS
<1>1. /\ buffers = <<>> /\ buffer_pool = <<>> /\ lent = {} /\ out = <<>> /\ written = 0
      /\ left = 0 /\ todo = 0 /\ data = [b \in Buffer |-> <<>>] /\ rd = [b \in Buffer |-> 0]
  BY DEF RingInit
<1>2. MaxBytes \in Nat /\ Capacity \in Nat /\ PoolMax \in Nat
  BY PoolAssumption, CapacityAssumption
<1>3. RingTypeOK
  BY <1>1, <1>2 DEF RingTypeOK, wr_offset
<1>4. OwnedOnce
  <2>1. ToSet(<<>>) = {} /\ IsInjective(<<>>) /\ Len(<<>>) = 0
    BY DEF ToSet, IsInjective
  <2> QED
    BY <1>1, <1>2, <2>1 DEF OwnedOnce
<1>5. BytesInOrder
  BY <1>1 DEF BytesInOrder
<1>6. Flow(buffers, data, rd, Len(out), written)
  <2>1. Len(<<>>) = 0
    OBVIOUS
  <2> QED
    BY <1>1, <2>1, EmptyFlow
<1> QED
  BY <1>1, <1>2, <1>3, <1>4, <1>5, <1>6 DEF RingInv

LEMMA LoopStepInv == ASSUME RingInv, LoopStep PROVE RingInv'
BY AppendToLastInv, AppendNewInv, ReadFrontInv, RecycleFrontInv DEF LoopStep

LEMMA NextRing == RingInv /\ [RingNext]_ringVars => RingInv'
<1>1. 1 .. MaxBytes \subseteq Nat /\ 0 .. Capacity \subseteq Nat
  OBVIOUS
<1> QED
  BY <1>1, AllocBuffInv, EmplaceBackInv, IdleInv, LoopStepInv DEF RingNext

LEMMA RingIsIntact == RingInv => StreamIntact
<1> SUFFICES ASSUME RingInv PROVE StreamIntact
  OBVIOUS
<1>1. canReadSize = written - Len(out) /\ Len(out) <= written
  BY CanRead
<1>2. written \in Nat /\ Len(out) \in Nat
  BY RingTypes DEF RingInv
<1>3. NothingLost
  BY <1>1, <1>2 DEF NothingLost, RingInv
<1> QED
  BY <1>3 DEF RingInv, StreamIntact

\* RingBuffer::read(), writeData(), emplace_back() and the BufferPool: the bytes come out in
\* the order in which they came in, none twice and none lost, through buffers that are partly
\* read, recycled and used again, and no buffer has two owners.
THEOREM NoByteLost == RingSpec => []StreamIntact
<1>1. RingSpec => []RingInv
  BY InitRing, NextRing, PTL DEF RingSpec
<1> QED
  BY <1>1, RingIsIntact, PTL

\* What a call under way has to move, and the buffers it can come across: a write puts a
\* buffer behind the list only for a byte or more.
Work == left + 2 * todo + Len(buffers)

LEMMA TurnCounts ==
  ASSUME RingTypeOK, LoopStep
  PROVE  Work \in Nat /\ Work' \in Nat /\ Work' < Work
<1>1. /\ left \in Nat /\ todo \in Nat /\ Capacity \in Nat \ {0} /\ buffers \in Seq(Buffer)
      /\ \A b \in Buffer : wr_offset(b) \in 0 .. Capacity /\ rd[b] \in Nat
  BY RingTypes DEF RingTypeOK
<1>2. Len(buffers) \in Nat /\ \A k \in 1 .. Len(buffers) : buffers[k] \in Buffer
  BY <1>1
<1>3. CASE ReadFront
  <2>1. PICK n : n = Lesser(canRdSize(Head(buffers)), left)
    OBVIOUS
  <2>2. left > 0 /\ canRdSize(Head(buffers)) > 0 /\ left' = left - n
        /\ todo' = todo /\ buffers' = buffers /\ buffers # <<>>
    BY <1>3, <2>1 DEF ReadFront
  <2>3. Head(buffers) \in Buffer
    BY <1>1, <2>2
  <2>4. canRdSize(Head(buffers)) \in Nat
    BY <1>1, <2>3 DEF canRdSize
  <2>5. n \in 1 .. left
    BY <1>1, <2>1, <2>2, <2>4 DEF Lesser
  <2> QED
    BY <1>1, <1>2, <2>2, <2>5 DEF Work
<1>4. CASE RecycleFront
  <2>1. buffers # <<>> /\ buffers' = Tail(buffers) /\ left' = left /\ todo' = todo
    BY <1>4 DEF RecycleFront
  <2>2. Len(buffers') = Len(buffers) - 1 /\ Len(buffers) >= 1
    BY <1>1, <2>1
  <2> QED
    BY <1>1, <1>2, <2>1, <2>2 DEF Work
<1>5. CASE AppendToLast
  <2>1. PICK n : n = Lesser(todo, canWrSize(Last(buffers)))
    OBVIOUS
  <2>2. n > 0 /\ todo' = todo - n /\ left' = left /\ buffers' = buffers /\ buffers # <<>>
    BY <1>5, <2>1 DEF AppendToLast
  <2>3. Last(buffers) \in Buffer
    BY <1>1, <1>2, <2>2 DEF Last
  <2>4. canWrSize(Last(buffers)) \in Nat
    BY <1>1, <2>3 DEF canWrSize
  <2>5. n \in 1 .. todo
    BY <1>1, <2>1, <2>2, <2>4 DEF Lesser
  <2> QED
    BY <1>1, <1>2, <2>2, <2>5 DEF Work
<1>6. ASSUME NEW b \in Buffer, AppendNew(b) PROVE Work \in Nat /\ Work' \in Nat /\ Work' < Work
  <2>1. PICK n : n = Lesser(todo, Capacity)
    OBVIOUS
  <2>2. todo > 0 /\ todo' = todo - n /\ left' = left /\ buffers' = Append(buffers, b)
    BY <1>6, <2>1 DEF AppendNew
  <2>3. n \in 1 .. todo
    BY <1>1, <2>1, <2>2 DEF Lesser
  <2>4. Len(buffers') = Len(buffers) + 1
    BY <1>1, <2>2
  <2> QED
    BY <1>1, <1>2, <2>2, <2>3, <2>4 DEF Work
<1> QED
  BY <1>3, <1>4, <1>5, <1>6 DEF LoopStep

\* Nothing else runs while a call does, and a read that has not ended has a buffer to look at.
ReadHasBuffer == left > 0 => buffers # <<>>

\* RingBuffer::read() and writeData() end, for any sizes: each step while one is under way
\* is a turn of its loop, and leaves less to do, of which there never is less than nothing.
THEOREM LoopsRunOut ==
  RingSpec => [](ReadHasBuffer /\ Work \in Nat) /\ [][~Between => LoopStep /\ Work' < Work]_ringVars
<1>1. RingSpec => []RingInv
  BY InitRing, NextRing, PTL DEF RingSpec
<1>2. RingInv => ReadHasBuffer /\ Work \in Nat
  <2> SUFFICES ASSUME RingInv PROVE ReadHasBuffer /\ Work \in Nat
    OBVIOUS
  <2>1. /\ left \in Nat /\ todo \in Nat /\ written \in Nat /\ Len(out) \in Nat
        /\ left <= written - Len(out) /\ Len(buffers) \in Nat
    BY RingTypes, LenProperties DEF RingInv, RingTypeOK
  <2>2. buffers = <<>> => Len(out) = written
    <3>1. PICK e \in [0 .. Len(buffers) -> Nat] : e[0] = Len(out) /\ e[Len(buffers)] = written
      BY DEF RingInv, Flow
    <3>2. buffers = <<>> => Len(buffers) = 0
      OBVIOUS
    <3> QED
      BY <3>1, <3>2
  <2> QED
    BY <2>1, <2>2 DEF ReadHasBuffer, Work
<1>3. RingInv /\ [RingNext]_ringVars => [~Between => LoopStep /\ Work' < Work]_ringVars
  <2> SUFFICES ASSUME RingInv, RingNext, ~Between PROVE LoopStep /\ Work' < Work
    OBVIOUS
  <2>1. LoopStep
    BY DEF RingNext, AllocBuff, EmplaceBack, GiveUp, WriteData, Read
  <2> QED
    BY <2>1, TurnCounts DEF RingInv
<1> QED
  BY <1>1, <1>2, <1>3, PTL DEF RingSpec

-----------------------------------------------------------------------------
(* TcpSession *)

\* Where the messages end in the stream.
LEMMA FrameEnds ==
  /\ FrameEnd[0] = 0 /\ HEADER_LEN \in Nat \ {0} /\ Len(Lengths) \in Nat
  /\ \A k \in 0 .. Len(Lengths) : FrameEnd[k] \in Nat
  /\ \A k \in 1 .. Len(Lengths) :
       Lengths[k] \in Nat /\ FrameEnd[k] = FrameEnd[k - 1] + HEADER_LEN + Lengths[k]
<1>1. PICK n \in Nat : n = Len(Lengths) /\ \A k \in 1 .. n : Lengths[k] \in Nat
  BY LengthsAssumption
<1>2. HEADER_LEN \in Nat \ {0}
  BY LengthsAssumption
<1> DEFINE Ends(m, f) ==
             /\ f \in [0 .. m -> Nat] /\ f[0] = 0
             /\ \A k \in 1 .. m : f[k] = f[k - 1] + HEADER_LEN + Lengths[k]
           S == {m \in Nat : m <= n => \E f : Ends(m, f)}
<1>3. 0 \in S
  <2>1. Ends(0, [k \in 0 .. 0 |-> 0])
    OBVIOUS
  <2> HIDE DEF Ends
  <2> QED
    BY <2>1
<1>4. ASSUME NEW m \in Nat, m \in S PROVE m + 1 \in S
  <2> SUFFICES ASSUME m + 1 <= n PROVE \E f : Ends(m + 1, f)
    OBVIOUS
  <2>1. PICK g : Ends(m, g)
    BY <1>4
  <2>2. PICK v \in Nat : v = g[m] + HEADER_LEN + Lengths[m + 1]
    <3>1. m \in 0 .. m /\ m + 1 \in 1 .. n
      OBVIOUS
    <3>2. g[m] \in Nat /\ Lengths[m + 1] \in Nat
      BY <1>1, <2>1, <3>1
    <3> QED
      BY <1>2, <3>2
  <2> DEFINE f == [k \in 0 .. m + 1 |-> IF k = m + 1 THEN v ELSE g[k]]
  <2>3. \A k \in 0 .. m + 1 : k = m + 1 \/ (k \in 0 .. m /\ g[k] \in Nat)
    BY <2>1
  <2>4. f \in [0 .. m + 1 -> Nat] /\ f[m + 1] = v /\ \A k \in 0 .. m : f[k] = g[k]
    BY <2>3
  <2> HIDE DEF f
  <2>5. ASSUME NEW k \in 1 .. m + 1 PROVE f[k] = f[k - 1] + HEADER_LEN + Lengths[k]
    <3>1. ASSUME k = m + 1 PROVE f[k] = f[k - 1] + HEADER_LEN + Lengths[k]
      <4>1. k - 1 = m /\ m \in 0 .. m
        BY <3>1
      <4> QED
        BY <2>2, <2>4, <3>1, <4>1
    <3>2. ASSUME k # m + 1 PROVE f[k] = f[k - 1] + HEADER_LEN + Lengths[k]
      <4>1. k \in 1 .. m /\ k \in 0 .. m /\ k - 1 \in 0 .. m
        BY <3>2
      <4> QED
        BY <2>1, <2>4, <4>1
    <3> QED
      BY <3>1, <3>2
  <2>6. f[0] = 0
    BY <2>1, <2>4
  <2> QED
    BY <2>4, <2>5, <2>6
<1>5. PICK g : Ends(n, g)
  <2>1. n \in S
    <3> HIDE DEF S
    <3> QED
      BY <1>3, <1>4, NatSetInduction
  <2> HIDE DEF Ends
  <2> QED
    BY <2>1
<1> DEFINE P(f) == f = [k \in 0 .. Len(Lengths) |->
                          IF k = 0 THEN 0 ELSE f[k - 1] + HEADER_LEN + Lengths[k]]
<1>6. P(g)
  <2>1. \A k \in 0 .. n : k = 0 \/ (k \in 1 .. n /\ k # 0)
    OBVIOUS
  <2>2. \A k \in 0 .. n : g[k] = IF k = 0 THEN 0 ELSE g[k - 1] + HEADER_LEN + Lengths[k]
    BY <1>5, <2>1
  <2>3. g = [k \in 0 .. n |-> g[k]]
    BY <1>5
  <2> QED
    BY <1>1, <2>2, <2>3
<1>7. P(FrameEnd)
  <2>1. FrameEnd = CHOOSE f : P(f)
    BY DEF FrameEnd
  <2> HIDE DEF P
  <2> QED
    BY <1>6, <2>1
<1>8. \A k \in 0 .. n : FrameEnd[k] = IF k = 0 THEN 0 ELSE FrameEnd[k - 1] + HEADER_LEN + Lengths[k]
  BY <1>1, <1>7
<1>9. \A k \in 1 .. n : FrameEnd[k] = FrameEnd[k - 1] + HEADER_LEN + Lengths[k]
  <2>1. \A k \in 1 .. n : k \in 0 .. n /\ k # 0
    OBVIOUS
  <2> QED
    BY <1>8, <2>1
<1>10. FrameEnd[0] = 0
  BY <1>8
<1> DEFINE T == {m \in Nat : m <= n => FrameEnd[m] \in Nat}
<1>11. n \in T /\ \A m \in Nat : m \in T
  <2>1. 0 \in T
    BY <1>10
  <2>2. ASSUME NEW m \in Nat, m \in T PROVE m + 1 \in T
    <3> SUFFICES ASSUME m + 1 <= n PROVE FrameEnd[m + 1] \in Nat
      OBVIOUS
    <3>1. PICK k \in 1 .. n : k = m + 1 /\ k - 1 = m
      OBVIOUS
    <3>2. FrameEnd[m] \in Nat /\ Lengths[k] \in Nat
      BY <1>1, <2>2, <3>1
    <3> QED
      BY <1>2, <1>9, <3>1, <3>2
  <2> HIDE DEF T
  <2> QED
    BY <2>1, <2>2, NatSetInduction
<1>12. \A k \in 0 .. n : FrameEnd[k] \in Nat
  BY <1>11
<1> HIDE DEF P, T
<1> QED
  BY <1>1, <1>2, <1>9, <1>10, <1>12

LEMMA FramesInOrder ==
  \A j, k \in 0 .. Len(Lengths) : j < k => FrameEnd[j] + HEADER_LEN <= FrameEnd[k]
<1>1. PICK n \in Nat : n = Len(Lengths)
  BY FrameEnds
<1>2. /\ HEADER_LEN \in Nat
      /\ \A k \in 0 .. n : FrameEnd[k] \in Nat
      /\ \A k \in 1 .. n :
           Lengths[k] \in Nat /\ FrameEnd[k] = FrameEnd[k - 1] + HEADER_LEN + Lengths[k]
  BY <1>1, FrameEnds
<1> SUFFICES ASSUME NEW j \in 0 .. n
             PROVE  \A k \in 0 .. n : j < k => FrameEnd[j] + HEADER_LEN <= FrameEnd[k]
  BY <1>1
<1> DEFINE S == {k \in Nat : k <= n /\ j < k => FrameEnd[j] + HEADER_LEN <= FrameEnd[k]}
<1>3. 0 \in S
  OBVIOUS
<1>4. ASSUME NEW m \in Nat, m \in S PROVE m + 1 \in S
  <2> SUFFICES ASSUME m + 1 <= n, j < m + 1 PROVE FrameEnd[j] + HEADER_LEN <= FrameEnd[m + 1]
    OBVIOUS
  <2>1. PICK k \in 1 .. n : k = m + 1 /\ k - 1 = m /\ m \in 0 .. n
    OBVIOUS
  <2>2. /\ FrameEnd[k] = FrameEnd[m] + HEADER_LEN + Lengths[k]
        /\ FrameEnd[m] \in Nat /\ Lengths[k] \in Nat /\ FrameEnd[j] \in Nat
    BY <1>2, <2>1
  <2>3. j = m \/ FrameEnd[j] + HEADER_LEN <= FrameEnd[m]
    BY <1>4
  <2>4. FrameEnd[j] + HEADER_LEN <= FrameEnd[k]
    BY <1>2, <2>2, <2>3
  <2> QED
    BY <2>1, <2>4
<1>5. Nat \subseteq S
  <2> HIDE DEF S
  <2> QED
    BY <1>3, <1>4, NatSetInduction
<1> QED
  BY <1>5

\* How many messages have arrived.
LEMMA FramesArrived ==
  ASSUME NEW h \in 0 .. Len(Lengths), NEW w \in Nat, FrameEnd[h] <= w,
         h < Len(Lengths) => w < FrameEnd[h + 1]
  PROVE  Cardinality({k \in Frame : FrameEnd[k] <= w}) = h
<1>1. PICK n \in Nat : n = Len(Lengths) /\ Frame = 1 .. n
  BY LengthsAssumption DEF Frame
<1>2. \A k \in 0 .. n : FrameEnd[k] \in Nat
  BY <1>1, FrameEnds
<1>3. HEADER_LEN \in Nat
  BY FrameEnds
<1>4. ASSUME NEW k \in 1 .. n PROVE FrameEnd[k] <= w <=> k <= h
  <2>1. k \in 0 .. n /\ h \in 0 .. n /\ FrameEnd[k] \in Nat /\ FrameEnd[h] \in Nat
    BY <1>1, <1>2
  <2>2. ASSUME k <= h PROVE FrameEnd[k] <= w
    <3>1. k = h \/ FrameEnd[k] + HEADER_LEN <= FrameEnd[h]
      BY <1>1, <2>1, <2>2, FramesInOrder
    <3> QED
      BY <1>3, <2>1, <3>1
  <2>3. ASSUME k > h PROVE ~(FrameEnd[k] <= w)
    <3>1. h + 1 \in 0 .. n /\ (h + 1 = k \/ h + 1 < k) /\ h < n
      BY <2>1, <2>3
    <3>2. PICK g \in 0 .. n : g = h + 1 /\ FrameEnd[g] \in Nat /\ w < FrameEnd[g]
      BY <1>1, <1>2, <3>1
    <3>3. k = g \/ FrameEnd[g] + HEADER_LEN <= FrameEnd[k]
      BY <1>1, <2>1, <3>1, <3>2, FramesInOrder
    <3> QED
      BY <1>3, <2>1, <3>2, <3>3
  <2> QED
    BY <2>1, <2>2, <2>3
<1>5. {k \in Frame : FrameEnd[k] <= w} = 1 .. h
  <2>1. \A k \in Int : k \in 1 .. h <=> k \in 1 .. n /\ k <= h
    BY <1>1
  <2> QED
    BY <1>1, <1>4, <2>1
<1>6. Cardinality(1 .. h) = h
  <2>1. h \in Nat /\ 1 \in Int /\ h \in Int
    BY <1>1
  <2>2. Cardinality(1 .. h) = IF 1 > h THEN 0 ELSE h - 1 + 1
    BY <2>1, FS_Interval
  <2> QED
    BY <2>1, <2>2
<1> QED
  BY <1>5, <1>6

\* How many messages have been handed over, and how far the stream has been read when the
\* read() under way is done.
Given == Len(handled) + Len(recived_msg_queue)
Taken == Len(out) + left

SessionTypes ==
    /\ pc \in {"start", "idle", "parse", "head", "body", "closed"}
    /\ parse_head_ok \in BOOLEAN /\ msg_callback \in BOOLEAN /\ alive \in BOOLEAN
    /\ cur_header \in Frame \cup {0}
    /\ recived_msg_queue \in Seq([frame : Frame, whole : BOOLEAN])
    /\ handled \in Seq([frame : Frame, whole : BOOLEAN])

\* The messages on their way are numbered one after the other.
Numbered ==
    /\ \A i \in 1 .. Len(handled) : handled[i].frame = i
    /\ \A i \in 1 .. Len(recived_msg_queue) : recived_msg_queue[i].frame = Len(handled) + i

\* Where the parser is in the stream.
Position ==
    /\ Given <= Len(Lengths)
    /\ pc = "head" => ~parse_head_ok
    /\ pc = "body" => parse_head_ok
    /\ parse_head_ok => cur_header = Given + 1
    /\ parse_head_ok \/ pc = "head" => Given < Len(Lengths)
    /\ ~parse_head_ok /\ pc # "head" => Taken = FrameEnd[Given]
    /\ ~parse_head_ok /\ pc = "head" => Taken = FrameEnd[Given] + HEADER_LEN
    /\ parse_head_ok /\ pc # "body" => Taken = FrameEnd[Given] + HEADER_LEN
    /\ pc = "body" => Taken = FrameEnd[Given + 1]

\* Only parseToMessage() reads; what it waits for has not arrived when it returns.
Calls == /\ left > 0 => pc \in {"head", "body"}
         /\ todo > 0 => pc = "parse"
Waits == pc \in {"start", "idle", "closed"} =>
           /\ ~parse_head_ok => written < FrameEnd[Given] + HEADER_LEN
           /\ parse_head_ok => written < FrameEnd[Given + 1]

SessionInv == RingInv /\ SessionTypes /\ Numbered /\ Position /\ Calls /\ Waits

LEMMA SessionFacts ==
  ASSUME SessionInv
  PROVE  /\ Given \in 0 .. Len(Lengths) /\ Taken \in Nat /\ Taken <= written
         /\ written \in Nat /\ Len(out) \in Nat /\ left \in Nat /\ todo \in Nat
         /\ Len(Lengths) \in Nat /\ HEADER_LEN \in Nat \ {0}
         /\ FrameEnd[Given] \in Nat /\ FrameEnd[Given] <= Taken
         /\ canReadSize = written - Len(out) /\ written <= FrameEnd[Len(Lengths)]
         /\ FrameEnd[Len(Lengths)] \in Nat
         /\ Given < Len(Lengths) =>
              /\ Given + 1 \in Frame /\ Lengths[Given + 1] \in Nat
              /\ FrameEnd[Given + 1] = FrameEnd[Given] + HEADER_LEN + Lengths[Given + 1]
<1>1. RingInv /\ RingTypeOK /\ SessionTypes /\ Position
  BY DEF SessionInv, RingInv
<1>2. Len(handled) \in Nat /\ Len(recived_msg_queue) \in Nat
  BY <1>1, LenProperties DEF SessionTypes
<1>3. Given \in 0 .. Len(Lengths)
  BY <1>1, <1>2, FrameEnds DEF Position, Given
<1>4. written \in Nat /\ Len(out) \in Nat /\ left \in Nat /\ todo \in Nat
  BY <1>1, RingTypes
<1>5. canReadSize = written - Len(out)
  BY <1>1, CanRead
<1>6. Taken \in Nat /\ Taken <= written
  BY <1>1, <1>4 DEF Taken, RingInv
<1>7. FrameEnd[Given] \in Nat /\ Len(Lengths) \in Nat /\ HEADER_LEN \in Nat \ {0}
  BY <1>3, FrameEnds
<1>8. ASSUME Given < Len(Lengths)
      PROVE  /\ Given + 1 \in Frame /\ Lengths[Given + 1] \in Nat
             /\ FrameEnd[Given + 1] = FrameEnd[Given] + HEADER_LEN + Lengths[Given + 1]
  <2>1. PICK k \in 1 .. Len(Lengths) : k = Given + 1 /\ k - 1 = Given
    BY <1>3, <1>7, <1>8
  <2>2. Frame = 1 .. Len(Lengths)
    BY LengthsAssumption DEF Frame
  <2> QED
    BY <2>1, <2>2, FrameEnds
<1>9. FrameEnd[Given] <= Taken
  <2>1. pc = "body" => FrameEnd[Given] <= Taken
    BY <1>1, <1>7, <1>8 DEF Position
  <2>2. pc # "body" => FrameEnd[Given] <= Taken
    BY <1>1, <1>7 DEF Position
  <2> QED
    BY <2>1, <2>2
<1>10. written <= FrameEnd[Len(Lengths)] /\ FrameEnd[Len(Lengths)] \in Nat
  <2>1. FrameEnd[Len(Lengths)] \in Nat /\ MaxBytes \in Nat
    BY FrameEnds, PoolAssumption
  <2>2. written <= MaxBytes
    BY <1>1, <2>1 DEF RingTypeOK
  <2> QED
    BY <1>4, <2>1, <2>2, StreamAssumption
<1> QED
  BY <1>3, <1>4, <1>5, <1>6, <1>7, <1>8, <1>9, <1>10

LEMMA LoopPosition ==
  ASSUME RingInv, LoopStep
  PROVE  /\ RingInv' /\ Len(out') + left' = Len(out) + left
         /\ left = 0 => left' = 0
         /\ todo = 0 => todo' = 0
         /\ left > 0 \/ todo > 0
<1>1. ASSUME ReadFront
      PROVE  /\ Len(out') + left' = Len(out) + left /\ left > 0 /\ todo' = todo
    BY <1>1, ReadFrontInv DEF ReadFront
<1>2. ASSUME RecycleFront PROVE left > 0 /\ UNCHANGED <<out, left, todo>>
    BY <1>2 DEF RecycleFront
<1>3. ASSUME AppendToLast \/ \E b \in Buffer : AppendNew(b)
      PROVE  todo > 0 /\ UNCHANGED <<out, left>>
    BY <1>3 DEF AppendToLast, AppendNew
<1>4. RingInv'
  BY LoopStepInv
<1>5. left \in Nat /\ todo \in Nat
  BY RingTypes DEF RingInv
<1> QED
  BY <1>1, <1>2, <1>3, <1>4, <1>5 DEF LoopStep

\* A step of the strand that leaves the parser where it is.
LEMMA SameMessages ==
  ASSUME SessionTypes, Numbered, UNCHANGED <<recived_msg_queue, handled>>
  PROVE  Numbered' /\ Given' = Given
BY DEF Numbered, Given

LEMMA StartInv ==
  ASSUME SessionInv, NEW b \in Buffer, Start(b) \/ ReceiveFails(b) PROVE SessionInv'
<1>1. /\ pc \in {"start", "idle"} /\ pc' \in {"idle", "closed"}
      /\ UNCHANGED <<parse_head_ok, cur_header, recived_msg_queue, msg_callback, handled, alive>>
      /\ UNCHANGED <<left, todo, written, out>>
  BY DEF Start, ReceiveFails, AllocBuff, GiveUp, parser, app
<1>2. RingInv'
  BY AllocBuffInv, IdleInv DEF SessionInv, Start, ReceiveFails
<1>3. Numbered' /\ Given' = Given
  BY <1>1, SameMessages DEF SessionInv
<1>4. SessionTypes'
  BY <1>1 DEF SessionInv, SessionTypes
<1>5. Taken' = Taken
  BY <1>1 DEF Taken
<1>6. Position' /\ Calls' /\ Waits'
  BY <1>1, <1>3, <1>5 DEF SessionInv, Position, Calls, Waits
<1> QED
  BY <1>2, <1>3, <1>4, <1>6 DEF SessionInv

LEMMA ReceiveInv ==
  ASSUME SessionInv,
         \/ \E b \in Buffer, n \in Nat : Receive(b, n)
         \/ \E n \in Nat : ReceiveData(n)
  PROVE  SessionInv'
<1>1. /\ pc = "idle" /\ pc' = "parse" /\ left = 0
      /\ UNCHANGED <<parse_head_ok, cur_header, recived_msg_queue, msg_callback, handled, alive>>
      /\ UNCHANGED <<left, out>>
  BY DEF Receive, ReceiveData, EmplaceBack, WriteData, Between, parser, app
<1>2. RingInv'
  BY EmplaceBackInv, IdleInv DEF SessionInv, Receive, ReceiveData
<1>3. Numbered' /\ Given' = Given
  BY <1>1, SameMessages DEF SessionInv
<1>4. SessionTypes'
  BY <1>1 DEF SessionInv, SessionTypes
<1>5. Taken' = Taken
  BY <1>1 DEF Taken
<1>6. Position' /\ Calls' /\ Waits'
  BY <1>1, <1>3, <1>5 DEF SessionInv, Position, Calls, Waits
<1> QED
  BY <1>2, <1>3, <1>4, <1>6 DEF SessionInv

LEMMA LoopInv == ASSUME SessionInv, Loop PROVE SessionInv'
<1>1. /\ LoopStep
      /\ UNCHANGED <<pc, parse_head_ok, cur_header, recived_msg_queue, msg_callback, handled, alive>>
  BY DEF Loop, parser, app
<1>2. /\ RingInv' /\ Len(out') + left' = Len(out) + left
      /\ left = 0 => left' = 0
      /\ todo = 0 => todo' = 0
      /\ left > 0 \/ todo > 0
  BY <1>1, LoopPosition DEF SessionInv
<1>3. Numbered' /\ Given' = Given
  BY <1>1, SameMessages DEF SessionInv
<1>4. SessionTypes'
  BY <1>1 DEF SessionInv, SessionTypes
<1>5. Taken' = Taken
  BY <1>2 DEF Taken
<1>6. Position'
  BY <1>1, <1>3, <1>5 DEF SessionInv, Position
<1>7. left \in Nat /\ todo \in Nat
  BY SessionFacts
<1>8. left' > 0 => left > 0
  BY <1>2, <1>7
<1>9. todo' > 0 => todo > 0
  BY <1>2, <1>7
<1>10. Calls'
  BY <1>1, <1>8, <1>9 DEF SessionInv, Calls
<1>11. Waits'
  BY <1>1, <1>2 DEF SessionInv, Calls, Waits
<1> QED
  BY <1>2, <1>3, <1>4, <1>6, <1>10, <1>11 DEF SessionInv

\* Steps in which neither the strand nor the queue moves.
LEMMA CrashInv ==
  ASSUME SessionInv,
         ReceiveDangling \/ BodyCrash \/ processCrash \/ setMsgCallback \/ UNCHANGED vars
  PROVE  SessionInv'
<1>1. /\ UNCHANGED ringVars
      /\ UNCHANGED <<pc, parse_head_ok, cur_header, recived_msg_queue, handled>>
  BY DEF ReceiveDangling, BodyCrash, processCrash, setMsgCallback, vars, parser, app
<1>2. RingInv'
  BY <1>1, IdleInv DEF SessionInv
<1>3. Numbered' /\ Given' = Given
  BY <1>1, SameMessages DEF SessionInv
<1>4. SessionTypes'
  <2>1. msg_callback' \in BOOLEAN /\ alive' \in BOOLEAN
    BY DEF ReceiveDangling, BodyCrash, processCrash, setMsgCallback, vars, app, SessionInv,
           SessionTypes
  <2> QED
    BY <1>1, <2>1 DEF SessionInv, SessionTypes
<1>5. Taken' = Taken
  BY <1>1 DEF Taken, ringVars
<1>6. Position' /\ Calls' /\ Waits'
  BY <1>1, <1>3, <1>5 DEF SessionInv, Position, Calls, Waits, ringVars
<1> QED
  BY <1>2, <1>3, <1>4, <1>6 DEF SessionInv

\* parseToMessage() returns to wait for more.
LEMMA BreakInv ==
  ASSUME SessionInv, Break, pc = "parse", left = 0, todo = 0,
         ~parse_head_ok => canReadSize < HEADER_LEN,
         parse_head_ok => canReadSize < msg_len,
         UNCHANGED <<parser, recived_msg_queue, app, alive>>
  PROVE  SessionInv'
<1>1. /\ pc' \in {"start", "idle"} /\ UNCHANGED ringVars
      /\ UNCHANGED <<parse_head_ok, cur_header, recived_msg_queue, msg_callback, handled, alive>>
      /\ UNCHANGED <<left, todo, written, out>>
  BY DEF Break, parser, app, ringVars
<1>2. RingInv'
  BY <1>1, IdleInv DEF SessionInv
<1>3. Numbered' /\ Given' = Given
  BY <1>1, SameMessages DEF SessionInv
<1>4. SessionTypes'
  BY <1>1 DEF SessionInv, SessionTypes
<1>5. Taken' = Taken /\ Taken = Len(out)
  <2>1. Len(out) \in Nat
    BY SessionFacts
  <2> QED
    BY <1>1, <2>1 DEF Taken
<1>6. Position' /\ Calls'
  BY <1>1, <1>3, <1>5 DEF SessionInv, Position, Calls
<1>7. ~parse_head_ok => written < FrameEnd[Given] + HEADER_LEN
  <2> SUFFICES ASSUME ~parse_head_ok PROVE written < FrameEnd[Given] + HEADER_LEN
    OBVIOUS
  <2>1. Len(out) = FrameEnd[Given]
    BY <1>5 DEF SessionInv, Position
  <2>2. /\ written - Len(out) < HEADER_LEN /\ written \in Nat /\ Len(out) \in Nat
        /\ HEADER_LEN \in Nat
    BY SessionFacts
  <2> QED
    BY <2>1, <2>2
<1>8. parse_head_ok => written < FrameEnd[Given + 1]
  <2> SUFFICES ASSUME parse_head_ok PROVE written < FrameEnd[Given + 1]
    OBVIOUS
  <2>1. Given < Len(Lengths) /\ cur_header = Given + 1 /\ Len(out) = FrameEnd[Given] + HEADER_LEN
    BY <1>5 DEF SessionInv, Position
  <2>2. /\ Given + 1 # 0 /\ Lengths[Given + 1] \in Nat /\ FrameEnd[Given] \in Nat
        /\ FrameEnd[Given + 1] = FrameEnd[Given] + HEADER_LEN + Lengths[Given + 1]
    BY <2>1, SessionFacts
  <2>3. msg_len = Lengths[Given + 1]
    BY <2>1, <2>2 DEF msg_len
  <2>4. /\ written - Len(out) < Lengths[Given + 1] /\ written \in Nat /\ Len(out) \in Nat
        /\ HEADER_LEN \in Nat
    BY <2>3, SessionFacts
  <2> QED
    BY <2>1, <2>2, <2>4
<1>9. Waits'
  BY <1>1, <1>3, <1>7, <1>8 DEF Waits
<1> QED
  BY <1>2, <1>3, <1>4, <1>6, <1>9 DEF SessionInv

\* It reads n bytes, which are there.
LEMMA ReadInv ==
  ASSUME SessionInv, pc = "parse", left = 0, todo = 0, NEW n \in Nat, Read(n),
         pc' = IF parse_head_ok THEN "body" ELSE "head",
         n = IF parse_head_ok THEN msg_len ELSE HEADER_LEN,
         UNCHANGED <<parser, recived_msg_queue, app, alive>>
  PROVE  SessionInv'
<1>1. /\ UNCHANGED <<parse_head_ok, cur_header, recived_msg_queue, msg_callback, handled, alive>>
      /\ UNCHANGED <<todo, written, out>> /\ left' = n /\ n <= canReadSize
  BY DEF Read, parser, app
<1>2. RingInv'
  BY IdleInv DEF SessionInv
<1>3. Numbered' /\ Given' = Given
  BY <1>1, SameMessages DEF SessionInv
<1>4. SessionTypes'
  BY <1>1 DEF SessionInv, SessionTypes
<1>5. /\ Given \in 0 .. Len(Lengths) /\ written \in Nat /\ Len(out) \in Nat
      /\ Len(Lengths) \in Nat /\ HEADER_LEN \in Nat \ {0}
      /\ FrameEnd[Given] \in Nat
      /\ canReadSize = written - Len(out) /\ written <= FrameEnd[Len(Lengths)]
      /\ FrameEnd[Len(Lengths)] \in Nat
      /\ Given < Len(Lengths) =>
           /\ Given + 1 \in Frame /\ Lengths[Given + 1] \in Nat
           /\ FrameEnd[Given + 1] = FrameEnd[Given] + HEADER_LEN + Lengths[Given + 1]
  BY SessionFacts
<1>6. Taken' = Taken + n /\ Taken = Len(out)
  BY <1>1, <1>5 DEF Taken
<1>7. ASSUME ~parse_head_ok PROVE Given < Len(Lengths) /\ Taken' = FrameEnd[Given] + HEADER_LEN
  <2>1. Taken = FrameEnd[Given] /\ n = HEADER_LEN
    BY <1>7 DEF SessionInv, Position
  <2>2. FrameEnd[Given] + HEADER_LEN <= FrameEnd[Len(Lengths)]
    BY <1>1, <1>5, <1>6, <2>1
  <2>3. Given # Len(Lengths)
    BY <1>5, <2>2
  <2> QED
    BY <1>5, <1>6, <2>1, <2>3
<1>8. ASSUME parse_head_ok PROVE Taken' = FrameEnd[Given + 1]
  <2>1. Given < Len(Lengths) /\ cur_header = Given + 1 /\ Taken = FrameEnd[Given] + HEADER_LEN
    BY <1>8 DEF SessionInv, Position
  <2>2. n = Lengths[Given + 1]
    BY <1>5, <1>8, <2>1 DEF msg_len
  <2> QED
    BY <1>5, <1>6, <2>1, <2>2
<1>9. Position'
  BY <1>1, <1>3, <1>7, <1>8 DEF SessionInv, Position
<1>10. Calls' /\ Waits'
  BY <1>1 DEF Calls, Waits
<1> QED
  BY <1>2, <1>3, <1>4, <1>9, <1>10 DEF SessionInv

LEMMA ParseInv == ASSUME SessionInv, ParseHead \/ ParseBody PROVE SessionInv'
<1>1. pc = "parse" /\ left = 0 /\ todo = 0 /\ UNCHANGED <<parser, recived_msg_queue, app, alive>>
  BY DEF ParseHead, ParseBody, Between
<1>2. CASE ParseHead
  <2>1. ~parse_head_ok
    BY <1>2 DEF ParseHead
  <2>2. CASE canReadSize < HEADER_LEN /\ Break
    BY <1>1, <2>1, <2>2, BreakInv
  <2>3. CASE Read(HEADER_LEN) /\ pc' = "head"
    <3>1. HEADER_LEN \in Nat
      BY SessionFacts
    <3> QED
      BY <1>1, <2>1, <2>3, <3>1, ReadInv
  <2> QED
    BY <1>2, <2>2, <2>3 DEF ParseHead
<1>3. CASE ParseBody
  <2>1. parse_head_ok
    BY <1>3 DEF ParseBody
  <2>2. CASE canReadSize < msg_len /\ Break
    BY <1>1, <2>1, <2>2, BreakInv
  <2>3. CASE Read(msg_len) /\ pc' = "body"
    <3>1. Given < Len(Lengths) /\ cur_header = Given + 1
      BY <2>1 DEF SessionInv, Position
    <3>2. msg_len \in Nat
      BY <3>1, SessionFacts DEF msg_len
    <3> QED
      BY <1>1, <2>1, <2>3, <3>2, ReadInv
  <2> QED
    BY <1>3, <2>2, <2>3 DEF ParseBody
<1> QED
  BY <1>2, <1>3

\* The last HEADER_LEN bytes read are the header of the next message.
LEMMA HeaderFound ==
  ASSUME SessionInv, pc = "head", left = 0
  PROVE  HeaderIn(SubSeq(out, Len(out) - HEADER_LEN + 1, Len(out))) = Given + 1
<1>1. /\ Given \in 0 .. Len(Lengths) /\ Len(out) \in Nat /\ Len(Lengths) \in Nat
      /\ HEADER_LEN \in Nat \ {0} /\ FrameEnd[Given] \in Nat
      /\ Given < Len(Lengths) => Given + 1 \in Frame
  BY SessionFacts
<1>2. Given < Len(Lengths) /\ Len(out) = FrameEnd[Given] + HEADER_LEN
  BY <1>1 DEF SessionInv, Position, Taken
<1>3. PICK m \in Nat, h \in Nat : m = FrameEnd[Given] /\ h = HEADER_LEN /\ Len(out) = m + h /\ h >= 1
  BY <1>1, <1>2
<1>4. out \in Seq(1 .. MaxBytes) /\ \A i \in 1 .. m + h : out[i] = i
  <2>1. out \in Seq(1 .. MaxBytes) /\ BytesInOrder
    BY DEF SessionInv, RingInv, RingTypeOK
  <2> QED
    BY <1>3, <2>1, LenProperties DEF BytesInOrder
<1> DEFINE bytes == SubSeq(out, m + 1, m + h)
           head(k) == [i \in 1 .. HEADER_LEN |-> FrameEnd[k - 1] + i]
<1>5. SubSeq(out, Len(out) - HEADER_LEN + 1, Len(out)) = bytes
  <2>1. Len(out) - HEADER_LEN + 1 = m + 1
    BY <1>3
  <2> QED
    BY <1>3, <2>1
<1>6. bytes \in Seq(Int) /\ Len(bytes) = h /\ \A i \in 1 .. h : bytes[i] = m + i
  <2>1. out \in Seq(Int)
    BY <1>4, PoolAssumption
  <2>2. m + h <= Len(out)
    BY <1>3
  <2>3. bytes \in Seq(Int) /\ Len(bytes) = h /\ \A i \in 1 .. h : bytes[i] = out[m + i]
    BY <2>1, <2>2, SliceCells
  <2>4. \A i \in 1 .. h : m + i \in 1 .. m + h /\ out[m + i] = m + i
    BY <1>4
  <2> QED
    BY <2>3, <2>4
<1> HIDE DEF bytes
<1>7. bytes = [i \in 1 .. h |-> m + i]
  <2>1. DOMAIN bytes = 1 .. h /\ bytes = [i \in DOMAIN bytes |-> bytes[i]]
    BY <1>6
  <2> QED
    BY <1>6, <2>1
<1>8. PICK g \in 0 .. Len(Lengths) : g = Given /\ g + 1 \in Frame /\ g + 1 - 1 = g
  BY <1>1, <1>2
<1>9. bytes = head(g + 1)
  BY <1>3, <1>7, <1>8
<1>10. ASSUME NEW k \in Frame, bytes = head(k) PROVE k = g + 1
  <2>1. head(k)[1] = FrameEnd[k - 1] + 1 /\ bytes[1] = m + 1
    BY <1>3, <1>6
  <2>2. PICK j \in 0 .. Len(Lengths) : j = k - 1 /\ k \in Int
    <3>1. k \in 1 .. Len(Lengths)
      BY LengthsAssumption DEF Frame
    <3> QED
      BY <1>1, <3>1
  <2>3. FrameEnd[j] \in Nat
    BY FrameEnds
  <2>4. FrameEnd[j] = FrameEnd[g]
    <3>1. head(k)[1] = bytes[1] /\ FrameEnd[k - 1] = FrameEnd[j] /\ FrameEnd[g] = m
      BY <1>3, <1>8, <1>10, <2>2
    <3> HIDE DEF head
    <3>2. FrameEnd[j] + 1 = m + 1
      BY <2>1, <3>1
    <3> QED
      BY <1>3, <2>3, <3>1, <3>2
  <2>5. ~(j < g) /\ ~(g < j)
    BY <1>1, <2>3, <2>4, FramesInOrder
  <2> QED
    BY <1>1, <2>2, <2>5
<1> HIDE DEF head
<1>11. HeaderIn(bytes) = IF \E k \in Frame : bytes = head(k)
                         THEN CHOOSE k \in Frame : bytes = head(k) ELSE 0
  BY DEF HeaderIn, head
<1>12. HeaderIn(bytes) = g + 1
  BY <1>8, <1>9, <1>10, <1>11
<1> QED
  BY <1>5, <1>8, <1>12

LEMMA HeadReadInv == ASSUME SessionInv, HeadRead PROVE SessionInv'
<1>1. /\ pc = "head" /\ pc' = "parse" /\ left = 0 /\ todo = 0 /\ parse_head_ok' = TRUE
      /\ cur_header' = HeaderIn(SubSeq(out, Len(out) - HEADER_LEN + 1, Len(out)))
      /\ UNCHANGED ringVars /\ UNCHANGED <<recived_msg_queue, msg_callback, handled, alive>>
  BY DEF HeadRead, Between, app
<1>2. RingInv'
  BY <1>1, IdleInv DEF SessionInv
<1>3. Numbered' /\ Given' = Given
  BY <1>1, SameMessages DEF SessionInv
<1>4. cur_header' = Given + 1 /\ Given < Len(Lengths) /\ Given + 1 \in Frame
  <2>1. cur_header' = Given + 1
    BY <1>1, HeaderFound
  <2>2. Given < Len(Lengths)
    BY <1>1 DEF SessionInv, Position
  <2> QED
    BY <2>1, <2>2, SessionFacts
<1>5. SessionTypes'
  BY <1>1, <1>4 DEF SessionInv, SessionTypes
<1>6. Taken' = Taken
  BY <1>1 DEF Taken, ringVars
<1>7. Position' /\ Calls' /\ Waits'
  BY <1>1, <1>3, <1>4, <1>6 DEF SessionInv, Position, Calls, Waits, ringVars
<1> QED
  BY <1>2, <1>3, <1>5, <1>7 DEF SessionInv

LEMMA BodyReadInv == ASSUME SessionInv, BodyRead PROVE SessionInv'
<1> DEFINE msg == [frame |-> cur_header, whole |-> msg_len = 0]
<1>1. /\ pc = "body" /\ pc' = "parse" /\ parse_head_ok' = FALSE /\ left = 0 /\ todo = 0
      /\ recived_msg_queue' = Append(recived_msg_queue, msg)
      /\ UNCHANGED ringVars /\ UNCHANGED <<cur_header, msg_callback, handled, alive>>
  BY DEF BodyRead, Between, app
<1>2. RingInv'
  BY <1>1, IdleInv DEF SessionInv
<1>3. parse_head_ok /\ cur_header = Given + 1 /\ Given < Len(Lengths) /\ Taken = FrameEnd[Given + 1]
  BY <1>1 DEF SessionInv, Position
<1>4. /\ Given \in 0 .. Len(Lengths) /\ Len(Lengths) \in Nat /\ Given + 1 \in Frame
  BY <1>3, SessionFacts
<1>5. msg \in [frame : Frame, whole : BOOLEAN] /\ msg.frame = Given + 1
  BY <1>3, <1>4
<1> HIDE DEF msg
<1>6. /\ recived_msg_queue \in Seq([frame : Frame, whole : BOOLEAN])
      /\ handled \in Seq([frame : Frame, whole : BOOLEAN])
  BY DEF SessionInv, SessionTypes
<1>7. PICK q \in Nat, d \in Nat : q = Len(recived_msg_queue) /\ d = Len(handled) /\ Given = d + q
  BY <1>6, LenProperties DEF Given
<1>8. /\ recived_msg_queue' \in Seq([frame : Frame, whole : BOOLEAN])
      /\ Len(recived_msg_queue') = q + 1
      /\ \A i \in 1 .. q : recived_msg_queue'[i] = recived_msg_queue[i]
      /\ recived_msg_queue'[q + 1] = msg
  BY <1>1, <1>5, <1>6, <1>7, AppendProperties
<1>9. Given' = Given + 1
  BY <1>1, <1>7, <1>8 DEF Given
<1>10. Numbered'
  <2>1. \A i \in 1 .. q : recived_msg_queue[i].frame = d + i
    BY <1>7 DEF SessionInv, Numbered
  <2>2. ASSUME NEW i \in 1 .. q + 1 PROVE recived_msg_queue'[i].frame = d + i
    <3>1. CASE i = q + 1
      BY <1>5, <1>7, <1>8, <3>1
    <3>2. CASE i # q + 1
      <4>1. i \in 1 .. q
        BY <3>2
      <4> QED
        BY <1>8, <2>1, <4>1
    <3> QED
      BY <3>1, <3>2
  <2> QED
    BY <1>1, <1>7, <1>8, <2>2 DEF SessionInv, Numbered
<1>11. SessionTypes'
  BY <1>1, <1>8 DEF SessionInv, SessionTypes
<1>12. Taken' = Taken
  BY <1>1 DEF Taken, ringVars
<1>13. Position'
  <2>1. Given' <= Len(Lengths)
    BY <1>3, <1>4, <1>9
  <2> QED
    BY <1>1, <1>3, <1>9, <1>12, <2>1 DEF Position
<1>14. Calls' /\ Waits'
  BY <1>1 DEF SessionInv, Calls, Waits, ringVars
<1> QED
  BY <1>2, <1>10, <1>11, <1>13, <1>14 DEF SessionInv

\* The application takes a message that has been handed over.
LEMMA ProcessInv == ASSUME SessionInv, processReceivedMsg PROVE SessionInv'
<1>1. /\ recived_msg_queue # <<>>
      /\ handled' = Append(handled, Head(recived_msg_queue))
      /\ recived_msg_queue' = Tail(recived_msg_queue)
      /\ UNCHANGED ringVars /\ UNCHANGED <<pc, parse_head_ok, cur_header, msg_callback, alive>>
  BY DEF processReceivedMsg, parser
<1>2. RingInv'
  BY <1>1, IdleInv DEF SessionInv
<1>3. /\ recived_msg_queue \in Seq([frame : Frame, whole : BOOLEAN])
      /\ handled \in Seq([frame : Frame, whole : BOOLEAN])
  BY DEF SessionInv, SessionTypes
<1>4. PICK q \in Nat, d \in Nat : q = Len(recived_msg_queue) /\ d = Len(handled) /\ Given = d + q
  BY <1>3, LenProperties DEF Given
<1>5. /\ q >= 1 /\ Head(recived_msg_queue) = recived_msg_queue[1]
      /\ recived_msg_queue[1] \in [frame : Frame, whole : BOOLEAN]
      /\ recived_msg_queue' \in Seq([frame : Frame, whole : BOOLEAN])
      /\ Len(recived_msg_queue') = q - 1
      /\ \A i \in 1 .. q - 1 : recived_msg_queue'[i] = recived_msg_queue[i + 1]
  <2>1. /\ Tail(recived_msg_queue) \in Seq([frame : Frame, whole : BOOLEAN])
        /\ Len(Tail(recived_msg_queue)) = q - 1
        /\ \A i \in 1 .. Len(Tail(recived_msg_queue)) :
             Tail(recived_msg_queue)[i] = recived_msg_queue[i + 1]
    BY <1>1, <1>3, <1>4, HeadTailProperties
  <2>2. q >= 1
    BY <1>1, <1>3, <1>4
  <2>3. recived_msg_queue[1] \in [frame : Frame, whole : BOOLEAN]
    <3>1. 1 \in 1 .. Len(recived_msg_queue)
      BY <1>4, <2>2
    <3> QED
      BY <1>3, <3>1, ElementOfSeq
  <2> QED
    BY <1>1, <2>1, <2>2, <2>3
<1>6. /\ handled' \in Seq([frame : Frame, whole : BOOLEAN])
      /\ Len(handled') = d + 1
      /\ \A i \in 1 .. d : handled'[i] = handled[i]
      /\ handled'[d + 1] = recived_msg_queue[1]
  BY <1>1, <1>3, <1>4, <1>5, AppendProperties
<1>7. Given' = Given
  BY <1>4, <1>5, <1>6 DEF Given
<1>8. /\ \A i \in 1 .. d : handled[i].frame = i
      /\ \A i \in 1 .. q : recived_msg_queue[i].frame = d + i
  BY <1>4 DEF SessionInv, Numbered
<1>9. Numbered'
  <2>1. ASSUME NEW i \in 1 .. d + 1 PROVE handled'[i].frame = i
    <3>1. CASE i = d + 1
      BY <1>5, <1>6, <1>8, <3>1
    <3>2. CASE i # d + 1
      <4>1. i \in 1 .. d
        BY <3>2
      <4> QED
        BY <1>6, <1>8, <4>1
    <3> QED
      BY <3>1, <3>2
  <2>2. ASSUME NEW i \in 1 .. q - 1 PROVE recived_msg_queue'[i].frame = d + 1 + i
    <3>1. i + 1 \in 1 .. q /\ d + (i + 1) = d + 1 + i
      OBVIOUS
    <3> QED
      BY <1>5, <1>8, <3>1
  <2> QED
    BY <1>5, <1>6, <2>1, <2>2 DEF Numbered
<1>10. SessionTypes'
  BY <1>1, <1>5, <1>6 DEF SessionInv, SessionTypes
<1>11. Taken' = Taken
  BY <1>1 DEF Taken, ringVars
<1>12. Position' /\ Calls' /\ Waits'
  BY <1>1, <1>7, <1>11 DEF SessionInv, Position, Calls, Waits, ringVars
<1> QED
  BY <1>2, <1>9, <1>10, <1>12 DEF SessionInv

LEMMA InitSession == Init => SessionInv
<1> SUFFICES ASSUME Init PROVE SessionInv
  OBVIOUS
<1>1. RingInv
  BY InitRing DEF Init
<1>2. /\ pc = "start" /\ parse_head_ok = FALSE /\ cur_header = 0 /\ recived_msg_queue = <<>>
      /\ msg_callback \in BOOLEAN /\ handled = <<>> /\ alive = TRUE
      /\ out = <<>> /\ written = 0 /\ left = 0 /\ todo = 0
  BY DEF Init, RingInit
<1>3. Len(<<>>) = 0
  OBVIOUS
<1>4. Given = 0 /\ Taken = 0
  BY <1>2, <1>3 DEF Given, Taken
<1>5. FrameEnd[0] = 0 /\ HEADER_LEN \in Nat \ {0} /\ Len(Lengths) \in Nat
  BY FrameEnds
<1>6. SessionTypes
  <2>1. <<>> \in Seq([frame : Frame, whole : BOOLEAN])
    OBVIOUS
  <2> QED
    BY <1>2, <2>1 DEF SessionTypes
<1>7. Numbered
  BY <1>2, <1>3 DEF Numbered
<1>8. Position /\ Calls /\ Waits
  BY <1>2, <1>4, <1>5 DEF Position, Calls, Waits
<1> QED
  BY <1>1, <1>6, <1>7, <1>8 DEF SessionInv

LEMMA NextSession == SessionInv /\ [Next]_vars => SessionInv'
<1>1. 1 .. MaxBytes \subseteq Nat /\ 1 .. Capacity \subseteq Nat
  OBVIOUS
<1> SUFFICES ASSUME SessionInv, [Next]_vars PROVE SessionInv'
  OBVIOUS
<1>2. CASE \E b \in Buffer : Start(b) \/ ReceiveFails(b)
  BY <1>2, StartInv
<1>3. CASE \/ \E b \in Buffer, n \in Nat : Receive(b, n)
           \/ \E n \in Nat : ReceiveData(n)
  BY <1>3, ReceiveInv
<1>4. CASE Loop
  BY <1>4, LoopInv
<1>5. CASE ParseHead \/ ParseBody
  BY <1>5, ParseInv
<1>6. CASE HeadRead
  BY <1>6, HeadReadInv
<1>7. CASE BodyRead
  BY <1>7, BodyReadInv
<1>8. CASE processReceivedMsg
  BY <1>8, ProcessInv
<1>9. CASE ReceiveDangling \/ BodyCrash \/ processCrash \/ setMsgCallback \/ UNCHANGED vars
  BY <1>9, CrashInv
<1> QED
  BY <1>1, <1>2, <1>3, <1>4, <1>5, <1>6, <1>7, <1>8, <1>9 DEF Next, Parse, Process

LEMMA NobodyWaits == SessionInv => SessionOK
<1> SUFFICES ASSUME SessionInv PROVE SessionOK
  OBVIOUS
<1>1. /\ Given \in 0 .. Len(Lengths) /\ written \in Nat /\ FrameEnd[Given] <= Taken
      /\ Taken <= written /\ Taken \in Nat /\ FrameEnd[Given] \in Nat /\ HEADER_LEN \in Nat
      /\ Given < Len(Lengths) =>
           /\ Given + 1 \in Frame /\ Lengths[Given + 1] \in Nat
           /\ FrameEnd[Given + 1] = FrameEnd[Given] + HEADER_LEN + Lengths[Given + 1]
  BY SessionFacts
<1>2. TypeOK
  BY <1>1 DEF SessionInv, SessionTypes, Position, RingInv, TypeOK
<1>3. ASSUME pc \in {"start", "idle", "closed"}
      PROVE  Len(recived_msg_queue) + Len(handled) = Cardinality({k \in Frame : FrameEnd[k] <= written})
  <2>1. Given < Len(Lengths) => written < FrameEnd[Given + 1]
    BY <1>1, <1>3 DEF SessionInv, Waits
  <2>2. FrameEnd[Given] <= written
    BY <1>1
  <2>3. Cardinality({k \in Frame : FrameEnd[k] <= written}) = Given
    BY <1>1, <2>1, <2>2, FramesArrived
  <2>4. Len(recived_msg_queue) \in Nat /\ Len(handled) \in Nat
    BY LenProperties DEF SessionInv, SessionTypes
  <2> QED
    BY <2>3, <2>4 DEF Given
<1> QED
  BY <1>2, <1>3 DEF SessionOK, PromptHandOver

\* TcpSession::onReceive() and parseToMessage(): however the stream is cut, when no callback
\* runs on the strand every message that has arrived has been handed over, and only those.
THEOREM HandedOverPromptly == Spec => []SessionOK
<1>1. Spec => []SessionInv
  BY InitSession, NextSession, PTL DEF Spec
<1> QED
  BY <1>1, NobodyWaits, PTL

-----------------------------------------------------------------------------
\* What the application has seen: the numbers of the messages handled.
Seen == [i \in DOMAIN handled |-> handled[i].frame]

LEMMA LoopWrites ==
  ASSUME RingInv, LoopStep PROVE written' = written \/ (written' \in Nat /\ written' > written)
<1>1. RingTypeOK
  BY DEF RingInv
<1>2. written' \in Nat
  BY LoopStepInv DEF RingInv, RingTypeOK
<1>3. /\ written \in Nat /\ Capacity \in Nat \ {0} /\ todo \in Nat
      /\ \A b \in Buffer : wr_offset(b) \in Nat
  BY <1>1, RingTypes
<1>4. ASSUME AppendToLast PROVE written' > written
  <2>1. PICK b \in Buffer : b = Last(buffers)
    BY <1>1, <1>4 DEF AppendToLast, Last, RingTypeOK
  <2>2. Lesser(todo, canWrSize(b)) \in Int
    BY <1>3 DEF Lesser, canWrSize
  <2>3. Lesser(todo, canWrSize(b)) > 0 /\ written' = written + Lesser(todo, canWrSize(b))
    BY <1>4, <2>1 DEF AppendToLast
  <2> QED
    BY <1>3, <2>2, <2>3
<1>5. ASSUME \E b \in Buffer : AppendNew(b) PROVE written' > written
  <2>1. Lesser(todo, Capacity) \in Nat /\ (todo > 0 => Lesser(todo, Capacity) > 0)
    BY <1>3 DEF Lesser
  <2>2. todo > 0 /\ written' = written + Lesser(todo, Capacity)
    BY <1>5 DEF AppendNew
  <2> QED
    BY <1>3, <2>1, <2>2
<1>6. ReadFront \/ RecycleFront => written' = written
  BY DEF ReadFront, RecycleFront
<1> QED
  BY <1>2, <1>4, <1>5, <1>6 DEF LoopStep

\* A message the application takes is the next one, and its last byte has arrived.
LEMMA TakesNext == ASSUME SessionInv, processReceivedMsg PROVE Stream!Handle
<1>1. /\ alive /\ UNCHANGED <<written, alive>> /\ recived_msg_queue # <<>>
      /\ handled' = Append(handled, Head(recived_msg_queue))
  BY DEF processReceivedMsg, ringVars
<1>2. /\ recived_msg_queue \in Seq([frame : Frame, whole : BOOLEAN])
      /\ handled \in Seq([frame : Frame, whole : BOOLEAN])
  BY DEF SessionInv, SessionTypes
<1>3. PICK q \in Nat, d \in Nat : q = Len(recived_msg_queue) /\ d = Len(handled) /\ Given = d + q
  BY <1>2, LenProperties DEF Given
<1>4. q >= 1
  BY <1>1, <1>2, <1>3
<1> DEFINE msg == recived_msg_queue[1]
<1>5. msg \in [frame : Frame, whole : BOOLEAN] /\ msg.frame = d + 1 /\ Head(recived_msg_queue) = msg
  <2>1. 1 \in 1 .. Len(recived_msg_queue)
    BY <1>3, <1>4
  <2>2. msg \in [frame : Frame, whole : BOOLEAN]
    BY <1>2, <2>1, ElementOfSeq
  <2> QED
    BY <1>2, <1>3, <2>1, <2>2 DEF SessionInv, Numbered
<1>6. d + 1 \in Frame
  BY <1>5
<1>7. FrameEnd[d + 1] <= written
  <2>1. /\ Given \in 0 .. Len(Lengths) /\ FrameEnd[Given] <= Taken /\ Taken <= written
        /\ written \in Nat /\ Taken \in Nat /\ FrameEnd[Given] \in Nat /\ Len(Lengths) \in Nat
    BY SessionFacts
  <2>2. PICK j \in 0 .. Len(Lengths), k \in 0 .. Len(Lengths) : j = d + 1 /\ k = Given
    BY <1>3, <1>4, <2>1
  <2>3. FrameEnd[j] \in Nat /\ FrameEnd[k] \in Nat /\ HEADER_LEN \in Nat
    BY FrameEnds
  <2>4. j = k \/ FrameEnd[j] + HEADER_LEN <= FrameEnd[k]
    BY <1>3, <1>4, <2>2, FramesInOrder
  <2>5. FrameEnd[j] <= FrameEnd[k]
    BY <2>3, <2>4
  <2> QED
    BY <2>1, <2>2, <2>3, <2>5
<1> HIDE DEF msg
<1>8. /\ DOMAIN handled = 1 .. d
      /\ DOMAIN handled' = 1 .. d + 1
      /\ \A i \in 1 .. d : handled'[i] = handled[i]
      /\ handled'[d + 1] = msg
  <2>1. handled' = Append(handled, msg)
    BY <1>1, <1>5
  <2>2. /\ Append(handled, msg) \in Seq([frame : Frame, whole : BOOLEAN])
        /\ Len(Append(handled, msg)) = d + 1
        /\ \A i \in 1 .. d : Append(handled, msg)[i] = handled[i]
        /\ Append(handled, msg)[d + 1] = msg
    BY <1>2, <1>3, <1>5, AppendProperties
  <2> QED
    BY <1>2, <1>3, <2>1, <2>2, LenProperties
<1>9. Seen = [i \in 1 .. d |-> i] /\ Seen' = [i \in 1 .. d + 1 |-> i]
  <2>1. \A i \in 1 .. d : handled[i].frame = i
    BY <1>3 DEF SessionInv, Numbered
  <2>2. \A i \in 1 .. d + 1 : handled'[i].frame = i
    <3>1. \A i \in 1 .. d + 1 : i \in 1 .. d \/ i = d + 1
      OBVIOUS
    <3> QED
      BY <1>5, <1>8, <2>1, <3>1
  <2> QED
    BY <1>8, <2>1, <2>2 DEF Seen
<1>10. Len(Seen) = d /\ Seen' = Append(Seen, d + 1)
  <2> DEFINE upto(n) == [i \in 1 .. n |-> i]
  <2>1. upto(d) \in Seq(Nat) /\ Len(upto(d)) = d /\ \A i \in 1 .. d : upto(d)[i] = i
    OBVIOUS
  <2>2. upto(d + 1) \in Seq(Nat) /\ Len(upto(d + 1)) = d + 1 /\ \A i \in 1 .. d + 1 : upto(d + 1)[i] = i
    OBVIOUS
  <2> DEFINE old == upto(d)
             new == upto(d + 1)
  <2>3. old \in Seq(Nat) /\ Len(old) = d /\ \A i \in 1 .. d : old[i] = i
    BY <2>1
  <2>4. new \in Seq(Nat) /\ Len(new) = d + 1 /\ \A i \in 1 .. d + 1 : new[i] = i
    BY <2>2
  <2>5. Seen = old /\ Seen' = new
    BY <1>9
  <2> HIDE DEF old, new, upto
  <2>6. /\ Append(old, d + 1) \in Seq(Nat) /\ Len(Append(old, d + 1)) = d + 1
        /\ \A i \in 1 .. d : Append(old, d + 1)[i] = old[i]
        /\ Append(old, d + 1)[d + 1] = d + 1
    BY <2>3, AppendProperties
  <2>7. \A i \in 1 .. d + 1 : Append(old, d + 1)[i] = new[i]
    <3>1. \A i \in 1 .. d + 1 : i \in 1 .. d \/ i = d + 1
      OBVIOUS
    <3> QED
      BY <2>3, <2>4, <2>6, <3>1
  <2>8. Append(old, d + 1) = new
    BY <2>4, <2>6, <2>7, SeqEqual
  <2> QED
    BY <2>3, <2>5, <2>8
<1> QED
  BY <1>1, <1>6, <1>7, <1>10 DEF Stream!Handle, Seen

LEMMA StepStreams == SessionInv /\ [Next]_vars => [Stream!Next]_(Stream!vars)
<1> SUFFICES ASSUME SessionInv, [Next]_vars PROVE Stream!Next \/ UNCHANGED Stream!vars
  OBVIOUS
<1>1. CASE UNCHANGED vars
  BY <1>1 DEF vars, ringVars, app, Stream!vars
<1>2. CASE \/ \E b \in Buffer : Start(b) \/ ReceiveFails(b)
           \/ \E n \in 1 .. MaxBytes : ReceiveData(n)
           \/ ParseHead \/ HeadRead \/ ParseBody \/ BodyRead \/ setMsgCallback
  BY <1>2 DEF Start, ReceiveFails, ReceiveData, ParseHead, HeadRead, ParseBody, BodyRead,
     setMsgCallback, AllocBuff, GiveUp, WriteData, Break, Read, ringVars, app, Stream!vars
<1>3. CASE \E b \in Buffer, n \in 1 .. Capacity : Receive(b, n)
  <2>1. PICK n \in 1 .. Capacity : alive /\ written' = written + n /\ UNCHANGED <<handled, alive>>
    BY <1>3 DEF Receive, EmplaceBack, app
  <2>2. written' \in Nat /\ written' > written
    BY <2>1, SessionFacts
  <2>3. Stream!Arrive
    BY <2>1, <2>2 DEF Stream!Arrive
  <2> QED
    BY <2>3 DEF Stream!Next
<1>4. CASE Loop
  <2>1. alive /\ LoopStep /\ UNCHANGED <<handled, alive>>
    BY <1>4 DEF Loop, app
  <2>2. written' = written \/ (written' \in Nat /\ written' > written)
    BY <2>1, LoopWrites DEF SessionInv
  <2> QED
    BY <2>1, <2>2 DEF Stream!Arrive, Stream!Next, Stream!vars
<1>5. CASE ReceiveDangling \/ BodyCrash \/ processCrash
  <2>1. Stream!Fail
    BY <1>5 DEF ReceiveDangling, BodyCrash, processCrash, ringVars, app, Stream!Fail
  <2> QED
    BY <2>1 DEF Stream!Next
<1>6. CASE processReceivedMsg
  BY <1>6, TakesNext DEF Stream!Next
<1> QED
  BY <1>1, <1>2, <1>3, <1>4, <1>5, <1>6 DEF Next, Parse, Process

\* However the network cuts the stream and the parser stops and goes on, the application
\* handles the peer's messages one by one in the order of the stream, each once and none before
\* its last byte has come in: TcpSession implements MessageStream.
THEOREM InOrderAndOnce == Spec => StreamSpec
<1>1. Init => Stream!Init
  <2> SUFFICES ASSUME Init PROVE Stream!Init
    OBVIOUS
  <2>1. written = 0 /\ handled = <<>> /\ alive = TRUE
    BY DEF Init, RingInit
  <2>2. Seen = <<>>
    BY <2>1 DEF Seen
  <2> QED
    BY <2>1, <2>2 DEF Stream!Init, Seen
<1>2. Spec => []SessionInv
  BY InitSession, NextSession, PTL DEF Spec
<1> QED
  BY <1>1, <1>2, StepStreams, PTL DEF Spec, StreamSpec, Stream!Spec

\* The queue as the session uses it: a Message is made and put in, or taken out and handled.
Received == [frame : Frame, whole : BOOLEAN]
Nothing  == [frame |-> 0, whole |-> FALSE]

Fifo == INSTANCE MessageFifo WITH
          Item   <- Received,
          NoItem <- Nothing,
          queue  <- recived_msg_queue,
          answer <- IF handled = <<>> THEN Nothing ELSE handled[Len(handled)]

\* Of its queue the session needs no more than what MessageFifo has, which is what
\* MPSCQueueNonIntrusive is for a single sender such as the strand.
THEOREM QueueIsFifo == Spec => Fifo!Spec
<1>1. Init => Fifo!Init
  BY DEF Init, Fifo!Init
<1>2. TypeOK /\ TypeOK' /\ [Next]_vars => [Fifo!Next]_(Fifo!vars)
  <2> SUFFICES ASSUME TypeOK, TypeOK', [Next]_vars PROVE [Fifo!Next]_(Fifo!vars)
    OBVIOUS
  <2> USE DEF Fifo!vars
  <2>0. /\ recived_msg_queue \in Seq(Received) /\ recived_msg_queue' \in Seq(Received)
        /\ handled \in Seq(Received)
    BY DEF TypeOK, Received
  <2>1. CASE BodyRead
    <3>1. PICK m : /\ m = [frame |-> cur_header, whole |-> msg_len = 0]
                   /\ recived_msg_queue' = Append(recived_msg_queue, m)
      BY <2>1 DEF BodyRead
    <3>2. Len(recived_msg_queue') = Len(recived_msg_queue) + 1
          /\ recived_msg_queue'[Len(recived_msg_queue) + 1] = m
      BY <2>0, <3>1
    <3>3. m \in Received
      BY <2>0, <3>2
    <3>4. UNCHANGED handled
      BY <2>1 DEF BodyRead, app
    <3> QED
      BY <3>1, <3>3, <3>4 DEF Fifo!Next, Fifo!Put
  <2>2. CASE processReceivedMsg
    <3>1. PICK m : m = Head(recived_msg_queue)
      OBVIOUS
    <3>2. /\ recived_msg_queue # <<>> /\ recived_msg_queue' = Tail(recived_msg_queue)
          /\ handled' = Append(handled, m)
      BY <2>2, <3>1 DEF processReceivedMsg
    <3>3. handled' # <<>> /\ handled'[Len(handled')] = m
      <4>1. m \in Received
        BY <2>0, <3>1, <3>2
      <4>2. Len(handled') = Len(handled) + 1 /\ handled'[Len(handled) + 1] = m
        BY <2>0, <3>2, <4>1
      <4>3. handled' # <<>>
        BY <2>0, <4>2
      <4> QED
        BY <4>2, <4>3
    <3> QED
      BY <3>1, <3>2, <3>3 DEF Fifo!Next, Fifo!Take
  <2>3. CASE ~BodyRead /\ ~processReceivedMsg
    <3>1. UNCHANGED <<recived_msg_queue, handled>>
      BY <2>3 DEF Next, Parse, Process, Start, Receive, ReceiveFails, ReceiveDangling,
                  ReceiveData, Loop, ParseHead, HeadRead, ParseBody, BodyCrash, setMsgCallback,
                  processCrash, app, vars
    <3> QED
      BY <3>1
  <2> QED
    BY <2>1, <2>2, <2>3
<1>3. SessionOK => TypeOK
  BY DEF SessionOK
<1> QED
  BY <1>1, <1>2, <1>3, HandedOverPromptly, PTL DEF Fifo!Spec, Spec

-----------------------------------------------------------------------------
(* Server: the index of IoConnectPool that goes round the contexts *)

\* Those that were given out once more than the others are the ones the index has passed
\* since it was at start.
PassedSince(start, n) ==
    ahead = IF start <= index THEN start .. index - 1 ELSE (start .. n - 1) \cup (0 .. index - 1)

SpreadInv ==
    /\ phase = "init" => index \in Nat /\ ahead = {}
    /\ phase \in {"run", "running"} =>
          \E n \in PoolSizes : /\ contexts = 0 .. n - 1 /\ index \in contexts
                               /\ \E start \in contexts : PassedSince(start, n)

\* Drawing one more from n contexts.
LEMMA DrawSpreads ==
  ASSUME NEW n \in Nat, IndexRange \in Nat, n < IndexRange, contexts' = 0 .. n - 1,
         index \in 0 .. n - 1, Server1!Draw,
         NEW start \in 0 .. n - 1, PassedSince(start, n)
  PROVE  index' \in 0 .. n - 1 /\ \E s \in 0 .. n - 1 : PassedSince(s, n)'
<1>1. Server1!Cardinality(contexts') = n
  <2>1. Cardinality(contexts') = n
    BY FS_Interval
  <2>2. \A S : Server1!Cardinality(S) = Cardinality(S)
    BY DEF Server1!Cardinality, Cardinality
  <2> QED
    BY <2>1, <2>2
<1>2. index' = IF index + 1 = n THEN 0 ELSE index + 1
  <2>1. index + 1 # n => (index + 1) % IndexRange = index + 1
    <3> SUFFICES ASSUME index + 1 # n PROVE (index + 1) % IndexRange = index + 1
      OBVIOUS
    <3>1. index + 1 \in 0 .. IndexRange - 1
      OBVIOUS
    <3> QED
      BY <3>1
  <2>2. index' = IF index + 1 = n THEN 0 ELSE (index + 1) % IndexRange
    BY <1>1, Zenon DEF Server1!Draw, Server1!Advance
  <2> QED
    BY <2>1, <2>2
<1>3. index' \in 0 .. n - 1
  BY <1>2
<1>4. CASE ahead \cup {index} = 0 .. n - 1
  <2>1. ahead' = {}
    BY <1>4 DEF Server1!Draw
  <2>2. PICK s \in 0 .. n - 1 : s = index' /\ s <= index'
    BY <1>3
  <2>3. s .. s - 1 = {}
    OBVIOUS
  <2>4. PassedSince(s, n)'
    <3>1. ahead' = s .. index' - 1
      BY <2>1, <2>2, <2>3
    <3> QED
      BY <2>2, <3>1 DEF PassedSince
  <2> QED
    BY <1>3, <2>4
<1>5. CASE ahead \cup {index} # 0 .. n - 1
  <2>1. ahead' = ahead \cup {index}
    BY <1>5 DEF Server1!Draw
  <2>2. CASE start <= index
    <3>1. ahead' = start .. index
      BY <2>1, <2>2 DEF PassedSince
    <3>2. index + 1 = n => start > 0
      BY <1>5, <2>1, <3>1
    <3>3. PassedSince(start, n)'
      <4>1. CASE index + 1 = n
        <5>1. index' = 0 /\ index = n - 1 /\ ~(start <= index')
          BY <1>2, <3>2, <4>1
        <5>2. ahead' = (start .. n - 1) \cup (0 .. index' - 1)
          BY <3>1, <5>1
        <5> QED
          BY <5>1, <5>2 DEF PassedSince
      <4>2. CASE index + 1 # n
        <5>1. index' = index + 1 /\ start <= index' /\ ahead' = start .. index' - 1
          BY <1>2, <2>2, <3>1, <4>2
        <5> QED
          BY <5>1 DEF PassedSince
      <4> QED
        BY <4>1, <4>2
    <3> QED
      BY <1>3, <3>3
  <2>3. CASE start > index
    <3>1. ahead' = (start .. n - 1) \cup (0 .. index)
      BY <2>1, <2>3 DEF PassedSince
    <3>2. index + 1 # start
      BY <1>5, <2>1, <2>3, <3>1
    <3>3. PassedSince(start, n)'
      BY <1>2, <2>3, <3>1, <3>2 DEF PassedSince
    <3> QED
      BY <1>3, <3>3
  <2> QED
    BY <2>2, <2>3
<1> QED
  BY <1>4, <1>5

\* The contexts of the server get the same share of the sockets, within one, for pools of
\* any size and any value the index has when it is made, unless it is beyond the pool.
THEOREM SocketsSpread == Server1!Spec => []EvenSpread
<1>1. Server1!Init => SpreadInv
  BY DEF Server1!Init, SpreadInv
<1>2. SpreadInv /\ [Server1!Next]_(Server1!vars) => SpreadInv'
  <2> SUFFICES ASSUME SpreadInv, [Server1!Next]_(Server1!vars) PROVE SpreadInv'
    OBVIOUS
  <2>1. CASE \E n \in PoolSizes : Server1!ServerInit(n)
    <3>1. PICK n \in PoolSizes : Server1!ServerInit(n)
      BY <2>1
    <3>2. phase = "init" /\ ahead = {} /\ contexts' = 0 .. n - 1 /\ index \in Nat
      BY <3>1 DEF Server1!ServerInit, SpreadInv
    <3> SUFFICES ASSUME phase' \in {"run", "running"} PROVE SpreadInv'
      BY <3>1 DEF Server1!ServerInit, SpreadInv
    <3>3. index \in 0 .. n - 1 /\ Server1!Draw /\ phase' = "run"
      BY <3>1, <3>2 DEF Server1!ServerInit
    <3>4. PassedSince(index, n)
      BY <3>2, <3>3 DEF PassedSince
    <3>5. index' \in 0 .. n - 1 /\ \E s \in 0 .. n - 1 : PassedSince(s, n)'
      BY <3>2, <3>3, <3>4, DrawSpreads, ServerAssumption
    <3> QED
      BY <3>2, <3>3, <3>5 DEF SpreadInv
  <2>2. CASE Server1!Run \/ Server1!AcceptHandler
    <3>1. /\ phase \in {"run", "running"} /\ phase' = "running"
          /\ UNCHANGED contexts /\ Server1!Draw
      BY <2>2 DEF Server1!Run, Server1!AcceptHandler, Server1!Serving, Server1!Handler,
                  Server1!StartAccept
    <3>2. PICK n \in PoolSizes : /\ contexts = 0 .. n - 1 /\ index \in contexts
                                 /\ \E start \in contexts : PassedSince(start, n)
      BY <3>1 DEF SpreadInv
    <3>3. PICK start \in 0 .. n - 1 : PassedSince(start, n)
      BY <3>2
    <3>4. index' \in 0 .. n - 1 /\ \E s \in 0 .. n - 1 : PassedSince(s, n)'
      BY <3>1, <3>2, <3>3, DrawSpreads, ServerAssumption
    <3> QED
      BY <3>1, <3>2, <3>4 DEF SpreadInv
  <2>3. ASSUME UNCHANGED <<contexts, index, ahead>>,
               phase' \notin {"init", "run", "running"} \/ phase' = phase
        PROVE  SpreadInv'
    BY <2>3 DEF SpreadInv, PassedSince
  <2>4. CASE (\E result \in {"ok", "error"} : Server1!Complete(result)) \/ Server1!StopAccept
    BY <2>3, <2>4 DEF Server1!Complete, Server1!StopAccept
  <2>5. CASE Server1!Expire \/ Server1!TimerHandler
    BY <2>3, <2>5 DEF Server1!Expire, Server1!TimerHandler
  <2>6. CASE Server1!Connect \/ Server1!ConnectHandler
    BY <2>3, <2>6 DEF Server1!Connect, Server1!ConnectHandler, Server1!Serving
  <2>7. CASE Server1!Stop \/ Server1!RunReturns
    BY <2>3, <2>7 DEF Server1!Stop, Server1!RunReturns
  <2>8. CASE \E c \in contexts : Server1!ContextReturns(c)
    BY <2>3, <2>8 DEF Server1!ContextReturns
  <2>9. CASE Server1!Over \/ UNCHANGED Server1!vars
    BY <2>3, <2>9 DEF Server1!Over, Server1!vars
  <2> QED
    BY <2>1, <2>2, <2>4, <2>5, <2>6, <2>7, <2>8, <2>9 DEF Server1!Next
<1>3. SpreadInv => EvenSpread
  <2> SUFFICES ASSUME SpreadInv, phase \in {"run", "running"} PROVE index \in contexts \ ahead
    BY DEF EvenSpread, Server1!EvenSpread
  <2>1. PICK n \in PoolSizes : /\ contexts = 0 .. n - 1 /\ index \in contexts
                               /\ \E start \in contexts : PassedSince(start, n)
    BY DEF SpreadInv
  <2> QED
    BY <2>1 DEF PassedSince
<1> QED
  BY <1>1, <1>2, <1>3, PTL DEF Server1!Spec

\* A context that has its work guard returns only when it was stopped.
ServingInv == /\ phase \in {"run", "running"} => work = contexts
              /\ Server1!NothingForgotten

\* For every size of the pool, a server that runs and was not stopped has all its contexts,
\* and its timer and its acceptor always have something under way, whatever fails.
THEOREM ServerForgetsNothing == Server1!Spec => []Server1!NothingForgotten
<1> USE DEF ServingInv, Server1!NothingForgotten, Server1!Stopping
<1>1. Server1!Init => ServingInv
  BY DEF Server1!Init
<1>2. ServingInv /\ [Server1!Next]_(Server1!vars) => ServingInv'
  <2> SUFFICES ASSUME ServingInv, [Server1!Next]_(Server1!vars) PROVE ServingInv'
    OBVIOUS
  <2>1. ASSUME NEW n \in PoolSizes, Server1!ServerInit(n) PROVE ServingInv'
    BY <2>1 DEF Server1!ServerInit
  <2>2. CASE Server1!Run
    BY <2>2 DEF Server1!Run, Server1!StartAccept
  <2>3. ASSUME NEW result \in {"ok", "error"}, Server1!Complete(result) PROVE ServingInv'
    BY <2>3 DEF Server1!Complete
  <2>4. CASE Server1!AcceptHandler
    BY <2>4 DEF Server1!AcceptHandler, Server1!Handler, Server1!StartAccept
  <2>5. CASE Server1!StopAccept
    BY <2>5 DEF Server1!StopAccept
  <2>6. CASE Server1!Expire \/ Server1!TimerHandler
    BY <2>6 DEF Server1!Expire, Server1!TimerHandler
  <2>7. CASE Server1!Connect \/ Server1!ConnectHandler
    BY <2>7 DEF Server1!Connect, Server1!ConnectHandler, Server1!Serving
  <2>8. CASE Server1!Stop \/ Server1!RunReturns
    BY <2>8 DEF Server1!Stop, Server1!RunReturns
  <2>9. ASSUME NEW c \in contexts, Server1!ContextReturns(c) PROVE ServingInv'
    BY <2>9 DEF Server1!ContextReturns, Server1!Serving
  <2>10. CASE Server1!Over \/ UNCHANGED Server1!vars
    BY <2>10 DEF Server1!Over, Server1!vars
  <2> QED
    BY <2>1, <2>2, <2>3, <2>4, <2>5, <2>6, <2>7, <2>8, <2>9, <2>10 DEF Server1!Next
<1>3. ServingInv => Server1!NothingForgotten
  OBVIOUS
<1> QED
  BY <1>1, <1>2, <1>3, PTL DEF Server1!Spec

=============================================================================
