--------------------- MODULE ProducerConsumerQueueProofs ---------------------
(***************************************************************************)
(* Proofs about ProducerConsumerQueue, SyncQueue, SyncQueueBlocking and    *)
(* LockedQueue, for any number of threads and items, and about Thread.     *)
(***************************************************************************)
EXTENDS MCProducerConsumerQueue, SequenceTheorems, FiniteSetTheorems, TLAPS

-----------------------------------------------------------------------------
(* Sequences *)

\* Appending to a concatenation appends to the second part.
LEMMA ConcatAppend ==
  ASSUME NEW S, NEW s \in Seq(S), NEW t \in Seq(S), NEW e \in S
  PROVE  s \o Append(t, e) = Append(s \o t, e)
<1>1. Append(t, e) = t \o <<e>> /\ <<e>> \in Seq(S)
  BY AppendIsConcat
<1>2. Append(s \o t, e) = (s \o t) \o <<e>>
  BY ConcatProperties, AppendIsConcat
<1> QED
  BY <1>1, <1>2, ConcatAssociative

\* An element moves from the front of one sequence to the end of the one before.
LEMMA MoveHead ==
  ASSUME NEW S, NEW s \in Seq(S), NEW t \in Seq(S), t # <<>>
  PROVE  Append(s, Head(t)) \o Tail(t) = s \o t
<1> DEFINE h == Head(t)
<1>1. h \in S /\ Tail(t) \in Seq(S) /\ <<h>> \in Seq(S)
  BY HeadTailProperties
<1>2. Append(s, h) = s \o <<h>>
  BY <1>1, AppendIsConcat
<1>3. (s \o <<h>>) \o Tail(t) = s \o (<<h>> \o Tail(t))
  BY <1>1, ConcatAssociative
<1>4. <<h>> \o Tail(t) = t
  OBVIOUS
<1> QED
  BY <1>2, <1>3, <1>4

\* A slice of a sequence is one, and two that meet make up the whole.
LEMMA SliceType ==
  ASSUME NEW S, NEW s \in Seq(S), NEW m \in Nat \ {0}, NEW n \in 0 .. Len(s)
  PROVE  SubSeq(s, m, n) \in Seq(S)
<1>1. \A i \in m .. n : s[i] \in S
  BY ElementOfSeq, LenProperties
<1>2. m \in Int /\ n \in Int
  BY LenProperties
<1> QED
  BY <1>1, <1>2, SubSeqProperties

LEMMA SliceInTwo ==
  ASSUME NEW S, NEW s \in Seq(S), NEW k \in 0 .. Len(s)
  PROVE  /\ SubSeq(s, 1, k) \in Seq(S) /\ SubSeq(s, k + 1, Len(s)) \in Seq(S)
         /\ SubSeq(s, 1, k) \o SubSeq(s, k + 1, Len(s)) = s
<1> DEFINE n == Len(s)
<1>1. n \in Nat /\ k \in 0 .. n
  BY LenProperties
<1>2. SubSeq(s, 1, k) \o SubSeq(s, k + 1, n) = SubSeq(s, 1, n)
  <2>1. 1 \in 1 .. n + 1 /\ k \in 1 - 1 .. n /\ n \in k .. n
    BY <1>1
  <2> QED
    BY <2>1, ConcatAdjacentSubSeq
<1>3. SubSeq(s, 1, n) = s
  BY SubSeqFull
<1> QED
  <2>1. 1 \in Nat \ {0} /\ k + 1 \in Nat \ {0} /\ n \in 0 .. n
    BY <1>1
  <2>2. SubSeq(s, 1, k) \in Seq(S) /\ SubSeq(s, k + 1, n) \in Seq(S)
    BY <2>1, SliceType
  <2> QED
    BY <1>2, <1>3, <2>2

\* Concatenation under a name that the provers do not look into.  Where many sequences
\* are in sight, all that they know of \o leads them astray.
Cat(s, t) == s \o t

LEMMA CatType ==
  ASSUME NEW S, NEW s \in Seq(S), NEW t \in Seq(S)
  PROVE  Cat(s, t) \in Seq(S) /\ Cat(s, <<>>) = s /\ Cat(<<>>, s) = s
BY ConcatProperties, ConcatEmptySeq DEF Cat

LEMMA CatAssoc ==
  ASSUME NEW S, NEW s \in Seq(S), NEW t \in Seq(S), NEW u \in Seq(S)
  PROVE  Cat(Cat(s, t), u) = Cat(s, Cat(t, u))
BY ConcatAssociative DEF Cat

LEMMA CatRegroup ==
  ASSUME NEW S, NEW a \in Seq(S), NEW b \in Seq(S), NEW c \in Seq(S), NEW d \in Seq(S)
  PROVE  Cat(Cat(a, b), Cat(c, d)) = Cat(Cat(a, Cat(b, c)), d)
<1>1. Cat(a, b) \in Seq(S)
  BY CatType
<1> QED
  BY <1>1, CatAssoc

\* An element moves from the front of one sequence to the end of the one before, which
\* may stand behind another.
LEMMA CatMoveHead ==
  ASSUME NEW S, NEW a \in Seq(S), NEW s \in Seq(S), NEW t \in Seq(S), t # <<>>
  PROVE  Cat(Cat(a, Append(s, Head(t))), Tail(t)) = Cat(Cat(a, s), t)
<1>1. PICK u \in Seq(S), v \in Seq(S) :
         u = Append(s, Head(t)) /\ v = Tail(t) /\ Cat(u, v) = Cat(s, t)
  <2>1. Append(s, Head(t)) \in Seq(S) /\ Tail(t) \in Seq(S)
    BY HeadTailProperties, AppendProperties
  <2> QED
    BY <2>1, MoveHead DEF Cat
<1>2. Cat(Cat(a, u), v) = Cat(a, Cat(u, v))
  BY CatAssoc
<1>3. Cat(Cat(a, s), t) = Cat(a, Cat(s, t))
  BY CatAssoc
<1> QED
  BY <1>1, <1>2, <1>3

-----------------------------------------------------------------------------

\* What Cancel() deletes is never followed by an item that a consumer got.
Conserved == NothingLost /\ (~shutdown => deleted = <<>>)

IInv == TypeOK /\ NoLostWakeup /\ Conserved

\* How many are woken after one more or one less is.
LEMMA WokenCount ==
  \A w \in SUBSET Consumer :
     /\ Cardinality(w) \in Nat
     /\ \A c : /\ c \notin w => Cardinality(w \cup {c}) = Cardinality(w) + 1
               /\ c \in w => Cardinality(w \ {c}) = Cardinality(w) - 1
<1> SUFFICES ASSUME NEW w \in SUBSET Consumer, NEW c
             PROVE  /\ Cardinality(w) \in Nat
                    /\ c \notin w => Cardinality(w \cup {c}) = Cardinality(w) + 1
                    /\ c \in w => Cardinality(w \ {c}) = Cardinality(w) - 1
  OBVIOUS
<1>1. IsFiniteSet(w)
  BY QueueAssumption, FS_Subset DEF QueueAssumption
<1> QED
  BY <1>1, FS_CardinalityType, FS_AddElement, FS_RemoveElement

LEMMA InitIInv == Init => IInv
<1> SUFFICES ASSUME Init PROVE IInv
  OBVIOUS
<1>1. <<>> \in Seq(Item) /\ <<>> \o <<>> = <<>>
  BY ConcatEmptySeq
<1> QED
  BY <1>1 DEF Init, IInv, TypeOK, NoLostWakeup, Conserved, NothingLost

\* Taking the front item keeps the types and the order.
LEMMA TakeFrontKeeps ==
  ASSUME TypeOK, Conserved, queue # <<>>, ~shutdown, TakeFront
  PROVE  /\ queue' \in Seq(Item) /\ pushed' \in Seq(Item)
         /\ taken' \in Seq(Item) /\ deleted' \in Seq(Item)
         /\ UNCHANGED shutdown
         /\ Len(queue') = Len(queue) - 1
         /\ Conserved'
<1> USE DEF TypeOK, TakeFront
<1>1. Head(queue) \in Item /\ Tail(queue) \in Seq(Item) /\ Len(Tail(queue)) = Len(queue) - 1
  BY HeadTailProperties
<1>2. taken' \in Seq(Item)
  BY <1>1, AppendProperties
<1>3. pushed = taken \o queue
  <2>1. taken \o <<>> = taken
    BY ConcatEmptySeq
  <2> QED
    BY <2>1 DEF Conserved, NothingLost
<1>4. taken' \o queue' = taken \o queue
  BY MoveHead
<1>5. taken' \o <<>> = taken'
  BY <1>2, ConcatEmptySeq
<1> QED
  BY <1>1, <1>2, <1>3, <1>4, <1>5 DEF Conserved, NothingLost

\* The loop of WaitAndPop(), entered or resumed, keeps the invariant.
LEMMA LoopKeeps ==
  ASSUME IInv, NEW c \in Consumer \ asleep, Loop(c)
  PROVE  IInv'
<1> USE DEF IInv
<1>1. asleep' \subseteq Consumer /\ woken' = woken \ {c} /\ woken' \subseteq Consumer
      /\ asleep' \cap woken' = {}
  BY DEF Loop, TypeOK
<1>2. Cardinality(woken) \in Nat /\ Cardinality(woken') \in Nat
      /\ (c \in woken => Cardinality(woken') = Cardinality(woken) - 1)
      /\ (c \notin woken => woken' = woken)
  <2>1. PICK w \in SUBSET Consumer : w = woken
    BY DEF TypeOK
  <2>2. woken' = w \ {c} /\ w \ {c} \in SUBSET Consumer
    BY <1>1, <2>1
  <2> QED
    BY <2>1, <2>2, WokenCount
<1>3. CASE queue = <<>> /\ ~shutdown
  <2>1. Nothing
    BY <1>3 DEF Loop
  <2>2. TypeOK'
    BY <1>1, <2>1 DEF Nothing, TypeOK
  <2>3. NoLostWakeup'
    BY <1>2, <1>3, <2>1 DEF Nothing, NoLostWakeup
  <2>4. Conserved'
    BY <2>1 DEF Nothing, Conserved, NothingLost
  <2> QED
    BY <2>2, <2>3, <2>4
<1>4. CASE shutdown
  <2>1. Nothing /\ asleep' = asleep
    BY <1>4 DEF Loop
  <2>2. TypeOK'
    BY <1>1, <2>1 DEF Nothing, TypeOK
  <2>3. NoLostWakeup'
    BY <1>4, <2>1 DEF Nothing, NoLostWakeup
  <2>4. Conserved'
    BY <2>1 DEF Nothing, Conserved, NothingLost
  <2> QED
    BY <2>2, <2>3, <2>4
<1>5. CASE queue # <<>> /\ ~shutdown
  <2>1. TakeFront /\ asleep' = asleep
    BY <1>5 DEF Loop
  <2>2. TypeOK' /\ Conserved' /\ UNCHANGED shutdown /\ Len(queue') = Len(queue) - 1
    BY <1>1, <1>5, <2>1, TakeFrontKeeps DEF TypeOK
  <2>3. Len(queue) \in Nat
    BY DEF TypeOK
  <2>4. NoLostWakeup'
    BY <1>2, <2>1, <2>2, <2>3 DEF NoLostWakeup
  <2> QED
    BY <2>2, <2>4
<1> QED
  BY <1>3, <1>4, <1>5

\* Every step keeps the invariant.
LEMMA NextIInv == IInv /\ [Next]_vars => IInv'
<1> SUFFICES ASSUME IInv, [Next]_vars PROVE IInv'
  OBVIOUS
<1> USE DEF IInv
<1>1. ASSUME NEW i \in Item, Push(i) PROVE IInv'
  <2>1. queue' \in Seq(Item) /\ Len(queue') = Len(queue) + 1 /\ Len(queue) \in Nat
    BY <1>1 DEF Push, TypeOK
  <2>2. pushed' \in Seq(Item)
    BY <1>1 DEF Push, TypeOK
  <2>3. Conserved'
    <3>1. PICK s \in Seq(Item), t \in Seq(Item) : s = taken \o deleted /\ t = queue
      BY ConcatProperties DEF TypeOK
    <3>2. s \o Append(t, i) = Append(s \o t, i)
      BY ConcatAppend
    <3> QED
      BY <1>1, <3>1, <3>2 DEF Push, Conserved, NothingLost
  <2>4. CASE asleep = {}
    <3>1. UNCHANGED <<asleep, woken>>
      BY <1>1, <2>4 DEF Push, NotifyOne
    <3> QED
      BY <1>1, <2>1, <2>2, <2>3, <2>4, <3>1 DEF Push, TypeOK, NoLostWakeup
  <2>5. CASE asleep # {}
    <3>1. PICK c \in asleep : asleep' = asleep \ {c} /\ woken' = woken \cup {c}
      BY <1>1, <2>5 DEF Push, NotifyOne
    <3>2. TypeOK'
      BY <1>1, <2>1, <2>2, <3>1 DEF Push, TypeOK
    <3>3. Cardinality(woken) \in Nat /\ Cardinality(woken') = Cardinality(woken) + 1
      <4>1. PICK w \in SUBSET Consumer : w = woken /\ c \notin w
        BY DEF TypeOK
      <4> QED
        BY <3>1, <4>1, WokenCount DEF TypeOK
    <3>4. NoLostWakeup'
      BY <1>1, <2>1, <2>5, <3>3 DEF Push, NoLostWakeup
    <3> QED
      BY <2>3, <3>2, <3>4
  <2> QED
    BY <2>4, <2>5
<1>2. CASE Pop
  <2>1. CASE queue = <<>> \/ shutdown
    BY <1>2, <2>1 DEF Pop, Nothing, TypeOK, NoLostWakeup, Conserved, NothingLost
  <2>2. CASE ~(queue = <<>> \/ shutdown)
    <3>1. TakeFront /\ UNCHANGED <<asleep, woken>>
      BY <1>2, <2>2 DEF Pop
    <3>2. TypeOK' /\ Conserved' /\ UNCHANGED shutdown /\ Len(queue') = Len(queue) - 1
      BY <2>2, <3>1, TakeFrontKeeps DEF TypeOK
    <3>3. Len(queue) \in Nat /\ (asleep = {} \/ Cardinality(woken) \in Nat)
      <4>1. PICK w \in SUBSET Consumer : w = woken
        BY DEF TypeOK
      <4> QED
        BY <4>1, WokenCount DEF TypeOK
    <3>4. NoLostWakeup'
      BY <3>1, <3>2, <3>3 DEF NoLostWakeup
    <3> QED
      BY <3>2, <3>4
  <2> QED
    BY <2>1, <2>2
<1>3. ASSUME NEW c \in Consumer, WaitAndPop(c) PROVE IInv'
  BY <1>3, LoopKeeps DEF WaitAndPop, Idle
<1>4. ASSUME NEW c \in Consumer, Resume(c) PROVE IInv'
  BY <1>4, LoopKeeps DEF Resume, TypeOK
<1>5. ASSUME NEW c \in Consumer, Spurious(c) PROVE IInv'
  <2>1. asleep' = asleep \ {c} /\ woken' = woken \cup {c} /\ Nothing /\ c \notin woken
    BY <1>5 DEF Spurious, TypeOK
  <2>2. Cardinality(woken) \in Nat /\ Cardinality(woken') = Cardinality(woken) + 1
    <3>1. PICK w \in SUBSET Consumer : w = woken
      BY DEF TypeOK
    <3> QED
      BY <2>1, <3>1, WokenCount
  <2>3. NoLostWakeup'
    BY <1>5, <2>1, <2>2 DEF Spurious, Nothing, NoLostWakeup, TypeOK
  <2> QED
    BY <2>1, <2>3 DEF Nothing, TypeOK, Conserved, NothingLost
<1>6. CASE Cancel
  <2>1. deleted' \in Seq(Item) /\ <<>> \in Seq(Item)
    BY <1>6, ConcatProperties DEF Cancel, TypeOK
  <2>2. taken' \o deleted' \o queue' = taken \o deleted \o queue
    <3>1. taken \o (deleted \o queue) = (taken \o deleted) \o queue
      BY ConcatAssociative, SMTT(30) DEF TypeOK
    <3>2. taken \o deleted' \in Seq(Item)
      BY <2>1, ConcatProperties DEF TypeOK
    <3>3. (taken \o deleted') \o <<>> = taken \o deleted'
      BY <3>2, ConcatEmptySeq
    <3> QED
      BY <1>6, <3>1, <3>3 DEF Cancel
  <2> QED
    BY <1>6, <2>1, <2>2 DEF Cancel, TypeOK, NoLostWakeup, Conserved, NothingLost
<1>7. CASE UNCHANGED vars
  BY <1>7 DEF vars, TypeOK, NoLostWakeup, Conserved, NothingLost
<1> QED
  BY <1>1, <1>2, <1>3, <1>4, <1>5, <1>6, <1>7 DEF Next

\* The invariant holds throughout.
THEOREM Inductive == Spec => []IInv
  BY InitIInv, NextIInv, PTL DEF Spec

\* All variables keep their types, and no consumer both sleeps and is awake.
THEOREM TypeCorrect == Spec => []TypeOK
  BY Inductive, PTL DEF IInv

\* However many consumers sleep, wake up for no reason or find their item gone, nobody
\* sleeps while an item is there that no awake consumer is coming for.
THEOREM WakeupsSuffice == Spec => []NoLostWakeup
  BY Inductive, PTL DEF IInv

\* No item is lost, repeated or reordered.
THEOREM ItemsConserved == Spec => []NothingLost
<1>1. IInv => NothingLost
  BY DEF IInv, Conserved
<1> QED
  BY Inductive, <1>1, PTL

-----------------------------------------------------------------------------
(* SyncQueue *)

Entry == Producer \X Nat

SyncTypeOK ==
    /\ data_list \in Seq(Entry) /\ added \in Seq(Entry) /\ removed \in Seq(Entry)
    /\ adding \subseteq Producer /\ calls \in [Producer -> Nat]
    /\ late \subseteq Entry

\* Only take(T&) removes what empty() saw.  A producer whose item came late is out of put(),
\* and put() lets it in no more.
SyncInv ==
    /\ SyncTypeOK
    /\ added = removed \o data_list /\ ~undefined
    /\ seen => data_list # <<>>
    /\ \A p \in Producer, m \in Nat : <<p, m>> \in late => need_stop /\ p \notin adding
    /\ \A p \in Producer, m, n \in Nat : <<p, m>> \in late /\ <<p, n>> \in late => m = n

\* For any number of producers and puts, the queue keeps the order, take(T&) finds what
\* empty() saw, and each producer gets in one item at most after stop().
THEOREM StopBounded == Sync!Spec => []StopLetsOneIn
<1> USE DEF SyncInv, SyncTypeOK
<1>1. Sync!Init => SyncInv
  BY ConcatEmptySeq, EmptySeq DEF Sync!Init
<1>2. SyncInv /\ [Sync!Next]_(Sync!vars) => SyncInv'
  <2> SUFFICES ASSUME SyncInv, [Sync!Next]_(Sync!vars) PROVE SyncInv'
    OBVIOUS
  <2>1. ASSUME NEW p \in Producer, Sync!Put(p) PROVE SyncInv'
    BY <2>1 DEF Sync!Put
  <2>2. ASSUME NEW p \in Producer, Sync!Add(p) PROVE SyncInv'
    <3>1. PICK item \in Entry : item = <<p, calls[p]>>
      BY DEF Entry
    <3>2. /\ data_list' = Append(data_list, item) /\ added' = Append(added, item)
          /\ removed' = removed /\ undefined' = undefined /\ seen' = seen
          /\ p \in adding /\ adding' = adding \ {p} /\ need_stop' = need_stop /\ calls' = calls
          /\ late' = IF need_stop THEN late \cup {item} ELSE late
      BY <2>2, <3>1 DEF Sync!Add
    <3>3. data_list' \in Seq(Entry) /\ added' \in Seq(Entry) /\ data_list' # <<>>
      BY <3>1, <3>2, AppendProperties
    <3>4. added' = removed' \o data_list'
      <4>1. removed \o Append(data_list, item) = Append(removed \o data_list, item)
        BY ConcatAppend
      <4> QED
        BY <3>2, <4>1
    <3>5. \A q \in Producer, m \in Nat : <<q, m>> \in late' => need_stop' /\ q \notin adding'
      BY <3>1, <3>2
    <3>6. \A q \in Producer, m, n \in Nat : <<q, m>> \in late' /\ <<q, n>> \in late' => m = n
      BY <3>1, <3>2
    <3> QED
      BY <3>1, <3>2, <3>3, <3>4, <3>5, <3>6
  <2>3. CASE Sync!TakeAll
    <3>1. removed' \in Seq(Entry) /\ removed' \o <<>> = removed' /\ <<>> \in Seq(Entry)
      BY <2>3, ConcatProperties, ConcatEmptySeq, EmptySeq DEF Sync!TakeAll
    <3> QED
      BY <2>3, <3>1 DEF Sync!TakeAll
  <2>4. CASE Sync!Empty
    BY <2>4 DEF Sync!Empty
  <2>5. CASE Sync!TakeOne
    <3>1. /\ data_list # <<>> /\ removed' = Append(removed, Head(data_list))
          /\ data_list' = Tail(data_list) /\ undefined' = undefined
      BY <2>5 DEF Sync!TakeOne
    <3>2. Head(data_list) \in Entry /\ data_list' \in Seq(Entry)
      BY <3>1, HeadTailProperties
    <3>3. removed' \in Seq(Entry)
      BY <3>1, <3>2, AppendProperties
    <3>4. removed' \o data_list' = removed \o data_list
      BY <3>1, MoveHead
    <3> QED
      BY <2>5, <3>1, <3>2, <3>3, <3>4 DEF Sync!TakeOne
  <2>6. CASE Sync!Stop
    BY <2>6 DEF Sync!Stop
  <2>7. CASE UNCHANGED Sync!vars
    BY <2>7 DEF Sync!vars
  <2> QED
    BY <2>1, <2>2, <2>3, <2>4, <2>5, <2>6, <2>7 DEF Sync!Next
<1>3. SyncInv => StopLetsOneIn
  BY DEF StopLetsOneIn, Sync!StopLetsOneIn
<1> QED
  BY <1>1, <1>2, <1>3, PTL DEF Sync!Spec

-----------------------------------------------------------------------------
(* LockedQueue *)

Ticket == Adder \X Nat

LockedTypeOK ==
    items \in Seq(Ticket) /\ hand \in Seq(Ticket) /\ used \in Seq(Ticket) /\ order \in Seq(Ticket)

LockedInv == LockedTypeOK /\ Locked!ReaddKeepsOrder

\* For any number of adders and items, what the consumer gives back goes where it was
\* taken from, and what it has looked at stays in front.
THEOREM ReaddSafe == Locked!Spec => []ReaddKeepsOrder
<1>1. Locked!Init => LockedInv
  BY ConcatEmptySeq, EmptySeq DEF Locked!Init, LockedInv, LockedTypeOK, Locked!ReaddKeepsOrder, Locked!None
<1>2. LockedInv /\ [Locked!Next]_(Locked!locked) => LockedInv'
  <2> SUFFICES ASSUME LockedInv, [Locked!Next]_(Locked!locked) PROVE LockedInv'
    OBVIOUS
  <2>1. /\ items \in Seq(Ticket) /\ hand \in Seq(Ticket) /\ used \in Seq(Ticket)
        /\ order \in Seq(Ticket) /\ order = (used \o hand) \o items
        /\ peeked # <<>> => items # <<>> /\ peeked = Head(items)
    BY DEF LockedInv, LockedTypeOK, Locked!ReaddKeepsOrder, Locked!None
  <2>2. ASSUME NEW a \in Adder, Locked!Add(a) PROVE LockedInv'
    <3>1. PICK item \in Ticket : item = <<a, Len(order) + 1>>
      <4>1. Len(order) + 1 \in Nat
        BY <2>1, LenProperties
      <4> QED
        BY <4>1 DEF Ticket
    <3>2. /\ items' = Append(items, item) /\ order' = Append(order, item)
          /\ UNCHANGED <<hand, peeked, used>>
      BY <2>2, <3>1 DEF Locked!Add
    <3>3. items' \in Seq(Ticket) /\ order' \in Seq(Ticket) /\ items' # <<>>
      BY <2>1, <3>1, <3>2, AppendProperties
    <3>4. order' = (used \o hand) \o items'
      <4>1. used \o hand \in Seq(Ticket)
        BY <2>1, ConcatProperties
      <4>2. (used \o hand) \o Append(items, item) = Append((used \o hand) \o items, item)
        BY <2>1, <4>1, ConcatAppend
      <4> QED
        BY <2>1, <3>2, <4>2, Zenon
    <3>5. items # <<>> => Head(items') = Head(items)
      BY <2>1, <3>2, HeadTailAppend
    <3> QED
      BY <2>1, <3>2, <3>3, <3>4, <3>5 DEF LockedInv, LockedTypeOK, Locked!ReaddKeepsOrder, Locked!None
  <2>3. CASE Locked!TakeNext
    <3>1. /\ items # <<>> /\ hand' = Append(hand, Head(items)) /\ items' = Tail(items)
          /\ peeked' = <<>> /\ used' = used /\ order' = order
      BY <2>3 DEF Locked!TakeNext, Locked!PopFront, Locked!None
    <3>2. Head(items) \in Ticket /\ items' \in Seq(Ticket)
      BY <2>1, <3>1, HeadTailProperties
    <3>3. hand' \in Seq(Ticket)
      BY <2>1, <3>1, <3>2, AppendProperties
    <3>4. (used \o hand') \o items' = (used \o hand) \o items
      <4>1. Cat(Cat(used, Append(hand, Head(items))), Tail(items)) = Cat(Cat(used, hand), items)
        BY <2>1, <3>1, CatMoveHead
      <4> QED
        BY <3>1, <4>1 DEF Cat
    <3> QED
      BY <2>1, <3>1, <3>2, <3>3, <3>4 DEF LockedInv, LockedTypeOK, Locked!ReaddKeepsOrder, Locked!None
  <2>4. CASE Locked!Refuse \/ Locked!Unlock \/ Locked!Cancel
    BY <2>4 DEF LockedInv, LockedTypeOK, Locked!ReaddKeepsOrder, Locked!None,
                Locked!Refuse, Locked!Unlock, Locked!Cancel
  <2>5. ASSUME NEW b \in BOOLEAN, Locked!Peek(b) PROVE LockedInv'
    BY <2>5 DEF LockedInv, LockedTypeOK, Locked!ReaddKeepsOrder, Locked!None, Locked!Peek
  <2>6. ASSUME NEW k \in 0 .. MaxAdds, Locked!Readd(k) PROVE LockedInv'
    <3> DEFINE s == SubSeq(hand, 1, k)
               t == SubSeq(hand, k + 1, Len(hand))
    <3>1. /\ k \in 0 .. Len(hand) /\ used' = used \o s /\ items' = t \o items
          /\ hand' = <<>> /\ peeked' = <<>> /\ order' = order
      BY <2>6 DEF Locked!Readd, Locked!AtFront, Locked!None
    <3>2. s \in Seq(Ticket) /\ t \in Seq(Ticket)
      BY <2>1, <3>1, SliceInTwo
    <3>3. s \o t = hand
      BY <2>1, <3>1, SliceInTwo
    <3> HIDE DEF s, t
    <3>4. used' \in Seq(Ticket) /\ items' \in Seq(Ticket)
      BY <2>1, <3>1, <3>2, ConcatProperties
    <3>5. (used' \o hand') \o items' = (used \o hand) \o items
      <4>1. used' \o hand' = used'
        BY <3>1, <3>4, ConcatEmptySeq
      <4>2. Cat(Cat(used, s), Cat(t, items)) = Cat(Cat(used, Cat(s, t)), items)
        BY <2>1, <3>2, CatRegroup
      <4> QED
        BY <3>1, <3>3, <4>1, <4>2 DEF Cat
    <3>6. <<>> \in Seq(Ticket)
      BY EmptySeq
    <3> QED
      BY <2>1, <3>1, <3>4, <3>5, <3>6 DEF LockedInv, LockedTypeOK, Locked!ReaddKeepsOrder, Locked!None
  <2>7. CASE UNCHANGED Locked!locked
    BY <2>7 DEF LockedInv, LockedTypeOK, Locked!ReaddKeepsOrder, Locked!None, Locked!locked
  <2> QED
    BY <2>2, <2>3, <2>4, <2>5, <2>6, <2>7 DEF Locked!Next
<1>3. LockedInv => ReaddKeepsOrder
  BY DEF ReaddKeepsOrder, LockedInv
<1> QED
  BY <1>1, <1>2, <1>3, PTL DEF Locked!Spec

-----------------------------------------------------------------------------
(* SyncQueueBlocking *)

\* put() returns without adding, so that the list stays empty and take() has nothing to give.
BlockingInv ==
    /\ needStop \in BOOLEAN /\ list = <<>> /\ got = {}
    /\ returned # {} => needStop

\* For any number of threads, no call of put() or take() returns before stop(), and none
\* ever passes an item on.
THEOREM BlockingGivesNothing == Blocking!Spec => []Blocking!NothingPassedOn
<1> USE DEF BlockingInv
<1>1. Blocking!Init => BlockingInv
  BY DEF Blocking!Init
<1>2. BlockingInv /\ [Blocking!Next]_(Blocking!blocking) => BlockingInv'
  <2> SUFFICES ASSUME BlockingInv, [Blocking!Next]_(Blocking!blocking) PROVE BlockingInv'
    OBVIOUS
  <2> USE DEF Blocking!ReturnEmpty, Blocking!Return, Blocking!Wait
  <2>1. ASSUME NEW t, Blocking!Run(t) PROVE BlockingInv'
    <3>1. CASE Blocking!Put(t)
      BY <3>1 DEF Blocking!Put
    <3>2. CASE Blocking!Take(t)
      BY <3>2 DEF Blocking!Take
    <3> QED
      BY <2>1, <3>1, <3>2 DEF Blocking!Run
  <2>2. ASSUME NEW t, Blocking!Spurious(t) PROVE BlockingInv'
    BY <2>2 DEF Blocking!Spurious
  <2>3. CASE Blocking!Stop
    BY <2>3 DEF Blocking!Stop
  <2>4. CASE Blocking!NotifyAll
    BY <2>4 DEF Blocking!NotifyAll
  <2>5. CASE UNCHANGED Blocking!blocking
    BY <2>5 DEF Blocking!blocking
  <2> QED
    BY <2>1, <2>2, <2>3, <2>4, <2>5 DEF Blocking!Next, Blocking!Call, Blocking!Resume
<1>3. BlockingInv => Blocking!NothingPassedOn
  BY DEF Blocking!NothingPassedOn
<1> QED
  BY <1>1, <1>2, <1>3, PTL DEF Blocking!Spec

-----------------------------------------------------------------------------
(* Thread *)

LifecycleInv == stopped \in BOOLEAN /\ restarted \in BOOLEAN /\ Thr!RunsUntilStopped

\* A thread that was started runs until stop(), unless an earlier stop() was overtaken by
\* a start(), and only while its Thread can still join it.
THEOREM ThreadRunsUntilStopped == Thr!Spec => []Thr!RunsUntilStopped
<1> USE DEF LifecycleInv, Thr!RunsUntilStopped, Thr!Looping
<1>1. Thr!Init => LifecycleInv
  BY DEF Thr!Init
<1>2. LifecycleInv /\ [Thr!Next]_(Thr!lifecycle) => LifecycleInv'
  <2> SUFFICES ASSUME LifecycleInv, [Thr!Next]_(Thr!lifecycle) PROVE LifecycleInv'
    OBVIOUS
  <2>1. CASE Thr!Start
    BY <2>1 DEF Thr!Start
  <2>2. CASE Thr!Stop
    BY <2>2 DEF Thr!Stop
  <2>3. CASE Thr!Join
    BY <2>3 DEF Thr!Join
  <2>4. CASE Thr!Joined
    BY <2>4 DEF Thr!Joined
  <2>5. CASE Thr!Destroy
    BY <2>5 DEF Thr!Destroy
  <2>6. CASE Thr!Loop
    BY <2>6 DEF Thr!Loop, Thr!Test, Thr!RunOnce
  <2>7. CASE Thr!Aborted
    BY <2>7 DEF Thr!Aborted, Thr!lifecycle
  <2>8. CASE UNCHANGED Thr!lifecycle
    BY <2>8 DEF Thr!lifecycle
  <2> QED
    BY <2>1, <2>2, <2>3, <2>4, <2>5, <2>6, <2>7, <2>8 DEF Thr!Next
<1>3. LifecycleInv => Thr!RunsUntilStopped
  OBVIOUS
<1> QED
  BY <1>1, <1>2, <1>3, PTL DEF Thr!Spec

=============================================================================
