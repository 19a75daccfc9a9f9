--------------------------- MODULE MPSCQueueProofs ---------------------------
(***************************************************************************)
(* MPSCQueue never touches freed memory, leaks nothing and implements      *)
(* MessageQueue, for any number of producers, items and addresses, and the *)
(* plain sequence MessageFifo where its producers do not overlap; and, in  *)
(* the instance of MCMPSCQueue, MPSCQueueIntrusive implements MessageQueue *)
(* but for its empty answers, for any number of senders, items and calls.  *)
(***************************************************************************)
EXTENDS MCMPSCQueue, SequenceTheorems, TLAPS

\* The positions in chain of the nodes that make up the queue now, and the nodes.
Waiting  == taken + 1 .. Len(chain)
InQueue  == {chain[i] : i \in Waiting}
Unlinked(i) == \E p \in Producer : place[p] = i

\* The queue runs from _tail to _head in the order of the exchanges.
EndsOK == /\ Len(chain) = Len(sent) + 1
          /\ taken <= Len(sent)
          /\ head = chain[Len(chain)]
          /\ tail = chain[taken + 1]

\* The nodes of the queue are distinct, although addresses are used again.
DistinctNodes == \A i, j \in Waiting : chain[i] = chain[j] => i = j

\* Each node is linked to the one behind it, unless that link is still to be made.
LinksOK == \A i \in Waiting :
    Next_[chain[i]] = IF i = Len(chain) \/ Unlinked(i) THEN NULL ELSE chain[i + 1]

\* Each node but the first carries the item it was enqueued with.
DataOK == \A i \in Waiting : i > taken + 1 => Data[chain[i]] = sent[i - 1]

\* What a producer knows between two of its steps.
ProducersOK == \A p \in Producer :
    /\ (pc[p] = "link") <=> (place[p] # 0)
    /\ pc[p] = "link" => /\ place[p] \in taken + 1 .. Len(sent)
                         /\ prevHead[p] = chain[place[p]]
                         /\ node[p] = chain[place[p] + 1]
    /\ pc[p] = "exchange" => /\ node[p] \in Addr \ InQueue
                             /\ Next_[node[p]] = NULL
                             /\ Data[node[p]] \in Item
                             /\ cpc = "delete" => node[p] # old

\* Two producers never work on the same place or on the same new node.
ProducersApart == \A p, q \in Producer : p # q =>
    /\ place[p] # 0 => place[p] # place[q]
    /\ pc[p] = "exchange" /\ pc[q] = "exchange" => node[p] # node[q]

\* What the consumer and the destructor know between two of their steps.
ConsumerOK ==
    /\ cpc = "read" => /\ old = tail
                       /\ taken < Len(sent)
                       /\ next = chain[taken + 2]
                       /\ ~Unlinked(taken + 1)
    /\ cpc = "delete" => old \in Addr \ InQueue
    /\ closing => \A p \in Producer : pc[p] = "idle"
    /\ cpc \in {"front", "gone"} => closing /\ taken = Len(sent)

IInv == /\ TypeOK /\ EndsOK /\ DistinctNodes /\ LinksOK /\ DataOK
        /\ ProducersOK /\ ProducersApart /\ ConsumerOK /\ NoLeak

-----------------------------------------------------------------------------
LEMMA InitIInv == Init => IInv
<1> SUFFICES ASSUME Init PROVE IInv
  OBVIOUS
<1>1. PICK front \in Addr : Init!(front)
  BY DEF Init
<1>2. /\ chain = <<front>> /\ sent = <<>> /\ taken = 0
      /\ Len(chain) = 1 /\ Len(sent) = 0 /\ chain[1] = front
      /\ chain \in Seq(Addr) /\ sent \in Seq(Item)
  BY <1>1
<1>3. Waiting = {1} /\ InQueue = {front}
  BY <1>2 DEF Waiting, InQueue
<1>4. TypeOK
  <2>1. /\ head \in Addr /\ tail \in Addr /\ live \subseteq Addr /\ unsent \subseteq Item
        /\ Next_ \in [Addr -> Addr \cup {NULL}]
        /\ Data \in [Addr -> Item \cup {NULL}]
    BY <1>1
  <2>2. /\ pc \in [Producer -> {"idle", "exchange", "link"}]
        /\ node \in [Producer -> Addr \cup {NULL}]
        /\ prevHead \in [Producer -> Addr \cup {NULL}]
        /\ place \in [Producer -> Nat]
    BY <1>1
  <2>3. /\ cpc = "idle" /\ next = NULL /\ old = NULL /\ result = NULL /\ closing = FALSE
    BY <1>1
  <2> QED
    BY <1>2, <2>1, <2>2, <2>3 DEF TypeOK
<1>5. EndsOK /\ DistinctNodes /\ LinksOK /\ DataOK
  BY <1>1, <1>2, <1>3 DEF EndsOK, DistinctNodes, LinksOK, DataOK
<1>6. ProducersOK /\ ProducersApart /\ ConsumerOK
  BY <1>1, <1>2 DEF ProducersOK, ProducersApart, ConsumerOK
<1>7. NoLeak
  BY <1>1, <1>2, <1>3 DEF NoLeak, Waiting, InQueue
<1> QED
  BY <1>4, <1>5, <1>6, <1>7 DEF IInv

LEMMA NewNodeIInv == ASSUME IInv, NEW p \in Producer, NEW m \in Item, NEW a \in Addr,
                            NewNode(p, m, a)
                     PROVE  IInv'
<1> USE DEF IInv
<1>1. UNCHANGED <<head, chain, sent, tail, place, prevHead, cpc, next, old, result, closing, taken>>
  BY DEF NewNode, exchanged, consumerVars
<1>2. UNCHANGED <<Waiting, InQueue>> /\ \A i : Unlinked(i)' <=> Unlinked(i)
  BY <1>1 DEF Waiting, InQueue, Unlinked
<1>3. /\ a \notin live /\ pc[p] = "idle" /\ ~closing /\ m \in unsent
      /\ live' = live \cup {a}
      /\ \A b \in Addr : Next_'[b] = (IF b = a THEN NULL ELSE Next_[b])
      /\ \A b \in Addr : Data'[b] = (IF b = a THEN m ELSE Data[b])
      /\ \A q \in Producer : pc'[q] = (IF q = p THEN "exchange" ELSE pc[q])
      /\ \A q \in Producer : node'[q] = (IF q = p THEN a ELSE node[q])
  BY DEF NewNode, TypeOK
<1>4. cpc \notin {"front", "gone"}
  BY <1>3 DEF ConsumerOK
<1>5. live = InQueue \cup {node[q] : q \in {r \in Producer : pc[r] = "exchange"}}
             \cup (IF cpc = "delete" THEN {old} ELSE {})
  BY <1>4 DEF NoLeak, InQueue, Waiting
<1>6. /\ a \notin InQueue
      /\ \A q \in Producer : pc[q] = "exchange" => node[q] # a
      /\ cpc = "delete" => old # a
  BY <1>3, <1>5
<1>7. \A i \in Waiting : chain[i] \in Addr /\ chain[i] # a
  BY <1>6 DEF InQueue, TypeOK, EndsOK, Waiting
<1>8. TypeOK'
  BY <1>1 DEF NewNode, TypeOK
<1>9. EndsOK' /\ DistinctNodes'
  BY <1>1, <1>2 DEF EndsOK, DistinctNodes
<1>10. LinksOK'
  BY <1>1, <1>2, <1>3, <1>7 DEF LinksOK
<1>11. DataOK'
  BY <1>1, <1>2, <1>3, <1>7 DEF DataOK
<1>12. ProducersOK'
  <2> SUFFICES ASSUME NEW q \in Producer PROVE ProducersOK!(q)'
    BY DEF ProducersOK
  <2>1. CASE q = p
    BY <1>1, <1>2, <1>3, <1>6, <2>1 DEF ProducersOK
  <2>2. CASE q # p
    BY <1>1, <1>2, <1>3, <1>6, <2>2 DEF ProducersOK
  <2> QED
    BY <2>1, <2>2
<1>13. ProducersApart'
  BY <1>1, <1>3, <1>6 DEF ProducersApart
<1>14. ConsumerOK'
  BY <1>1, <1>2, <1>3, <1>4 DEF ConsumerOK
<1>15. NoLeak'
  <2>1. {node[q] : q \in {r \in Producer : pc[r] = "exchange"}}'
          = {node[q] : q \in {r \in Producer : pc[r] = "exchange"}} \cup {a}
    BY <1>3
  <2> QED
    BY <1>1, <1>3, <1>4, <1>5, <2>1 DEF NoLeak, InQueue, Waiting
<1> QED
  BY <1>8, <1>9, <1>10, <1>11, <1>12, <1>13, <1>14, <1>15

LEMMA ExchangeIInv == ASSUME IInv, NEW p \in Producer, Exchange(p)
                      PROVE  IInv'
<1> USE DEF IInv
<1>0. PICK n \in Nat \ {0} : n = Len(chain)
  BY LenProperties DEF TypeOK, EndsOK
<1>1. UNCHANGED <<tail, Next_, Data, live, unsent, node, cpc, next, old, result, closing, taken>>
  BY DEF Exchange, consumerVars
<1>2. /\ pc[p] = "exchange"
      /\ node[p] \in Addr \ InQueue
      /\ Next_[node[p]] = NULL
      /\ Data[node[p]] \in Item
      /\ cpc = "delete" => node[p] # old
  BY DEF Exchange, ProducersOK
<1>3. /\ n = Len(chain) /\ Len(sent) = n - 1 /\ taken \in Nat /\ taken < n
      /\ chain \in Seq(Addr) /\ sent \in Seq(Item)
  BY <1>0 DEF TypeOK, EndsOK
<1>4. /\ chain' \in Seq(Addr) /\ Len(chain') = n + 1 /\ chain'[n + 1] = node[p]
      /\ \A i \in 1 .. n : chain'[i] = chain[i]
  BY <1>2, <1>3, AppendProperties DEF Exchange
<1>5. /\ sent' \in Seq(Item) /\ Len(sent') = n /\ sent'[n] = Data[node[p]]
      /\ \A i \in 1 .. n - 1 : sent'[i] = sent[i]
  BY <1>2, <1>3, AppendProperties DEF Exchange
<1>6. /\ \A q \in Producer : pc'[q] = (IF q = p THEN "link" ELSE pc[q])
      /\ \A q \in Producer : place'[q] = (IF q = p THEN n ELSE place[q])
      /\ \A q \in Producer : prevHead'[q] = (IF q = p THEN head ELSE prevHead[q])
      /\ head' = node[p]
  BY <1>3 DEF Exchange, TypeOK
<1>7. /\ Waiting' = Waiting \cup {n + 1}
      /\ Waiting = taken + 1 .. n
      /\ n \in Waiting
  BY <1>1, <1>3, <1>4 DEF Waiting
<1>8. InQueue' = InQueue \cup {node[p]}
  BY <1>3, <1>4, <1>7 DEF InQueue
<1>9. \A i \in Waiting : /\ chain'[i] = chain[i]
                         /\ chain[i] \in InQueue
                         /\ chain[i] # node[p]
  BY <1>2, <1>3, <1>4, <1>7 DEF InQueue
<1>10. \A q \in Producer : place[q] # n
  BY <1>3 DEF ProducersOK
<1>11. \A i \in 1 .. n : Unlinked(i)' <=> Unlinked(i) \/ i = n
  <2>1. place[p] = 0
    BY <1>2 DEF ProducersOK
  <2> QED
    BY <1>6, <2>1 DEF Unlinked
<1>12. TypeOK'
  BY <1>1, <1>4, <1>5, <1>2, <1>3 DEF Exchange, TypeOK
<1>13. EndsOK'
  BY <1>1, <1>3, <1>4, <1>5, <1>6 DEF EndsOK
<1>14. DistinctNodes'
  BY <1>4, <1>7, <1>9 DEF DistinctNodes
<1>15. LinksOK'
  <2> SUFFICES ASSUME NEW i \in Waiting'
               PROVE  Next_'[chain'[i]] = IF i = n + 1 \/ Unlinked(i)' THEN NULL ELSE chain'[i + 1]
    BY <1>4 DEF LinksOK
  <2>1. CASE i = n + 1
    BY <1>1, <1>2, <1>4, <2>1
  <2>2. CASE i = n
    BY <1>1, <1>3, <1>7, <1>9, <1>11, <2>2 DEF LinksOK
  <2>3. CASE i \in Waiting /\ i # n
    <3>1. i \in 1 .. n - 1 /\ chain'[i] = chain[i] /\ chain'[i + 1] = chain[i + 1]
      BY <1>3, <1>4, <1>7, <2>3
    <3> QED
      BY <1>1, <1>3, <1>11, <2>3, <3>1 DEF LinksOK
  <2> QED
    BY <1>7, <2>1, <2>2, <2>3
<1>16. DataOK'
  <2> SUFFICES ASSUME NEW i \in Waiting', i > taken + 1
               PROVE  Data[chain'[i]] = sent'[i - 1]
    BY <1>1 DEF DataOK
  <2>1. CASE i = n + 1
    BY <1>4, <1>5, <2>1
  <2>2. CASE i \in Waiting
    BY <1>3, <1>5, <1>7, <1>9, <2>2 DEF DataOK
  <2> QED
    BY <1>7, <2>1, <2>2
<1>17. ProducersOK'
  <2> SUFFICES ASSUME NEW q \in Producer PROVE ProducersOK!(q)'
    BY DEF ProducersOK
  <2>1. CASE q = p
    BY <1>1, <1>3, <1>4, <1>5, <1>6, <2>1 DEF ProducersOK, EndsOK
  <2>2. CASE q # p
    <3>1. /\ pc'[q] = pc[q] /\ place'[q] = place[q] /\ prevHead'[q] = prevHead[q]
          /\ node'[q] = node[q]
      BY <1>1, <1>6, <2>2
    <3>2. pc[q] = "exchange" => node[q] # node[p]
      BY <1>2, <2>2 DEF ProducersApart
    <3>3. pc[q] = "link" => /\ place[q] \in taken + 1 .. n - 1
                            /\ chain'[place[q]] = chain[place[q]]
                            /\ chain'[place[q] + 1] = chain[place[q] + 1]
      BY <1>3, <1>4 DEF ProducersOK
    <3> QED
      BY <1>1, <1>3, <1>5, <1>8, <3>1, <3>2, <3>3 DEF ProducersOK
  <2> QED
    BY <2>1, <2>2
<1>18. ProducersApart'
  BY <1>1, <1>6, <1>10 DEF ProducersApart
<1>19. ConsumerOK'
  <2>1. cpc = "read" => /\ taken + 2 \in 1 .. n /\ taken + 1 \in 1 .. n - 1
                        /\ chain'[taken + 2] = chain[taken + 2] /\ ~Unlinked(taken + 1)'
    <3> SUFFICES ASSUME cpc = "read"
                 PROVE  /\ taken + 2 \in 1 .. n /\ taken + 1 \in 1 .. n - 1
                        /\ chain'[taken + 2] = chain[taken + 2] /\ ~Unlinked(taken + 1)'
      OBVIOUS
    <3>1. taken < n - 1 /\ ~Unlinked(taken + 1)
      BY <1>3 DEF ConsumerOK
    <3>2. taken + 2 \in 1 .. n /\ taken + 1 \in 1 .. n - 1
      BY <1>3, <3>1
    <3>3. PICK j \in 1 .. n - 1 : j = taken + 1
      BY <3>2
    <3>4. ~Unlinked(j)'
      BY <1>3, <1>11, <3>1, <3>3
    <3>5. Unlinked(taken + 1)' <=> Unlinked(j)'
      BY <1>1, <3>3 DEF Unlinked
    <3> QED
      BY <1>4, <3>2, <3>4, <3>5
  <2>2. ~closing /\ cpc \notin {"front", "gone"}
    BY <1>2 DEF ConsumerOK
  <2> QED
    BY <1>1, <1>2, <1>3, <1>5, <1>8, <2>1, <2>2 DEF ConsumerOK
<1>20. NoLeak'
  <2>1. cpc # "gone"
    BY <1>2 DEF ConsumerOK
  <2>2. {r \in Producer : pc[r] = "exchange"} = {r \in Producer : pc'[r] = "exchange"} \cup {p}
    BY <1>2, <1>6
  <2>3. /\ NoLeak <=> live = InQueue \cup {node[q] : q \in {r \in Producer : pc[r] = "exchange"}}
                             \cup (IF cpc = "delete" THEN {old} ELSE {})
        /\ NoLeak' <=> live = InQueue' \cup {node[q] : q \in {r \in Producer : pc'[r] = "exchange"}}
                              \cup (IF cpc = "delete" THEN {old} ELSE {})
    BY <1>1, <2>1 DEF NoLeak, InQueue, Waiting
  <2> QED
    BY <1>8, <2>2, <2>3
<1> QED
  BY <1>12, <1>13, <1>14, <1>15, <1>16, <1>17, <1>18, <1>19, <1>20

LEMMA LinkIInv == ASSUME IInv, NEW p \in Producer, Link(p)
                  PROVE  IInv'
<1> USE DEF IInv
<1>0. PICK k \in Nat : k = place[p]
  BY DEF TypeOK
<1>1. UNCHANGED <<head, chain, sent, tail, Data, live, unsent, cpc, next, old, result, closing, taken>>
  BY DEF Link, consumerVars, exchanged
<1>2. UNCHANGED <<Waiting, InQueue>>
  BY <1>1 DEF Waiting, InQueue
<1>3. /\ pc[p] = "link"
      /\ k \in taken + 1 .. Len(sent) /\ k \in Waiting /\ k + 1 \in Waiting /\ k # Len(chain)
      /\ prevHead[p] = chain[k] /\ node[p] = chain[k + 1]
      /\ chain[k] \in Addr /\ chain[k + 1] \in Addr
      /\ taken \in Nat /\ Len(sent) \in Nat /\ Len(chain) = Len(sent) + 1
  BY <1>0, LenProperties DEF Link, ProducersOK, EndsOK, TypeOK, Waiting
<1>4. /\ \A b \in Addr : Next_'[b] = (IF b = chain[k] THEN chain[k + 1] ELSE Next_[b])
      /\ \A q \in Producer : pc'[q] = (IF q = p THEN "idle" ELSE pc[q])
      /\ \A q \in Producer : place'[q] = (IF q = p THEN 0 ELSE place[q])
      /\ \A q \in Producer : node'[q] = (IF q = p THEN NULL ELSE node[q])
      /\ \A q \in Producer : prevHead'[q] = (IF q = p THEN NULL ELSE prevHead[q])
  BY <1>3 DEF Link, TypeOK
<1>5. \A i \in Waiting : Unlinked(i)' <=> Unlinked(i) /\ i # k
  <2>1. \A q \in Producer \ {p} : place[q] # k
    BY <1>0, <1>3 DEF ProducersApart
  <2>2. \A i \in Waiting : i # 0
    BY <1>3 DEF Waiting
  <2> QED
    BY <1>0, <1>4, <2>1, <2>2 DEF Unlinked
<1>6. \A i \in Waiting : chain[i] \in Addr /\ (chain[i] = chain[k] => i = k)
  BY <1>3 DEF DistinctNodes, Waiting, TypeOK
<1>7. TypeOK'
  BY <1>1, <1>3 DEF Link, TypeOK
<1>8. EndsOK' /\ DistinctNodes' /\ DataOK'
  BY <1>1, <1>2 DEF EndsOK, DistinctNodes, DataOK
<1>9. LinksOK'
  <2> SUFFICES ASSUME NEW i \in Waiting
               PROVE  Next_'[chain[i]] = IF i = Len(chain) \/ Unlinked(i)' THEN NULL ELSE chain[i + 1]
    BY <1>1, <1>2 DEF LinksOK
  <2>1. CASE i = k
    BY <1>3, <1>4, <1>5, <2>1
  <2>2. CASE i # k
    BY <1>4, <1>5, <1>6, <2>2 DEF LinksOK
  <2> QED
    BY <2>1, <2>2
<1>10. ProducersOK'
  <2> SUFFICES ASSUME NEW q \in Producer PROVE ProducersOK!(q)'
    BY DEF ProducersOK
  <2>1. CASE q = p
    BY <1>4, <2>1 DEF ProducersOK
  <2>2. CASE q # p
    <3>1. chain[k] \in InQueue
      BY <1>3 DEF InQueue
    <3> QED
      BY <1>1, <1>2, <1>4, <2>2, <3>1 DEF ProducersOK
  <2> QED
    BY <2>1, <2>2
<1>11. ProducersApart'
  BY <1>4 DEF ProducersApart
<1>12. ConsumerOK'
  <2>1. cpc = "read" => taken + 1 \in Waiting
    BY <1>3 DEF ConsumerOK, Waiting
  <2>2. Unlinked(taken + 1)' => Unlinked(taken + 1)
    BY <1>0, <1>1, <1>4, <1>3 DEF Unlinked
  <2>3. ~closing
    BY <1>3 DEF ConsumerOK
  <2> QED
    BY <1>1, <1>2, <2>2, <2>3 DEF ConsumerOK
<1>13. NoLeak'
  <2>1. {node[q] : q \in {r \in Producer : pc[r] = "exchange"}}'
          = {node[q] : q \in {r \in Producer : pc[r] = "exchange"}}
    BY <1>3, <1>4
  <2> QED
    BY <1>1, <2>1 DEF NoLeak
<1> QED
  BY <1>7, <1>8, <1>9, <1>10, <1>11, <1>12, <1>13

\* Between its two loads and the end of Dequeue() the consumer changes nothing that
\* a producer looks at, except that the first node leaves the queue.
LEMMA ConsumerIInv == ASSUME IInv, Dequeue \/ Close \/ DeleteFront
                      PROVE  IInv'
<1> USE DEF IInv
<1>1. UNCHANGED <<head, chain, sent, place, Next_, Data, unsent, pc, node, prevHead>>
  BY DEF Dequeue, LoadNext, ReadData, DeleteTail, Close, DeleteFront, exchanged, producerVars
<1>2. \A i : Unlinked(i)' <=> Unlinked(i)
  BY <1>1 DEF Unlinked
<1>3. /\ taken \in Nat /\ Len(sent) \in Nat /\ Len(chain) = Len(sent) + 1 /\ taken <= Len(sent)
      /\ Waiting = taken + 1 .. Len(chain) /\ taken + 1 \in Waiting
      /\ \A i \in Waiting : chain[i] \in Addr
      /\ tail = chain[taken + 1] /\ head = chain[Len(chain)]
  BY LenProperties DEF TypeOK, EndsOK, Waiting
<1>4. CASE LoadNext
  <2>1. UNCHANGED <<tail, live, closing, taken>> /\ cpc = "idle"
    BY <1>4 DEF LoadNext
  <2>2. UNCHANGED <<Waiting, InQueue>>
    BY <1>1, <2>1 DEF Waiting, InQueue
  <2>3. EndsOK' /\ DistinctNodes' /\ LinksOK' /\ DataOK' /\ ProducersApart'
    BY <1>1, <1>2, <2>1, <2>2 DEF EndsOK, DistinctNodes, LinksOK, DataOK, ProducersApart
  <2>4. Next_[tail] = IF taken + 1 = Len(chain) \/ Unlinked(taken + 1) THEN NULL ELSE chain[taken + 2]
    BY <1>3 DEF LinksOK
  <2>5. CASE Next_[tail] = NULL
    <3>1. closing => taken = Len(sent)
      <4> SUFFICES ASSUME closing, taken # Len(sent) PROVE FALSE
        OBVIOUS
      <4>1. taken + 1 # Len(chain) /\ taken + 2 \in Waiting
        BY <1>3
      <4>2. ~Unlinked(taken + 1)
        BY <1>3 DEF ConsumerOK, ProducersOK, Unlinked
      <4> QED
        BY <2>4, <2>5, <4>1, <4>2, <1>3, AddrAssumption
    <3>2. /\ cpc' \in {"idle", "front"} /\ (cpc' = "front" => closing)
          /\ UNCHANGED <<next, old>> /\ result' = NULL
      BY <1>4, <2>5 DEF LoadNext
    <3>3. TypeOK'
      BY <1>1, <2>1, <3>2 DEF TypeOK
    <3>4. ProducersOK'
      BY <1>1, <2>1, <2>2, <3>2 DEF ProducersOK
    <3>5. ConsumerOK'
      BY <1>1, <2>1, <3>1, <3>2 DEF ConsumerOK
    <3>6. NoLeak'
      BY <1>1, <2>1, <3>2 DEF NoLeak
    <3> QED
      BY <2>3, <3>3, <3>4, <3>5, <3>6
  <2>6. CASE Next_[tail] # NULL
    <3>1. taken + 1 # Len(chain) /\ ~Unlinked(taken + 1) /\ Next_[tail] = chain[taken + 2]
      BY <2>4, <2>6
    <3>2. taken < Len(sent) /\ chain[taken + 2] \in Addr
      BY <1>3, <3>1
    <3>3. cpc' = "read" /\ next' = chain[taken + 2] /\ old' = tail /\ result' = result
      BY <1>4, <2>6, <3>1 DEF LoadNext
    <3>4. TypeOK'
      BY <1>1, <2>1, <3>2, <3>3, AddrAssumption DEF TypeOK
    <3>5. ProducersOK'
      BY <1>1, <2>1, <2>2, <3>3 DEF ProducersOK
    <3>6. ConsumerOK'
      BY <1>1, <1>2, <2>1, <3>1, <3>2, <3>3 DEF ConsumerOK
    <3>7. NoLeak'
      BY <1>1, <2>1, <3>3 DEF NoLeak
    <3> QED
      BY <2>3, <3>4, <3>5, <3>6, <3>7
  <2> QED
    BY <2>5, <2>6
<1>5. CASE ReadData
  <2>1. /\ cpc = "read" /\ cpc' = "delete" /\ taken' = taken + 1 /\ tail' = next
        /\ result' = Data[next] /\ UNCHANGED <<live, next, old, closing>>
    BY <1>5 DEF ReadData
  <2>2. /\ old = chain[taken + 1] /\ taken < Len(sent) /\ next = chain[taken + 2]
        /\ ~Unlinked(taken + 1)
    BY <1>3, <2>1 DEF ConsumerOK
  <2>3. Waiting' = Waiting \ {taken + 1} /\ taken + 2 \in Waiting /\ Waiting' \subseteq Waiting
    BY <1>1, <1>3, <2>1, <2>2 DEF Waiting
  <2>4. InQueue' = InQueue \ {old} /\ old \in InQueue /\ old \in Addr
    <3>1. \A i \in Waiting' : chain[i] # old
      BY <1>3, <2>2, <2>3 DEF DistinctNodes
    <3> QED
      BY <1>1, <1>3, <2>2, <2>3, <3>1 DEF InQueue
  <2>5. TypeOK'
    BY <1>1, <1>3, <2>1, <2>2, <2>3 DEF TypeOK
  <2>6. EndsOK'
    BY <1>1, <1>3, <2>1, <2>2 DEF EndsOK
  <2>7. DistinctNodes' /\ LinksOK'
    BY <1>1, <1>2, <2>3 DEF DistinctNodes, LinksOK
  <2>8. DataOK'
    BY <1>1, <1>3, <2>1, <2>3 DEF DataOK, Waiting
  <2>9. ProducersOK'
    <3> SUFFICES ASSUME NEW q \in Producer PROVE ProducersOK!(q)'
      BY DEF ProducersOK
    <3>1. pc[q] = "link" => place[q] \in taken + 2 .. Len(sent)
      BY <1>3, <2>2 DEF ProducersOK, Unlinked
    <3>2. pc[q] = "exchange" => node[q] # old
      BY <2>4 DEF ProducersOK
    <3> QED
      BY <1>1, <2>1, <2>4, <1>3, <3>1, <3>2 DEF ProducersOK
  <2>10. ProducersApart'
    BY <1>1 DEF ProducersApart
  <2>11. ConsumerOK'
    BY <1>1, <2>1, <2>4 DEF ConsumerOK
  <2>12. NoLeak'
    <3>1. NoLeak <=> live = InQueue \cup {node[q] : q \in {r \in Producer : pc[r] = "exchange"}}
      BY <2>1 DEF NoLeak, InQueue, Waiting
    <3>2. NoLeak' <=> live = InQueue' \cup {node[q] : q \in {r \in Producer : pc[r] = "exchange"}}
                             \cup {old}
      BY <1>1, <2>1 DEF NoLeak, InQueue, Waiting
    <3> QED
      BY <2>4, <3>1, <3>2
  <2> QED
    BY <2>5, <2>6, <2>7, <2>8, <2>9, <2>10, <2>11, <2>12
<1>6. CASE DeleteTail \/ Close \/ DeleteFront
  <2>1. UNCHANGED <<tail, result, taken>>
    BY <1>6 DEF DeleteTail, Close, DeleteFront
  <2>2. UNCHANGED <<Waiting, InQueue>>
    BY <1>1, <2>1 DEF Waiting, InQueue
  <2>3. EndsOK' /\ DistinctNodes' /\ LinksOK' /\ DataOK' /\ ProducersApart'
    BY <1>1, <1>2, <2>1, <2>2 DEF EndsOK, DistinctNodes, LinksOK, DataOK, ProducersApart
  <2>4. TypeOK'
    BY <1>1, <1>6, <2>1 DEF DeleteTail, Close, DeleteFront, TypeOK
  <2>5. cpc' # "delete"
    BY <1>6 DEF DeleteTail, Close, DeleteFront
  <2>6. ProducersOK'
    BY <1>1, <2>1, <2>2, <2>5 DEF ProducersOK
  <2>7. ConsumerOK'
    BY <1>1, <1>6, <2>1 DEF DeleteTail, Close, DeleteFront, ConsumerOK
  <2>8. NoLeak'
    <3>1. CASE DeleteTail
      <4>1. /\ cpc = "delete" /\ cpc' = "idle" /\ live' = live \ {old} /\ old \notin InQueue
            /\ \A q \in Producer : pc[q] = "exchange" => node[q] # old
        BY <3>1 DEF DeleteTail, ConsumerOK, ProducersOK
      <4>2. NoLeak <=> live = InQueue \cup {node[q] : q \in {r \in Producer : pc[r] = "exchange"}}
                              \cup {old}
        BY <4>1 DEF NoLeak, InQueue, Waiting
      <4>3. NoLeak' <=> live' = InQueue \cup {node[q] : q \in {r \in Producer : pc[r] = "exchange"}}
        BY <1>1, <2>1, <4>1 DEF NoLeak, InQueue, Waiting
      <4> QED
        BY <4>1, <4>2, <4>3
    <3>2. CASE Close
      BY <1>1, <2>1, <3>2 DEF Close, NoLeak
    <3>3. CASE DeleteFront
      <4>1. /\ cpc = "front" /\ cpc' = "gone" /\ live' = live \ {head}
            /\ \A q \in Producer : pc[q] # "exchange"
            /\ taken = Len(sent)
        BY <3>3 DEF DeleteFront, ConsumerOK
      <4>2. InQueue = {head}
        BY <1>3, <4>1 DEF InQueue, Waiting
      <4>3. {node[q] : q \in {r \in Producer : pc[r] = "exchange"}} = {}
        BY <4>1
      <4>4. live = {head}
        BY <4>1, <4>2, <4>3 DEF NoLeak, InQueue, Waiting
      <4> QED
        BY <1>1, <4>1, <4>3, <4>4 DEF NoLeak
    <3> QED
      BY <1>6, <3>1, <3>2, <3>3
  <2> QED
    BY <2>3, <2>4, <2>6, <2>7, <2>8
<1> QED
  BY <1>4, <1>5, <1>6 DEF Dequeue

LEMMA NextIInv == IInv /\ [Next]_vars => IInv'
<1> SUFFICES ASSUME IInv, [Next]_vars PROVE IInv'
  OBVIOUS
<1>1. CASE UNCHANGED vars
  BY <1>1 DEF vars, exchanged, producerVars, consumerVars, IInv, TypeOK, EndsOK, DistinctNodes,
              LinksOK, DataOK, ProducersOK, ProducersApart, ConsumerOK, NoLeak, Waiting, InQueue,
              Unlinked
<1> QED
  BY <1>1, NewNodeIInv, ExchangeIInv, LinkIInv, ConsumerIInv DEF Next, ProducerStep

LEMMA Invariance == Spec => []IInv
BY InitIInv, NextIInv, PTL DEF Spec

\* Every variable keeps its type; in particular the consumer never follows a null
\* link.
THEOREM TypeCorrect == Spec => []TypeOK
<1>1. IInv => TypeOK
  BY DEF IInv
<1> QED
  BY <1>1, Invariance, PTL

\* No producer and no consumer ever reads, writes or deletes a node that has been
\* deleted, although the consumer deletes nodes while producers hold pointers; and
\* the nodes that are allocated are exactly those somebody still needs.
THEOREM MemorySafe == Spec => []NodesOwned
<1>1. ASSUME IInv PROVE NoUseAfterFree
  <2> USE <1>1 DEF IInv
  <2>1. /\ taken \in Nat /\ Len(sent) \in Nat /\ Len(chain) = Len(sent) + 1 /\ taken <= Len(sent)
        /\ Waiting = taken + 1 .. Len(chain)
        /\ tail = chain[taken + 1] /\ head = chain[Len(chain)]
    BY LenProperties DEF TypeOK, EndsOK, Waiting
  <2>2. \A i \in Waiting : chain[i] \in InQueue
    BY DEF InQueue
  <2>3. cpc # "gone" =>
          live = InQueue \cup {node[q] : q \in {r \in Producer : pc[r] = "exchange"}}
                 \cup (IF cpc = "delete" THEN {old} ELSE {})
    BY DEF NoLeak, InQueue, Waiting
  <2>4. ASSUME NEW p \in Producer
        PROVE  /\ pc[p] = "exchange" => node[p] \in live
               /\ pc[p] = "link" => prevHead[p] \in live
    <3>1. pc[p] = "link" => prevHead[p] = chain[place[p]] /\ place[p] \in Waiting
      BY <2>1 DEF ProducersOK
    <3>2. pc[p] # "idle" => cpc # "gone"
      BY DEF ConsumerOK
    <3> QED
      BY <2>2, <2>3, <3>1, <3>2
  <2>5. tail \in InQueue /\ head \in InQueue
    BY <2>1, <2>2
  <2>6. cpc = "read" => old \in InQueue /\ next \in InQueue
    BY <2>1, <2>2, <2>5 DEF ConsumerOK
  <2>7. cpc = "delete" => old \notin InQueue
    BY DEF ConsumerOK
  <2> QED
    BY <2>3, <2>4, <2>5, <2>6, <2>7 DEF NoUseAfterFree
<1>2. IInv => NodesOwned
  BY <1>1 DEF IInv, NodesOwned
<1> QED
  BY <1>2, Invariance, PTL

-----------------------------------------------------------------------------
(* The refinement: the exchange sends, the link publishes, reading Data receives. *)

LEMMA StepRefines == IInv /\ [Next]_vars => [Queue!Next]_(Queue!vars)
<1> SUFFICES ASSUME IInv, [Next]_vars PROVE Queue!Next \/ UNCHANGED Queue!vars
  OBVIOUS
<1> USE DEF IInv
<1>1. CASE UNCHANGED vars
  BY <1>1 DEF vars, exchanged, consumerVars, Queue!vars
<1>2. ASSUME NEW p \in Producer, NEW m \in Item, NEW a \in Addr, NewNode(p, m, a)
      PROVE  UNCHANGED Queue!vars
  BY <1>2 DEF NewNode, exchanged, consumerVars, Queue!vars
<1>3. ASSUME NEW p \in Producer, Exchange(p)
      PROVE  Queue!Next
  <2>1. PICK m \in Item : m = Data[node[p]]
    BY <1>3 DEF Exchange, ProducersOK
  <2>2. place[p] = 0
    BY <1>3 DEF Exchange, ProducersOK
  <2>3. Queue!Send(p, m)
    BY <1>3, <2>1, <2>2 DEF Exchange, consumerVars, Queue!Send
  <2> QED
    BY <2>3 DEF Queue!Next
<1>4. ASSUME NEW p \in Producer, Link(p)
      PROVE  Queue!Next
  <2>1. Queue!Publish(p)
    BY <1>4 DEF Link, exchanged, consumerVars, Queue!Publish, ProducersOK
  <2> QED
    BY <2>1 DEF Queue!Next
<1>5. CASE LoadNext
  <2>1. UNCHANGED <<sent, place, taken>>
    BY <1>5 DEF LoadNext, exchanged
  <2>2. CASE Next_[tail] # NULL
    BY <1>5, <2>1, <2>2 DEF LoadNext, Queue!vars
  <2>3. CASE Next_[tail] = NULL
    <3>1. taken = Len(sent) \/ Queue!Pending(taken + 1)
      <4> SUFFICES ASSUME taken # Len(sent), ~Unlinked(taken + 1) PROVE FALSE
        BY DEF Queue!Pending, Unlinked
      <4>1. /\ taken \in Nat /\ Len(sent) \in Nat /\ Len(chain) = Len(sent) + 1
            /\ taken < Len(sent) /\ taken + 1 \in Waiting /\ tail = chain[taken + 1]
        BY LenProperties DEF TypeOK, EndsOK, Waiting
      <4>2. Next_[tail] = chain[taken + 2]
        BY <4>1 DEF LinksOK
      <4>3. chain[taken + 2] \in Addr
        BY <4>1 DEF TypeOK
      <4> QED
        BY <2>3, <4>2, <4>3, AddrAssumption
    <3>2. result' = NULL
      BY <1>5, <2>3 DEF LoadNext
    <3>3. Queue!SeeEmpty
      BY <2>1, <3>1, <3>2 DEF Queue!SeeEmpty
    <3> QED
      BY <3>3 DEF Queue!Next
  <2> QED
    BY <2>2, <2>3
<1>6. CASE ReadData
  <2>1. /\ taken < Len(sent) /\ taken \in Nat /\ Len(sent) \in Nat /\ Len(chain) = Len(sent) + 1
        /\ ~Unlinked(taken + 1) /\ next = chain[taken + 2]
    BY <1>6, LenProperties DEF ReadData, ConsumerOK, TypeOK, EndsOK
  <2>2. Data[next] = sent[taken + 1]
    <3>1. taken + 2 \in Waiting /\ (taken + 2) - 1 = taken + 1
      BY <2>1 DEF Waiting
    <3> QED
      BY <2>1, <3>1 DEF DataOK
  <2>3. UNCHANGED <<sent, place>> /\ taken' = taken + 1 /\ result' = sent[taken + 1]
    BY <1>6, <2>2 DEF ReadData, exchanged
  <2>4. Queue!Receive
    BY <2>1, <2>3 DEF Queue!Receive, Queue!Pending, Unlinked
  <2> QED
    BY <2>4 DEF Queue!Next
<1>7. CASE DeleteTail \/ Close \/ DeleteFront
  BY <1>7 DEF DeleteTail, Close, DeleteFront, exchanged, Queue!vars
<1> QED
  BY <1>1, <1>2, <1>3, <1>4, <1>5, <1>6, <1>7 DEF Next, ProducerStep, Dequeue

\* The items come out once each and in the order of the exchanges, whatever the
\* producers and the consumer interleave and however often an address is reused;
\* false is returned only for an empty queue or behind an unfinished Enqueue().
THEOREM Implements == Spec => QueueSpec
<1>1. Init => Queue!Init
  BY DEF Init, Queue!Init
<1> QED
  BY <1>1, Invariance, StepRefines, PTL DEF Spec, QueueSpec, Queue!Spec

-----------------------------------------------------------------------------
(* With one sender at a time the queue is a sequence *)

Linking   == \E p \in Producer : place[p] # 0
OneSender == \A p, q \in Producer : place[p] # 0 /\ place[q] # 0 => p = q

\* The items that the consumer can have: all but the one that is not linked yet.
LastLinked == IF Linking THEN Len(sent) - 1 ELSE Len(sent)
Visible    == SubSeq(sent, taken + 1, LastLinked)

Fifo == INSTANCE MessageFifo WITH queue <- Visible, answer <- result, NoItem <- NULL

\* Nothing was sent after the item that is not linked yet.
Latest == \A p \in Producer : place[p] # 0 => place[p] = Len(sent)

\* A part of a sequence, from a place behind the first n.
LEMMA PartOf ==
  \A S : \A s \in Seq(S), n \in Nat, k \in Nat : k <= Len(s) /\ n <= k =>
     /\ SubSeq(s, n + 1, k) \in Seq(S) /\ Len(SubSeq(s, n + 1, k)) = k - n
     /\ \A i \in 1 .. k - n : SubSeq(s, n + 1, k)[i] = s[n + i]
<1> SUFFICES ASSUME NEW S, NEW s \in Seq(S), NEW n \in Nat, NEW k \in Nat, k <= Len(s), n <= k
             PROVE  /\ SubSeq(s, n + 1, k) \in Seq(S) /\ Len(SubSeq(s, n + 1, k)) = k - n
                    /\ \A i \in 1 .. k - n : SubSeq(s, n + 1, k)[i] = s[n + i]
  OBVIOUS
<1> DEFINE f == SubSeq(s, n + 1, k)
<1>1. Len(s) \in Nat /\ \A i \in 1 .. Len(s) : s[i] \in S
  OBVIOUS
<1>2. n + 1 \in Int /\ k \in Int /\ \A i \in n + 1 .. k : s[i] \in S
  BY <1>1
<1>3. /\ f \in Seq(S)
      /\ Len(f) = IF n + 1 <= k THEN k - (n + 1) + 1 ELSE 0
      /\ \A i \in 1 .. k - (n + 1) + 1 : f[i] = s[(n + 1) + i - 1]
  BY <1>2, SubSeqProperties
<1> HIDE DEF f
<1>4. k - (n + 1) + 1 = k - n /\ (n + 1 <= k \/ k - n = 0)
  OBVIOUS
<1>5. \A i \in 1 .. k - n : (n + 1) + i - 1 = n + i
  OBVIOUS
<1> QED
  BY <1>3, <1>4, <1>5 DEF f

\* Sends are invisible, links put, and the rest is as it is called.
LEMMA FifoStep ==
  ASSUME IInv, Latest, OneSender, OneSender', [Next]_vars
  PROVE  Latest' /\ [Fifo!Next]_(Fifo!vars)
<1> DEFINE n == Len(sent)
           t == taken
<1>1. /\ sent \in Seq(Item) /\ n \in Nat /\ t \in Nat /\ t <= n
      /\ place \in [Producer -> Nat]
  BY LenProperties DEF IInv, TypeOK, EndsOK
<1>2. \A p \in Producer : place[p] # 0 => place[p] = n /\ t < n
  BY <1>1 DEF IInv, ProducersOK, Latest
<1>3. LastLinked \in Nat /\ LastLinked <= n /\ t <= LastLinked
  BY <1>1, <1>2 DEF LastLinked, Linking
<1>4. /\ Visible \in Seq(Item) /\ Len(Visible) = LastLinked - t
      /\ \A i \in 1 .. LastLinked - t : Visible[i] = sent[t + i]
  BY <1>1, <1>3, PartOf DEF Visible
<1>5. Queue!Next \/ UNCHANGED Queue!vars
  BY StepRefines
<1>6. ASSUME NEW p \in Producer, NEW m \in Item, Queue!Send(p, m)
      PROVE  Latest' /\ UNCHANGED Fifo!vars
  <2>1. /\ place[p] = 0 /\ sent' = Append(sent, m) /\ UNCHANGED <<taken, result>>
        /\ place' = [place EXCEPT ![p] = n + 1]
    BY <1>6 DEF Queue!Send
  <2>2. \A q \in Producer : place'[q] = IF q = p THEN n + 1 ELSE 0
    <3>1. \A q \in Producer : place'[q] = IF q = p THEN n + 1 ELSE place[q]
      BY <1>1, <2>1
    <3>2. ASSUME NEW q \in Producer, q # p, place[q] # 0 PROVE FALSE
      <4>1. place'[q] # 0 /\ place'[p] # 0
        BY <1>1, <3>1, <3>2
      <4> QED
        BY <3>2, <4>1 DEF OneSender
    <3> QED
      BY <3>1, <3>2
  <2>3. \A q \in Producer : place[q] = 0
    BY <1>1, <2>1, <2>2
  <2>4. /\ sent' \in Seq(Item) /\ Len(sent') = n + 1
        /\ \A i \in 1 .. n : sent'[i] = sent[i]
    BY <1>1, <2>1, AppendProperties
  <2>5. LastLinked = n /\ LastLinked' = n
    BY <1>1, <2>2, <2>3, <2>4 DEF LastLinked, Linking
  <2>6. Visible' = Visible
    <3>1. Visible' = SubSeq(sent', t + 1, n) /\ Visible = SubSeq(sent, t + 1, n)
      BY <2>1, <2>5 DEF Visible
    <3>2. /\ Visible' \in Seq(Item) /\ Len(Visible') = n - t
          /\ \A i \in 1 .. n - t : Visible'[i] = sent'[t + i]
      BY <1>1, <2>4, <3>1, PartOf
    <3>3. \A i \in 1 .. n - t : t + i \in 1 .. n
      BY <1>1
    <3>4. Len(Visible') = Len(Visible) /\ \A i \in 1 .. Len(Visible) : Visible'[i] = Visible[i]
      BY <1>4, <2>4, <2>5, <3>2, <3>3
    <3> QED
      BY <1>4, <3>2, <3>4, SeqEqual
  <2>7. Latest'
    BY <2>2, <2>4 DEF Latest
  <2> QED
    BY <2>1, <2>6, <2>7 DEF Fifo!vars
<1>7. ASSUME NEW p \in Producer, Queue!Publish(p)
      PROVE  Latest' /\ Fifo!Next
  <2>1. place[p] # 0 /\ place' = [place EXCEPT ![p] = 0] /\ UNCHANGED <<sent, taken, result>>
    BY <1>7 DEF Queue!Publish
  <2>2. \A q \in Producer : place'[q] = 0
    BY <1>1, <2>1 DEF OneSender
  <2>3. LastLinked = n - 1 /\ LastLinked' = n /\ t < n /\ n - 1 \in Nat
    BY <1>1, <1>2, <2>1, <2>2 DEF LastLinked, Linking
  <2>4. sent[n] \in Item
    BY <1>1, <2>3
  <2>5. /\ Visible' \in Seq(Item) /\ Len(Visible') = n - t
        /\ \A i \in 1 .. n - t : Visible'[i] = sent[t + i]
    <3>1. Visible' = SubSeq(sent, t + 1, n)
      BY <2>1, <2>3 DEF Visible
    <3> QED
      BY <1>1, <3>1, PartOf
  <2>6. Visible' = Append(Visible, sent[n])
    <3> DEFINE v == Append(Visible, sent[n])
    <3>1. /\ v \in Seq(Item) /\ Len(v) = Len(Visible) + 1 /\ v[Len(Visible) + 1] = sent[n]
          /\ \A i \in 1 .. Len(Visible) : v[i] = Visible[i]
      BY <1>4, <2>4, AppendProperties
    <3> HIDE DEF v
    <3>2. Len(Visible) = (n - 1) - t /\ Len(v) = n - t /\ Len(Visible) + 1 = n - t
      <4>1. Len(Visible) = (n - 1) - t
        BY <1>4, <2>3, Zenon
      <4>2. Len(v) = ((n - 1) - t) + 1
        BY <3>1, <4>1, Zenon
      <4>3. ((n - 1) - t) + 1 = n - t
        BY <1>1
      <4> QED
        BY <4>1, <4>2, <4>3, Zenon
    <3>3. ASSUME NEW i \in 1 .. n - t PROVE v[i] = Visible'[i]
      <4>1. CASE i = n - t
        <5>1. t + i = n
          BY <1>1, <4>1
        <5> QED
          BY <2>5, <3>1, <3>2, <4>1, <5>1
      <4>2. CASE i # n - t
        <5>1. i \in 1 .. (n - 1) - t
          BY <1>1, <2>3, <4>2
        <5> QED
          BY <1>4, <2>3, <2>5, <3>1, <3>2, <5>1
      <4> QED
        BY <4>1, <4>2
    <3>4. v = Visible'
      BY <2>5, <3>1, <3>2, <3>3, SeqEqual
    <3> QED
      BY <3>4 DEF v
  <2>7. Fifo!Put(sent[n])
    BY <2>1, <2>6 DEF Fifo!Put
  <2>8. Latest'
    BY <2>2 DEF Latest
  <2> QED
    BY <2>4, <2>7, <2>8 DEF Fifo!Next
<1>8. CASE Queue!Receive
  <2>1. /\ t < n /\ ~Queue!Pending(t + 1) /\ taken' = t + 1 /\ result' = sent[t + 1]
        /\ UNCHANGED <<sent, place>>
    BY <1>8 DEF Queue!Receive
  <2>2. t + 1 <= LastLinked /\ LastLinked' = LastLinked
    <3>1. CASE Linking
      <4>1. PICK p \in Producer : place[p] # 0
        BY <3>1 DEF Linking
      <4>2. place[p] = n /\ place[p] # t + 1
        BY <1>2, <2>1, <4>1 DEF Queue!Pending
      <4> QED
        BY <1>1, <2>1, <3>1, <4>2 DEF LastLinked, Linking
    <3>2. CASE ~Linking
      BY <1>1, <2>1, <3>2 DEF LastLinked, Linking
    <3> QED
      BY <3>1, <3>2
  <2>3. Visible # <<>> /\ Head(Visible) = sent[t + 1]
    BY <1>1, <1>3, <1>4, <2>2
  <2>4. /\ Visible' \in Seq(Item) /\ Len(Visible') = LastLinked - (t + 1)
        /\ \A i \in 1 .. LastLinked - (t + 1) : Visible'[i] = sent[(t + 1) + i]
    <3>1. Visible' = SubSeq(sent, (t + 1) + 1, LastLinked)
      BY <2>1, <2>2 DEF Visible
    <3>2. t + 1 \in Nat
      BY <1>1
    <3> QED
      BY <1>1, <1>3, <2>2, <3>1, <3>2, PartOf
  <2>5. Visible' = Tail(Visible)
    <3> DEFINE w == Tail(Visible)
    <3>1. /\ w \in Seq(Item) /\ Len(w) = Len(Visible) - 1
          /\ \A i \in 1 .. Len(w) : w[i] = Visible[i + 1]
      BY <1>4, <2>3, HeadTailProperties
    <3> HIDE DEF w
    <3>2. Len(w) = Len(Visible')
      BY <1>1, <1>3, <1>4, <2>4, <3>1
    <3>3. ASSUME NEW i \in 1 .. Len(w) PROVE w[i] = Visible'[i]
      <4>1. /\ i + 1 \in 1 .. LastLinked - t /\ t + (i + 1) = (t + 1) + i
            /\ i \in 1 .. LastLinked - (t + 1)
        BY <1>1, <1>3, <2>4, <3>2
      <4> QED
        BY <1>4, <2>4, <3>1, <4>1
    <3>4. w = Visible'
      BY <2>4, <3>1, <3>2, <3>3, SeqEqual
    <3> QED
      BY <3>4 DEF w
  <2>6. Fifo!Take
    BY <2>1, <2>3, <2>5 DEF Fifo!Take
  <2>7. Latest'
    BY <2>1 DEF Latest
  <2> QED
    BY <2>6, <2>7 DEF Fifo!Next
<1>9. CASE Queue!SeeEmpty
  <2>1. /\ t = n \/ Queue!Pending(t + 1)
        /\ result' = NULL /\ UNCHANGED <<sent, place, taken>>
    BY <1>9 DEF Queue!SeeEmpty
  <2>2. LastLinked = t
    <3>1. CASE t = n
      BY <1>1, <1>3, <3>1
    <3>2. CASE Queue!Pending(t + 1)
      <4>1. PICK p \in Producer : place[p] = t + 1
        BY <3>2 DEF Queue!Pending
      <4>2. place[p] # 0 /\ t + 1 = n
        BY <1>1, <1>2, <4>1
      <4> QED
        BY <1>1, <4>2 DEF LastLinked, Linking
    <3> QED
      BY <2>1, <3>1, <3>2
  <2>3. Visible = <<>>
    BY <1>1, <1>4, <2>2, EmptySeq
  <2>4. Visible' = Visible
    BY <2>1 DEF Visible, LastLinked, Linking
  <2>5. Latest'
    BY <2>1 DEF Latest
  <2> QED
    BY <2>1, <2>3, <2>4, <2>5 DEF Fifo!Next, Fifo!SeeEmpty
<1>10. CASE UNCHANGED Queue!vars
  <2>1. UNCHANGED <<sent, place, taken, result>>
    BY <1>10 DEF Queue!vars
  <2>2. Visible' = Visible /\ Latest'
    BY <2>1 DEF Visible, LastLinked, Linking, Latest
  <2> QED
    BY <2>1, <2>2 DEF Fifo!vars
<1> QED
  BY <1>5, <1>6, <1>7, <1>8, <1>9, <1>10 DEF Queue!Next

\* As long as two Enqueue() calls are never between their exchange and their link at the same
\* time, which is what the strand of a TcpSession sees to, the queue is a plain sequence: a
\* message can be taken once it is linked, and the queue is found empty only when it is.
THEOREM FifoForOneSender == Spec /\ []OneSender => Fifo!Spec
<1>1. Init => Latest /\ Fifo!Init
  <2> SUFFICES ASSUME Init PROVE Latest /\ Fifo!Init
    OBVIOUS
  <2>1. sent = <<>> /\ taken = 0 /\ result = NULL /\ \A p \in Producer : place[p] = 0
    BY DEF Init
  <2>2. Len(<<>>) = 0 /\ \A S : <<>> \in Seq(S)
    OBVIOUS
  <2>3. LastLinked = 0
    BY <2>1, <2>2 DEF LastLinked, Linking
  <2>4. Visible = <<>>
    <3>1. Visible = SubSeq(<<>>, 0 + 1, 0)
      BY <2>1, <2>3 DEF Visible
    <3>2. /\ SubSeq(<<>>, 0 + 1, 0) \in Seq(Item) /\ Len(SubSeq(<<>>, 0 + 1, 0)) = 0 - 0
      BY <2>2, PartOf
    <3> QED
      BY <3>1, <3>2, EmptySeq
  <2> QED
    BY <2>1, <2>4 DEF Latest, Fifo!Init
<1>2. IInv /\ Latest /\ OneSender /\ OneSender' /\ [Next]_vars => Latest' /\ [Fifo!Next]_(Fifo!vars)
  BY FifoStep
<1> QED
  BY <1>1, <1>2, Invariance, PTL DEF Spec, Fifo!Spec

-----------------------------------------------------------------------------
(* MPSCQueueIntrusive *)

\* What can be in the queue.  The queue is f[lo] .. f[hi], and r[i] says how many items went
\* in up to place i.
Linked == Node \cup {Dummy}

IntrusiveTypes ==
    /\ link \in [Linked -> Linked \cup {NULL}] /\ free \subseteq Node
    /\ ppc \in [Sender -> {"idle", "exchange", "link"}]
    /\ input \in [Sender -> Node \cup {NULL}]
    /\ prev \in [Sender \cup {Dummy} -> Linked \cup {NULL}]
    /\ unlinked \in [Sender -> Nat] /\ items \in Seq(Node) /\ got \in Nat

Chained(f, r, lo, hi) ==
    /\ lo <= hi
    /\ first = f[lo] /\ newest = f[hi]
    /\ \A i, j \in lo .. hi : f[i] = f[j] => i = j
    /\ \A i \in lo .. hi : f[i] \notin free
    /\ \A i \in lo .. hi : f[i] # Dummy => r[i] \in 1 .. Len(items) /\ items[r[i]] = f[i]
    /\ r[hi] = Len(items)
    /\ r[lo] = IF f[lo] = Dummy THEN got ELSE got + 1
    /\ \A i \in lo .. hi - 1 : r[i + 1] = IF f[i + 1] = Dummy THEN r[i] ELSE r[i] + 1

\* The link behind x is still to be stored.
Open(x) == \/ \E p \in Sender : ppc[p] = "link" /\ prev[p] = x
           \/ at = "link" /\ prev[Dummy] = x

LinkedUp(f, lo, hi) ==
    /\ \A i \in lo .. hi - 1 : /\ Open(f[i]) => link[f[i]] = NULL
                               /\ ~Open(f[i]) => link[f[i]] = f[i + 1]
    /\ link[f[hi]] = NULL

\* Where the item of a producer is: still its own, or in the queue but not linked.
Sending(f, r, lo, hi) == \A p \in Sender :
    /\ ppc[p] # "link" => unlinked[p] = 0
    /\ ppc[p] = "exchange" => /\ input[p] \in Node /\ input[p] \notin free
                              /\ link[input[p]] = NULL
                              /\ \A i \in lo .. hi : f[i] # input[p]
    /\ ppc[p] = "link" => \E i \in lo .. hi - 1 : /\ prev[p] = f[i] /\ input[p] = f[i + 1]
                                                   /\ input[p] # Dummy /\ unlinked[p] = r[i + 1]
    /\ draining => ppc[p] = "idle"

SendersApart == \A p, q \in Sender : p # q =>
    /\ ppc[p] = "exchange" /\ ppc[q] = "exchange" => input[p] # input[q]
    /\ ppc[p] = "link" /\ ppc[q] = "link" => prev[p] # prev[q]

\* Where the dummy is, and that an answer "empty" will be true: either an Enqueue() has
\* overlapped the call, or the queue holds one item and the dummy behind it at most.
Polling(f, lo, hi) ==
    /\ at \in {"idle", "load", "head", "null", "exchange", "link", "last", "gone"}
    /\ at \notin {"idle", "gone"} => first # Dummy
    /\ at \in {"null", "exchange"} => \A i \in lo .. hi : f[i] # Dummy
    /\ at = "exchange" => link[Dummy] = NULL
    /\ at = "link" => \E i \in lo .. hi - 1 : prev[Dummy] = f[i] /\ f[i + 1] = Dummy
    /\ at \in {"idle", "gone"} \/ draining => ~overlap
    /\ at \in {"head", "null", "exchange"} => overlap \/ lo = hi
    /\ at = "link" => overlap \/ hi = lo + 1
    /\ at = "last" => overlap \/ (hi = lo + 1 /\ link[first] # NULL)
    /\ at = "gone" => draining /\ got = Len(items)

InvAt(f, r, lo, hi) ==
    /\ f \in [Nat -> Linked] /\ r \in [Nat -> Nat] /\ lo \in Nat /\ hi \in Nat
    /\ IntrusiveTypes
    /\ Chained(f, r, lo, hi)
    /\ LinkedUp(f, lo, hi)
    /\ Sending(f, r, lo, hi)
    /\ SendersApart
    /\ Polling(f, lo, hi)

IntrusiveInv == \E f \in [Nat -> Linked], r \in [Nat -> Nat], lo, hi \in Nat : InvAt(f, r, lo, hi)

LEMMA InitIntrusive == Intrusive!Init => IntrusiveInv
<1> SUFFICES ASSUME Intrusive!Init PROVE IntrusiveInv
  OBVIOUS
<1> DEFINE f == [i \in Nat |-> Dummy]
           r == [i \in Nat |-> 0]
<1>1. /\ first = Dummy /\ newest = Dummy
      /\ link = [n \in Linked |-> NULL] /\ free = Node
      /\ ppc = [p \in Sender |-> "idle"] /\ input = [p \in Sender |-> NULL]
      /\ prev = [p \in Sender \cup {Dummy} |-> NULL]
      /\ at = "idle" /\ out = NULL /\ draining = FALSE
      /\ items = <<>> /\ unlinked = [p \in Sender |-> 0] /\ got = 0 /\ overlap = FALSE
  BY DEF Intrusive!Init, Linked
<1>2. f \in [Nat -> Linked] /\ r \in [Nat -> Nat] /\ f[0] = Dummy /\ r[0] = 0
  BY DEF Linked
<1> HIDE DEF f, r
<1>3. IntrusiveTypes
  <2>1. <<>> \in Seq(Node)
    OBVIOUS
  <2> QED
    BY <1>1, <2>1 DEF IntrusiveTypes
<1>4. Chained(f, r, 0, 0)
  <2>1. \A i \in 0 .. 0 : i = 0
    OBVIOUS
  <2>2. Len(<<>>) = 0 /\ 0 .. 0 - 1 = {}
    OBVIOUS
  <2> QED
    BY <1>1, <1>2, <2>1, <2>2, IntrusiveAssumption DEF Chained
<1>5. LinkedUp(f, 0, 0)
  <2>1. link[Dummy] = NULL /\ 0 .. 0 - 1 = {}
    BY <1>1 DEF Linked
  <2> QED
    BY <1>2, <2>1 DEF LinkedUp
<1>6. Sending(f, r, 0, 0) /\ SendersApart /\ Polling(f, 0, 0)
  BY <1>1 DEF Sending, SendersApart, Polling
<1> QED
  BY <1>2, <1>3, <1>4, <1>5, <1>6 DEF IntrusiveInv, InvAt

Absent(f, lo, hi, x) == \A i \in lo .. hi : f[i] # x

\* g and s are f and r with x, and the number n, at a place m behind hi.
Longer(f, r, lo, hi, g, s, m, x, n) ==
    /\ m = hi + 1 /\ g[m] = x /\ s[m] = n
    /\ \A i \in lo .. hi : g[i] = f[i] /\ s[i] = r[i]

LEMMA Lengthen ==
  ASSUME NEW f \in [Nat -> Linked], NEW r \in [Nat -> Nat], NEW lo \in Nat, NEW hi \in Nat,
         NEW x \in Linked, NEW n \in Nat
  PROVE  \E m \in Nat, g \in [Nat -> Linked], s \in [Nat -> Nat] :
           Longer(f, r, lo, hi, g, s, m, x, n)
<1>1. PICK m \in Nat : m = hi + 1 /\ \A i \in lo .. hi : i \in Nat /\ i # m
  OBVIOUS
<1> DEFINE g == [f EXCEPT ![m] = x]
           s == [r EXCEPT ![m] = n]
<1>2. /\ g \in [Nat -> Linked] /\ s \in [Nat -> Nat] /\ g[m] = x /\ s[m] = n
      /\ \A i \in Nat : i # m => g[i] = f[i] /\ s[i] = r[i]
  OBVIOUS
<1> HIDE DEF g, s
<1>3. Longer(f, r, lo, hi, g, s, m, x, n)
  BY <1>1, <1>2 DEF Longer
<1> QED
  BY <1>2, <1>3

PutBehind(x) == /\ UNCHANGED <<first, free, got>> /\ newest' = x
                /\ items' = IF x = Dummy THEN items ELSE Append(items, x)

\* The queue when x was put in behind the newest node: an item, or the dummy.
LEMMA PushChained ==
  ASSUME NEW f \in [Nat -> Linked], NEW r \in [Nat -> Nat], NEW lo \in Nat, NEW hi \in Nat,
         IntrusiveTypes, Chained(f, r, lo, hi), NEW x \in Linked,
         Absent(f, lo, hi, x), x \notin free, PutBehind(x),
         NEW g \in [Nat -> Linked], NEW s \in [Nat -> Nat], NEW m \in Nat, NEW n \in Nat,
         Longer(f, r, lo, hi, g, s, m, x, n), n = Len(items')
  PROVE  Chained(g, s, lo, m)'
<1> USE DEF PutBehind
<1>1. m = hi + 1 /\ g[m] = x /\ s[m] = Len(items')
  BY DEF Longer
<1>2. items \in Seq(Node) /\ Len(items) \in Nat /\ got \in Nat
  BY LenProperties DEF IntrusiveTypes
<1>3. /\ Len(items') = IF x = Dummy THEN Len(items) ELSE Len(items) + 1
      /\ Len(items') \in Nat
      /\ \A i \in 1 .. Len(items) : items'[i] = items[i]
      /\ x # Dummy => items'[Len(items')] = x
  <2>1. CASE x = Dummy
    BY <1>2, <2>1
  <2>2. CASE x # Dummy
    <3>1. x \in Node /\ items' = Append(items, x)
      BY <2>2 DEF Linked
    <3>2. /\ Len(Append(items, x)) = Len(items) + 1
          /\ \A i \in 1 .. Len(items) : Append(items, x)[i] = items[i]
          /\ Append(items, x)[Len(items) + 1] = x
      BY <1>2, <3>1, AppendProperties
    <3> QED
      BY <1>2, <2>2, <3>1, <3>2
  <2> QED
    BY <2>1, <2>2
<1>4. g[m] = x /\ s[m] = Len(items')
  BY <1>1
<1>5. \A i \in lo .. hi : i \in Nat /\ i # m /\ g[i] = f[i] /\ s[i] = r[i]
  <2>1. \A i \in lo .. hi : i \in Nat /\ i # m
    BY <1>1
  <2> QED
    BY <2>1 DEF Longer
<1>6. lo <= hi /\ lo \in lo .. hi /\ hi \in lo .. hi
  BY DEF Chained
<1>7. \A i \in lo .. m : i = m \/ i \in lo .. hi
  BY <1>1
<1>8. \A i, j \in lo .. m : g[i] = g[j] => i = j
  BY <1>4, <1>5, <1>7 DEF Chained, Absent
<1>9. \A i \in lo .. m : g[i] \notin free
  BY <1>4, <1>5, <1>7 DEF Chained
<1>10. ASSUME NEW i \in lo .. m, g[i] # Dummy
       PROVE  s[i] \in 1 .. Len(items') /\ items'[s[i]] = g[i]
  <2>1. CASE i = m
    <3>1. Len(items') \in 1 .. Len(items')
      BY <1>2, <1>3, <1>4, <1>10, <2>1
    <3> QED
      BY <1>3, <1>4, <1>10, <2>1, <3>1
  <2>2. CASE i \in lo .. hi
    <3>1. r[i] \in 1 .. Len(items) /\ items[r[i]] = f[i]
      BY <1>5, <1>10, <2>2 DEF Chained
    <3>2. r[i] \in 1 .. Len(items')
      <4>1. PICK n1 \in Nat, n2 \in Nat : n1 = Len(items) /\ n2 = Len(items') /\ n1 <= n2
        BY <1>2, <1>3
      <4>2. PICK k \in Nat : k = r[i]
        BY <1>5, <2>2
      <4>3. k >= 1 /\ k <= n1
        BY <3>1, <4>1, <4>2
      <4>4. k \in 1 .. n2
        BY <4>1, <4>3
      <4> QED
        BY <4>1, <4>2, <4>4
    <3> QED
      BY <1>3, <1>5, <2>2, <3>1, <3>2
  <2> QED
    BY <1>7, <2>1, <2>2
<1>11. s[lo] = IF g[lo] = Dummy THEN got ELSE got + 1
  BY <1>5, <1>6 DEF Chained
<1>12. ASSUME NEW i \in lo .. m - 1
       PROVE  s[i + 1] = IF g[i + 1] = Dummy THEN s[i] ELSE s[i] + 1
  <2>1. CASE i = hi
    <3>1. s[i] = Len(items) /\ i + 1 = m
      BY <1>1, <1>5, <1>6, <2>1 DEF Chained
    <3> QED
      BY <1>3, <1>4, <3>1
  <2>2. CASE i # hi
    <3>1. PICK j \in lo .. hi : j = i + 1 /\ i \in lo .. hi - 1 /\ i \in lo .. hi
      BY <1>1, <2>2
    <3>2. r[i + 1] = IF f[i + 1] = Dummy THEN r[i] ELSE r[i] + 1
      BY <3>1 DEF Chained
    <3>3. g[j] = f[j] /\ s[j] = r[j] /\ s[i] = r[i]
      BY <1>5, <3>1
    <3> QED
      BY <3>1, <3>2, <3>3
  <2> QED
    BY <2>1, <2>2
<1>13. first' = g[lo] /\ newest' = g[m] /\ lo <= m
  BY <1>1, <1>4, <1>5, <1>6 DEF Chained
<1> QED
  BY <1>4, <1>8, <1>9, <1>10, <1>11, <1>12, <1>13 DEF Chained

\* The queue when the consumer has gone on to the second node.
LEMMA PopChained ==
  ASSUME NEW f \in [Nat -> Linked], NEW r \in [Nat -> Nat], NEW lo \in Nat, NEW hi \in Nat,
         IntrusiveTypes, Chained(f, r, lo, hi), lo < hi,
         first' = f[lo + 1], UNCHANGED <<newest, items>>,
         \/ f[lo] = Dummy /\ UNCHANGED <<free, got>>
         \/ f[lo] # Dummy /\ free' = free \cup {f[lo]} /\ got' = got + 1
  PROVE  Chained(f, r, lo + 1, hi)'
<1>1. PICK m \in Nat : m = lo + 1 /\ m \in lo .. hi /\ lo \in lo .. hi /\ lo \in lo .. hi - 1 /\ m # lo
  OBVIOUS
<1>2. \A i \in m .. hi : i \in lo .. hi /\ i # lo
  BY <1>1
<1>3. \A i \in m .. hi - 1 : i \in lo .. hi - 1
  BY <1>1
<1>4. got \in Nat
  BY DEF IntrusiveTypes
<1>5. \A i \in m .. hi : f[i] \notin free'
  <2>1. \A i \in m .. hi : f[i] # f[lo] /\ f[i] \notin free
    BY <1>1, <1>2 DEF Chained
  <2> QED
    BY <2>1
<1>6. r[m] = IF f[m] = Dummy THEN got' ELSE got' + 1
  <2>1. r[m] = IF f[m] = Dummy THEN r[lo] ELSE r[lo] + 1
    BY <1>1 DEF Chained
  <2>2. r[lo] = IF f[lo] = Dummy THEN got ELSE got + 1
    BY DEF Chained
  <2>3. f[m] = Dummy => f[lo] # Dummy
    BY <1>1 DEF Chained
  <2> QED
    BY <1>4, <2>1, <2>2, <2>3
<1>7. m <= hi /\ first' = f[m] /\ newest' = f[hi] /\ r[hi] = Len(items')
  BY <1>1 DEF Chained
<1>8. \A i, j \in m .. hi : f[i] = f[j] => i = j
  BY <1>2 DEF Chained
<1>9. \A i \in m .. hi : f[i] # Dummy => r[i] \in 1 .. Len(items') /\ items'[r[i]] = f[i]
  BY <1>2 DEF Chained
<1>10. \A i \in m .. hi - 1 : r[i + 1] = IF f[i + 1] = Dummy THEN r[i] ELSE r[i] + 1
  BY <1>3 DEF Chained
<1>11. Chained(f, r, m, hi)'
  BY <1>5, <1>6, <1>7, <1>8, <1>9, <1>10 DEF Chained
<1> QED
  BY <1>1, <1>11

\* What an open link says: somebody is between its exchange and its link.
LEMMA OpenFacts ==
  ASSUME NEW f \in [Nat -> Linked], NEW r \in [Nat -> Nat], NEW lo \in Nat, NEW hi \in Nat,
         InvAt(f, r, lo, hi)
  PROVE  /\ lo <= hi /\ first = f[lo] /\ newest = f[hi] /\ first \in Linked
         /\ first = Dummy => at \in {"idle", "gone"}
         /\ link[first] # NULL => lo < hi /\ link[first] = f[lo + 1] /\ ~Open(first)
         /\ link[first] = NULL /\ at # "link" => lo = hi \/ Intrusive!Linking
         /\ lo = hi /\ first # Dummy => got + 1 = Len(items)
         /\ lo = hi /\ first = Dummy => got = Len(items)
         /\ first # Dummy => got + 1 \in 1 .. Len(items) /\ items[got + 1] = first
<1>1. Chained(f, r, lo, hi) /\ LinkedUp(f, lo, hi) /\ Sending(f, r, lo, hi) /\ Polling(f, lo, hi)
  BY DEF InvAt
<1>2. lo <= hi /\ first = f[lo] /\ newest = f[hi] /\ first \in Linked /\ lo \in lo .. hi
  BY <1>1 DEF Chained
<1>3. first = Dummy => at \in {"idle", "gone"}
  BY <1>1 DEF Polling
<1>4. lo < hi => lo \in lo .. hi - 1
  OBVIOUS
<1>5. link[first] # NULL => lo < hi
  BY <1>1, <1>2 DEF LinkedUp
<1>6. lo < hi => /\ Open(first) => link[first] = NULL
                 /\ ~Open(first) => link[first] = f[lo + 1]
  BY <1>1, <1>2, <1>4 DEF LinkedUp
<1>7. f[lo + 1] # NULL
  BY IntrusiveAssumption DEF Linked
<1>8. ASSUME link[first] = NULL, at # "link", lo # hi PROVE Intrusive!Linking
  <2>1. Open(first)
    BY <1>2, <1>6, <1>7, <1>8
  <2>2. PICK p \in Sender : ppc[p] = "link"
    BY <1>8, <2>1 DEF Open
  <2>3. PICK i \in lo .. hi - 1 : input[p] = f[i + 1] /\ input[p] # Dummy /\ unlinked[p] = r[i + 1]
    BY <1>1, <2>2 DEF Sending
  <2>4. PICK j \in lo .. hi : j = i + 1
    OBVIOUS
  <2>5. r[j] \in 1 .. Len(items)
    BY <1>1, <2>3, <2>4 DEF Chained
  <2>6. unlinked[p] # 0
    BY <2>3, <2>4, <2>5
  <2> QED
    BY <2>6 DEF Intrusive!Linking
<1>9. got \in Nat /\ Len(items) \in Nat
  BY LenProperties DEF InvAt, IntrusiveTypes
<1>10. r[lo] = (IF f[lo] = Dummy THEN got ELSE got + 1) /\ r[hi] = Len(items)
  BY <1>1 DEF Chained
<1>11. first # Dummy => got + 1 \in 1 .. Len(items) /\ items[got + 1] = first
  BY <1>1, <1>2, <1>10 DEF Chained
<1> QED
  BY <1>2, <1>3, <1>5, <1>6, <1>8, <1>9, <1>10, <1>11

LEMMA StoreNullInv ==
  ASSUME NEW f \in [Nat -> Linked], NEW r \in [Nat -> Nat], NEW lo \in Nat, NEW hi \in Nat,
         InvAt(f, r, lo, hi), NEW p \in Sender, NEW n \in Node, Intrusive!StoreNull(p, n)
  PROVE  InvAt(f, r, lo, hi)'
<1>1. /\ ppc[p] = "idle" /\ ~draining /\ n \in free
      /\ free' = free \ {n} /\ input' = [input EXCEPT ![p] = n]
      /\ link' = [link EXCEPT ![n] = NULL] /\ ppc' = [ppc EXCEPT ![p] = "exchange"]
      /\ UNCHANGED <<first, newest, prev, at, draining, items, unlinked, got, overlap>>
  BY DEF Intrusive!StoreNull
<1>2. /\ IntrusiveTypes /\ Chained(f, r, lo, hi) /\ LinkedUp(f, lo, hi)
      /\ Sending(f, r, lo, hi) /\ SendersApart /\ Polling(f, lo, hi)
  BY DEF InvAt
<1>3. \A i \in lo .. hi : f[i] # n
  BY <1>1, <1>2 DEF Chained
<1>4. /\ n \in Linked /\ n # Dummy /\ link'[n] = NULL
      /\ \A x \in Linked : x # n => link'[x] = link[x]
  BY <1>1, <1>2, IntrusiveAssumption DEF IntrusiveTypes, Linked
<1>5. /\ ppc'[p] = "exchange" /\ input'[p] = n
      /\ \A q \in Sender : q # p => ppc'[q] = ppc[q] /\ input'[q] = input[q]
  BY <1>1, <1>2 DEF IntrusiveTypes
<1>6. IntrusiveTypes'
  BY <1>1, <1>2 DEF IntrusiveTypes
<1>7. Chained(f, r, lo, hi)'
  BY <1>1, <1>2 DEF Chained
<1>8. \A x : Open(x)' <=> Open(x)
  BY <1>1, <1>5 DEF Open
<1>9. LinkedUp(f, lo, hi)'
  <2>1. \A i \in lo .. hi : link'[f[i]] = link[f[i]]
    BY <1>3, <1>4
  <2>2. hi \in lo .. hi /\ \A i \in lo .. hi - 1 : i \in lo .. hi
    BY <1>2 DEF Chained
  <2> QED
    BY <1>2, <1>8, <2>1, <2>2 DEF LinkedUp
<1>10. Sending(f, r, lo, hi)'
  <2>1. ASSUME NEW q \in Sender, q # p, ppc[q] = "exchange" PROVE input[q] # n /\ link'[input[q]] = NULL
    <3>1. input[q] # n
      BY <1>1, <1>2, <2>1 DEF Sending
    <3> QED
      BY <1>2, <1>4, <2>1, <3>1 DEF Sending, Linked
  <2> QED
    BY <1>1, <1>2, <1>3, <1>4, <1>5, <2>1 DEF Sending
<1>11. SendersApart'
  <2>1. \A q \in Sender : ppc[q] = "exchange" => input[q] # n
    BY <1>1, <1>2 DEF Sending
  <2> QED
    BY <1>1, <1>2, <1>5, <2>1 DEF SendersApart
<1>12. Polling(f, lo, hi)'
  <2>1. link'[first] = link[first]
    <3>1. lo <= hi /\ first = f[lo] /\ first \in Linked
      BY OpenFacts
    <3>2. lo \in lo .. hi
      BY <3>1
    <3> QED
      BY <1>3, <1>4, <3>1, <3>2
  <2>2. link'[Dummy] = link[Dummy]
    BY <1>4 DEF Linked
  <2> QED
    BY <1>1, <1>2, <2>1, <2>2 DEF Polling
<1> QED
  BY <1>6, <1>7, <1>9, <1>10, <1>11, <1>12 DEF InvAt

LEMMA ExchangeInv ==
  ASSUME NEW f \in [Nat -> Linked], NEW r \in [Nat -> Nat], NEW lo \in Nat, NEW hi \in Nat,
         InvAt(f, r, lo, hi), NEW p \in Sender, Intrusive!Exchange(p)
  PROVE  IntrusiveInv'
<1>0. PICK n : n = input[p]
  OBVIOUS
<1>1. /\ ppc[p] = "exchange" /\ ppc' = [ppc EXCEPT ![p] = "link"]
      /\ prev' = [prev EXCEPT ![p] = newest] /\ newest' = n
      /\ items' = Append(items, n)
      /\ unlinked' = [unlinked EXCEPT ![p] = Len(items')]
      /\ overlap' = (at # "idle")
      /\ UNCHANGED <<first, link, free, input, at, draining, got>>
  BY <1>0 DEF Intrusive!Exchange
<1>2. /\ IntrusiveTypes /\ Chained(f, r, lo, hi) /\ LinkedUp(f, lo, hi)
      /\ Sending(f, r, lo, hi) /\ SendersApart /\ Polling(f, lo, hi)
  BY DEF InvAt
<1>3. /\ n \in Node /\ n \notin free /\ link[n] = NULL /\ ~draining
      /\ \A i \in lo .. hi : f[i] # n
  BY <1>0, <1>1, <1>2 DEF Sending
<1>4. n \in Linked /\ n # Dummy
  BY <1>3, IntrusiveAssumption DEF Linked
<1>41. Len(items') \in Nat
  <2>1. items \in Seq(Node)
    BY <1>2 DEF IntrusiveTypes
  <2>2. Append(items, n) \in Seq(Node)
    BY <1>3, <2>1, AppendProperties
  <2> QED
    BY <1>1, <2>2, LenProperties
<1>42. PICK k \in Nat : k = Len(items')
  BY <1>41
<1>43. PICK m \in Nat, g \in [Nat -> Linked], s \in [Nat -> Nat] :
        Longer(f, r, lo, hi, g, s, m, n, k)
  BY <1>4, Lengthen
<1>5. /\ m = hi + 1 /\ g[m] = n
      /\ \A i \in lo .. hi : g[i] = f[i] /\ s[i] = r[i]
      /\ s[m] = Len(items')
      /\ Chained(g, s, lo, m)'
  <2>1. PutBehind(n)
    BY <1>1, <1>4 DEF PutBehind
  <2>2. Absent(f, lo, hi, n)
    BY <1>3 DEF Absent
  <2>3. IntrusiveTypes /\ Chained(f, r, lo, hi) /\ n \in Linked /\ n \notin free
    BY <1>2, <1>3, <1>4
  <2>4. Chained(g, s, lo, m)'
    BY <1>42, <1>43, <2>1, <2>2, <2>3, PushChained
  <2> QED
    BY <1>42, <1>43, <2>4 DEF Longer
<1>6. /\ lo \in lo .. hi /\ hi \in lo .. hi /\ newest = f[hi] /\ first = f[lo] /\ newest \in Linked
      /\ \A i \in lo .. hi - 1 : i \in lo .. hi /\ i + 1 \in lo .. hi
      /\ \A i \in lo .. m - 1 : i = hi \/ i \in lo .. hi - 1
      /\ hi \in lo .. m - 1 /\ \A i \in lo .. hi - 1 : i \in lo .. m - 1
      /\ m - 1 = hi
  <2>1. lo <= hi /\ newest = f[hi] /\ first = f[lo]
    BY <1>2 DEF Chained
  <2>2. newest \in Linked
    BY <2>1
  <2>3. m = hi + 1
    BY <1>5
  <2> QED
    BY <2>1, <2>2, <2>3
<1>8. /\ ppc'[p] = "link" /\ prev'[p] = newest /\ unlinked'[p] = Len(items')
      /\ \A q \in Sender : q # p =>
           ppc'[q] = ppc[q] /\ prev'[q] = prev[q] /\ unlinked'[q] = unlinked[q]
      /\ prev'[Dummy] = prev[Dummy]
  BY <1>1, <1>2, <1>41, IntrusiveAssumption DEF IntrusiveTypes
<1>9. IntrusiveTypes'
  <2>1. items' \in Seq(Node)
    <3>1. items \in Seq(Node)
      BY <1>2 DEF IntrusiveTypes
    <3> QED
      BY <1>1, <1>3, <3>1, AppendProperties
  <2>2. unlinked' \in [Sender -> Nat] /\ prev' \in [Sender \cup {Dummy} -> Linked \cup {NULL}]
    BY <1>1, <1>2, <1>6, <1>41 DEF IntrusiveTypes
  <2> QED
    BY <1>1, <1>2, <2>1, <2>2 DEF IntrusiveTypes
<1>10. /\ \A q \in Sender : ppc[q] = "link" => prev[q] # newest
       /\ at = "link" => prev[Dummy] # newest
  <2>1. ASSUME NEW i \in lo .. hi - 1 PROVE f[i] # newest
    <3>1. i \in lo .. hi /\ hi \in lo .. hi /\ i # hi
      BY <1>6
    <3> QED
      BY <1>2, <3>1 DEF Chained
  <2>2. ASSUME NEW q \in Sender, ppc[q] = "link" PROVE prev[q] # newest
    BY <1>2, <2>1, <2>2 DEF Sending
  <2>3. at = "link" => prev[Dummy] # newest
    BY <1>2, <2>1 DEF Polling
  <2> QED
    BY <2>2, <2>3
<1>11. \A x : Open(x)' <=> Open(x) \/ x = newest
  BY <1>1, <1>8 DEF Open
<1>12. LinkedUp(g, lo, m)'
  <2>1. ASSUME NEW i \in lo .. m - 1
        PROVE  /\ Open(g[i])' => link'[g[i]] = NULL
               /\ ~Open(g[i])' => link'[g[i]] = g[i + 1]
    <3>1. CASE i = hi
      <4>1. g[i] = newest /\ link[newest] = NULL
        BY <1>2, <1>5, <1>6, <3>1 DEF LinkedUp
      <4> QED
        BY <1>1, <1>11, <4>1
    <3>2. CASE i \in lo .. hi - 1
      <4>1. g[i] = f[i] /\ g[i + 1] = f[i + 1] /\ f[i] # newest
        <5>1. i \in lo .. hi /\ i + 1 \in lo .. hi /\ i # hi
          BY <1>6, <3>2
        <5>2. f[i] # newest
          BY <1>2, <1>6, <5>1 DEF Chained
        <5> QED
          BY <1>5, <5>1, <5>2
      <4>2. (Open(f[i]) => link[f[i]] = NULL) /\ (~Open(f[i]) => link[f[i]] = f[i + 1])
        BY <1>2, <3>2 DEF LinkedUp
      <4> QED
        BY <1>1, <1>11, <4>1, <4>2
    <3> QED
      BY <1>6, <3>1, <3>2
  <2>2. link'[g[m]] = NULL
    BY <1>1, <1>3, <1>5
  <2> QED
    BY <2>1, <2>2 DEF LinkedUp
<1>13. Sending(g, s, lo, m)'
  <2>1. ASSUME NEW q \in Sender
        PROVE  /\ ppc'[q] # "link" => unlinked'[q] = 0
               /\ ppc'[q] = "exchange" => /\ input'[q] \in Node /\ input'[q] \notin free'
                                          /\ link'[input'[q]] = NULL
                                          /\ \A i \in lo .. m : g[i] # input'[q]
               /\ ppc'[q] = "link" =>
                    \E i \in lo .. m - 1 : /\ prev'[q] = g[i] /\ input'[q] = g[i + 1]
                                            /\ input'[q] # Dummy /\ unlinked'[q] = s[i + 1]
               /\ draining' => ppc'[q] = "idle"
    <3>1. CASE q = p
      <4>1. prev'[q] = g[hi] /\ input'[q] = g[hi + 1] /\ input'[q] # Dummy /\ unlinked'[q] = s[hi + 1]
        BY <1>0, <1>1, <1>4, <1>5, <1>6, <1>8, <3>1
      <4> QED
        BY <1>1, <1>3, <1>6, <1>8, <3>1, <4>1
    <3>2. CASE q # p
      <4>1. ppc'[q] = ppc[q] /\ prev'[q] = prev[q] /\ unlinked'[q] = unlinked[q] /\ input'[q] = input[q]
        BY <1>1, <1>8, <3>2
      <4>2. ASSUME ppc[q] = "exchange" PROVE \A i \in lo .. m : g[i] # input[q]
        <5>1. input[q] # n /\ \A i \in lo .. hi : f[i] # input[q]
          BY <1>0, <1>1, <1>2, <3>2, <4>2 DEF SendersApart, Sending
        <5>2. \A i \in lo .. m : i = m \/ i \in lo .. hi
          BY <1>5
        <5> QED
          BY <1>5, <5>1, <5>2
      <4>3. ASSUME ppc[q] = "link"
            PROVE  \E i \in lo .. m - 1 : /\ prev[q] = g[i] /\ input[q] = g[i + 1]
                                           /\ input[q] # Dummy /\ unlinked[q] = s[i + 1]
        <5>1. PICK i \in lo .. hi - 1 : /\ prev[q] = f[i] /\ input[q] = f[i + 1]
                                         /\ input[q] # Dummy /\ unlinked[q] = r[i + 1]
          BY <1>2, <4>3 DEF Sending
        <5>2. i \in lo .. m - 1 /\ g[i] = f[i] /\ g[i + 1] = f[i + 1] /\ s[i + 1] = r[i + 1]
          BY <1>5, <1>6
        <5> QED
          BY <5>1, <5>2
      <4> QED
        BY <1>1, <1>2, <4>1, <4>2, <4>3 DEF Sending
    <3> QED
      BY <3>1, <3>2
  <2> QED
    BY <2>1 DEF Sending
<1>14. SendersApart'
  <2>1. ASSUME NEW q \in Sender, NEW u \in Sender, q # u
        PROVE  /\ ppc'[q] = "exchange" /\ ppc'[u] = "exchange" => input[q] # input[u]
               /\ ppc'[q] = "link" /\ ppc'[u] = "link" => prev'[q] # prev'[u]
    <3>1. CASE q # p /\ u # p
      BY <1>2, <1>8, <2>1, <3>1, ZenonT(30) DEF SendersApart
    <3>2. CASE q = p \/ u = p
      BY <1>8, <1>10, <2>1, <3>2
    <3> QED
      BY <3>1, <3>2
  <2> QED
    BY <1>1, <2>1 DEF SendersApart
<1>15. Polling(g, lo, m)'
  <2>1. at \notin {"idle", "gone"} => overlap'
    BY <1>1
  <2>2. at # "gone"
    BY <1>2, <1>3 DEF Polling
  <2>3. at \in {"null", "exchange"} => \A i \in lo .. m : g[i] # Dummy
    <3>1. \A i \in lo .. m : i = m \/ i \in lo .. hi
      BY <1>5
    <3> QED
      BY <1>2, <1>4, <1>5, <3>1 DEF Polling
  <2>4. at = "link" => \E i \in lo .. m - 1 : prev'[Dummy] = g[i] /\ g[i + 1] = Dummy
    <3>1. SUFFICES ASSUME at = "link" PROVE \E i \in lo .. m - 1 : prev'[Dummy] = g[i] /\ g[i + 1] = Dummy
      OBVIOUS
    <3>2. PICK i \in lo .. hi - 1 : prev[Dummy] = f[i] /\ f[i + 1] = Dummy
      BY <1>2, <3>1 DEF Polling
    <3>3. i \in lo .. m - 1 /\ g[i] = f[i] /\ g[i + 1] = f[i + 1]
      BY <1>5, <1>6
    <3> QED
      BY <1>8, <3>2, <3>3
  <2>5. at = "idle" => ~overlap'
    BY <1>1
  <2> QED
    BY <1>1, <1>2, <1>3, <2>1, <2>2, <2>3, <2>4, <2>5 DEF Polling
<1>16. InvAt(g, s, lo, m)'
  BY <1>5, <1>9, <1>12, <1>13, <1>14, <1>15 DEF InvAt
<1> QED
  BY <1>16 DEF IntrusiveInv

LEMMA IntrusiveLinkInv ==
  ASSUME NEW f \in [Nat -> Linked], NEW r \in [Nat -> Nat], NEW lo \in Nat, NEW hi \in Nat,
         InvAt(f, r, lo, hi), NEW p \in Sender, Intrusive!Link(p)
  PROVE  InvAt(f, r, lo, hi)'
<1>1. /\ ppc[p] = "link" /\ ppc' = [ppc EXCEPT ![p] = "idle"]
      /\ link' = [link EXCEPT ![prev[p]] = input[p]]
      /\ unlinked' = [unlinked EXCEPT ![p] = 0]
      /\ UNCHANGED <<first, newest, free, input, prev, at, draining, items, got, overlap>>
  BY DEF Intrusive!Link
<1>2. /\ IntrusiveTypes /\ Chained(f, r, lo, hi) /\ LinkedUp(f, lo, hi)
      /\ Sending(f, r, lo, hi) /\ SendersApart /\ Polling(f, lo, hi)
  BY DEF InvAt
<1>3. PICK k \in lo .. hi - 1 : /\ prev[p] = f[k] /\ input[p] = f[k + 1]
                                 /\ input[p] # Dummy /\ unlinked[p] = r[k + 1]
  BY <1>1, <1>2 DEF Sending
<1>4. /\ \A i, j \in lo .. hi : f[i] = f[j] => i = j
      /\ k \in lo .. hi /\ k \in Nat /\ k + 1 \in lo .. hi /\ k + 1 \in Nat /\ k # hi
      /\ hi \in lo .. hi /\ lo \in lo .. hi
      /\ \A i \in lo .. hi - 1 : i \in lo .. hi /\ i \in Nat /\ i + 1 \in lo .. hi
  BY <1>2, SMTT(30) DEF Chained
<1>5. f[k] \in Linked /\ f[k + 1] \in Linked /\ f[k + 1] \in Node /\ f[hi] \in Linked
  BY <1>3, <1>4 DEF Linked
<1>6. /\ link'[f[k]] = f[k + 1]
      /\ \A x \in Linked : x # f[k] => link'[x] = link[x]
  BY <1>1, <1>2, <1>3, <1>5 DEF IntrusiveTypes
<1>7. /\ ppc'[p] = "idle" /\ unlinked'[p] = 0
      /\ \A q \in Sender : q # p => ppc'[q] = ppc[q] /\ unlinked'[q] = unlinked[q]
  BY <1>1, <1>2 DEF IntrusiveTypes
<1>8. IntrusiveTypes'
  BY <1>1, <1>2, <1>3, <1>5 DEF IntrusiveTypes
<1>9. Chained(f, r, lo, hi)'
  BY <1>1, <1>2 DEF Chained
<1>10. \A x : Open(x)' <=> Open(x) /\ x # f[k]
  <2>1. \A q \in Sender : q # p /\ ppc[q] = "link" => prev[q] # f[k]
    BY <1>1, <1>2, <1>3 DEF SendersApart
  <2>2. at = "link" => prev[Dummy] # f[k]
    <3> SUFFICES ASSUME at = "link", prev[Dummy] = f[k] PROVE FALSE
      OBVIOUS
    <3>1. PICK i \in lo .. hi - 1 : prev[Dummy] = f[i] /\ f[i + 1] = Dummy
      BY <1>2 DEF Polling
    <3>2. i = k
      BY <1>4, <3>1
    <3> QED
      BY <1>3, <3>1, <3>2
  <2> QED
    BY <1>1, <1>3, <1>7, <2>1, <2>2 DEF Open
<1>11. LinkedUp(f, lo, hi)'
  <2>1. ASSUME NEW i \in lo .. hi - 1
        PROVE  /\ Open(f[i])' => link'[f[i]] = NULL
               /\ ~Open(f[i])' => link'[f[i]] = f[i + 1]
    <3>1. CASE i = k
      BY <1>6, <1>10, <3>1
    <3>2. CASE i # k
      <4>1. f[i] # f[k] /\ f[i] \in Linked
        BY <1>4, <3>2
      <4>2. (Open(f[i]) => link[f[i]] = NULL) /\ (~Open(f[i]) => link[f[i]] = f[i + 1])
        BY <1>2 DEF LinkedUp
      <4> QED
        BY <1>6, <1>10, <4>1, <4>2
    <3> QED
      BY <3>1, <3>2
  <2>2. link'[f[hi]] = NULL
    <3>1. f[hi] # f[k] /\ link[f[hi]] = NULL
      BY <1>2, <1>4 DEF LinkedUp
    <3> QED
      BY <1>5, <1>6, <3>1
  <2> QED
    BY <2>1, <2>2 DEF LinkedUp
<1>12. Sending(f, r, lo, hi)'
  <2>1. ASSUME NEW q \in Sender, ppc[q] = "exchange" PROVE link'[input[q]] = NULL
    <3>1. input[q] \in Linked /\ input[q] # f[k] /\ link[input[q]] = NULL
      BY <1>2, <1>4, <2>1 DEF Sending, Linked
    <3> QED
      BY <1>6, <3>1
  <2>2. \A q \in Sender : ppc'[q] # "idle" => ppc'[q] = ppc[q] /\ unlinked'[q] = unlinked[q]
    BY <1>7
  <2>3. \A q \in Sender : ppc'[q] # "link" => unlinked'[q] = 0
    BY <1>2, <1>7 DEF Sending
  <2>4. \A q \in Sender : draining => ppc'[q] = "idle"
    BY <1>2, <1>7 DEF Sending
  <2> QED
    BY <1>1, <1>2, <2>1, <2>2, <2>3, <2>4 DEF Sending
<1>13. SendersApart'
  BY <1>1, <1>2, <1>7 DEF SendersApart
<1>14. Polling(f, lo, hi)'
  <2>1. at = "exchange" => link'[Dummy] = NULL
    BY <1>2, <1>4, <1>6 DEF Polling, Linked
  <2>2. link[first] # NULL => link'[first] # NULL
    <3>1. first = f[lo] /\ first \in Linked
      BY OpenFacts
    <3>2. f[k + 1] # NULL
      BY <1>5, IntrusiveAssumption DEF Linked
    <3> QED
      BY <1>6, <3>1, <3>2
  <2> QED
    BY <1>1, <1>2, <2>1, <2>2 DEF Polling
<1> QED
  BY <1>8, <1>9, <1>11, <1>12, <1>13, <1>14 DEF InvAt

\* A step of the consumer, or of the destructor, that changes neither the queue nor a link.
LEMMA LookInv ==
  ASSUME NEW f \in [Nat -> Linked], NEW r \in [Nat -> Nat], NEW lo \in Nat, NEW hi \in Nat,
         InvAt(f, r, lo, hi),
         UNCHANGED <<first, newest, link, free, ppc, input, prev, items, unlinked, got>>,
         at # "link", at' # "link", \A p \in Sender : draining' => ppc[p] = "idle",
         Polling(f, lo, hi)'
  PROVE  InvAt(f, r, lo, hi)'
<1>1. /\ IntrusiveTypes /\ Chained(f, r, lo, hi) /\ LinkedUp(f, lo, hi)
      /\ Sending(f, r, lo, hi) /\ SendersApart /\ Polling(f, lo, hi)
  BY DEF InvAt
<1>2. IntrusiveTypes'
  BY <1>1 DEF IntrusiveTypes
<1>3. Chained(f, r, lo, hi)'
  BY <1>1 DEF Chained
<1>4. \A x : Open(x)' <=> Open(x)
  BY DEF Open
<1>5. LinkedUp(f, lo, hi)'
  BY <1>1, <1>4 DEF LinkedUp
<1>6. Sending(f, r, lo, hi)' /\ SendersApart'
  BY <1>1 DEF Sending, SendersApart
<1> QED
  BY <1>2, <1>3, <1>5, <1>6 DEF InvAt

LeavesDummy == /\ first = Dummy /\ at = "idle" /\ at' = "load" /\ overlap' = Intrusive!Linking
               /\ UNCHANGED <<free, got>>
TakesFirst  == /\ first # Dummy /\ at' = "idle" /\ ~overlap'
               /\ free' = free \cup {first} /\ got' = got + 1

\* The consumer goes on to the second node: it gives the first out, or leaves the dummy.
LEMMA GoOnInv ==
  ASSUME NEW f \in [Nat -> Linked], NEW r \in [Nat -> Nat], NEW lo \in Nat, NEW hi \in Nat,
         InvAt(f, r, lo, hi), at # "link",
         link[first] # NULL, first' = link[first],
         LeavesDummy \/ TakesFirst,
         UNCHANGED <<link, newest, prev, ppc, input, draining, items, unlinked>>
  PROVE  IntrusiveInv'
<1>1. /\ IntrusiveTypes /\ Chained(f, r, lo, hi) /\ LinkedUp(f, lo, hi)
      /\ Sending(f, r, lo, hi) /\ SendersApart /\ Polling(f, lo, hi)
  BY DEF InvAt
<1>2. /\ lo < hi /\ first = f[lo] /\ first' = f[lo + 1] /\ ~Open(first) /\ first \in Linked
  BY OpenFacts
<1>3. PICK m \in Nat : /\ m = lo + 1 /\ m <= hi
                       /\ \A i \in m .. hi : i \in lo .. hi /\ i # lo
                       /\ \A i \in m .. hi - 1 : i \in lo .. hi - 1
                       /\ \A i \in lo .. hi - 1 : i = lo \/ i \in m .. hi - 1
                       /\ lo \in lo .. hi /\ m \in lo .. hi
  BY <1>2
<1>4. Chained(f, r, m, hi)'
  BY <1>1, <1>2, <1>3, PopChained DEF LeavesDummy, TakesFirst
<1>5. IntrusiveTypes'
  <2>1. free' \subseteq Node
    BY <1>1, <1>2 DEF IntrusiveTypes, Linked, LeavesDummy, TakesFirst
  <2>2. got \in Nat /\ (got' = got \/ got' = got + 1)
    BY <1>1 DEF IntrusiveTypes, LeavesDummy, TakesFirst
  <2>3. got' \in Nat
    BY <2>2
  <2> QED
    BY <1>1, <2>1, <2>3 DEF IntrusiveTypes
<1>6. at' # "link"
  BY DEF LeavesDummy, TakesFirst
<1>60. \A x : Open(x)' <=> Open(x)
  BY <1>6 DEF Open
<1>7. LinkedUp(f, m, hi)'
  BY <1>1, <1>3, <1>60 DEF LinkedUp
<1>8. Sending(f, r, m, hi)'
  <2>1. ASSUME NEW p \in Sender, ppc[p] = "exchange" PROVE input[p] \notin free'
    <3>1. input[p] \notin free /\ input[p] # f[lo]
      BY <1>1, <1>3, <2>1 DEF Sending
    <3> QED
      BY <1>2, <3>1 DEF LeavesDummy, TakesFirst
  <2>2. ASSUME NEW p \in Sender, ppc[p] = "link"
        PROVE  \E i \in m .. hi - 1 : /\ prev[p] = f[i] /\ input[p] = f[i + 1]
                                       /\ input[p] # Dummy /\ unlinked[p] = r[i + 1]
    <3>1. PICK i \in lo .. hi - 1 : /\ prev[p] = f[i] /\ input[p] = f[i + 1]
                                     /\ input[p] # Dummy /\ unlinked[p] = r[i + 1]
      BY <1>1, <2>2 DEF Sending
    <3>2. i # lo
      BY <1>2, <2>2, <3>1 DEF Open
    <3> QED
      BY <1>3, <3>1, <3>2
  <2>3. \A i \in m .. hi : i \in lo .. hi
    BY <1>3
  <2> QED
    BY <1>1, <2>1, <2>2, <2>3 DEF Sending
<1>9. SendersApart'
  BY <1>1 DEF SendersApart
<1>10. Polling(f, m, hi)'
  <2>1. first = Dummy => first' # Dummy
    BY <1>1, <1>2, <1>3, ZenonT(30) DEF Chained
  <2>2. draining => ~Intrusive!Linking
    <3>1. \A p \in Sender : draining => unlinked[p] = 0
      BY <1>1 DEF Sending
    <3> QED
      BY <3>1 DEF Intrusive!Linking
  <2>3. CASE LeavesDummy
    BY <1>1, <1>2, <2>1, <2>2, <2>3 DEF Polling, LeavesDummy
  <2>4. CASE TakesFirst
    BY <1>1, <2>4 DEF Polling, TakesFirst
  <2> QED
    BY <2>3, <2>4
<1>11. InvAt(f, r, m, hi)'
  BY <1>4, <1>5, <1>7, <1>8, <1>9, <1>10 DEF InvAt
<1> QED
  BY <1>11 DEF IntrusiveInv

\* What Dequeue() leaves alone in every step.
Elsewhere == UNCHANGED <<ppc, input, draining, items, unlinked>>

LEMMA NothingInv ==
  ASSUME NEW f \in [Nat -> Linked], NEW r \in [Nat -> Nat], NEW lo \in Nat, NEW hi \in Nat,
         InvAt(f, r, lo, hi), Intrusive!GivesNothing, Elsewhere,
         UNCHANGED <<link, newest, prev>>, at # "link",
         draining => got = Len(items)
  PROVE  IntrusiveInv'
<1>1. /\ at' = (IF draining THEN "gone" ELSE "idle") /\ overlap' = FALSE
      /\ UNCHANGED <<first, newest, link, free, ppc, input, prev, items, unlinked, got, draining>>
  BY DEF Intrusive!GivesNothing, Elsewhere
<1>2. \A p \in Sender : draining' => ppc[p] = "idle"
  BY <1>1 DEF InvAt, Sending
<1>3. Polling(f, lo, hi)'
  BY <1>1 DEF Polling
<1>4. at' # "link"
  BY <1>1
<1>5. InvAt(f, r, lo, hi)'
  BY <1>1, <1>2, <1>3, <1>4, LookInv
<1> QED
  BY <1>5 DEF IntrusiveInv

LEMMA GivesInv ==
  ASSUME NEW f \in [Nat -> Linked], NEW r \in [Nat -> Nat], NEW lo \in Nat, NEW hi \in Nat,
         InvAt(f, r, lo, hi), Intrusive!Gives(first, link[first]), Elsewhere,
         UNCHANGED <<link, newest, prev>>, at # "link", first # Dummy, link[first] # NULL
  PROVE  IntrusiveInv'
<1>1. TakesFirst /\ first' = link[first]
  BY DEF Intrusive!Gives, TakesFirst
<1>2. UNCHANGED <<link, newest, prev, ppc, input, draining, items, unlinked>>
  BY DEF Elsewhere
<1> QED
  BY <1>1, <1>2, GoOnInv

\* A step that only looks, on the way to a label that Polling asks something for.
LEMMA GoesInv ==
  ASSUME NEW f \in [Nat -> Linked], NEW r \in [Nat -> Nat], NEW lo \in Nat, NEW hi \in Nat,
         InvAt(f, r, lo, hi), NEW label \in {"head", "null"}, Intrusive!Goes(label), Elsewhere,
         UNCHANGED <<link, newest, prev>>, at # "link", at # "gone", first # Dummy,
         overlap \/ Intrusive!Linking \/ lo = hi,
         label = "null" => lo = hi
  PROVE  IntrusiveInv'
<1>1. /\ at' = label /\ overlap' = (overlap \/ Intrusive!Linking)
      /\ UNCHANGED <<first, newest, link, free, ppc, input, prev, items, unlinked, got, draining>>
  BY DEF Intrusive!Goes, Elsewhere
<1>2. \A p \in Sender : draining => ppc[p] = "idle" /\ unlinked[p] = 0
  BY DEF InvAt, Sending
<1>3. draining => ~Intrusive!Linking
  BY <1>2 DEF Intrusive!Linking
<1>4. Polling(f, lo, hi)'
  <2>1. Polling(f, lo, hi) /\ first = f[lo]
    BY DEF InvAt, Chained
  <2>2. label = "null" => \A i \in lo .. hi : f[i] # Dummy
    <3>1. lo = hi => \A i \in lo .. hi : i = lo
      OBVIOUS
    <3> QED
      BY <2>1, <3>1
  <2> QED
    BY <1>1, <1>3, <2>1, <2>2 DEF Polling
<1>5. at' # "link" /\ \A p \in Sender : draining' => ppc[p] = "idle"
  BY <1>1, <1>2
<1>6. InvAt(f, r, lo, hi)'
  BY <1>1, <1>4, <1>5, LookInv
<1> QED
  BY <1>6 DEF IntrusiveInv

\* The consumer that finds no link behind the first node is at the last one, or overlaps.
LEMMA LastOrLinking ==
  ASSUME NEW f \in [Nat -> Linked], NEW r \in [Nat -> Nat], NEW lo \in Nat, NEW hi \in Nat,
         InvAt(f, r, lo, hi), at # "link", link[first] = NULL
  PROVE  lo = hi \/ Intrusive!Linking
BY OpenFacts

\* A destructor that finds no node behind the dummy has taken everything.
LEMMA DrainedEmpty ==
  ASSUME NEW f \in [Nat -> Linked], NEW r \in [Nat -> Nat], NEW lo \in Nat, NEW hi \in Nat,
         InvAt(f, r, lo, hi), at # "link", link[first] = NULL, first = Dummy
  PROVE  /\ draining => got = Len(items)
         /\ got = Len(items) \/ Intrusive!Linking
<1>1. lo = hi \/ Intrusive!Linking
  BY OpenFacts
<1>2. lo = hi => got = Len(items)
  BY OpenFacts
<1>3. \A p \in Sender : draining => unlinked[p] = 0
  BY DEF InvAt, Sending
<1>4. draining => ~Intrusive!Linking
  BY <1>3 DEF Intrusive!Linking
<1> QED
  BY <1>1, <1>2, <1>4

LEMMA LoadInv ==
  ASSUME NEW f \in [Nat -> Linked], NEW r \in [Nat -> Nat], NEW lo \in Nat, NEW hi \in Nat,
         InvAt(f, r, lo, hi), Intrusive!Load, Elsewhere
  PROVE  IntrusiveInv'
<1>1. at = "idle" /\ at # "link" /\ UNCHANGED <<link, newest, prev>>
  BY DEF Intrusive!Load
<1>2. CASE first = Dummy /\ link[first] = NULL
  BY <1>1, <1>2, NothingInv, DrainedEmpty DEF Intrusive!Load
<1>3. CASE first = Dummy /\ link[first] # NULL
  <2>1. LeavesDummy /\ first' = link[first]
    BY <1>1, <1>3 DEF Intrusive!Load, LeavesDummy
  <2>2. UNCHANGED <<link, newest, prev, ppc, input, draining, items, unlinked>>
    BY <1>1 DEF Elsewhere
  <2> QED
    BY <1>1, <1>3, <2>1, <2>2, GoOnInv
<1>4. CASE first # Dummy /\ link[first] # NULL
  BY <1>1, <1>4, GivesInv DEF Intrusive!Load
<1>5. CASE first # Dummy /\ link[first] = NULL
  <2>1. lo = hi \/ Intrusive!Linking
    BY <1>1, <1>5, LastOrLinking
  <2>2. Intrusive!Goes("head")
    BY <1>5 DEF Intrusive!Load
  <2> QED
    BY <1>1, <1>5, <2>1, <2>2, GoesInv
<1> QED
  BY <1>2, <1>3, <1>4, <1>5

LEMMA LoadNextInv ==
  ASSUME NEW f \in [Nat -> Linked], NEW r \in [Nat -> Nat], NEW lo \in Nat, NEW hi \in Nat,
         InvAt(f, r, lo, hi), Intrusive!LoadNext, Elsewhere
  PROVE  IntrusiveInv'
<1>1. at = "load" /\ at # "link" /\ UNCHANGED <<link, newest, prev>>
  BY DEF Intrusive!LoadNext
<1>2. first # Dummy
  BY <1>1, OpenFacts
<1>3. CASE link[first] # NULL
  BY <1>1, <1>2, <1>3, GivesInv DEF Intrusive!LoadNext
<1>4. CASE link[first] = NULL
  <2>1. lo = hi \/ Intrusive!Linking
    BY <1>1, <1>4, LastOrLinking
  <2>2. Intrusive!Goes("head")
    BY <1>4 DEF Intrusive!LoadNext
  <2> QED
    BY <1>1, <1>2, <2>1, <2>2, GoesInv
<1> QED
  BY <1>3, <1>4

LEMMA LoadHeadInv ==
  ASSUME NEW f \in [Nat -> Linked], NEW r \in [Nat -> Nat], NEW lo \in Nat, NEW hi \in Nat,
         InvAt(f, r, lo, hi), Intrusive!LoadHead, Elsewhere
  PROVE  IntrusiveInv'
<1>1. at = "head" /\ UNCHANGED <<link, newest, prev>>
  BY DEF Intrusive!LoadHead
<1>2. first # Dummy /\ first = f[lo] /\ newest = f[hi] /\ lo <= hi
  BY <1>1, OpenFacts
<1>3. Polling(f, lo, hi) /\ Chained(f, r, lo, hi)
  BY DEF InvAt
<1>4. CASE first # newest
  <2>1. ~draining
    BY <1>1, <1>2, <1>3, <1>4 DEF Polling
  <2> QED
    BY <1>1, <1>4, <2>1, NothingInv DEF Intrusive!LoadHead
<1>5. CASE first = newest
  <2>1. lo = hi
    <3>1. lo \in lo .. hi /\ hi \in lo .. hi
      BY <1>2
    <3> QED
      BY <1>2, <1>3, <1>5, <3>1 DEF Chained
  <2>2. Intrusive!Goes("null")
    BY <1>5 DEF Intrusive!LoadHead
  <2> QED
    BY <1>1, <1>2, <2>1, <2>2, GoesInv
<1> QED
  BY <1>4, <1>5

LEMMA LoadLastInv ==
  ASSUME NEW f \in [Nat -> Linked], NEW r \in [Nat -> Nat], NEW lo \in Nat, NEW hi \in Nat,
         InvAt(f, r, lo, hi), Intrusive!LoadLast, Elsewhere
  PROVE  IntrusiveInv'
<1>1. at = "last" /\ UNCHANGED <<link, newest, prev>>
  BY DEF Intrusive!LoadLast
<1>2. first # Dummy
  BY <1>1, OpenFacts
<1>3. CASE link[first] # NULL
  BY <1>1, <1>2, <1>3, GivesInv DEF Intrusive!LoadLast
<1>4. CASE link[first] = NULL
  <2>1. ~draining
    BY <1>1, <1>4 DEF InvAt, Polling
  <2> QED
    BY <1>1, <1>4, <2>1, NothingInv DEF Intrusive!LoadLast
<1> QED
  BY <1>3, <1>4

LEMMA DrainInv ==
  ASSUME NEW f \in [Nat -> Linked], NEW r \in [Nat -> Nat], NEW lo \in Nat, NEW hi \in Nat,
         InvAt(f, r, lo, hi), Intrusive!Drain
  PROVE  IntrusiveInv'
<1>1. /\ at = "idle" /\ at' = "idle" /\ \A p \in Sender : draining' => ppc[p] = "idle"
      /\ UNCHANGED <<first, newest, link, free, ppc, input, prev, items, unlinked, got, overlap>>
  BY DEF Intrusive!Drain, Intrusive!senderVars
<1>2. Polling(f, lo, hi)'
  BY <1>1 DEF InvAt, Polling
<1>3. at # "link" /\ at' # "link"
  BY <1>1
<1>4. InvAt(f, r, lo, hi)'
  BY <1>1, <1>2, <1>3, LookInv
<1> QED
  BY <1>4 DEF IntrusiveInv

LEMMA DummyNullInv ==
  ASSUME NEW f \in [Nat -> Linked], NEW r \in [Nat -> Nat], NEW lo \in Nat, NEW hi \in Nat,
         InvAt(f, r, lo, hi), Intrusive!DummyNull, Elsewhere
  PROVE  IntrusiveInv'
<1>1. /\ at = "null" /\ at' = "exchange" /\ overlap' = (overlap \/ Intrusive!Linking)
      /\ link' = [link EXCEPT ![Dummy] = NULL]
      /\ UNCHANGED <<first, newest, free, ppc, input, prev, items, unlinked, got, draining>>
  BY DEF Intrusive!DummyNull, Intrusive!Goes, Elsewhere
<1>2. /\ IntrusiveTypes /\ Chained(f, r, lo, hi) /\ LinkedUp(f, lo, hi)
      /\ Sending(f, r, lo, hi) /\ SendersApart /\ Polling(f, lo, hi)
  BY DEF InvAt
<1>3. link'[Dummy] = NULL /\ \A x \in Linked : x # Dummy => link'[x] = link[x]
  BY <1>1, <1>2 DEF IntrusiveTypes, Linked
<1>4. \A i \in lo .. hi : f[i] # Dummy
  BY <1>1, <1>2 DEF Polling
<1>5. IntrusiveTypes'
  BY <1>1, <1>2 DEF IntrusiveTypes
<1>6. Chained(f, r, lo, hi)'
  BY <1>1, <1>2 DEF Chained
<1>7. \A x : Open(x)' <=> Open(x)
  BY <1>1 DEF Open
<1>8. LinkedUp(f, lo, hi)'
  <2>1. \A i \in lo .. hi : link'[f[i]] = link[f[i]]
    BY <1>3, <1>4
  <2>2. hi \in lo .. hi /\ \A i \in lo .. hi - 1 : i \in lo .. hi
    BY <1>2 DEF Chained
  <2> QED
    BY <1>2, <1>7, <2>1, <2>2 DEF LinkedUp
<1>9. Sending(f, r, lo, hi)'
  <2>1. ASSUME NEW q \in Sender, ppc[q] = "exchange" PROVE link'[input[q]] = NULL
    <3>1. input[q] \in Linked /\ link[input[q]] = NULL
      BY <1>2, <2>1 DEF Sending, Linked
    <3> QED
      BY <1>3, <3>1
  <2> QED
    BY <1>1, <1>2, <2>1 DEF Sending
<1>10. SendersApart'
  BY <1>1, <1>2 DEF SendersApart
<1>11. Polling(f, lo, hi)'
  <2>1. \A p \in Sender : draining => unlinked[p] = 0
    BY <1>2 DEF Sending
  <2>2. draining => ~Intrusive!Linking
    BY <2>1 DEF Intrusive!Linking
  <2> QED
    BY <1>1, <1>2, <1>3, <2>2 DEF Polling
<1>12. InvAt(f, r, lo, hi)'
  BY <1>5, <1>6, <1>8, <1>9, <1>10, <1>11 DEF InvAt
<1> QED
  BY <1>12 DEF IntrusiveInv

LEMMA DummyExchangeInv ==
  ASSUME NEW f \in [Nat -> Linked], NEW r \in [Nat -> Nat], NEW lo \in Nat, NEW hi \in Nat,
         InvAt(f, r, lo, hi), Intrusive!DummyExchange, Elsewhere
  PROVE  IntrusiveInv'
<1>1. /\ at = "exchange" /\ at' = "link" /\ overlap' = (overlap \/ Intrusive!Linking)
      /\ prev' = [prev EXCEPT ![Dummy] = newest] /\ newest' = Dummy
      /\ UNCHANGED <<first, link, free, ppc, input, items, unlinked, got, draining>>
  BY DEF Intrusive!DummyExchange, Intrusive!Goes, Elsewhere
<1>2. /\ IntrusiveTypes /\ Chained(f, r, lo, hi) /\ LinkedUp(f, lo, hi)
      /\ Sending(f, r, lo, hi) /\ SendersApart /\ Polling(f, lo, hi)
  BY DEF InvAt
<1>3. Dummy \notin free /\ link[Dummy] = NULL /\ \A i \in lo .. hi : f[i] # Dummy
  BY <1>1, <1>2, IntrusiveAssumption DEF Polling, IntrusiveTypes
<1>4. Dummy \in Linked
  BY DEF Linked
<1>41. Len(items') \in Nat
  BY <1>1, <1>2, LenProperties DEF IntrusiveTypes
<1>42. PICK k \in Nat : k = Len(items')
  BY <1>41
<1>43. PICK m \in Nat, g \in [Nat -> Linked], s \in [Nat -> Nat] :
        Longer(f, r, lo, hi, g, s, m, Dummy, k)
  BY <1>4, Lengthen
<1>5. /\ m = hi + 1 /\ g[m] = Dummy
      /\ \A i \in lo .. hi : g[i] = f[i] /\ s[i] = r[i]
      /\ Chained(g, s, lo, m)'
  <2>1. PutBehind(Dummy)
    BY <1>1 DEF PutBehind
  <2>2. Absent(f, lo, hi, Dummy)
    BY <1>3 DEF Absent
  <2>3. IntrusiveTypes /\ Chained(f, r, lo, hi) /\ Dummy \in Linked /\ Dummy \notin free
    BY <1>2, <1>3, <1>4
  <2>4. Chained(g, s, lo, m)'
    BY <1>42, <1>43, <2>1, <2>2, <2>3, PushChained
  <2> QED
    BY <1>42, <1>43, <2>4 DEF Longer
<1>6. /\ lo \in lo .. hi /\ hi \in lo .. hi /\ newest = f[hi] /\ first = f[lo] /\ newest \in Linked
      /\ \A i \in lo .. hi - 1 : i \in lo .. hi /\ i + 1 \in lo .. hi
      /\ \A i \in lo .. m - 1 : i = hi \/ i \in lo .. hi - 1
      /\ hi \in lo .. m - 1 /\ \A i \in lo .. hi - 1 : i \in lo .. m - 1
      /\ m - 1 = hi
      /\ \A i \in lo .. m : i = m \/ i \in lo .. hi
  <2>1. lo <= hi /\ newest = f[hi] /\ first = f[lo]
    BY <1>2 DEF Chained
  <2>2. newest \in Linked
    BY <2>1
  <2>3. m = hi + 1
    BY <1>5
  <2> QED
    BY <2>1, <2>2, <2>3
<1>7. prev'[Dummy] = newest /\ \A q \in Sender : prev'[q] = prev[q]
  BY <1>1, <1>2, IntrusiveAssumption DEF IntrusiveTypes
<1>8. IntrusiveTypes'
  <2>1. prev' \in [Sender \cup {Dummy} -> Linked \cup {NULL}]
    BY <1>1, <1>2, <1>6 DEF IntrusiveTypes
  <2> QED
    BY <1>1, <1>2, <2>1 DEF IntrusiveTypes
<1>9. \A x : Open(x)' <=> Open(x) \/ x = newest
  BY <1>1, <1>7 DEF Open
<1>10. LinkedUp(g, lo, m)'
  <2>1. ASSUME NEW i \in lo .. m - 1
        PROVE  /\ Open(g[i])' => link'[g[i]] = NULL
               /\ ~Open(g[i])' => link'[g[i]] = g[i + 1]
    <3>1. CASE i = hi
      <4>1. g[i] = newest /\ link[newest] = NULL
        BY <1>2, <1>5, <1>6, <3>1 DEF LinkedUp
      <4> QED
        BY <1>1, <1>9, <4>1
    <3>2. CASE i \in lo .. hi - 1
      <4>1. g[i] = f[i] /\ g[i + 1] = f[i + 1] /\ f[i] # newest
        <5>1. i \in lo .. hi /\ i + 1 \in lo .. hi /\ i # hi
          BY <1>6, <3>2
        <5>2. f[i] # newest
          BY <1>2, <1>6, <5>1 DEF Chained
        <5> QED
          BY <1>5, <5>1, <5>2
      <4>2. (Open(f[i]) => link[f[i]] = NULL) /\ (~Open(f[i]) => link[f[i]] = f[i + 1])
        BY <1>2, <3>2 DEF LinkedUp
      <4> QED
        BY <1>1, <1>9, <4>1, <4>2
    <3> QED
      BY <1>6, <3>1, <3>2
  <2>2. link'[g[m]] = NULL
    BY <1>1, <1>3, <1>5
  <2> QED
    BY <2>1, <2>2 DEF LinkedUp
<1>11. Sending(g, s, lo, m)'
  <2>1. ASSUME NEW q \in Sender, ppc[q] = "exchange" PROVE \A i \in lo .. m : g[i] # input[q]
    <3>1. input[q] # Dummy /\ \A i \in lo .. hi : f[i] # input[q]
      BY <1>2, <2>1, IntrusiveAssumption DEF Sending
    <3> QED
      BY <1>5, <1>6, <3>1
  <2>2. ASSUME NEW q \in Sender, ppc[q] = "link"
        PROVE  \E i \in lo .. m - 1 : /\ prev'[q] = g[i] /\ input[q] = g[i + 1]
                                       /\ input[q] # Dummy /\ unlinked[q] = s[i + 1]
    <3>1. PICK i \in lo .. hi - 1 : /\ prev[q] = f[i] /\ input[q] = f[i + 1]
                                     /\ input[q] # Dummy /\ unlinked[q] = r[i + 1]
      BY <1>2, <2>2 DEF Sending
    <3>2. i \in lo .. m - 1 /\ g[i] = f[i] /\ g[i + 1] = f[i + 1] /\ s[i + 1] = r[i + 1]
      BY <1>5, <1>6
    <3> QED
      BY <1>7, <3>1, <3>2
  <2> QED
    BY <1>1, <1>2, <2>1, <2>2 DEF Sending
<1>12. SendersApart'
  BY <1>1, <1>2, <1>7 DEF SendersApart
<1>13. Polling(g, lo, m)'
  <2>1. overlap \/ m = lo + 1
    BY <1>1, <1>2, <1>5 DEF Polling
  <2>2. prev'[Dummy] = g[hi] /\ g[hi + 1] = Dummy
    BY <1>5, <1>6, <1>7
  <2>3. \A p \in Sender : draining => unlinked[p] = 0
    BY <1>2 DEF Sending
  <2>4. draining => ~Intrusive!Linking
    BY <2>3 DEF Intrusive!Linking
  <2>5. \E i \in lo .. m - 1 : prev'[Dummy] = g[i] /\ g[i + 1] = Dummy
    BY <1>6, <2>2
  <2> QED
    BY <1>1, <1>2, <2>1, <2>4, <2>5 DEF Polling
<1>14. InvAt(g, s, lo, m)'
  BY <1>5, <1>8, <1>10, <1>11, <1>12, <1>13 DEF InvAt
<1> QED
  BY <1>14 DEF IntrusiveInv

LEMMA DummyLinkInv ==
  ASSUME NEW f \in [Nat -> Linked], NEW r \in [Nat -> Nat], NEW lo \in Nat, NEW hi \in Nat,
         InvAt(f, r, lo, hi), Intrusive!DummyLink, Elsewhere
  PROVE  IntrusiveInv'
<1>1. /\ at = "link" /\ at' = "last" /\ overlap' = (overlap \/ Intrusive!Linking)
      /\ link' = [link EXCEPT ![prev[Dummy]] = Dummy]
      /\ UNCHANGED <<first, newest, free, ppc, input, prev, items, unlinked, got, draining>>
  BY DEF Intrusive!DummyLink, Intrusive!Goes, Elsewhere
<1>2. /\ IntrusiveTypes /\ Chained(f, r, lo, hi) /\ LinkedUp(f, lo, hi)
      /\ Sending(f, r, lo, hi) /\ SendersApart /\ Polling(f, lo, hi)
  BY DEF InvAt
<1>3. PICK k \in lo .. hi - 1 : prev[Dummy] = f[k] /\ f[k + 1] = Dummy
  BY <1>1, <1>2 DEF Polling
<1>4. /\ \A i, j \in lo .. hi : f[i] = f[j] => i = j
      /\ k \in lo .. hi /\ k \in Nat /\ k + 1 \in lo .. hi /\ k + 1 \in Nat /\ k # hi
      /\ hi \in lo .. hi /\ lo \in lo .. hi
      /\ \A i \in lo .. hi - 1 : i \in lo .. hi /\ i \in Nat /\ i + 1 \in lo .. hi
  BY <1>2, SMTT(30) DEF Chained
<1>5. f[k] \in Linked /\ f[k + 1] = Dummy /\ f[hi] \in Linked /\ Dummy \in Linked
  BY <1>3, <1>4 DEF Linked
<1>6. /\ link'[f[k]] = f[k + 1]
      /\ \A x \in Linked : x # f[k] => link'[x] = link[x]
  BY <1>1, <1>2, <1>3, <1>5 DEF IntrusiveTypes
<1>7. IntrusiveTypes'
  BY <1>1, <1>2, <1>3, <1>5 DEF IntrusiveTypes
<1>8. Chained(f, r, lo, hi)'
  BY <1>1, <1>2 DEF Chained
<1>9. \A x : Open(x)' <=> Open(x) /\ x # f[k]
  <2>1. ASSUME NEW q \in Sender, ppc[q] = "link" PROVE prev[q] # f[k]
    <3>1. PICK i \in lo .. hi - 1 : prev[q] = f[i] /\ input[q] = f[i + 1] /\ input[q] # Dummy
      BY <1>2, <2>1 DEF Sending
    <3>2. i # k
      BY <1>3, <3>1
    <3> QED
      BY <1>4, <3>1, <3>2
  <2> QED
    BY <1>1, <1>3, <2>1 DEF Open
<1>10. LinkedUp(f, lo, hi)'
  <2>1. ASSUME NEW i \in lo .. hi - 1
        PROVE  /\ Open(f[i])' => link'[f[i]] = NULL
               /\ ~Open(f[i])' => link'[f[i]] = f[i + 1]
    <3>1. CASE i = k
      BY <1>6, <1>9, <3>1
    <3>2. CASE i # k
      <4>1. f[i] # f[k] /\ f[i] \in Linked
        BY <1>4, <3>2
      <4>2. (Open(f[i]) => link[f[i]] = NULL) /\ (~Open(f[i]) => link[f[i]] = f[i + 1])
        BY <1>2 DEF LinkedUp
      <4> QED
        BY <1>6, <1>9, <4>1, <4>2
    <3> QED
      BY <3>1, <3>2
  <2>2. link'[f[hi]] = NULL
    <3>1. f[hi] # f[k] /\ link[f[hi]] = NULL
      BY <1>2, <1>4 DEF LinkedUp
    <3> QED
      BY <1>5, <1>6, <3>1
  <2> QED
    BY <2>1, <2>2 DEF LinkedUp
<1>11. Sending(f, r, lo, hi)'
  <2>1. ASSUME NEW q \in Sender, ppc[q] = "exchange" PROVE link'[input[q]] = NULL
    <3>1. input[q] \in Linked /\ input[q] # f[k] /\ link[input[q]] = NULL
      BY <1>2, <1>4, <2>1 DEF Sending, Linked
    <3> QED
      BY <1>6, <3>1
  <2> QED
    BY <1>1, <1>2, <2>1 DEF Sending
<1>12. SendersApart'
  BY <1>1, <1>2 DEF SendersApart
<1>13. Polling(f, lo, hi)'
  <2>1. \A p \in Sender : draining => unlinked[p] = 0
    BY <1>2 DEF Sending
  <2>2. draining => ~Intrusive!Linking
    BY <2>1 DEF Intrusive!Linking
  <2>3. first = f[lo] /\ Dummy # NULL /\ (hi = lo + 1 => k = lo)
    BY <1>2, <1>4, IntrusiveAssumption DEF Chained
  <2>4. hi = lo + 1 => link'[first] # NULL
    BY <1>5, <1>6, <2>3
  <2>5. overlap \/ hi = lo + 1
    BY <1>1, <1>2 DEF Polling
  <2>6. first # Dummy /\ (draining => ~overlap)
    BY <1>1, <1>2 DEF Polling
  <2> QED
    BY <1>1, <2>2, <2>4, <2>5, <2>6 DEF Polling
<1>14. InvAt(f, r, lo, hi)'
  BY <1>7, <1>8, <1>10, <1>11, <1>12, <1>13 DEF InvAt
<1> QED
  BY <1>14 DEF IntrusiveInv

LEMMA NextIntrusive == IntrusiveInv /\ [Intrusive!Next]_(Intrusive!intrusive) => IntrusiveInv'
<1> SUFFICES ASSUME IntrusiveInv, [Intrusive!Next]_(Intrusive!intrusive) PROVE IntrusiveInv'
  OBVIOUS
<1>1. PICK f \in [Nat -> Linked], r \in [Nat -> Nat], lo \in Nat, hi \in Nat : InvAt(f, r, lo, hi)
  BY DEF IntrusiveInv
<1>2. CASE UNCHANGED Intrusive!intrusive
  <2>1. UNCHANGED <<first, newest, link, free, ppc, input, prev, at, draining, items, unlinked, got,
                    overlap>>
    BY <1>2 DEF Intrusive!intrusive, Intrusive!senderVars
  <2>2. \A x : Open(x)' <=> Open(x)
    BY <2>1 DEF Open
  <2>3. IntrusiveTypes' /\ Chained(f, r, lo, hi)'
    BY <1>1, <2>1 DEF InvAt, IntrusiveTypes, Chained
  <2>4. LinkedUp(f, lo, hi)'
    BY <1>1, <2>1, <2>2 DEF InvAt, LinkedUp
  <2>5. Sending(f, r, lo, hi)' /\ SendersApart'
    BY <1>1, <2>1 DEF InvAt, Sending, SendersApart
  <2>6. Polling(f, lo, hi)'
    BY <1>1, <2>1 DEF InvAt, Polling
  <2>7. InvAt(f, r, lo, hi)'
    BY <1>1, <2>3, <2>4, <2>5, <2>6 DEF InvAt
  <2> QED
    BY <2>7 DEF IntrusiveInv
<1>3. ASSUME NEW p \in Sender, NEW n \in Node, Intrusive!StoreNull(p, n) PROVE IntrusiveInv'
  <2>1. InvAt(f, r, lo, hi)'
    BY <1>1, <1>3, StoreNullInv
  <2> QED
    BY <2>1 DEF IntrusiveInv
<1>4. ASSUME NEW p \in Sender, Intrusive!Exchange(p) PROVE IntrusiveInv'
  BY <1>1, <1>4, ExchangeInv
<1>5. ASSUME NEW p \in Sender, Intrusive!Link(p) PROVE IntrusiveInv'
  <2>1. InvAt(f, r, lo, hi)'
    BY <1>1, <1>5, IntrusiveLinkInv
  <2> QED
    BY <2>1 DEF IntrusiveInv
<1>6. CASE Intrusive!Dequeue
  <2>1. Elsewhere
    BY <1>6 DEF Intrusive!Dequeue, Intrusive!senderVars, Elsewhere
  <2>2. CASE Intrusive!Load
    BY <1>1, <2>1, <2>2, LoadInv
  <2>3. CASE Intrusive!LoadNext
    BY <1>1, <2>1, <2>3, LoadNextInv
  <2>4. CASE Intrusive!LoadHead
    BY <1>1, <2>1, <2>4, LoadHeadInv
  <2>5. CASE Intrusive!DummyNull
    BY <1>1, <2>1, <2>5, DummyNullInv
  <2>6. CASE Intrusive!DummyExchange
    BY <1>1, <2>1, <2>6, DummyExchangeInv
  <2>7. CASE Intrusive!DummyLink
    BY <1>1, <2>1, <2>7, DummyLinkInv
  <2>8. CASE Intrusive!LoadLast
    BY <1>1, <2>1, <2>8, LoadLastInv
  <2> QED
    BY <1>6, <2>2, <2>3, <2>4, <2>5, <2>6, <2>7, <2>8 DEF Intrusive!Dequeue
<1>7. CASE Intrusive!Drain
  BY <1>1, <1>7, DrainInv
<1> QED
  BY <1>2, <1>3, <1>4, <1>5, <1>6, <1>7 DEF Intrusive!Next

LEMMA IntrusiveInvariance == Intrusive!Spec => []IntrusiveInv
BY InitIntrusive, NextIntrusive, PTL DEF Intrusive!Spec

-----------------------------------------------------------------------------
(* Its refinement: the exchange of an item sends, its link publishes, the step that gives   *)
(* an item receives, and every other step of the consumer leaves MessageQueue alone.        *)

QueueVars == <<items, unlinked, got, out>>

QueueStep == \/ \E p \in Sender : (\E n \in Node : Intrusive!Queue!Send(p, n))
                                  \/ Intrusive!Queue!Publish(p)
             \/ Intrusive!Queue!Receive
             \/ Intrusive!SeesEmpty

LEMMA GivesRefines ==
  ASSUME NEW f \in [Nat -> Linked], NEW r \in [Nat -> Nat], NEW lo \in Nat, NEW hi \in Nat,
         InvAt(f, r, lo, hi), Intrusive!Gives(first, link[first]), Elsewhere,
         first # Dummy, link[first] # NULL
  PROVE  QueueStep
<1>1. got + 1 \in 1 .. Len(items) /\ items[got + 1] = first /\ first = f[lo] /\ ~Open(first)
  BY OpenFacts
<1>2. got < Len(items)
  <2>1. got \in Nat /\ Len(items) \in Nat
    BY LenProperties DEF InvAt, IntrusiveTypes
  <2> QED
    BY <1>1, <2>1
<1>3. Chained(f, r, lo, hi) /\ Sending(f, r, lo, hi) /\ got \in Nat
  BY DEF InvAt, IntrusiveTypes
<1>4. ASSUME NEW p \in Sender, unlinked[p] = got + 1 PROVE FALSE
  <2>1. ppc[p] = "link"
    BY <1>3, <1>4 DEF Sending
  <2>2. PICK i \in lo .. hi - 1 : /\ prev[p] = f[i] /\ input[p] = f[i + 1]
                                   /\ input[p] # Dummy /\ unlinked[p] = r[i + 1]
    BY <1>3, <2>1 DEF Sending
  <2>3. PICK j \in Nat : j = i + 1 /\ j \in lo .. hi /\ j # lo /\ lo \in lo .. hi
    OBVIOUS
  <2>4. items[r[j]] = f[j]
    BY <1>3, <2>2, <2>3 DEF Chained
  <2>5. f[j] = f[lo]
    BY <1>1, <1>4, <2>2, <2>3, <2>4
  <2> QED
    BY <1>3, <2>3, <2>5 DEF Chained
<1>5. ~Intrusive!Queue!Pending(got + 1)
  BY <1>4 DEF Intrusive!Queue!Pending
<1>6. got' = got + 1 /\ out' = items[got + 1] /\ UNCHANGED <<items, unlinked>>
  BY <1>1 DEF Intrusive!Gives, Elsewhere
<1>7. Intrusive!Queue!Receive
  BY <1>2, <1>5, <1>6 DEF Intrusive!Queue!Receive
<1> QED
  BY <1>7 DEF QueueStep

LEMMA NothingRefines ==
  ASSUME Intrusive!GivesNothing, Elsewhere, got = Len(items) \/ Intrusive!Linking \/ overlap
  PROVE  QueueStep
<1>1. Intrusive!SeesEmpty
  BY DEF Intrusive!GivesNothing, Elsewhere, Intrusive!SeesEmpty
<1> QED
  BY <1>1 DEF QueueStep

LEMMA DequeueRefines ==
  ASSUME NEW f \in [Nat -> Linked], NEW r \in [Nat -> Nat], NEW lo \in Nat, NEW hi \in Nat,
         InvAt(f, r, lo, hi), Intrusive!Dequeue
  PROVE  QueueStep \/ UNCHANGED QueueVars
<1>1. Elsewhere
  BY DEF Intrusive!Dequeue, Intrusive!senderVars, Elsewhere
<1>2. first = Dummy => at \in {"idle", "gone"}
  BY OpenFacts
<1>3. ASSUME NEW label, Intrusive!Goes(label) PROVE UNCHANGED QueueVars
  BY <1>1, <1>3 DEF Intrusive!Goes, Elsewhere, QueueVars
<1>4. CASE Intrusive!Load
  <2>1. at # "link"
    BY <1>4 DEF Intrusive!Load
  <2>2. CASE first = Dummy /\ link[first] = NULL
    BY <1>1, <1>4, <2>1, <2>2, DrainedEmpty, NothingRefines DEF Intrusive!Load
  <2>3. CASE first = Dummy /\ link[first] # NULL
    BY <1>1, <1>4, <2>3 DEF Intrusive!Load, Elsewhere, QueueVars
  <2>4. CASE first # Dummy /\ link[first] # NULL
    BY <1>1, <1>4, <2>4, GivesRefines DEF Intrusive!Load
  <2>5. CASE first # Dummy /\ link[first] = NULL
    BY <1>3, <1>4, <2>5 DEF Intrusive!Load
  <2> QED
    BY <2>2, <2>3, <2>4, <2>5
<1>5. CASE Intrusive!LoadNext
  <2>1. first # Dummy
    BY <1>2, <1>5 DEF Intrusive!LoadNext
  <2>2. CASE link[first] # NULL
    BY <1>1, <1>5, <2>1, <2>2, GivesRefines DEF Intrusive!LoadNext
  <2>3. CASE link[first] = NULL
    BY <1>3, <1>5, <2>3 DEF Intrusive!LoadNext
  <2> QED
    BY <2>2, <2>3
<1>6. CASE Intrusive!LoadHead
  <2>1. CASE first # newest
    <3>1. overlap
      BY <1>6, <2>1 DEF Intrusive!LoadHead, InvAt, Polling, Chained
    <3> QED
      BY <1>1, <1>6, <2>1, <3>1, NothingRefines DEF Intrusive!LoadHead
  <2>2. CASE first = newest
    BY <1>3, <1>6, <2>2 DEF Intrusive!LoadHead
  <2> QED
    BY <2>1, <2>2
<1>7. CASE Intrusive!DummyNull \/ Intrusive!DummyExchange \/ Intrusive!DummyLink
  BY <1>3, <1>7 DEF Intrusive!DummyNull, Intrusive!DummyExchange, Intrusive!DummyLink
<1>8. CASE Intrusive!LoadLast
  <2>1. first # Dummy
    BY <1>2, <1>8 DEF Intrusive!LoadLast
  <2>2. CASE link[first] # NULL
    BY <1>1, <1>8, <2>1, <2>2, GivesRefines DEF Intrusive!LoadLast
  <2>3. CASE link[first] = NULL
    <3>1. overlap
      BY <1>8, <2>3 DEF Intrusive!LoadLast, InvAt, Polling
    <3> QED
      BY <1>1, <1>8, <2>3, <3>1, NothingRefines DEF Intrusive!LoadLast
  <2> QED
    BY <2>2, <2>3
<1> QED
  BY <1>4, <1>5, <1>6, <1>7, <1>8 DEF Intrusive!Dequeue

LEMMA IntrusiveStep ==
  IntrusiveInv /\ [Intrusive!Next]_(Intrusive!intrusive) => [QueueStep]_QueueVars
<1> SUFFICES ASSUME IntrusiveInv, [Intrusive!Next]_(Intrusive!intrusive)
             PROVE  QueueStep \/ UNCHANGED QueueVars
  OBVIOUS
<1>1. PICK f \in [Nat -> Linked], r \in [Nat -> Nat], lo \in Nat, hi \in Nat : InvAt(f, r, lo, hi)
  BY DEF IntrusiveInv
<1>2. CASE UNCHANGED Intrusive!intrusive \/ Intrusive!Drain
  BY <1>2 DEF Intrusive!intrusive, Intrusive!Drain, QueueVars
<1>3. ASSUME NEW p \in Sender, NEW n \in Node, Intrusive!StoreNull(p, n) PROVE UNCHANGED QueueVars
  BY <1>3 DEF Intrusive!StoreNull, QueueVars
<1>4. ASSUME NEW p \in Sender, Intrusive!Exchange(p) PROVE QueueStep
  <2>1. PICK n \in Node : n = input[p]
    BY <1>1, <1>4 DEF Intrusive!Exchange, InvAt, Sending
  <2>2. unlinked[p] = 0 /\ items \in Seq(Node)
    BY <1>1, <1>4 DEF Intrusive!Exchange, InvAt, Sending, IntrusiveTypes
  <2>3. Len(Append(items, n)) = Len(items) + 1
    BY <2>2, AppendProperties
  <2>4. Intrusive!Queue!Send(p, n)
    BY <1>4, <2>1, <2>2, <2>3 DEF Intrusive!Exchange, Intrusive!Queue!Send
  <2> QED
    BY <2>4 DEF QueueStep
<1>5. ASSUME NEW p \in Sender, Intrusive!Link(p) PROVE QueueStep
  <2>1. Chained(f, r, lo, hi) /\ Sending(f, r, lo, hi) /\ ppc[p] = "link"
    BY <1>1, <1>5 DEF Intrusive!Link, InvAt
  <2>2. PICK i \in lo .. hi - 1 : input[p] = f[i + 1] /\ input[p] # Dummy /\ unlinked[p] = r[i + 1]
    BY <2>1 DEF Sending
  <2>3. PICK j \in lo .. hi : j = i + 1
    OBVIOUS
  <2>4. unlinked[p] # 0
    BY <2>1, <2>2, <2>3 DEF Chained
  <2>5. Intrusive!Queue!Publish(p)
    BY <1>5, <2>4 DEF Intrusive!Link, Intrusive!Queue!Publish
  <2> QED
    BY <2>5 DEF QueueStep
<1>6. CASE Intrusive!Dequeue
  BY <1>1, <1>6, DequeueRefines
<1> QED
  BY <1>2, <1>3, <1>4, <1>5, <1>6 DEF Intrusive!Next

LEMMA UntouchedAndEmptied == IntrusiveInv => Intrusive!Untouched /\ (at = "gone" => got = Len(items))
<1> SUFFICES ASSUME IntrusiveInv PROVE Intrusive!Untouched /\ (at = "gone" => got = Len(items))
  OBVIOUS
<1>1. PICK f \in [Nat -> Linked], r \in [Nat -> Nat], lo \in Nat, hi \in Nat : InvAt(f, r, lo, hi)
  BY DEF IntrusiveInv
<1>2. Chained(f, r, lo, hi) /\ Sending(f, r, lo, hi) /\ Polling(f, lo, hi)
  BY <1>1 DEF InvAt
<1>3. \A i \in lo .. hi : f[i] \notin free
  BY <1>2 DEF Chained
<1>4. first \notin free /\ newest \notin free
  <2>1. lo \in lo .. hi /\ hi \in lo .. hi /\ first = f[lo] /\ newest = f[hi]
    BY <1>2 DEF Chained
  <2> QED
    BY <1>3, <2>1
<1>5. \A i \in lo .. hi - 1 : i \in lo .. hi
  OBVIOUS
<1>6. \A p \in Sender : ppc[p] = "link" => prev[p] \notin free
  BY <1>2, <1>3, <1>5 DEF Sending
<1>7. at = "link" => prev[Dummy] \notin free
  BY <1>2, <1>3, <1>5 DEF Polling
<1> QED
  BY <1>2, <1>4, <1>6, <1>7 DEF Polling, Intrusive!Untouched

\* The items come out of the intrusive queue once each and in the order of the exchanges,
\* also when the dummy passes through it; false is returned only for an empty queue or for
\* a call that an Enqueue() overlapped; nobody touches an item that came out; and the
\* destructor leaves none behind.
THEOREM IntrusiveImplements == Intrusive!Spec => IntrusiveSpec
<1>1. Intrusive!Init => Intrusive!Queue!Init
  BY DEF Intrusive!Init, Intrusive!Queue!Init
<1> QED
  BY <1>1, IntrusiveInvariance, IntrusiveStep, UntouchedAndEmptied, PTL
     DEF Intrusive!Spec, IntrusiveSpec, Intrusive!IntrusiveSpec, QueueStep, QueueVars

=============================================================================
