------------------------------ MODULE RingBuffer ------------------------------
(***************************************************************************)
(* RingBuffer, BaseBuffer and BufferPool (src/net/Buffer.h): the bytes a   *)
(* TcpSession has received and not read yet, in a list of buffers, and the *)
(* pool from which the buffers come and to which they go back.             *)
(*                                                                         *)
(* Everything here is called from one strand.  A read or a write loops     *)
(* over the buffers, one turn of the loop per step; between two calls left *)
(* and todo are 0.  Byte number k of the stream is the number k.           *)
(***************************************************************************)
EXTENDS Integers, Sequences, FiniteSets, SequencesExt

CONSTANTS Buffer,    \* addresses of BaseBuffers
          Capacity,  \* MAX_BUFFER_SIZE, the len_ of every buffer
          PoolMax,   \* N of the BufferPool
          MaxBytes   \* bound on the bytes that come in

ASSUME CapacityAssumption == Capacity \in Nat \ {0}
ASSUME PoolAssumption == PoolMax \in Nat /\ MaxBytes \in Nat

VARIABLES buffers,      \* RingBuffer::buffers_
          buffer_pool,  \* BufferPool::buffer_pool
          data,         \* per buffer: data_ up to wr_offset_
          rd,           \* per buffer: rd_offset_
          lent,         \* buffers that allocBuff() gave out
          left,         \* bytes the read() under way still has to read
          todo,         \* bytes the writeData() under way still has to write
          written,      \* how many bytes have come in
          out           \* history: the bytes read so far

ringVars == <<buffers, buffer_pool, data, rd, lent, left, todo, written, out>>

RingInit == /\ buffers = <<>> /\ buffer_pool = <<>>
            /\ data = [b \in Buffer |-> <<>>]
            /\ rd = [b \in Buffer |-> 0]
            /\ lent = {}
            /\ left = 0 /\ todo = 0 /\ written = 0 /\ out = <<>>

Lesser(m, n) == IF m < n THEN m ELSE n

wr_offset(b) == Len(data[b])
canRdSize(b) == IF rd[b] >= wr_offset(b) THEN 0 ELSE wr_offset(b) - rd[b]
canWrSize(b) == Capacity - wr_offset(b)

canReadSize == LET sum[k \in 0 .. Len(buffers)] ==
                       IF k = 0 THEN 0 ELSE sum[k - 1] + canRdSize(buffers[k])
               IN sum[Len(buffers)]

\* Buffers some shared_ptr refers to.
Used == ToSet(buffers) \cup ToSet(buffer_pool) \cup lent

Between == left = 0 /\ todo = 0

\* The next n bytes of the stream.
NextBytes(n) == [i \in 1 .. n |-> written + i]

-----------------------------------------------------------------------------
\* Mutant: a buffer from the pool keeps its read offset.
GetBufferUnreset(b, bytes) ==
    /\ IF buffer_pool = <<>> THEN b \in Buffer \ Used /\ UNCHANGED buffer_pool
                             ELSE b = Head(buffer_pool) /\ buffer_pool' = Tail(buffer_pool)
    /\ data' = [data EXCEPT ![b] = bytes]
    /\ UNCHANGED rd

\* getBuffer(), and what is then written to the buffer.
GetBuffer(b, bytes) ==
    /\ IF buffer_pool = <<>>
       THEN b \in Buffer \ Used /\ UNCHANGED buffer_pool
       ELSE b = Head(buffer_pool) /\ buffer_pool' = Tail(buffer_pool)
    /\ data' = [data EXCEPT ![b] = bytes]
    /\ rd' = [rd EXCEPT ![b] = 0]

\* putBuffer(): a full pool lets the buffer go.
PutBuffer(b) ==
    buffer_pool' = IF Len(buffer_pool) >= PoolMax THEN buffer_pool ELSE Append(buffer_pool, b)

\* allocBuff(), for a receive.
AllocBuff(b) ==
    /\ Between
    /\ GetBuffer(b, <<>>)
    /\ lent' = lent \cup {b}
    /\ UNCHANGED <<buffers, left, todo, written, out>>

\* n bytes were received into a lent buffer; emplace_back() refuses an empty one.
EmplaceBack(b, n) ==
    /\ Between
    /\ b \in lent
    /\ n <= Capacity /\ written + n <= MaxBytes
    /\ lent' = lent \ {b}
    /\ data' = [data EXCEPT ![b] = NextBytes(n)]
    /\ written' = written + n
    /\ buffers' = IF n = 0 THEN buffers ELSE Append(buffers, b)
    /\ UNCHANGED <<buffer_pool, rd, left, todo, out>>

\* A lent buffer is given up, for example because the receive failed.
GiveUp(b) ==
    /\ Between
    /\ b \in lent
    /\ lent' = lent \ {b}
    /\ UNCHANGED <<buffers, buffer_pool, data, rd, left, todo, written, out>>

\* writeData() or writeString() is called with n bytes.  (The model has enough
\* addresses for the buffers it may need.)
WriteData(n) ==
    /\ Between
    /\ n > 0 /\ written + n <= MaxBytes
    /\ Capacity * Cardinality(Buffer \ Used) >= n
    /\ todo' = n
    /\ UNCHANGED <<buffers, buffer_pool, data, rd, lent, left, written, out>>

\* One turn of its loop: the last buffer takes what it has room for ...
AppendToLast ==
    /\ todo > 0
    /\ buffers # <<>>
    /\ LET b == Last(buffers)
           n == Lesser(todo, canWrSize(b))
       IN /\ n > 0
          /\ data' = [data EXCEPT ![b] = @ \o NextBytes(n)]
          /\ written' = written + n
          /\ todo' = todo - n
    /\ UNCHANGED <<buffers, buffer_pool, rd, lent, left, out>>

\* ... or a new one is put behind it.
AppendNew(b) ==
    /\ todo > 0
    /\ buffers # <<>> => canWrSize(Last(buffers)) = 0
    /\ LET n == Lesser(todo, Capacity)
       IN /\ GetBuffer(b, NextBytes(n))
          /\ written' = written + n
          /\ todo' = todo - n
    /\ buffers' = Append(buffers, b)
    /\ UNCHANGED <<lent, left, out>>

\* read(toBuf, n): without n bytes it returns 0 and changes nothing.
Read(n) ==
    /\ Between
    /\ n <= canReadSize
    /\ left' = n
    /\ UNCHANGED <<buffers, buffer_pool, data, rd, lent, todo, written, out>>

\* One turn of the loop: the first buffer has bytes, which are copied ...
ReadFront ==
    /\ left > 0
    /\ buffers # <<>>
    /\ canRdSize(Head(buffers)) > 0
    /\ LET b == Head(buffers)
           n == Lesser(canRdSize(b), left)
       IN /\ out' = out \o SubSeq(data[b], rd[b] + 1, rd[b] + n)
          /\ rd' = [rd EXCEPT ![b] = @ + n]
          /\ left' = left - n
    /\ UNCHANGED <<buffers, buffer_pool, data, lent, todo, written>>

\* ... or it has none and goes back to the pool.
RecycleFront ==
    /\ left > 0
    /\ buffers # <<>>
    /\ canRdSize(Head(buffers)) = 0
    /\ PutBuffer(Head(buffers))
    /\ buffers' = Tail(buffers)
    /\ UNCHANGED <<data, rd, lent, left, todo, written, out>>

-----------------------------------------------------------------------------
LoopStep == ReadFront \/ RecycleFront \/ AppendToLast \/ \E b \in Buffer : AppendNew(b)

RingNext == \/ \E b \in Buffer : \/ AllocBuff(b)
                                 \/ \E n \in 0 .. Capacity : EmplaceBack(b, n)
                                 \/ GiveUp(b)
            \/ \E n \in 1 .. MaxBytes : WriteData(n) \/ Read(n)
            \/ LoopStep

RingSpec == RingInit /\ [][RingNext]_ringVars

-----------------------------------------------------------------------------
(* Properties *)

RingTypeOK ==
    /\ buffers \in Seq(Buffer) /\ buffer_pool \in Seq(Buffer)
    /\ data \in [Buffer -> Seq(1 .. MaxBytes)]
    /\ \A b \in Buffer : wr_offset(b) <= Capacity
    /\ rd \in [Buffer -> 0 .. Capacity]
    /\ lent \subseteq Buffer
    /\ left \in Nat /\ todo \in Nat
    /\ written \in 0 .. MaxBytes
    /\ out \in Seq(1 .. MaxBytes)

\* The bytes come out in the order in which they came in, none twice and none
\* left out, through buffers that are partly read while they are written to,
\* recycled, and used again.
BytesInOrder == \A i \in DOMAIN out : out[i] = i

\* What canReadSize() says is what there is: no byte is lost in a buffer that was
\* dropped, and a read that was begun can be finished.
NothingLost == /\ Len(out) + canReadSize = written
               /\ left <= canReadSize

\* A buffer is never spare and in use, in the list twice, or in the list while a
\* receive writes to it.
OwnedOnce == /\ IsInjective(buffers) /\ IsInjective(buffer_pool)
             /\ ToSet(buffers) \cap ToSet(buffer_pool) = {}
             /\ lent \cap (ToSet(buffers) \cup ToSet(buffer_pool)) = {}
             /\ Len(buffer_pool) <= PoolMax

\* All three, and the types: the list, the pool and the buffers lent out share no buffer, and the list
\* is the stream.
StreamIntact == RingTypeOK /\ BytesInOrder /\ NothingLost /\ OwnedOnce

=============================================================================
