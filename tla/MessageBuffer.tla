---------------------------- MODULE MessageBuffer ----------------------------
(***************************************************************************)
(* cncpp::Message (src/net/Buffer.h): a header and a body in one block of  *)
(* memory, which is what a program that talks through TcpSession writes,   *)
(* copies, moves and reads.  data_ is reserved and never resized, except   *)
(* by writeBody(): what may be written is decided by len_, and what is     *)
(* there by wr_offset_, and the copies and the moves carry these along     *)
(* without the memory they speak of.                                       *)
(*                                                                         *)
(* The header is one cell, which holds msg_len; msg_code is left out.      *)
(***************************************************************************)
EXTENDS Integers, Sequences

CONSTANTS Msg,      \* variables of type Message
          MaxSize,  \* MAX_BUFFER_SIZE
          Sizes,    \* arguments of the constructor
          Lengths,  \* how many bytes a call writes
          MaxText,  \* bound on the bytes in a message
          Width     \* values of a uint16_t

Header  == 1   \* HEADER_LEN
Garbage == -1  \* a byte that nobody has written

\* A Message, and what its user knows of it: the text that he put in, the length that
\* he wrote to the header (Garbage if none, or not of this text), whether it was moved
\* from, and whether its memory may be smaller than its len_ says.
VARIABLES msgs,    \* per variable: the Message, or NoMsg
          overrun  \* "none", or whose memory was too small for what was written: a "copy" or
                   \* what a move left, or a message of its "own" making

messageVars == <<msgs, overrun>>

NoMsg == [data |-> <<>>]

Init == msgs = [m \in Msg |-> NoMsg] /\ overrun = "none"

Lives(m) == overrun = "none" /\ msgs[m] # NoMsg
Free(m)  == overrun = "none" /\ msgs[m] = NoMsg
Known(m) == Lives(m) /\ ~msgs[m].moved
Greater(i, j) == IF i > j THEN i ELSE j

Memory(n) == [i \in 1 .. n |-> Garbage]

canWrSize(b) == IF b.wr >= b.len THEN 0 ELSE b.len - b.wr

\* The bytes at wr_offset_, which moves; what does not fit is written elsewhere.
Put(b, bytes) ==
    [b EXCEPT !.data = [i \in DOMAIN b.data |->
                          IF i \in b.wr + 1 .. b.wr + Len(bytes) THEN bytes[i - b.wr] ELSE @[i]],
              !.wr = @ + Len(bytes), !.text = @ \o bytes, !.stamp = Garbage]

Spills(b, n) == b.wr + n > Len(b.data)

-----------------------------------------------------------------------------
(* Constructors, assignments, destructor *)

Construct(m, size) ==
    /\ Free(m)
    /\ msgs' = [msgs EXCEPT ![m] =
                  [data |-> Memory(size + Header), len |-> size + Header, rd |-> Header,
                   wr |-> Header, text |-> <<>>, stamp |-> Garbage, moved |-> FALSE,
                   loose |-> FALSE]]
    /\ UNCHANGED overrun

\* The first wr_offset_ bytes of b, in a memory of n.
Copied(b, n) == [i \in 1 .. n |-> IF i <= b.wr THEN b.data[i] ELSE Garbage]

\* The base class is default-constructed first, and its memory is kept.
CopyConstruct(m, n) ==
    /\ Free(m) /\ Known(n)
    /\ msgs' = [msgs EXCEPT ![m] =
                  [msgs[n] EXCEPT !.data = Copied(msgs[n], Greater(MaxSize, msgs[n].wr)),
                                  !.loose = TRUE]]
    /\ UNCHANGED overrun

CopyAssign(m, n) ==
    /\ Lives(m) /\ Known(n) /\ m # n
    /\ msgs' = [msgs EXCEPT ![m] =
                  [msgs[n] EXCEPT !.data = Copied(msgs[n], Greater(Len(msgs[m].data), msgs[n].wr)),
                                  !.loose = TRUE]]
    /\ UNCHANGED overrun

\* What is left behind has the offsets of what was there and other memory.
Leaves(n, memory) == [msgs[n] EXCEPT !.data = memory, !.moved = TRUE, !.loose = TRUE]

MoveConstruct(m, n) ==
    /\ Free(m) /\ Known(n)
    /\ msgs' = [msgs EXCEPT ![m] = msgs[n], ![n] = Leaves(n, Memory(MaxSize))]
    /\ UNCHANGED overrun

MoveAssign(m, n) ==
    /\ Lives(m) /\ Known(n) /\ m # n
    /\ msgs' = [msgs EXCEPT ![m] = msgs[n], ![n] = Leaves(n, msgs[m].data)]
    /\ UNCHANGED overrun

Destroy(m) == /\ Lives(m)
              /\ msgs' = [msgs EXCEPT ![m] = NoMsg]
              /\ UNCHANGED overrun

-----------------------------------------------------------------------------
(* Writing *)

\* Reset()
Reset(m) == /\ Lives(m)
            /\ msgs' = [msgs EXCEPT ![m].rd = Header, ![m].wr = Header, ![m].text = <<>>,
                                    ![m].stamp = Garbage, ![m].moved = FALSE]
            /\ UNCHANGED overrun

Writes(m, b, bytes) ==
    /\ Len(b.text) + Len(bytes) <= MaxText
    /\ msgs' = [msgs EXCEPT ![m] = Put(b, bytes)]
    /\ overrun' = IF ~Spills(b, Len(bytes)) THEN "none"
                  ELSE IF b.loose THEN "copy" ELSE "own"

\* Byte number k of a text is the number k.
Bytes(b, n) == [i \in 1 .. n |-> Len(b.text) + i]

\* append_data(): what len_ leaves room for.
append_data(m, size) ==
    /\ Known(m)
    /\ LET b == msgs[m]
           n == IF size < canWrSize(b) THEN size ELSE canWrSize(b)
       IN Writes(m, b, Bytes(b, n))

\* Mutant: the block grows by what the body is too long for, whatever is in it already.
GrownByBody(b, n) == [b EXCEPT !.len = n + Header, !.data = Copied(b, n + Header), !.loose = FALSE]

\* The block of writeBody(), which fits what is there and n bytes more.
Grown(b, n) == [b EXCEPT !.len = b.wr + n, !.data = Copied(b, b.wr + n), !.loose = FALSE]

writeBody(m, n) ==
    /\ Known(m)
    /\ LET b == msgs[m]
       IN Writes(m, IF n > canWrSize(b) THEN Grown(b, n) ELSE b, Bytes(b, n))

\* setMsgLen(), with the length of the body.
setMsgLen(m) == /\ Known(m)
                /\ LET n == Len(msgs[m].text) % Width
                   IN msgs' = [msgs EXCEPT ![m].data[1] = n, ![m].stamp = n]
                /\ UNCHANGED overrun

-----------------------------------------------------------------------------
Next == \E m \in Msg :
          \/ \E size \in Sizes : Construct(m, size)
          \/ \E n \in Msg : \/ CopyConstruct(m, n) \/ CopyAssign(m, n)
                           \/ MoveConstruct(m, n) \/ MoveAssign(m, n)
          \/ Destroy(m) \/ Reset(m)
          \/ \E n \in Lengths : append_data(m, n) \/ writeBody(m, n)
          \/ setMsgLen(m)

Spec == Init /\ [][Next]_messageVars

-----------------------------------------------------------------------------
(* Properties *)

\* readBody()
readBody(b) == LET n == b.data[1]
               IN IF b.wr - b.rd < n THEN <<>> ELSE SubSeq(b.data, b.rd + 1, b.rd + n)

\* The body and the length that were written are what readBody() gives, up to the 16
\* bits of the length, through growth, copies, moves and a second life after either;
\* and a message that is not a copy, nor what a move left, never writes beyond its
\* memory, however it grew.
BodyRoundTrip ==
    /\ overrun # "own"
    /\ \A m \in Msg : Known(m) =>
         LET b == msgs[m]
         IN /\ SubSeq(b.data, b.rd + 1, b.wr) = b.text
            /\ b.stamp # Garbage => readBody(b) = SubSeq(b.text, 1, b.stamp)

=============================================================================
