------------------------------ MODULE TcpSession ------------------------------
(***************************************************************************)
(* cncpp::TcpSession (src/net/TcpSession.cpp), its receiving side: the     *)
(* pieces of the stream go into the RingBuffer, parseToMessage() cuts      *)
(* messages out of it, each a header and a body, and hands them through    *)
(* the MPSC queue to the application, which calls processReceivedMsg().    *)
(*                                                                         *)
(* The strand runs one callback at a time.  The queue is that of module    *)
(* MPSCQueue with the strand as its only producer: a sequence, as in       *)
(* MessageFifo, which is proved of the one and of the other.               *)
(*                                                                         *)
(* Three places have undefined behaviour, and the model lets each of them  *)
(* end the process or go on: the receive callback uses a reference to a    *)
(* local variable of start(), which has returned; parseToMessage() reads   *)
(* the body over the Message object instead of into its buffer; and a      *)
(* message without a callback sends doMsg() into endless recursion.        *)
(***************************************************************************)
EXTENDS RingBuffer

CONSTANTS Lengths,    \* the length of the body of each message the peer sends
          HEADER_LEN  \* sizeof(MsgHeader)

ASSUME LengthsAssumption == Lengths \in Seq(Nat) /\ HEADER_LEN \in Nat \ {0}

VARIABLES pc,                 \* where the strand is
          parse_head_ok,
          cur_header,         \* the message whose header is in cur_header_
          recived_msg_queue,  \* messages on their way to the application
          msg_callback,       \* msg_callback_ is set
          handled,            \* history: messages given to the callback
          alive               \* the process has not crashed

parser  == <<parse_head_ok, cur_header>>
app     == <<msg_callback, handled>>
vars    == <<ringVars, pc, parser, recived_msg_queue, app, alive>>

Frame == DOMAIN Lengths

\* The last byte of each message.
FrameEnd[k \in 0 .. Len(Lengths)] ==
    IF k = 0 THEN 0 ELSE FrameEnd[k - 1] + HEADER_LEN + Lengths[k]

\* The peer sends these messages and nothing else.
ASSUME StreamAssumption == MaxBytes <= FrameEnd[Len(Lengths)]

Init == /\ RingInit
        /\ pc = "start"
        /\ parse_head_ok = FALSE
        /\ cur_header = 0
        /\ recived_msg_queue = <<>>
        /\ msg_callback \in BOOLEAN
        /\ handled = <<>>
        /\ alive = TRUE

-----------------------------------------------------------------------------
(* Receiving, on the strand *)

\* start(): a buffer is taken from the pool and a receive into it is begun.
Start(b) ==
    /\ alive /\ pc = "start"
    /\ AllocBuff(b)
    /\ pc' = "idle"
    /\ UNCHANGED <<parser, recived_msg_queue, app, alive>>

\* The receive callback: consume_wr(), then onReceive(buffer).
Receive(b, n) ==
    /\ alive /\ pc = "idle"
    /\ n > 0
    /\ EmplaceBack(b, n)
    /\ pc' = "parse"
    /\ UNCHANGED <<parser, recived_msg_queue, app, alive>>

\* It finds nothing where buffer_ptr was.
ReceiveDangling ==
    /\ alive /\ pc = "idle" /\ lent # {}
    /\ alive' = FALSE
    /\ UNCHANGED <<ringVars, pc, parser, recived_msg_queue, app>>

\* An error, or the end of the stream: no receive is begun any more.
ReceiveFails(b) ==
    /\ alive /\ pc = "idle"
    /\ GiveUp(b)
    /\ pc' = "closed"
    /\ UNCHANGED <<parser, recived_msg_queue, app, alive>>

\* onReceive(buf, size), for bytes that come from elsewhere.
ReceiveData(n) ==
    /\ alive /\ pc = "idle"
    /\ WriteData(n)
    /\ pc' = "parse"
    /\ UNCHANGED <<parser, recived_msg_queue, app, alive>>

\* The loops inside read() and writeData().
Loop == /\ alive
        /\ LoopStep
        /\ UNCHANGED <<pc, parser, recived_msg_queue, app, alive>>

-----------------------------------------------------------------------------
(* parseToMessage(), on the strand *)

\* The message whose header these bytes are, 0 if they are none.
HeaderIn(bytes) ==
    LET is(k) == bytes = [i \in 1 .. HEADER_LEN |-> FrameEnd[k - 1] + i]
    IN IF \E k \in Frame : is(k) THEN CHOOSE k \in Frame : is(k) ELSE 0

msg_len == IF cur_header = 0 THEN 0 ELSE Lengths[cur_header]

\* The loop ends; the callback of a finished receive begins the next one.
Break == /\ pc' = IF lent = {} THEN "start" ELSE "idle"
         /\ UNCHANGED ringVars

ParseHead ==
    /\ alive /\ pc = "parse" /\ Between
    /\ ~parse_head_ok
    /\ \/ canReadSize < HEADER_LEN /\ Break
       \/ canReadSize >= HEADER_LEN /\ Read(HEADER_LEN) /\ pc' = "head"
    /\ UNCHANGED <<parser, recived_msg_queue, app, alive>>

HeadRead ==
    /\ alive /\ pc = "head" /\ Between
    /\ cur_header' = HeaderIn(SubSeq(out, Len(out) - HEADER_LEN + 1, Len(out)))
    /\ parse_head_ok' = TRUE
    /\ pc' = "parse"
    /\ UNCHANGED <<ringVars, recived_msg_queue, app, alive>>

\* Mutant: a body is read only when there are bytes behind it.
ParseBodyStrict ==
    /\ alive /\ pc = "parse" /\ Between /\ parse_head_ok
    /\ \/ canReadSize <= msg_len /\ Break
       \/ canReadSize > msg_len /\ Read(msg_len) /\ pc' = "body"
    /\ UNCHANGED <<parser, recived_msg_queue, app, alive>>

\* The body is waited for, then a Message is made and read().
ParseBody ==
    /\ alive /\ pc = "parse" /\ Between
    /\ parse_head_ok
    /\ \/ canReadSize < msg_len /\ Break
       \/ canReadSize >= msg_len /\ Read(msg_len) /\ pc' = "body"
    /\ UNCHANGED <<parser, recived_msg_queue, app, alive>>

\* Mutant: parse_head_ok_ is not reset.
BodyReadKeepsHead ==
    /\ alive /\ pc = "body" /\ Between
    /\ recived_msg_queue' =
         Append(recived_msg_queue, [frame |-> cur_header, whole |-> msg_len = 0])
    /\ pc' = "parse"
    /\ UNCHANGED <<ringVars, parser, app, alive>>

\* setHeader() and Enqueue().  read(void*) was chosen for the Message*, so a body
\* has overwritten the object: only a message without a body is whole.
BodyRead ==
    /\ alive /\ pc = "body" /\ Between
    /\ parse_head_ok' = FALSE
    /\ recived_msg_queue' =
         Append(recived_msg_queue, [frame |-> cur_header, whole |-> msg_len = 0])
    /\ pc' = "parse"
    /\ UNCHANGED <<ringVars, cur_header, app, alive>>

\* setHeader() writes through the overwritten pointer.
BodyCrash ==
    /\ alive /\ pc = "body" /\ Between
    /\ msg_len > 0
    /\ alive' = FALSE
    /\ UNCHANGED <<ringVars, pc, parser, recived_msg_queue, app>>

-----------------------------------------------------------------------------
(* The application thread *)

setMsgCallback ==
    /\ alive /\ ~msg_callback
    /\ msg_callback' = TRUE
    /\ UNCHANGED <<ringVars, pc, parser, recived_msg_queue, handled, alive>>

\* Mutant: the queue is emptied after one message.
processDropsRest ==
    /\ alive /\ msg_callback /\ recived_msg_queue # <<>>
    /\ handled' = Append(handled, Head(recived_msg_queue))
    /\ recived_msg_queue' = <<>>
    /\ UNCHANGED <<ringVars, pc, parser, msg_callback, alive>>

\* One turn of processReceivedMsg(): Dequeue(), the callback, delete.
processReceivedMsg ==
    /\ alive /\ msg_callback
    /\ recived_msg_queue # <<>>
    /\ handled' = Append(handled, Head(recived_msg_queue))
    /\ recived_msg_queue' = Tail(recived_msg_queue)
    /\ UNCHANGED <<ringVars, pc, parser, msg_callback, alive>>

\* Without a callback doMsg() calls itself until the stack overflows; with one,
\* the callback or the delete may fall over an overwritten object.
processCrash ==
    /\ alive
    /\ recived_msg_queue # <<>>
    /\ ~msg_callback \/ ~Head(recived_msg_queue).whole
    /\ alive' = FALSE
    /\ UNCHANGED <<ringVars, pc, parser, recived_msg_queue, app>>

-----------------------------------------------------------------------------
Parse   == ParseHead \/ HeadRead \/ ParseBody \/ BodyRead \/ BodyCrash
Process == processReceivedMsg \/ processCrash

Next == \/ \E b \in Buffer : \/ Start(b)
                             \/ \E n \in 1 .. Capacity : Receive(b, n)
                             \/ ReceiveFails(b)
        \/ ReceiveDangling
        \/ \E n \in 1 .. MaxBytes : ReceiveData(n)
        \/ Loop
        \/ Parse
        \/ setMsgCallback
        \/ Process

Spec == Init /\ [][Next]_vars

\* A callback that runs on the strand runs to its end, and the application goes
\* on calling processReceivedMsg().  Nothing is assumed of the peer.
FairSpec == Spec /\ WF_vars(Loop) /\ WF_vars(Parse) /\ WF_vars(Process)

-----------------------------------------------------------------------------
(* Properties *)

TypeOK ==
    /\ RingTypeOK
    /\ pc \in {"start", "idle", "parse", "head", "body", "closed"}
    /\ parse_head_ok \in BOOLEAN /\ msg_callback \in BOOLEAN /\ alive \in BOOLEAN
    /\ cur_header \in Frame \cup {0}
    /\ parse_head_ok => cur_header \in Frame
    /\ recived_msg_queue \in Seq([frame : Frame, whole : BOOLEAN])
    /\ handled \in Seq([frame : Frame, whole : BOOLEAN])

Stream == INSTANCE MessageStream WITH
            End     <- FrameEnd,
            arrived <- written,
            handled <- [i \in DOMAIN handled |-> handled[i].frame],
            up      <- alive

\* However the stream is cut, the messages are handled in order, once, and whole
\* frames only.
StreamSpec == Stream!Spec

\* No complete message waits for bytes of the next one: when no callback runs on
\* the strand, every message that has arrived has been handed over.
PromptHandOver ==
    alive /\ pc \in {"start", "idle", "closed"} =>
        Len(recived_msg_queue) + Len(handled) = Cardinality({k \in Frame : FrameEnd[k] <= written})

\* Both, between two callbacks and inside them.
SessionOK == TypeOK /\ PromptHandOver

\* Every message that has arrived is handled, unless the process crashes.
EveryMessageHandled ==
    \A k \in Frame : (FrameEnd[k] <= written) ~> (~alive \/ k <= Len(handled))

\* "// read body": a message that is handed over has got its body.
BodyIsRead == \A i \in DOMAIN recived_msg_queue : recived_msg_queue[i].whole

=============================================================================
