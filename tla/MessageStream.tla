---------------------------- MODULE MessageStream ----------------------------
(***************************************************************************)
(* What a cncpp::TcpSession promises to the application: the messages of   *)
(* the peer are handled one by one, in the order in which they were sent,  *)
(* each once and none before its last byte has arrived, however the        *)
(* network cut the stream into pieces.                                     *)
(***************************************************************************)
EXTENDS Naturals, Sequences

CONSTANTS Frame,  \* the messages, 1 .. n
          End     \* per message: its last byte in the stream

VARIABLES arrived,  \* how many bytes have arrived
          handled,  \* the messages handled so far
          up        \* the process is alive

vars == <<arrived, handled, up>>

Init == arrived = 0 /\ handled = <<>> /\ up = TRUE

Arrive == /\ up
          /\ arrived' \in Nat /\ arrived' > arrived
          /\ UNCHANGED <<handled, up>>

Handle == /\ up
          /\ LET k == Len(handled) + 1
             IN /\ k \in Frame
                /\ End[k] <= arrived
                /\ handled' = Append(handled, k)
          /\ UNCHANGED <<arrived, up>>

Fail == up /\ up' = FALSE /\ UNCHANGED <<arrived, handled>>

Next == Arrive \/ Handle \/ Fail

Spec == Init /\ [][Next]_vars

=============================================================================
