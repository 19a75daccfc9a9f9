-------------------------------- MODULE MCNet --------------------------------
(***************************************************************************)
(* Small instances of what src/net is made of: RingBuffer and, beside it,  *)
(* MessageBuffer and Server.  `part' names the one that a behaviour is     *)
(* about, and the others rest.                                             *)
(***************************************************************************)
EXTENDS RingBuffer

CONSTANTS Msg, MaxSize, Sizes, Amounts, MaxText, Width,  \* of MessageBuffer
          PoolSizes, IndexRange                          \* of Server

ASSUME MessageAssumption == /\ MaxSize \in Nat \ {0} /\ Width \in Nat \ {0}
                            /\ Sizes \subseteq Nat /\ Amounts \subseteq Nat /\ MaxText \in Nat

\* The size of the pool and next_io_context_ are both uint16_t.
ASSUME ServerAssumption == IndexRange \in Nat \ {0} /\ PoolSizes \subseteq 0 .. IndexRange - 1

VARIABLES part, msgs, overrun,
          phase, contexts, index, home, callback, open, accept, timer, client, serving,
          work, stopped, ahead

Messages == INSTANCE MessageBuffer WITH Lengths <- Amounts
Server1  == INSTANCE Server WITH alive <- serving

messageVars == <<msgs, overrun>>
serverVars  == <<phase, contexts, index, home, callback, open, accept, timer, client, serving,
                 work, stopped, ahead>>

MCInit == /\ part \in {"ring", "messages", "server"}
          /\ RingInit /\ Messages!Init /\ Server1!Init
          /\ part # "server" => index = 0 /\ callback

\* A message that was written beyond its memory: anything may follow.
Undefined == overrun # "none" /\ UNCHANGED messageVars

MCNext == /\ UNCHANGED part
          /\ \/ part = "ring" /\ RingNext /\ UNCHANGED <<messageVars, serverVars>>
             \/ /\ part = "messages" /\ (Messages!Next \/ Undefined)
                /\ UNCHANGED <<ringVars, serverVars>>
             \/ part = "server" /\ Server1!Next /\ UNCHANGED <<ringVars, messageVars>>

\* What is fair is never enabled in a part that rests.
MCSpec == /\ MCInit /\ [][MCNext]_<<part, ringVars, messageVars, serverVars>>
          /\ Server1!Fairness

BodyRoundTrip      == Messages!BodyRoundTrip
EvenSpread         == Server1!EvenSpread
ServesUntilStopped == Server1!ServesUntilStopped

=============================================================================
