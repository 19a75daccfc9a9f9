---------------------------- MODULE MCHourlySink ----------------------------
(***************************************************************************)
(* Small instances of HourlySink and, beside it, of Compression: `part'    *)
(* names the one that a behaviour is about, and the other rests.           *)
(***************************************************************************)
EXTENDS HourlySink

\* One second east of Greenwich.
EastOne == -1

\* From before the first Monday to beyond the last day that 32 bits would hold.
Starts == 12 .. 125

CONSTANTS MaxData, BufferSize, UintWidth

ASSUME BufferAssumption == MaxData \in Nat /\ BufferSize \in Nat \ {0} /\ UintWidth \in Nat \ {0}

VARIABLES part, stage, library, data, pending, tail, buffer, total_out, vec, stream

compressionVars == <<stage, library, data, pending, tail, buffer, total_out, vec, stream>>

Zip == INSTANCE Compression WITH Width <- UintWidth

MCInit == part \in {"sink", "compression"} /\ Init /\ Zip!Init
          /\ IF part = "sink" THEN library = "zlib" /\ data = 0 ELSE now = 12 /\ file = Closed

MCNext == /\ UNCHANGED part
          /\ \/ part = "sink" /\ Next /\ UNCHANGED compressionVars
             \/ part = "compression" /\ Zip!Next /\ UNCHANGED vars

MCSpec == MCInit /\ [][MCNext]_<<part, vars, compressionVars>>

\* The property of Compression.
RoundTrip == Zip!RoundTrip

=============================================================================
