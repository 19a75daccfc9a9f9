----------------------------- MODULE Compression -----------------------------
(***************************************************************************)
(* ZlibHelper, ZstdHelper and the two programs that try them               *)
(* (src/Demos/compress.cpp): data is compressed, kept, decompressed and    *)
(* compared.  zlib works through a buffer of 4096 bytes, turn by turn, and *)
(* takes the number of its input bytes as an unsigned int; zstd does all   *)
(* at once.                                                                *)
(*                                                                         *)
(* Byte number k of the data is the number k, and so is byte number k of   *)
(* the compressed data.  What is kept may be damaged before it is used:    *)
(* zlib has a checksum at its end, but the frames of ZSTD_compress() have  *)
(* none.                                                                   *)
(***************************************************************************)
EXTENDS Integers, Sequences

CONSTANTS MaxData,     \* bound on the size of the data
          BufferSize,  \* sizeof(buffer)
          Width        \* values of avail_in

VARIABLES stage,      \* what the program does, or how it ended
          library,    \* "zlib" or "zstd"
          data,       \* how many bytes there are to be compressed
          pending,    \* what the z_stream has not put out yet
          tail,       \* what inflate() meets behind that: "end", "cut" or "bad"
          buffer,     \* the local buffer
          total_out,  \* zs.total_out
          vec,        \* compressed, then decompressed
          stream      \* what was kept: the bytes that it yields, and how it ends

compressionVars == <<stage, library, data, pending, tail, buffer, total_out, vec, stream>>

Numbers(n) == [i \in 1 .. n |-> i]
Least(i, j) == IF i < j THEN i ELSE j
NoStream == [bytes |-> 0, size |-> 0, tail |-> "end"]

Init == /\ stage = "start" /\ library \in {"zlib", "zstd"} /\ data \in 0 .. MaxData
        /\ pending = <<>> /\ tail = "end" /\ buffer = [i \in 1 .. BufferSize |-> 0]
        /\ total_out = 0 /\ vec = <<>> /\ stream = NoStream

Ends(how) == /\ stage' = how
             /\ UNCHANGED <<library, data, pending, tail, buffer, total_out, vec, stream>>

\* One turn of do { } while (ret == Z_OK): zlib fills the buffer from its start, and what
\* is new is appended.
Turn == LET n == Least(BufferSize, Len(pending))
            filled == [i \in 1 .. BufferSize |-> IF i <= n THEN pending[i] ELSE buffer[i]]
        IN /\ buffer' = filled
           /\ total_out' = total_out + n
           /\ pending' = SubSeq(pending, n + 1, Len(pending))
           /\ vec' = IF Len(vec) < total_out' THEN vec \o SubSeq(filled, 1, total_out' - Len(vec))
                     ELSE vec

-----------------------------------------------------------------------------
(* ZlibHelper *)

\* deflateInit(): avail_in has the width of an unsigned int.  How much zlib makes of the
\* bytes is its own affair, but it puts out something even for none.
CompressStart ==
    /\ stage = "start" /\ library = "zlib"
    /\ LET taken == data % Width
       IN \E size \in 1 .. taken + 2 :
            /\ pending' = Numbers(size)
            /\ stream' = [bytes |-> taken, size |-> size, tail |-> "end"]
    /\ stage' = "deflate"
    /\ UNCHANGED <<library, data, tail, buffer, total_out, vec>>

\* deflate(Z_FINISH) says Z_OK as long as it has more.
CompressTurn == /\ stage = "deflate"
                /\ Turn
                /\ stage' = IF pending' = <<>> THEN "kept" ELSE "deflate"
                /\ UNCHANGED <<library, data, tail, stream>>

\* Between the two calls: bytes at the end are lost, or one is changed.  `bytes' are then
\* those in front of the damage.
Damage == /\ stage = "kept" /\ stream.tail = "end"
          /\ \E n \in 0 .. stream.bytes, what \in {"cut", "bad"} :
               stream' = [stream EXCEPT !.bytes = n, !.tail = what]
          /\ UNCHANGED <<stage, library, data, pending, tail, buffer, total_out, vec>>

\* inflateInit(): of compressed data that avail_in cannot count only the beginning is seen.
DecompressStart ==
    /\ stage = "kept" /\ library = "zlib"
    /\ IF stream.size < Width
       THEN pending' = Numbers(stream.bytes) /\ tail' = stream.tail
       ELSE tail' = "cut" /\ \E n \in 0 .. stream.bytes : pending' = Numbers(n)
    /\ stage' = "inflate" /\ vec' = <<>> /\ total_out' = 0
    /\ UNCHANGED <<library, data, buffer, stream>>

\* What inflate() may return: at the end of the data it either sees the end of the stream
\* at once, or only when it is called again, if the buffer is full.
Returns(ret) ==
    IF pending' # <<>> THEN ret = "Z_OK"
    ELSE CASE tail = "end" -> \/ ret = "Z_STREAM_END"
                              \/ ret = "Z_OK" /\ total_out' = total_out + BufferSize
           [] tail = "cut" -> ret = IF total_out' > total_out THEN "Z_OK" ELSE "Z_BUF_ERROR"
           [] tail = "bad" -> ret = "Z_DATA_ERROR"

\* Mutant: an error is the end like any other.
InflatesLeniently(ret) ==
    stage' = IF ret = "Z_OK" THEN "inflate" ELSE "unpacked"

\* The loop goes on, returns, or throws.
Inflates(ret) ==
    stage' = CASE ret = "Z_OK"         -> "inflate"
               [] ret = "Z_STREAM_END" -> "unpacked"
               [] OTHER                -> "threw"

DecompressTurn ==
    /\ stage = "inflate"
    /\ Turn
    /\ \E ret \in {"Z_OK", "Z_STREAM_END", "Z_BUF_ERROR", "Z_DATA_ERROR"} :
         Returns(ret) /\ Inflates(ret)
    /\ UNCHANGED <<library, data, tail, stream>>

-----------------------------------------------------------------------------
(* ZstdHelper *)

\* The bound is enough for what comes out, which is then all that is kept.
ZstdCompress ==
    /\ stage = "start" /\ library = "zstd"
    /\ \E size \in 1 .. data + 2 :
         /\ stream' = [bytes |-> data, size |-> size, tail |-> "end"]
         /\ vec' = Numbers(size)
    /\ stage' = "kept"
    /\ UNCHANGED <<library, data, pending, tail, buffer, total_out>>

\* What a frame with a changed byte may yield, as long as the data, with one wrong byte for
\* all that are wrong: no checksum tells.
Altered == [i \in 1 .. data |-> IF i = stream.bytes + 1 THEN 0 ELSE i]

\* The size that the frame says is allocated; without a legible frame, or when what
\* follows is not a frame of that size, it throws.
ZstdDecompress ==
    /\ stage = "kept" /\ library = "zstd"
    /\ \/ /\ stream.tail = "end"
          /\ stage' = "unpacked" /\ vec' = Numbers(stream.bytes)
       \/ /\ stream.tail = "bad"
          /\ stage' = "unpacked" /\ vec' = Altered
       \/ /\ stream.tail # "end"
          /\ stage' = "threw" /\ vec' = <<>>
    /\ UNCHANGED <<library, data, pending, tail, buffer, total_out, stream>>

-----------------------------------------------------------------------------
(* ns_zlib::main() and ns_zstd::main() *)

Compare == stage = "unpacked" /\ Ends(IF vec = Numbers(data) THEN "succeeded" ELSE "mismatch")
Catch   == stage = "threw" /\ Ends("error")

Next == \/ CompressStart \/ CompressTurn \/ Damage \/ DecompressStart \/ DecompressTurn
        \/ ZstdCompress \/ ZstdDecompress
        \/ Compare \/ Catch

Spec == Init /\ [][Next]_compressionVars

-----------------------------------------------------------------------------
(* Properties *)

\* Where decompress() may return something else than compress() was given.
Unnoticed == \/ library = "zlib" /\ data >= Width
             \/ library = "zstd" /\ stream.tail = "bad"

\* What comes back is what went in, whatever the sizes are to the buffer's.  There are two
\* exceptions, and main() says "mismatch" to both of them and to nothing else: more bytes
\* than avail_in counts, of which zlib was shown the rest of the division alone; and a
\* changed byte in a frame of zstd.  Data that was cut short is never taken for whole, and
\* an error means that there was damage, or more compressed bytes than avail_in counts.
RoundTrip ==
    /\ stage = "kept" => vec = Numbers(stream.size)
    /\ stage = "unpacked" =>
         \/ stream.tail = "end" /\ vec = Numbers(IF library = "zlib" THEN data % Width ELSE data)
         \/ stream.tail = "bad" /\ library = "zstd"
    /\ stage = "error" => stream.tail # "end" \/ (library = "zlib" /\ stream.size >= Width)
    /\ stage = "mismatch" => Unnoticed

=============================================================================
