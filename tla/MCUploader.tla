----------------------------- MODULE MCUploader -----------------------------
(***************************************************************************)
(* Instances of Uploader for TLC, with parts of two bytes. Streams of up   *)
(* to four chunks, with any way to end and any failing read; bodies of     *)
(* known size whose parts stay as they are, or are made larger. With two   *)
(* workers the channel holds two chunks and the pool three buffers: four   *)
(* chunks make the reader wait for both.                                   *)
(***************************************************************************)
EXTENDS Uploader

CONSTANTS w1, w2, MaxChunks

Sizes == {2 * n : n \in 0 .. MaxChunks}

Streams ==
    {b \in [size : Sizes, kind : {"stream"}, eofAlone : BOOLEAN, fails : 0 .. MaxChunks + 1] :
        2 * b.fails <= b.size + 2}

\* Seven bytes are cut in three and eight in two where three parts are allowed.
KnownSizes ==
    [size : {0, 2, 7, 8}, kind : {"at"}, eofAlone : {FALSE}, fails : {0}]
      \cup [size : {4, 7}, kind : {"seeker"}, eofAlone : BOOLEAN, fails : {0}]

AllBodies == Streams \cup KnownSizes
=============================================================================
