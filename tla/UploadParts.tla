---------------------------- MODULE UploadParts ----------------------------
(***************************************************************************)
(* How the upload manager cuts a body into chunks: the arithmetic of       *)
(* initSize and nextReader, service/s3/s3manager/upload.go. Sizes are in   *)
(* bytes. Before the n-th read, readerPos is n - 1 chunks into the body.   *)
(***************************************************************************)
EXTENDS Integers

\* Mutant of AdjustedPartSize: without the byte for the remainder.
TruncatedPartSize(total, partSize, maxParts) ==
    IF total \div partSize >= maxParts THEN total \div maxParts ELSE partSize

\* initSize makes the chunks of a body of known size larger when there would
\* be too many of them.
AdjustedPartSize(total, partSize, maxParts) ==
    IF total \div partSize >= maxParts THEN total \div maxParts + 1 ELSE partSize

\* What is left of the body at the n-th read.
BytesLeft(total, partSize, n) == total - (n - 1) * partSize

\* The n-th read of nextReader at an offset: its length, and whether it is
\* the last one, which comes with io.EOF.
LastRead(total, partSize, n) == BytesLeft(total, partSize, n) <= partSize
ReadLength(total, partSize, n) ==
    IF LastRead(total, partSize, n) THEN BytesLeft(total, partSize, n) ELSE partSize

\* The offset of the n-th read, and the bytes it covers.
Offset(partSize, n) == (n - 1) * partSize
Covers(total, partSize, n, byte) ==
    /\ Offset(partSize, n) <= byte
    /\ byte < Offset(partSize, n) + ReadLength(total, partSize, n)
=============================================================================
