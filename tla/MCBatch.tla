------------------------------ MODULE MCBatch ------------------------------
(***************************************************************************)
(* An instance of Batch for TLC. Up to four objects in two buckets, or four *)
(* entries of a listing in pages of up to two: a batch may end by its size, *)
(* by a difference, or with the iterator, and two batches may follow each   *)
(* other in each of these ways.                                            *)
(***************************************************************************)
EXTENDS Batch

CONSTANTS c1, c2
=============================================================================
