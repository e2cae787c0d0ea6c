-------------------------- MODULE MCSignedRequests --------------------------
(***************************************************************************)
(* Instances of SignedRequests for TLC. Two requests are enough for one to *)
(* join the retrieval of the other, or to see it leave the map between its *)
(* own two looks; the one of two tries is retried with credentials that it *)
(* or the other has changed. The other may be canceled while it waits for  *)
(* the call that it began. The seven Gets they make do not reach the bound *)
(* of the reasons to retrieve.                                             *)
(***************************************************************************)
EXTENDS SignedRequests

CONSTANTS a, b

Tries == [g \in Getters |-> IF g = a THEN 2 ELSE 1]
=============================================================================
