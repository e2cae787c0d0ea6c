---------------------------- MODULE MCSlicePool ----------------------------
(***************************************************************************)
(* An instance of SlicePool for TLC: two uploads with a getter and a       *)
(* putter each is the smallest pool that is shared; each of them may also  *)
(* have the pool to itself. The capacities differ, so that what one upload *)
(* takes back is not what the other gave.                                  *)
(***************************************************************************)
EXTENDS SlicePool, TLC

CONSTANTS u1, u2, g1, g2, p1, p2

UploadOf == [x \in Getters \cup Putters |-> IF x \in {g1, p1} THEN u1 ELSE u2]
CapOf == u1 :> 1 @@ u2 :> 2
=============================================================================
