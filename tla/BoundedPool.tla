---------------------------- MODULE BoundedPool ----------------------------
(***************************************************************************)
(* What an upload may rely on in a pool of its own: a counter of buffers   *)
(* in use that never passes the capacity. Uploader uses its pool this way. *)
(***************************************************************************)
EXTENDS Naturals

VARIABLES capacity, used

Init == capacity = 0 /\ used = 0

\* The upload starts or ends; it ends with every buffer put back.
Resize == used = 0 /\ capacity' \in Nat /\ UNCHANGED used

Take == used < capacity /\ used' = used + 1 /\ UNCHANGED capacity
Give == used > 0 /\ used' = used - 1 /\ UNCHANGED capacity

Next == Resize \/ Take \/ Give

Spec == Init /\ [][Next]_<<capacity, used>>
=============================================================================
