--------------------------- MODULE AtomicUpload ----------------------------
(***************************************************************************)
(* What an upload promises its caller: the object appears in the bucket    *)
(* whole, in one step, or not at all; the upload returns once; it returns  *)
(* without an error only for an object that is there. An error promises    *)
(* nothing: the request that stored the object may have lost its answer.   *)
(***************************************************************************)
VARIABLES
    object, \* "absent" or "whole"
    result  \* "pending", "ok" or "error"

Init == object = "absent" /\ result = "pending"

Store ==
    /\ object = "absent" /\ result = "pending"
    /\ object' = "whole"
    /\ UNCHANGED result

Return(r) ==
    /\ result = "pending"
    /\ r = "ok" => object = "whole"
    /\ result' = r
    /\ UNCHANGED object

StoreAndReturn ==
    /\ object = "absent" /\ result = "pending"
    /\ object' = "whole" /\ result' \in {"ok", "error"}

Next == Store \/ StoreAndReturn \/ \E r \in {"ok", "error"} : Return(r)

vars == <<object, result>>

Spec == Init /\ [][Next]_vars

\* The upload returns some day.
Returns == <>(result # "pending")
=============================================================================
