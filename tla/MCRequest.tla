----------------------------- MODULE MCRequest -----------------------------
(***************************************************************************)
(* Two retries and one hop, with a body that is sent from its second byte, *)
(* one from its first, one that is empty, one that cannot seek and one     *)
(* that cannot seek either and belongs to a method that ignores it.        *)
(***************************************************************************)
EXTENDS Request

Seekable(n, s) ==
    [seekable |-> TRUE, sized |-> TRUE, ignored |-> FALSE, size |-> n, start |-> s]
Stream(i) ==
    [seekable |-> FALSE, sized |-> FALSE, ignored |-> i, size |-> 2, start |-> 0]

MCBodies == {Seekable(3, 1), Seekable(2, 0), Seekable(0, 0), Stream(FALSE), Stream(TRUE)}
=============================================================================
