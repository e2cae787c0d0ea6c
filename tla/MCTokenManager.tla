--------------------------- MODULE MCTokenManager ---------------------------
(***************************************************************************)
(* Instances of TokenManager for TLC. A token lives five or six units of   *)
(* time, or is too old for a Get when it comes: it has none left in        *)
(* TokenManager.cfg, two in TokenManagerNil.cfg. A Get takes a token while *)
(* three are left, the background renews it when three are left. Tokens    *)
(* are renewed early and by force before the clock stops.                  *)
(***************************************************************************)
EXTENDS TokenManager

CONSTANTS c1, c2, b1
=============================================================================
