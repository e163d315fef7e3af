--------------------------- MODULE MCOrderCopilot ---------------------------
(* Two listings, "Gold Plaza" and "Gold Plaza II": each name is close to   *)
(* both, and "Gold" means either.                                          *)
EXTENDS OrderCopilot

CONSTANTS plaza, plaza2, gold

MCListings == {1, 2}
MCNames == {plaza, plaza2, gold, Words}
MCNameOf == <<plaza, plaza2>>
MCClose == [n \in MCNames |-> IF n = Words THEN {} ELSE {1, 2}]
=============================================================================
