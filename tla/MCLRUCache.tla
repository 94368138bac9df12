----------------------------- MODULE MCLRUCache -----------------------------
(***************************************************************************)
(* Instances of LRUCache for TLC.                                          *)
(***************************************************************************)
EXTENDS LRUCache, TLC

CONSTANTS p1, p2, p3, k1, k2, k3

Shared == [p \in Processes |-> Keys]
Disjoint == [p \in Processes |-> IF p = p1 THEN {k1} ELSE Keys \ {k1}]

AnyProcessAnyKey == Permutations(Processes) \cup Permutations(Keys)
=============================================================================
