--------------------------- MODULE MCProcurement ---------------------------
(* Procurement for TLC.  Rows of a kind are interchangeable, and so are screens; *)
(* vendors are not, as they are paid differently.                                *)
EXTENDS Procurement, TLC
CONSTANTS v1, v2
Symmetric == Permutations(Purchases) \union Permutations(Returns) \union Permutations(Screens)
=============================================================================
