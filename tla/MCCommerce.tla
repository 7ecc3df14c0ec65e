----------------------------- MODULE MCCommerce -----------------------------
(* Values for the runs of Commerce. *)
EXTENDS Commerce, TLC
EachContents == [o \in Orders |-> Skus]
Symmetric == Permutations(Requests) \union Permutations(Screens) \union Permutations(Skus)
=============================================================================
