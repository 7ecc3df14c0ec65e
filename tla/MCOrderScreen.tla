--------------------------- MODULE MCOrderScreen ---------------------------
(* OrderScreen for TLC.  Rows of one table are interchangeable. *)
EXTENDS OrderScreen, TLC

AllFeatures == {"kot", "table_transfer", "table_merge", "table_split"}
Symmetric ==
    Permutations(Tables) \union Permutations(Orders) \union Permutations(Items)
        \union Permutations(Kots)
=============================================================================
