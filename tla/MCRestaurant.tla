---------------------------- MODULE MCRestaurant ----------------------------
\* Small instances of Restaurant for TLC.
EXTENDS Restaurant, TLC

AllFeatures == {"kot", "table_transfer", "table_merge", "table_split"}
NoSplitting == AllFeatures \ {"table_split"}

MCSymmetry ==
  Permutations(Tables) \cup Permutations(Orders) \cup Permutations(Items)
    \cup Permutations(Kots)
=============================================================================
