------------------------------- MODULE MCTill -------------------------------
(* Till for TLC.  Products and tables are interchangeable. *)
EXTENDS Till, TLC

Symmetric == Permutations(Products) \union Permutations(Tables)
=============================================================================
