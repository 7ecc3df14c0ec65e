------------------------------ MODULE MCSession ------------------------------
(* Session for TLC.  Slots are interchangeable. *)
EXTENDS Session, TLC

Symmetric == Permutations(Slots)
=============================================================================
