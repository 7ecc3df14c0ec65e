----------------------------- MODULE MCPrinting -----------------------------
(* One till, with one automatic receipt and one print by hand, in any order. *)
EXTENDS Printing
=============================================================================
