------------------------------ MODULE MCSales ------------------------------
(* Values for the run of Sales: two units in stock, at a price of two.     *)
EXTENDS Sales, TLC
CONSTANTS p1, c1, r1, r2

MCPrice == [p \in Products |-> 2]
MCStock == [p \in Products |-> 2]
\* A second unpaid sale is beyond the limit, for all but a manager.
MCCredit == [c \in Customers |->
  [limit |-> 4, autoBlock |-> FALSE, allowBeyond |-> FALSE, needsManager |-> FALSE]]
MCAdjustments == {1}
\* The stock is below -1 only after a return of goods sold again was cancelled.
MCLevels == {-1}
MCSymmetry == Permutations(Returns)
=============================================================================
