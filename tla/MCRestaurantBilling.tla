------------------------ MODULE MCRestaurantBilling ------------------------
\* Small instances of RestaurantBilling for TLC.
EXTENDS RestaurantBilling, TLC

CONSTANTS b1, b2, b3, k1

\* A till whose answer is lost sends the same key, for the same order or for the next.
MCRetried == b1 :> k1 @@ b2 :> k1
\* So it does beside the page of the order, which sends none.
MCRetriedBesidePage == b1 :> k1 @@ b2 :> k1 @@ b3 :> NoBillKey
=============================================================================
