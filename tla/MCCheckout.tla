----------------------------- MODULE MCCheckout -----------------------------
\* Small instances of Checkout for TLC: two requests with one key (a double
\* click or a retry) and a third of another till, with carts that take two
\* products in opposite order; the stock suffices for one of them.
EXTENDS Checkout, TLC

CONSTANTS r1, r2, r3, k1, p1, p2

MCKey == r1 :> k1 @@ r2 :> k1 @@ r3 :> NoKey
MCCart == r1 :> <<p1, p2>> @@ r2 :> <<p1, p2>> @@ r3 :> <<p2, p1>>
MCStock == p1 :> 1 @@ p2 :> 2
=============================================================================
