-------------------------- MODULE MCSubscription --------------------------
(* The runs of Subscription: the plans are written out in the .cfg files. *)
EXTENDS Subscription
=============================================================================
