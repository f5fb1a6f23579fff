---------------------------- MODULE MCSubscription ----------------------------
(* Instances of Subscription for TLC. *)
EXTENDS Subscription

CONSTANTS u1, x1, x2, x3, s1, s2

=============================================================================
