---------------------------- MODULE MCNotifications ----------------------------
(* Instances of Notifications for TLC. *)
EXTENDS Notifications

CONSTANTS x1, x2, w1, w2
=============================================================================
