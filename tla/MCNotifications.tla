--------------------------- MODULE MCNotifications ---------------------------
(* Small instances of Notifications. *)
EXTENDS Notifications

CONSTANTS n1, n2
=============================================================================
