---------------------------- MODULE MCFulfillment ----------------------------
(* Small instances of Fulfillment. *)
EXTENDS Fulfillment

CONSTANTS b1, b2

\* A return trip of one passenger, or two passengers one way, and a single ticket.
MCTicketCount == [b \in Bookings |-> IF b = b1 THEN 2 ELSE 1]
=============================================================================
