------------------------------ MODULE Delivery ------------------------------
(***************************************************************************)
(* What ticket fulfillment promises the customer of a booking: it is       *)
(* confirmed, then its tickets are issued, then they are in the mail.      *)
(* Nothing is skipped, nothing is taken back, and a booking moves alone.   *)
(***************************************************************************)
CONSTANT Bookings
VARIABLE stage

Stages == {"held", "confirmed", "issued", "delivered"}

Init == stage \in [Bookings -> {"held", "confirmed"}]

Advance(b, from, to) == stage[b] = from /\ stage' = [stage EXCEPT ![b] = to]

Next ==
  \E b \in Bookings :
    \/ Advance(b, "held", "confirmed")
    \/ Advance(b, "confirmed", "issued")
    \/ Advance(b, "issued", "delivered")

Spec == Init /\ [][Next]_stage
=============================================================================
