--------------------------- MODULE MCReservations ---------------------------
(* Small instances of Reservations and Pages; times are in abstract units. *)
EXTENDS Pages, TLC

CONSTANTS b1, b2, b3, t1, t2, s1

\* The trip t2 comes back after t1 has arrived.
MCDeparture == [t \in Trips |-> IF t = t1 THEN 4 ELSE 6]
MCArrival == [t \in Trips |-> IF t = t1 THEN 5 ELSE 7]

Symmetry == Permutations(Bookings)
=============================================================================
