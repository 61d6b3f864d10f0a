------------------------------ MODULE MCPanel ------------------------------
(* Small instances of Panel. *)
EXTENDS Panel, TLC

CONSTANTS d1, d2, ana, beto, x1, x2, r1, r2, bus, journey

Movements == {-1, 1}

\* Two routes, named as their trips, so that only the bus is shared.
OwnLine == [t \in Departures |-> t]

OneCoach == [t \in Departures |-> bus]
OneJourney == [k \in Tickets |-> journey]

\* d1 and d2 are desks, clerks, doors, requests, browsers and calls; x1 and x2 bookings,
\* departures (and their routes), tickets and addresses.
Symmetry == Permutations({d1, d2}) \cup Permutations({x1, x2})
=============================================================================
