--------------------------- MODULE SeatInventory ----------------------------
(***************************************************************************)
(* What the reservation services promise about seats, without clocks,      *)
(* payments or rows: a slot has at most one owner, a booking gets and      *)
(* gives up its slots all at once (both legs of a round trip, or none),    *)
(* and what has been sold is never taken away.                             *)
(***************************************************************************)
CONSTANTS Bookings, Slots,
  Nobody  \* not a booking

VARIABLES
  owner,  \* the booking each slot is held for or sold to
  sold    \* the bookings that have been sold

vars == <<owner, sold>>

TypeOK == owner \in [Slots -> Bookings \cup {Nobody}] /\ sold \subseteq Bookings

Init == owner = [s \in Slots |-> Nobody] /\ sold = {}

Freed(B) == [s \in Slots |-> IF owner[s] \in B THEN Nobody ELSE owner[s]]

\* b gets the slots in S; the unsold bookings in B lose all of theirs in the same step.
Claim(b, S, B) ==
  /\ S # {} /\ b \notin B /\ \A s \in Slots : owner[s] # b
  /\ \A s \in S : Freed(B)[s] = Nobody
  /\ owner' = [s \in Slots |-> IF s \in S THEN b ELSE Freed(B)[s]]
  /\ UNCHANGED sold

GiveUp(B) == owner' = Freed(B) /\ UNCHANGED sold

Sell(b) == (\E s \in Slots : owner[s] = b) /\ sold' = sold \cup {b} /\ UNCHANGED owner

Next ==
  \/ \E b \in Bookings \ sold, S \in SUBSET Slots, B \in SUBSET (Bookings \ sold) : Claim(b, S, B)
  \/ \E B \in SUBSET (Bookings \ sold) : GiveUp(B)
  \/ \E b \in Bookings \ sold : Sell(b)

Spec == Init /\ [][Next]_vars
=============================================================================
