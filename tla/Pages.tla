-------------------------------- MODULE Pages --------------------------------
(***************************************************************************)
(* What the site and the panel show of trips, seats and bookings:          *)
(* core/views.py, get_trip_availability(mutate=False) and the reservation  *)
(* and payment views of the panel.                                         *)
(*                                                                         *)
(* A page locks nothing and writes nothing: it is a function of the rows   *)
(* it reads, and what its buttons send is a service of Reservations, which *)
(* decides again under its locks.  So the pages are state functions, and   *)
(* the question is whether they and the services agree.                    *)
(***************************************************************************)
EXTENDS Reservations

\* SALES_MANUAL_CUTOFF_MINUTES is 30 unless the environment says otherwise; at 0 the panel
\* would not list a trip in the minute of its boarding, when create_booking still takes it.
ASSUME PagesAssumption == IsFiniteSet(Trips) /\ IsFiniteSet(Seats) /\ ManualCutoff > 0

(* Seats on offer. *)

\* Mutant: a hold without a deadline, as every manual one, leaves its seat free.
Occupied_Timed(s) ==
  \E b \in Bookings :
    \/ assignment[b][s] = "CONFIRMED"
    \/ assignment[b][s] = "HELD" /\ expires_at[b] # None /\ expires_at[b] > now

\* get_trip_availability(mutate=False): by the clock, a lapsed hold is no longer one.
Occupied(s) ==
  \E b \in Bookings :
    \/ assignment[b][s] = "CONFIRMED"
    \/ assignment[b][s] = "HELD" /\ (expires_at[b] = None \/ expires_at[b] > now)

FreeSeats(t) == {s \in Seats : ~Occupied(<<t, s>>)}

\* What search and checkout ask of a trip.
OnSale(t) == trip_status[t] = "SCHEDULED" /\ now < Departure[t] - OnlineCutoff

FindAvailableTrips(n) == {t \in Trips : OnSale(t) /\ Cardinality(FreeSeats(t)) >= n}

\* The two lists of search_trips for n people; a one-way journey is <<t, t>>.
SearchTrips(n) == FindAvailableTrips(n) \X FindAvailableTrips(n)

InOrder(t, u) == t = u \/ Arrival[t] < Departure[u]

\* checkout_view takes the itinerary and shows the seat maps of its trips.
Checkout(t, u) == OnSale(t) /\ OnSale(u) /\ InOrder(t, u)

DeckMap(T) == {s \in Slots : s[1] \in T /\ s[2] \in FreeSeats(s[1])}

\* required_seat_count of a party of n: infants on a lap have no seat, and each has a companion
\* who has one.  As many seats on each leg.
Seated(n, S) == \E m \in 1 .. n : \A leg \in Legs(S) : Cardinality(SeatsOn(S, leg)) = m

\* What create_public_booking, or the panel's form, sends on.
MaySelect(t, u, n, S) == S \subseteq DeckMap({t, u}) /\ Legs(S) = {t, u} /\ Seated(n, S)

PublicOffer(n, S) ==
  \E trip \in SearchTrips(n) : Checkout(trip[1], trip[2]) /\ MaySelect(trip[1], trip[2], n, S)

\* booking_create lists the trips that have not left, whatever the cutoff of the counter, and
\* counts no seats.
EligibleTrips == {t \in Trips : trip_status[t] = "SCHEDULED" /\ Departure[t] > now}

PanelOffer(n, S) == \E t, u \in EligibleTrips : InOrder(t, u) /\ MaySelect(t, u, n, S)

-----------------------------------------------------------------------------
(* The pages of an online booking, for the browser that made it. *)

Page == {"summary", "payment", "transfer"}

\* _payment_effectively_expired, of the latest payment.
PaymentExpired(b) ==
  LET i == attempts[b]
      deadline == IF LatestStatus(b) = "AWAITING_VOUCHER" THEN proof_deadline[b][i]
                                                          ELSE review_deadline[b][i]
  IN  /\ LatestStatus(b) \in {"AWAITING_VOUCHER", "UNDER_REVIEW"}
      /\ IF deadline = None THEN Lapsed(b, now) ELSE deadline <= now

\* Mutant: the choice of a method of payment does not look at the clock.
PaymentPage_NoClock(b) ==
  IF status[b] # "HELD" THEN "summary"
  ELSE IF HasPayment(b, {"AWAITING_VOUCHER", "UNDER_REVIEW"}) THEN "transfer" ELSE "payment"

\* payment_pending, pantalla_transferencia: the page itself or the one it redirects to.
PaymentPage(b) ==
  IF status[b] # "HELD" \/ Lapsed(b, now) THEN "summary"
  ELSE IF HasPayment(b, {"AWAITING_VOUCHER", "UNDER_REVIEW"}) THEN "transfer" ELSE "payment"

TransferPage(b) == IF attempts[b] = 0 THEN "payment" ELSE "transfer"

Redirect(b, p) ==
  CASE p = "payment" -> PaymentPage(b)
    [] p = "transfer" -> TransferPage(b)
    [] OTHER -> p

Landing(b, p) == Redirect(b, Redirect(b, p))

\* booking_summary: where its payment button leads, by the last payment that did not expire; a
\* confirmed booking has none.
SummaryLeads(b) ==
  LET shown == {i \in 1 .. attempts[b] : payment[b][i] # "EXPIRED"}
      open == \E i \in shown : /\ \A j \in shown : j <= i
                               /\ payment[b][i] \in {"AWAITING_VOUCHER", "UNDER_REVIEW"}
  IN  IF status[b] = "CONFIRMED" THEN "none" ELSE IF open THEN "transfer" ELSE "payment"

\* The banner of the transfer page; the form to upload a voucher comes with "upload".
Banner(b) ==
  CASE LatestStatus(b) = "AWAITING_VOUCHER" /\ status[b] = "HELD" /\ ~PaymentExpired(b) -> "upload"
    [] LatestStatus(b) = "UNDER_REVIEW" /\ ~PaymentExpired(b) -> "review"
    [] LatestStatus(b) = "APPROVED" \/ status[b] = "CONFIRMED" -> "approved"
    [] LatestStatus(b) = "REJECTED" /\ status[b] # "CONFIRMED" -> "rejected"
    [] OTHER -> "over"

StartOffered(b) == PaymentPage(b) = "payment"
UploadOffered(b) == TransferPage(b) = "transfer" /\ Banner(b) = "upload"

\* The detail of a booking in the panel: the forms for cash and for a transfer, which ask neither
\* for its channel nor for its trips.
CounterOffered(b) == status[b] = "HELD" /\ ~HasPayment(b, {"UNDER_REVIEW"})

-----------------------------------------------------------------------------
(* Properties. *)

\* What the search, the seat maps and the form offer to a party of n, reading without locks and
\* releasing nothing, create_booking takes at that instant; and what it takes they offer, but for
\* a party with an infant on a lap, from whom the search hides a trip with fewer free seats than
\* people (core/views.py:188).  The panel counts no people, and offers more only in the last
\* minutes before the boarding, which its page does not tell apart.
OffersAreSold ==
  \A S \in SUBSET Slots, n \in 1 .. MaxPassengers :
    /\ PublicOffer(n, S) => MayBook("ONLINE", S) /\ Seated(n, S)
    /\ MayBook("ONLINE", S) /\ Seated(n, S) =>
         \/ PublicOffer(n, S)
         \/ \E t \in Legs(S) : Cardinality(SeatsOn(S, t)) < n /\ Cardinality(FreeSeats(t)) < n
    /\ MayBook("MANUAL", S) /\ Seated(n, S) <=>
         PanelOffer(n, S) /\ \A t \in Legs(S) : BeforeCutoff("MANUAL", t)

\* What the pages of a booking say against what the services take.  Redirects end; a transfer
\* that is offered is accepted, and the form for a voucher is there exactly while one would be; a
\* customer who may start or go on with a payment is led to it, one whose transfer was rejected
\* apart.  `Continuar al pago' leads back to the summary it is on exactly when the booking is over
\* and no transfer was open.  The banners promise no seat that is gone, those of a hold the
\* customer cancelled apart.  The panel shows its forms to charge for every hold without a
\* transfer in review, but a service takes them only of a manual one whose trips have not started.
ButtonsWork ==
  \A b \in Bookings :
    /\ channel[b] = "ONLINE" =>
         /\ \A p \in Page : Redirect(b, Landing(b, p)) = Landing(b, p)
         /\ StartOffered(b) => MayInitiate(b, now)
         /\ UploadOffered(b) <=> \E i \in Attempts : MayUpload(b, i, now)
         /\ MayInitiate(b, now) /\ LatestStatus(b) # "REJECTED" =>
              Landing(b, SummaryLeads(b)) = "payment"
         /\ UploadOffered(b) => Landing(b, SummaryLeads(b)) = "transfer"
         /\ Landing(b, SummaryLeads(b)) = "summary" <=>
              /\ status[b] \notin {"HELD", "CONFIRMED"} \/ (status[b] = "HELD" /\ Lapsed(b, now))
              /\ ~HasPayment(b, {"AWAITING_VOUCHER", "UNDER_REVIEW"})
         /\ Banner(b) = "approved" <=> status[b] = "CONFIRMED"
         /\ Banner(b) = "review" => status[b] = "RELEASED" \/ (OnlineHold(b) /\ ~Lapsed(b, now))
    /\ CounterSale(b, now) <=> CounterOffered(b) /\ channel[b] = "MANUAL" /\ TripsOpen(b)

\* docs/STATUS.md:25: after a rejection the seat stays held and the customer can upload
\* another voucher: `Reintentar pago' leads to the page that starts a transfer.
RejectedMayRetry ==
  \A b \in Bookings :
    OnlineHold(b) /\ LatestStatus(b) = "REJECTED" => Landing(b, "payment") = "payment"
=============================================================================
