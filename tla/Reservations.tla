---------------------------- MODULE Reservations ----------------------------
(***************************************************************************)
(* Seat reservations and their payments: sales/services.py,                *)
(* payments/services.py, the trip state machine of panel/trip_services.py  *)
(* and the `expire' and `payments' tasks of the maintenance worker         *)
(* (operations/management/commands/run_operational_maintenance.py).        *)
(*                                                                         *)
(* Every service is one database transaction that first locks its Booking  *)
(* row (create_booking: its Trip rows) with SELECT ... FOR UPDATE and      *)
(* reads the state it decides on under that lock, so one action is one     *)
(* committed transaction.  What is NOT atomic in the code is not atomic    *)
(* here: a request reads its clock before it waits for the lock (Readings),*)
(* and the worker selects its candidates long before it handles them       *)
(* (NextTask, then one step per candidate).                                *)
(***************************************************************************)
EXTENDS Integers, FiniteSets

CONSTANTS
  Bookings,       \* identities of Booking rows; a row that does not exist yet is "NONE"
  Trips, Seats,   \* a slot <<t, s>> is seat s of the bus of trip t
  Departure,      \* boarding time of each trip (TripStop.scheduled_at of the origin)
  Arrival,        \* arrival time of each trip
  HoldTime,       \* SALES_ONLINE_HOLD_MINUTES
  ProofWindow,    \* PAYMENTS_PROOF_WINDOW_MINUTES
  ReviewWindow,   \* PAYMENTS_REVIEW_WINDOW_HOURS
  OnlineCutoff,   \* SALES_ONLINE_CUTOFF_MINUTES
  ManualCutoff,   \* SALES_MANUAL_CUTOFF_MINUTES
  MaxPassengers,  \* SALES_MAX_PASSENGERS_PER_BOOKING
  MaxWait,        \* bound: how long a request may wait for its Booking lock
  MaxAttempts,    \* bound: Payment rows per booking
  MaxTime,        \* bound: last instant of the clock
  MaxBatch,       \* --max-seconds: how long a maintenance run keeps taking candidates
  ExcludeKeepsNull, \* does exclude(latest_payment_status__in=...) keep a NULL? (Candidates)
  None            \* SQL NULL

ASSUME TimesAssumption ==
  /\ HoldTime \in Nat /\ ProofWindow \in Nat /\ ReviewWindow \in Nat
  /\ OnlineCutoff \in Nat /\ ManualCutoff \in Nat /\ MaxWait \in Nat
  /\ Departure \in [Trips -> Nat] /\ Arrival \in [Trips -> Nat]

ASSUME BoundsAssumption ==
  MaxAttempts \in Nat /\ MaxTime \in Nat /\ MaxPassengers \in Nat

\* A maintenance run lasts seconds and a lock is waited for seconds; a review, a day.
ASSUME BatchAssumption == MaxBatch \in Nat /\ MaxBatch + MaxWait < ReviewWindow

ASSUME ExcludeAssumption == ExcludeKeepsNull \in BOOLEAN

ASSUME NoneAssumption == None \notin Int /\ None \notin Bookings

VARIABLES
  now,          \* the server clock
  trip_status,  \* Trip.status
  status,       \* Booking.status
  channel,      \* Booking.channel
  expires_at,   \* Booking.expires_at
  assignment,   \* status of the booking's SeatAssignment row for each slot
  attempts,     \* number of Payment rows of each booking
  payment,      \* Payment.status of the booking's i-th row, in order of created_at
  proof_deadline, review_deadline,  \* Payment.proof_deadline_at and review_deadline_at
  sweep         \* the maintenance run: its task, the candidates it still holds, its start

bookingVars == <<status, channel, expires_at, assignment>>
deadlines == <<proof_deadline, review_deadline>>
paymentVars == <<attempts, payment, deadlines>>
vars == <<now, trip_status, bookingVars, paymentVars, sweep>>

-----------------------------------------------------------------------------
(* Rows and their values. *)

Slots == Trips \X Seats
Channel == {"ONLINE", "MANUAL"}
BookingStatus == {"HELD", "CONFIRMED", "EXPIRED", "RELEASED"}
AssignmentStatus == {"HELD", "CONFIRMED", "RELEASED"}
PaymentStatus == {"AWAITING_VOUCHER", "UNDER_REVIEW", "APPROVED", "REJECTED", "EXPIRED"}
\* transition_trip is the only writer of Trip.status; nothing sets BOARDING or CANCELLED.
TripStatus == {"SCHEDULED", "STARTED", "COMPLETED"}
ActivePayment == {"AWAITING_VOUCHER", "UNDER_REVIEW", "APPROVED"}

Deadline == Int \cup {None}
Attempts == 1 .. MaxAttempts
Tasks == {"expire", "payments"}

TypeOK ==
  /\ now \in Nat
  /\ trip_status \in [Trips -> TripStatus]
  /\ status \in [Bookings -> BookingStatus \cup {"NONE"}]
  /\ channel \in [Bookings -> Channel \cup {"NONE"}]
  /\ expires_at \in [Bookings -> Deadline]
  /\ assignment \in [Bookings -> [Slots -> AssignmentStatus \cup {"NONE"}]]
  /\ attempts \in [Bookings -> 0 .. MaxAttempts]
  /\ payment \in [Bookings -> [Attempts -> PaymentStatus \cup {"NONE"}]]
  /\ proof_deadline \in [Bookings -> [Attempts -> Deadline]]
  /\ review_deadline \in [Bookings -> [Attempts -> Deadline]]
  /\ sweep \in [task : Tasks, todo : SUBSET Bookings, since : Nat]

Init ==
  /\ now = 0
  /\ trip_status = [t \in Trips |-> "SCHEDULED"]
  /\ status = [b \in Bookings |-> "NONE"]
  /\ channel = [b \in Bookings |-> "NONE"]
  /\ expires_at = [b \in Bookings |-> None]
  /\ assignment = [b \in Bookings |-> [s \in Slots |-> "NONE"]]
  /\ attempts = [b \in Bookings |-> 0]
  /\ payment = [b \in Bookings |-> [i \in Attempts |-> "NONE"]]
  /\ proof_deadline = [b \in Bookings |-> [i \in Attempts |-> None]]
  /\ review_deadline = [b \in Bookings |-> [i \in Attempts |-> None]]
  /\ sweep = [task |-> "payments", todo |-> {}, since |-> 0]

-----------------------------------------------------------------------------
(* Helpers: what the transactions read and the row updates they share. *)

\* The clock a request holds once it gets its lock: read at most MaxWait ago.
Readings == {t \in 0 .. now : now <= t + MaxWait}

Lapsed(b, t) == expires_at[b] # None /\ expires_at[b] <= t

\* Payment.objects.filter(booking=b).order_by("-created_at", "-pk").first()
LatestStatus(b) == IF attempts[b] = 0 THEN "NONE" ELSE payment[b][attempts[b]]

HasPayment(b, S) == \E i \in 1 .. attempts[b] : payment[b][i] \in S

TripsOf(b) == {t \in Trips : \E s \in Seats : assignment[b][<<t, s>>] # "NONE"}

TripsOpen(b) == \A t \in TripsOf(b) : trip_status[t] = "SCHEDULED"

\* Mutant: only the seats of one leg move.
MoveSeats_OneLeg(B, to) ==
  LET leg == CHOOSE t \in Trips : TRUE IN
  [b \in Bookings |->
     IF b \in B
     THEN [s \in Slots |->
             IF s[1] = leg /\ assignment[b][s] = "HELD" THEN to ELSE assignment[b][s]]
     ELSE assignment[b]]

\* The filter(status=HELD).update(status=...) on the assignments of the bookings in B.
MoveSeats(B, to) ==
  [b \in Bookings |->
     IF b \in B
     THEN [s \in Slots |-> IF assignment[b][s] = "HELD" THEN to ELSE assignment[b][s]]
     ELSE assignment[b]]

\* EXPIRED for every booking in B, and its HELD seats RELEASED.
Expire(B) ==
  /\ status' = [b \in Bookings |-> IF b \in B THEN "EXPIRED" ELSE status[b]]
  /\ assignment' = MoveSeats(B, "RELEASED")

\* Booking and seats CONFIRMED in the transaction that approves the payment.
Confirm(b) ==
  /\ status' = [status EXCEPT ![b] = "CONFIRMED"]
  /\ assignment' = MoveSeats({b}, "CONFIRMED")

\* A new Payment row in status st.
AddPayment(b, st) ==
  /\ attempts[b] < MaxAttempts
  /\ attempts' = [attempts EXCEPT ![b] = @ + 1]
  /\ payment' = [payment EXCEPT ![b][attempts[b] + 1] = st]

\* Mutant: a booking's status written into the payments.
ExpirePayments_Released(b, S) ==
  payment' = [payment EXCEPT ![b] =
    [i \in Attempts |-> IF payment[b][i] \in S THEN "RELEASED" ELSE payment[b][i]]]

\* The payments of b whose status is in S become EXPIRED.
ExpirePayments(b, S) ==
  payment' = [payment EXCEPT ![b] =
    [i \in Attempts |-> IF payment[b][i] \in S THEN "EXPIRED" ELSE payment[b][i]]]

-----------------------------------------------------------------------------
(* sales/services.py *)

Legs(S) == {slot[1] : slot \in S}
SeatsOn(S, t) == {slot[2] : slot \in {u \in S : u[1] = t}}

\* One or two legs, the second after the first, with as many seats on each.
Itinerary(S) ==
  /\ Cardinality(Legs(S)) \in {1, 2}
  /\ \A t, u \in Legs(S) :
       /\ Cardinality(SeatsOn(S, t)) = Cardinality(SeatsOn(S, u))
       /\ t # u => Arrival[t] < Departure[u] \/ Arrival[u] < Departure[t]
  /\ \A t \in Legs(S) : Cardinality(SeatsOn(S, t)) <= MaxPassengers

BeforeCutoff(ch, t) ==
  \/ ch = "ONLINE" /\ now + OnlineCutoff < Departure[t]
  \/ ch = "MANUAL" /\ now + ManualCutoff <= Departure[t]

\* Mutant: without the filter on the status.
LapsedOn_AnyStatus(T) == {b \in Bookings : Lapsed(b, now) /\ TripsOf(b) \cap T # {}}

\* release_expired_bookings(trip_ids): whatever holds a seat on those trips and has lapsed.
LapsedOn(T) ==
  {b \in Bookings : status[b] = "HELD" /\ Lapsed(b, now) /\ TripsOf(b) \cap T # {}}

\* Mutant: a sold seat is not an occupied one.
Available_HeldOnly(S, lapsed) ==
  \A s \in S, b \in Bookings \ lapsed : assignment[b][s] # "HELD"

\* The is_occupied test, made after the lapsed holds have been released.
Available(S, lapsed) ==
  \A s \in S, b \in Bookings \ lapsed : assignment[b][s] \notin {"HELD", "CONFIRMED"}

\* What create_booking asks of a new booking.
MayBook(ch, S) ==
  /\ Itinerary(S)
  /\ \A t \in Legs(S) : trip_status[t] = "SCHEDULED" /\ BeforeCutoff(ch, t)
  /\ Available(S, LapsedOn(Legs(S)))

\* create_booking.  A refused booking rolls everything back, the release included.  The
\* clock is read again once trips and seats are locked, so it is the present one.
CreateBooking(b, ch, S) ==
  LET lapsed == LapsedOn(Legs(S)) IN
  /\ status[b] = "NONE" /\ MayBook(ch, S)
  /\ status' = [x \in Bookings |->
                  IF x = b THEN "HELD" ELSE IF x \in lapsed THEN "EXPIRED" ELSE status[x]]
  /\ assignment' = [MoveSeats(lapsed, "RELEASED") EXCEPT ![b] =
                      [s \in Slots |-> IF s \in S THEN "HELD" ELSE "NONE"]]
  /\ channel' = [channel EXCEPT ![b] = ch]
  /\ expires_at' = [expires_at EXCEPT ![b] = IF ch = "ONLINE" THEN now + HoldTime ELSE None]
  /\ UNCHANGED <<now, trip_status, paymentVars, sweep>>

\* release_booking: the customer cancels an online hold, or the seller a manual one.
ReleaseBooking(b) ==
  /\ status[b] = "HELD"
  /\ status' = [status EXCEPT ![b] = "RELEASED"]
  /\ assignment' = MoveSeats({b}, "RELEASED")
  /\ UNCHANGED <<now, trip_status, channel, expires_at, paymentVars, sweep>>

\* The public services of this module that no other part of the system calls, its tests
\* apart: confirm_booking, which asks for no payment, expire_booking on a booking nobody
\* selected, and the release that get_trip_availability(mutate=True) makes.
ConfirmBooking(b) ==
  /\ status[b] = "HELD"
  /\ IF Lapsed(b, now) THEN Expire({b}) ELSE Confirm(b)
  /\ UNCHANGED <<now, trip_status, channel, expires_at, paymentVars, sweep>>

ExpireBooking(b) ==
  /\ status[b] = "HELD" /\ Lapsed(b, now)
  /\ Expire({b})
  /\ UNCHANGED <<now, trip_status, channel, expires_at, paymentVars, sweep>>

ReadAvailability(t) ==
  /\ LapsedOn({t}) # {}
  /\ Expire(LapsedOn({t}))
  /\ UNCHANGED <<now, trip_status, channel, expires_at, paymentVars, sweep>>

-----------------------------------------------------------------------------
(* payments/services.py.  t is the clock the request read before the lock. *)

\* What every sale at the counter requires.  A manual booking has no deadline (see
\* DeadlineFollowsPayment), so the services' `vencida' branch is never taken.
CounterSale(b, t) ==
  /\ channel[b] = "MANUAL" /\ status[b] = "HELD" /\ ~Lapsed(b, t)
  /\ TripsOpen(b)
  /\ ~HasPayment(b, {"UNDER_REVIEW", "APPROVED"})

\* _register_cash_payment_atomic; whether the seller has a cash session open is left open.
RegisterCashPayment(b, t) ==
  /\ CounterSale(b, t)
  /\ AddPayment(b, "APPROVED")
  /\ Confirm(b)
  /\ UNCHANGED <<now, trip_status, channel, expires_at, deadlines, sweep>>

\* _register_transfer_payment_atomic: the booking stays HELD.
RegisterTransferPayment(b, t) ==
  /\ CounterSale(b, t)
  /\ AddPayment(b, "UNDER_REVIEW")
  /\ UNCHANGED <<now, trip_status, bookingVars, deadlines, sweep>>

UnderReview(b, i) == i <= attempts[b] /\ payment[b][i] = "UNDER_REVIEW"

\* Mutant: the trips are not looked at when the transfer is approved.
MayApprove_AnyTrip(b, i) == UnderReview(b, i)

\* Approving asks for the trips of a manual booking to be open, of an online one nothing.
MayApprove(b, i) == UnderReview(b, i) /\ (channel[b] = "MANUAL" => TripsOpen(b))

\* _review_transfer_payment_atomic(approved=True) on a booking that is still held.
ApproveTransfer(b, i, t) ==
  /\ MayApprove(b, i)
  /\ ~Lapsed(b, t) /\ status[b] = "HELD"
  /\ payment' = [payment EXCEPT ![b][i] = "APPROVED"]
  /\ Confirm(b)
  /\ UNCHANGED <<now, trip_status, channel, expires_at, attempts, deadlines, sweep>>

\* Mutant: the payment is approved before the deadline is looked at.
ApproveTooLate_PaidFirst(b, i, t) ==
  /\ MayApprove(b, i)
  /\ Lapsed(b, t) \/ status[b] = "EXPIRED"
  /\ payment' = [payment EXCEPT ![b][i] = "APPROVED"]
  /\ Expire({b})
  /\ UNCHANGED <<now, trip_status, channel, expires_at, attempts, deadlines, sweep>>

\* ... and on one whose time is over: EXPIRED whatever it was, the payment not touched.
ApproveTooLate(b, i, t) ==
  /\ MayApprove(b, i)
  /\ Lapsed(b, t) \/ status[b] = "EXPIRED"
  /\ Expire({b})
  /\ UNCHANGED <<now, trip_status, channel, expires_at, paymentVars, sweep>>

\* _review_transfer_payment_atomic(approved=False): the booking is not looked at.
RejectTransfer(b, i) ==
  /\ UnderReview(b, i)
  /\ payment' = [payment EXCEPT ![b][i] = "REJECTED"]
  /\ UNCHANGED <<now, trip_status, bookingVars, attempts, deadlines, sweep>>

OnlineHold(b) == channel[b] = "ONLINE" /\ status[b] = "HELD"

\* The AWAITING_VOUCHER row i of b and whether its proof window is over at t.
Awaiting(b, i) == i <= attempts[b] /\ payment[b][i] = "AWAITING_VOUCHER"
ProofOver(b, i, t) == proof_deadline[b][i] <= t

\* _initiate_public_transfer_payment_atomic, time over: a rejected booking is exempt from
\* its own deadline, an open attempt is not exempt from the proof window.
InitiateTooLate(b, t) ==
  /\ OnlineHold(b)
  /\ \/ LatestStatus(b) # "REJECTED" /\ Lapsed(b, t)
     \/ \E i \in Attempts : Awaiting(b, i) /\ ProofOver(b, i, t)
  /\ Expire({b})
  /\ ExpirePayments(b, {"AWAITING_VOUCHER"})
  /\ UNCHANGED <<now, trip_status, channel, expires_at, attempts, deadlines, sweep>>

\* Mutant: an attempt under review does not count as active.
InitiateTransfer_OverReview(b, t) ==
  /\ OnlineHold(b)
  /\ LatestStatus(b) = "REJECTED" \/ ~Lapsed(b, t)
  /\ ~HasPayment(b, {"AWAITING_VOUCHER", "APPROVED"})
  /\ AddPayment(b, "AWAITING_VOUCHER")
  /\ proof_deadline' = [proof_deadline EXCEPT ![b][attempts[b] + 1] = t + ProofWindow]
  /\ expires_at' = [expires_at EXCEPT ![b] = t + ProofWindow]
  /\ UNCHANGED <<now, trip_status, status, channel, assignment, review_deadline, sweep>>

MayInitiate(b, t) ==
  /\ OnlineHold(b)
  /\ LatestStatus(b) = "REJECTED" \/ ~Lapsed(b, t)
  /\ ~HasPayment(b, ActivePayment)

\* ... and in time, with no active payment (with one, nothing is written).
InitiateTransfer(b, t) ==
  /\ MayInitiate(b, t)
  /\ AddPayment(b, "AWAITING_VOUCHER")
  /\ proof_deadline' = [proof_deadline EXCEPT ![b][attempts[b] + 1] = t + ProofWindow]
  /\ expires_at' = [expires_at EXCEPT ![b] = t + ProofWindow]
  /\ UNCHANGED <<now, trip_status, status, channel, assignment, review_deadline, sweep>>

MayUpload(b, i, t) ==
  OnlineHold(b) /\ Awaiting(b, i) /\ ~ProofOver(b, i, t) /\ ~Lapsed(b, t)

\* Mutant: the booking keeps the deadline of the proof window.
UploadVoucher_OldDeadline(b, i, t) ==
  /\ MayUpload(b, i, t)
  /\ payment' = [payment EXCEPT ![b][i] = "UNDER_REVIEW"]
  /\ review_deadline' = [review_deadline EXCEPT ![b][i] = t + ReviewWindow]
  /\ UNCHANGED <<now, trip_status, bookingVars, attempts, proof_deadline, sweep>>

\* _upload_public_transfer_voucher_atomic, within the proof window.
UploadVoucher(b, i, t) ==
  /\ MayUpload(b, i, t)
  /\ payment' = [payment EXCEPT ![b][i] = "UNDER_REVIEW"]
  /\ review_deadline' = [review_deadline EXCEPT ![b][i] = t + ReviewWindow]
  /\ expires_at' = [expires_at EXCEPT ![b] = t + ReviewWindow]
  /\ UNCHANGED <<now, trip_status, status, channel, assignment, attempts, proof_deadline, sweep>>

\* ... and after it: payment and booking expire together.
UploadTooLate(b, i, t) ==
  /\ OnlineHold(b) /\ Awaiting(b, i)
  /\ ProofOver(b, i, t) \/ Lapsed(b, t)
  /\ payment' = [payment EXCEPT ![b][i] = "EXPIRED"]
  /\ Expire({b})
  /\ UNCHANGED <<now, trip_status, channel, expires_at, attempts, deadlines, sweep>>

-----------------------------------------------------------------------------
(* The maintenance worker: one process (advisory lock), tasks in turn. *)

\* Mutant: a transfer under review is not a candidate.
Candidates_NoReview(task) ==
  {b \in Bookings :
     /\ status[b] = "HELD" /\ Lapsed(b, now)
     /\ task = "payments" /\ HasPayment(b, {"AWAITING_VOUCHER"})}

\* _candidates.  A booking without payments has a NULL latest_payment_status, and exclude()
\* on an annotation is NOT (NULL IN (...)), which is not true: the row is left out.
\* ExcludeKeepsNull = TRUE is what the query means to say, FALSE what SQL makes of it.
Candidates(task) ==
  {b \in Bookings :
     /\ status[b] = "HELD" /\ Lapsed(b, now)
     /\ \/ /\ task = "expire"
           /\ LatestStatus(b) \notin {"AWAITING_VOUCHER", "UNDER_REVIEW", "REJECTED"}
           /\ attempts[b] > 0 \/ ExcludeKeepsNull
        \/ task = "payments" /\ HasPayment(b, {"AWAITING_VOUCHER", "UNDER_REVIEW"})}

InTime == now <= sweep.since + MaxBatch

\* _candidates for the second task of the run.
NextTask ==
  /\ sweep.task = "expire" /\ sweep.todo = {} /\ InTime
  /\ sweep' = [task |-> "payments", todo |-> Candidates("payments"), since |-> sweep.since]
  /\ UNCHANGED <<now, trip_status, bookingVars, paymentVars>>

\* The next run, after a complete one or one that ran out of time.  A worker that dies
\* loses the same thing, the candidates it had not handled.
NextRun ==
  /\ (sweep.task = "payments" /\ sweep.todo = {}) \/ ~InTime
  /\ sweep' = [task |-> "expire", todo |-> Candidates("expire"), since |-> now]
  /\ UNCHANGED <<now, trip_status, bookingVars, paymentVars>>

Take(task, b) ==
  /\ sweep.task = task /\ b \in sweep.todo /\ InTime
  /\ sweep' = [task |-> task, todo |-> sweep.todo \ {b}, since |-> sweep.since]

\* Mutant: what was lapsed when it was selected is taken to be lapsed still.
SweepExpire_StaleDeadline(b) ==
  /\ Take("expire", b)
  /\ IF status[b] = "HELD"
     THEN Expire({b})
     ELSE UNCHANGED <<status, assignment>>
  /\ UNCHANGED <<now, trip_status, channel, expires_at, paymentVars>>

\* expire_booking on a candidate: what is no longer held, or not lapsed, raises.  An older
\* reading of the clock could only raise where this one expires, as if b were dropped.
SweepExpire(b) ==
  /\ Take("expire", b)
  /\ IF status[b] = "HELD" /\ Lapsed(b, now)
     THEN Expire({b})
     ELSE UNCHANGED <<status, assignment>>
  /\ UNCHANGED <<now, trip_status, channel, expires_at, paymentVars>>

\* Mutant: what was held when it was selected is taken to be held still.
SweepPayment_StaleStatus(b) ==
  /\ Take("payments", b)
  /\ IF Lapsed(b, now) /\ LatestStatus(b) # "REJECTED"
     THEN Expire({b}) /\ ExpirePayments(b, {"AWAITING_VOUCHER", "UNDER_REVIEW"})
     ELSE UNCHANGED <<status, assignment, payment>>
  /\ UNCHANGED <<now, trip_status, channel, expires_at, attempts, deadlines>>

\* Mutant: a rejection after the selection goes unnoticed.
SweepPayment_Rejected(b) ==
  /\ Take("payments", b)
  /\ IF status[b] = "HELD" /\ Lapsed(b, now)
     THEN Expire({b}) /\ ExpirePayments(b, {"AWAITING_VOUCHER", "UNDER_REVIEW"})
     ELSE UNCHANGED <<status, assignment, payment>>
  /\ UNCHANGED <<now, trip_status, channel, expires_at, attempts, deadlines>>

\* expire_public_transfer_if_expired on a candidate.
SweepPayment(b) ==
  /\ Take("payments", b)
  /\ IF status[b] = "HELD" /\ Lapsed(b, now) /\ LatestStatus(b) # "REJECTED"
     THEN Expire({b}) /\ ExpirePayments(b, {"AWAITING_VOUCHER", "UNDER_REVIEW"})
     ELSE UNCHANGED <<status, assignment, payment>>
  /\ UNCHANGED <<now, trip_status, channel, expires_at, attempts, deadlines>>

-----------------------------------------------------------------------------
(* panel/trip_services.py, and time. *)

TransitionTrip(t) ==
  /\ \/ trip_status[t] = "SCHEDULED" /\ trip_status' = [trip_status EXCEPT ![t] = "STARTED"]
     \/ trip_status[t] = "STARTED" /\ trip_status' = [trip_status EXCEPT ![t] = "COMPLETED"]
  /\ UNCHANGED <<now, bookingVars, paymentVars, sweep>>

Tick ==
  /\ now < MaxTime
  /\ now' = now + 1
  /\ UNCHANGED <<trip_status, bookingVars, paymentVars, sweep>>

Sale(b) ==
  \/ \E ch \in Channel, S \in SUBSET Slots : CreateBooking(b, ch, S)
  \/ ReleaseBooking(b)

Pay(b, t) ==
  \/ RegisterCashPayment(b, t)
  \/ RegisterTransferPayment(b, t)
  \/ InitiateTransfer(b, t)
  \/ InitiateTooLate(b, t)
  \/ \E i \in Attempts :
       \/ UploadVoucher(b, i, t)
       \/ UploadTooLate(b, i, t)
       \/ ApproveTransfer(b, i, t)
       \/ ApproveTooLate(b, i, t)
       \/ RejectTransfer(b, i)

Sweep ==
  \/ NextTask
  \/ NextRun
  \/ \E b \in Bookings : SweepExpire(b) \/ SweepPayment(b)

Next ==
  \/ \E b \in Bookings : Sale(b)
  \/ \E b \in Bookings, t \in Readings : Pay(b, t)
  \/ Sweep
  \/ \E t \in Trips : TransitionTrip(t)
  \/ Tick

Spec == Init /\ [][Next]_vars

\* run_maintenance_worker loops for ever and survives its exceptions; nobody else must act.
FairSpec == Spec /\ WF_vars(Sweep)

\* With the services that only their tests call.  confirm_booking is for bookings nobody pays:
\* one confirmed beside an open transfer would be expired by its late approval.
AllServices ==
  \/ Next
  \/ \E b \in Bookings : (attempts[b] = 0 /\ ConfirmBooking(b)) \/ ExpireBooking(b)
  \/ \E t \in Trips : ReadAvailability(t)

ServicesSpec == Init /\ [][AllServices]_vars

-----------------------------------------------------------------------------
(* Safety. *)

Owns(b, s) == assignment[b][s] \in {"HELD", "CONFIRMED"}

\* No seat of a trip is held or sold twice, whichever services interleave
\* (create_booking; the database backs it with sales_active_trip_seat_unique).
SeatExclusive ==
  \A b, c \in Bookings, s \in Slots : Owns(b, s) /\ Owns(c, s) => b = c

\* A booking and all its seats, on both legs, are always in the same situation: a dead
\* booking keeps no seat and a confirmed one has lost none.
SeatsFollowBooking ==
  \A b \in Bookings, s \in Slots :
    assignment[b][s] # "NONE" =>
      assignment[b][s] = IF status[b] = "EXPIRED" THEN "RELEASED" ELSE status[b]

\* A booking is confirmed exactly when one of its payments is approved: nobody travels
\* unpaid and no approved money is left on a booking that lost its seats.
ConfirmedIffPaid ==
  \A b \in Bookings : status[b] = "CONFIRMED" <=> HasPayment(b, {"APPROVED"})

\* Two attempts are never open or paid at once (payments_active_booking_unique), and the
\* open one is the latest, which is the one the deadline rules look at.
OneActivePayment ==
  \A b \in Bookings : \A i \in 1 .. attempts[b] :
    payment[b][i] \in ActivePayment => i = attempts[b]

\* The deadline of a held seat is the one its latest payment gives it: the proof window
\* while the voucher is awaited, the review window from then on (a rejection does not
\* move it), and none at all for a sale at the counter.
DeadlineFollowsPayment ==
  \A b \in Bookings : status[b] = "HELD" =>
    /\ channel[b] = "MANUAL" <=> expires_at[b] = None
    /\ channel[b] = "ONLINE" /\ attempts[b] > 0 =>
         expires_at[b] = IF LatestStatus(b) = "AWAITING_VOUCHER"
                         THEN proof_deadline[b][attempts[b]]
                         ELSE review_deadline[b][attempts[b]]

-----------------------------------------------------------------------------
(* What a step may never do. *)

\* A confirmed booking stays confirmed and keeps every seat, and an expired or released one
\* is never held or confirmed again, whatever late request, stale candidate or second review
\* arrives.
OutcomeStands ==
  [][\A b \in Bookings :
       /\ status[b] = "CONFIRMED" =>
            status'[b] = "CONFIRMED" /\ assignment'[b] = assignment[b]
       /\ status[b] \in {"EXPIRED", "RELEASED"} => status'[b] \in {"EXPIRED", "RELEASED"}]_vars

\* A hold only expires once its own deadline has passed by the server clock, though the
\* deadline moves while requests wait and while the worker holds its list.
NoEarlyExpiry ==
  [][\A b \in Bookings : status[b] = "HELD" /\ status'[b] = "EXPIRED" =>
       expires_at[b] # None /\ expires_at[b] <= now]_vars

\* docs/STATUS.md:18: maintenance does not expire bookings whose payment was rejected,
\* not even when the rejection lands after the worker picked the booking.
MaintenanceSparesRejected ==
  [][\A b \in Bookings : Sweep /\ LatestStatus(b) = "REJECTED" => status'[b] = status[b]]_vars

\* A sale at the counter is never concluded once one of its trips has started, the
\* transfer presented before the start included (_lock_manual_booking_trips).
CounterClosesAtStart ==
  [][\A b \in Bookings : status[b] = "HELD" /\ status'[b] = "CONFIRMED" /\ channel[b] = "MANUAL"
       => TripsOpen(b)]_vars

-----------------------------------------------------------------------------
(* Statements of the documents that the code contradicts. *)

\* docs/PROJECT_SPEC.md:99 and payments/services.py:544: after a rejected voucher the
\* seat is kept, it is not freed because the rejected attempt ran out of time.
RejectedHoldIsKept ==
  [][\A b \in Bookings : status[b] = "HELD" /\ LatestStatus(b) = "REJECTED" =>
       status'[b] # "EXPIRED"]_vars

\* docs/ARCHITECTURE.md:66: a started trip blocks every sale, manual or online.
StartedTripBlocksSales ==
  [][\A b \in Bookings : status[b] = "HELD" /\ status'[b] = "CONFIRMED" => TripsOpen(b)]_vars

-----------------------------------------------------------------------------
(* Refinement and liveness. *)

Owner(s) == IF \E b \in Bookings : Owns(b, s) THEN CHOOSE b \in Bookings : Owns(b, s) ELSE None

\* The services implement the inventory: seats move all at once and never out of a sale.
Inventory == INSTANCE SeatInventory WITH
  Nobody <- None,
  owner <- [s \in Slots |-> Owner(s)],
  sold <- {b \in Bookings : status[b] = "CONFIRMED"}

ImplementsInventory == Inventory!Spec

\* Whatever its history, a hold that has lapsed is a candidate of one task of the worker or the
\* other, but for the rejected ones, which are spared, and those that nobody tried to pay, if
\* exclude() drops a NULL.
WorkerSeesLapsed ==
  \A b \in Bookings :
    status[b] = "HELD" /\ Lapsed(b, now) =>
      (b \in Candidates("expire") \cup Candidates("payments") <=>
         LatestStatus(b) # "REJECTED" /\ (attempts[b] > 0 \/ ExcludeKeepsNull))

\* A hold whose transfer ran out of time is freed, renewed by a new attempt, or exempted by
\* a rejection, even if no customer ever asks for the trip again: the worker alone does it.
OpenTransfersAreFreed ==
  \A b \in Bookings :
    (status[b] = "HELD" /\ Lapsed(b, now) /\ HasPayment(b, {"AWAITING_VOUCHER", "UNDER_REVIEW"}))
      ~> (status[b] # "HELD" \/ ~Lapsed(b, now) \/ LatestStatus(b) = "REJECTED")

\* docs/ARCHITECTURE.md:113: the worker sees to the expirations, those of the bookings
\* that nobody ever tried to pay included.
UnpaidHoldsAreFreed ==
  \A b \in Bookings :
    (status[b] = "HELD" /\ Lapsed(b, now) /\ attempts[b] = 0)
      ~> (status[b] # "HELD" \/ ~Lapsed(b, now) \/ attempts[b] > 0)
=============================================================================
