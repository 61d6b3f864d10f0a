------------------------ MODULE Reservations_proofs -------------------------
(***************************************************************************)
(* Theorems about Reservations, for every value of its constants.  The     *)
(* inductive invariant is one of all the services, those included that     *)
(* only their tests call (ServicesSpec).  What holds of the ones in use    *)
(* alone comes last.                                                       *)
(***************************************************************************)
EXTENDS Reservations, TLAPS

-----------------------------------------------------------------------------
(* The row updates the transactions share. *)

\* Moving the held seats of some bookings only writes statuses an assignment may have.
LEMMA MoveSeatsType ==
  ASSUME TypeOK, NEW B, NEW to \in AssignmentStatus
  PROVE  MoveSeats(B, to) \in [Bookings -> [Slots -> AssignmentStatus \cup {"NONE"}]]
BY DEF TypeOK, MoveSeats, AssignmentStatus

\* Expiring bookings, with their seats, keeps both columns in their domains.
LEMMA ExpireType ==
  ASSUME TypeOK, NEW B, Expire(B)
  PROVE  /\ status' \in [Bookings -> BookingStatus \cup {"NONE"}]
         /\ assignment' \in [Bookings -> [Slots -> AssignmentStatus \cup {"NONE"}]]
BY MoveSeatsType DEF TypeOK, Expire, BookingStatus, AssignmentStatus

\* Confirming a booking keeps both columns in their domains.
LEMMA ConfirmType ==
  ASSUME TypeOK, NEW b \in Bookings, Confirm(b)
  PROVE  /\ status' \in [Bookings -> BookingStatus \cup {"NONE"}]
         /\ assignment' \in [Bookings -> [Slots -> AssignmentStatus \cup {"NONE"}]]
BY MoveSeatsType DEF TypeOK, Confirm, BookingStatus, AssignmentStatus

\* A new payment row takes the next free place.
LEMMA AddPaymentType ==
  ASSUME TypeOK, NEW b \in Bookings, NEW st \in PaymentStatus, AddPayment(b, st)
  PROVE  /\ attempts[b] + 1 \in Attempts
         /\ attempts' \in [Bookings -> 0 .. MaxAttempts]
         /\ payment' \in [Bookings -> [Attempts -> PaymentStatus \cup {"NONE"}]]
BY BoundsAssumption DEF TypeOK, AddPayment, Attempts

\* Expiring the open payments of a booking keeps their column in its domain.
LEMMA ExpirePaymentsType ==
  ASSUME TypeOK, NEW b \in Bookings, NEW S, ExpirePayments(b, S)
  PROVE  payment' \in [Bookings -> [Attempts -> PaymentStatus \cup {"NONE"}]]
BY DEF TypeOK, ExpirePayments, PaymentStatus

\* A reading of the clock is an instant of the past.
LEMMA ReadingsType ==
  ASSUME TypeOK, NEW t \in Readings
  PROVE  t \in Int /\ t <= now
BY DEF TypeOK, Readings

-----------------------------------------------------------------------------
(* Type correctness. *)

\* Any action of a payment request keeps every column in its domain.
LEMMA PayType ==
  ASSUME TypeOK, NEW b \in Bookings, NEW t \in Readings, Pay(b, t)
  PROVE  TypeOK'
<1> USE DEF TypeOK, deadlines
<1>0. t + ProofWindow \in Deadline /\ t + ReviewWindow \in Deadline
  BY ReadingsType, TimesAssumption DEF Deadline
<1>1. CASE RegisterCashPayment(b, t)
  BY <1>1, AddPaymentType, ConfirmType DEF RegisterCashPayment, PaymentStatus
<1>2. CASE RegisterTransferPayment(b, t)
  BY <1>2, AddPaymentType DEF RegisterTransferPayment, PaymentStatus, bookingVars
<1>3. CASE InitiateTransfer(b, t)
  BY <1>0, <1>3, AddPaymentType DEF InitiateTransfer, MayInitiate, PaymentStatus
<1>4. CASE InitiateTooLate(b, t)
  BY <1>4, ExpireType, ExpirePaymentsType DEF InitiateTooLate
<1>5. ASSUME NEW i \in Attempts, UploadVoucher(b, i, t) PROVE TypeOK'
  BY <1>0, <1>5 DEF UploadVoucher, MayUpload, PaymentStatus
<1>6. ASSUME NEW i \in Attempts, UploadTooLate(b, i, t) PROVE TypeOK'
  BY <1>6, ExpireType DEF UploadTooLate, PaymentStatus
<1>7. ASSUME NEW i \in Attempts, ApproveTransfer(b, i, t) PROVE TypeOK'
  BY <1>7, ConfirmType DEF ApproveTransfer, PaymentStatus
<1>8. ASSUME NEW i \in Attempts, ApproveTooLate(b, i, t) PROVE TypeOK'
  BY <1>8, ExpireType DEF ApproveTooLate, paymentVars
<1>9. ASSUME NEW i \in Attempts, RejectTransfer(b, i) PROVE TypeOK'
  BY <1>9 DEF RejectTransfer, PaymentStatus, bookingVars
<1>10. QED
  BY <1>1, <1>2, <1>3, <1>4, <1>5, <1>6, <1>7, <1>8, <1>9 DEF Pay

\* So does creating a booking, with the lapsed ones it expires on its way.
LEMMA CreateType ==
  ASSUME TypeOK, NEW b \in Bookings, NEW ch \in Channel, NEW S \in SUBSET Slots,
         CreateBooking(b, ch, S)
  PROVE  TypeOK'
<1> USE DEF TypeOK
<1>1. assignment' \in [Bookings -> [Slots -> AssignmentStatus \cup {"NONE"}]]
  BY MoveSeatsType DEF CreateBooking, AssignmentStatus
<1>2. status' \in [Bookings -> BookingStatus \cup {"NONE"}]
  BY DEF CreateBooking, BookingStatus
<1>3. expires_at' \in [Bookings -> Deadline] /\ channel' \in [Bookings -> Channel \cup {"NONE"}]
  BY TimesAssumption DEF CreateBooking, Deadline
<1>4. QED
  BY <1>1, <1>2, <1>3 DEF CreateBooking, paymentVars, deadlines

\* And a step of the maintenance worker.
LEMMA SweepType ==
  ASSUME TypeOK, Sweep
  PROVE  TypeOK'
<1> USE DEF TypeOK
<1>1. CASE NextTask
  BY <1>1 DEF NextTask, Candidates, Tasks, bookingVars, paymentVars, deadlines
<1>2. CASE NextRun
  BY <1>2 DEF NextRun, Candidates, Tasks, bookingVars, paymentVars, deadlines
<1>3. ASSUME NEW b \in Bookings, SweepExpire(b) PROVE TypeOK'
  <2>1. sweep' \in [task : Tasks, todo : SUBSET Bookings, since : Nat]
    BY <1>3 DEF SweepExpire, Take
  <2>2. QED
    BY <1>3, <2>1, ExpireType DEF SweepExpire, paymentVars, deadlines
<1>4. ASSUME NEW b \in Bookings, SweepPayment(b) PROVE TypeOK'
  <2>1. sweep' \in [task : Tasks, todo : SUBSET Bookings, since : Nat]
    BY <1>4 DEF SweepPayment, Take
  <2>2. QED
    BY <1>4, <2>1, ExpireType, ExpirePaymentsType DEF SweepPayment, deadlines
<1>5. QED
  BY <1>1, <1>2, <1>3, <1>4 DEF Sweep

-----------------------------------------------------------------------------
(* The inductive invariant. *)

\* What the other parts lean on: no payment comes before its booking (every service reads
\* the Booking row first), only an online sale waits for a voucher, and a booking is
\* confirmed with its approved payment and has none open from then on.
PaymentsFitBooking ==
  \A b \in Bookings :
    /\ status[b] = "NONE" => attempts[b] = 0
    /\ HasPayment(b, {"AWAITING_VOUCHER"}) => channel[b] = "ONLINE"
    /\ HasPayment(b, {"APPROVED"}) => status[b] = "CONFIRMED"
    /\ status[b] = "CONFIRMED" => ~HasPayment(b, {"AWAITING_VOUCHER", "UNDER_REVIEW"})

PaymentInv == OneActivePayment /\ PaymentsFitBooking

SeatInv == SeatExclusive /\ SeatsFollowBooking

IInv == TypeOK /\ PaymentInv /\ SeatInv /\ DeadlineFollowsPayment

\* A booking that a service may expire is neither paid for nor missing.
Expirable(b) == status[b] \notin {"NONE", "CONFIRMED"}

\* All a step may do to bookings and seats.
SeatStep ==
  \/ UNCHANGED <<status, assignment>>
  \/ \E B \in SUBSET Bookings : (\A b \in B : Expirable(b)) /\ Expire(B)
  \/ \E b \in Bookings : status[b] = "HELD" /\ Confirm(b)
  \/ \E b \in Bookings : ReleaseBooking(b)
  \/ \E b \in Bookings, ch \in Channel, S \in SUBSET Slots : CreateBooking(b, ch, S)

\* One booking is expired as a set of one.
LEMMA ExpireOne ==
  ASSUME NEW b \in Bookings, Expirable(b), Expire({b})
  PROVE  SeatStep
<1>1. {b} \in SUBSET Bookings /\ \A c \in {b} : Expirable(c)
  OBVIOUS
<1>2. QED
  BY <1>1 DEF SeatStep

\* A booking with a payment under review is not a confirmed one, however late the review.
LEMMA ReviewedIsExpirable ==
  ASSUME TypeOK, PaymentInv, NEW b \in Bookings, NEW i \in Attempts, UnderReview(b, i)
  PROVE  Expirable(b)
<1>1. i \in 1 .. attempts[b] /\ payment[b][i] = "UNDER_REVIEW"
  BY DEF UnderReview, TypeOK, Attempts
<1>2. attempts[b] # 0 /\ HasPayment(b, {"AWAITING_VOUCHER", "UNDER_REVIEW"})
  BY <1>1 DEF HasPayment, TypeOK
<1>3. QED
  BY <1>2 DEF PaymentInv, PaymentsFitBooking, Expirable

\* A payment request confirms a held booking, expires one that may expire, or leaves the
\* booking alone.
LEMMA PaySeatStep ==
  ASSUME TypeOK, PaymentInv, NEW b \in Bookings, NEW t \in Readings, Pay(b, t)
  PROVE  SeatStep
<1>1. CASE RegisterCashPayment(b, t)
  BY <1>1 DEF RegisterCashPayment, CounterSale, SeatStep
<1>2. CASE RegisterTransferPayment(b, t)
  BY <1>2 DEF RegisterTransferPayment, bookingVars, SeatStep
<1>3. CASE InitiateTransfer(b, t)
  BY <1>3 DEF InitiateTransfer, MayInitiate, SeatStep
<1>4. CASE InitiateTooLate(b, t)
  BY <1>4, ExpireOne DEF InitiateTooLate, OnlineHold, Expirable
<1>5. ASSUME NEW i \in Attempts, UploadVoucher(b, i, t) PROVE SeatStep
  BY <1>5 DEF UploadVoucher, MayUpload, SeatStep
<1>6. ASSUME NEW i \in Attempts, UploadTooLate(b, i, t) PROVE SeatStep
  BY <1>6, ExpireOne DEF UploadTooLate, OnlineHold, Expirable
<1>7. ASSUME NEW i \in Attempts, ApproveTransfer(b, i, t) PROVE SeatStep
  BY <1>7 DEF ApproveTransfer, SeatStep
<1>8. ASSUME NEW i \in Attempts, ApproveTooLate(b, i, t) PROVE SeatStep
  BY <1>8, ReviewedIsExpirable, ExpireOne DEF ApproveTooLate, MayApprove
<1>9. ASSUME NEW i \in Attempts, RejectTransfer(b, i) PROVE SeatStep
  BY <1>9 DEF RejectTransfer, bookingVars, SeatStep
<1>10. QED
  BY <1>1, <1>2, <1>3, <1>4, <1>5, <1>6, <1>7, <1>8, <1>9 DEF Pay

\* Every step moves seats in one of the five ways.
LEMMA NextSeatStep ==
  ASSUME TypeOK, PaymentInv, [AllServices]_vars
  PROVE  SeatStep
<1>1. ASSUME NEW b \in Bookings, Sale(b) PROVE SeatStep
  BY <1>1 DEF Sale, SeatStep
<1>2. ASSUME NEW b \in Bookings, NEW t \in Readings, Pay(b, t) PROVE SeatStep
  BY <1>2, PaySeatStep
<1>3. CASE NextTask \/ NextRun
  BY <1>3 DEF NextTask, NextRun, bookingVars, SeatStep
<1>4. ASSUME NEW b \in Bookings, SweepExpire(b) PROVE SeatStep
  <2>1. CASE status[b] = "HELD" /\ Lapsed(b, now)
    BY <1>4, <2>1, ExpireOne DEF SweepExpire, Expirable
  <2>2. CASE ~(status[b] = "HELD" /\ Lapsed(b, now))
    BY <1>4, <2>2 DEF SweepExpire, SeatStep
  <2>3. QED
    BY <2>1, <2>2
<1>5. ASSUME NEW b \in Bookings, SweepPayment(b) PROVE SeatStep
  <2> DEFINE Due == status[b] = "HELD" /\ Lapsed(b, now) /\ LatestStatus(b) # "REJECTED"
  <2>1. CASE Due
    BY <1>5, <2>1, ExpireOne DEF SweepPayment, Expirable
  <2>2. CASE ~Due
    BY <1>5, <2>2 DEF SweepPayment, SeatStep
  <2>3. QED
    BY <2>1, <2>2
<1>6. ASSUME NEW t \in Trips, TransitionTrip(t) PROVE SeatStep
  BY <1>6 DEF TransitionTrip, bookingVars, SeatStep
<1>7. CASE Tick \/ UNCHANGED vars
  BY <1>7 DEF Tick, vars, bookingVars, SeatStep
<1>8. ASSUME NEW b \in Bookings, ConfirmBooking(b) PROVE SeatStep
  <2>1. CASE Lapsed(b, now)
    BY <1>8, <2>1, ExpireOne DEF ConfirmBooking, Expirable
  <2>2. CASE ~Lapsed(b, now)
    BY <1>8, <2>2 DEF ConfirmBooking, SeatStep
  <2>3. QED
    BY <2>1, <2>2
<1>9. ASSUME NEW b \in Bookings, ExpireBooking(b) PROVE SeatStep
  BY <1>9, ExpireOne DEF ExpireBooking, Expirable
<1>10. ASSUME NEW t \in Trips, ReadAvailability(t) PROVE SeatStep
  BY <1>10 DEF ReadAvailability, LapsedOn, Expirable, SeatStep
<1>11. QED
  BY <1>1, <1>2, <1>3, <1>4, <1>5, <1>6, <1>7, <1>8, <1>9, <1>10 DEF AllServices, Next, Sweep

\* Each of the five keeps every seat with one booking and in its booking's situation.
LEMMA SeatStepKeepsSeats ==
  ASSUME TypeOK, SeatInv, SeatStep
  PROVE  SeatInv'
<1> DEFINE Follows(b, s) ==
      assignment[b][s] # "NONE" =>
        assignment[b][s] = IF status[b] = "EXPIRED" THEN "RELEASED" ELSE status[b]
<1>a. \A b, c \in Bookings, s \in Slots : Owns(b, s) /\ Owns(c, s) => b = c
  BY DEF SeatInv, SeatExclusive
<1>b. \A b \in Bookings, s \in Slots : Follows(b, s)
  BY DEF SeatInv, SeatsFollowBooking
<1>c. ASSUME \A b \in Bookings, s \in Slots : Owns(b, s)' => Owns(b, s),
             \A b \in Bookings, s \in Slots : Follows(b, s)'
      PROVE  SeatInv'
  BY <1>a, <1>c DEF SeatInv, SeatExclusive, SeatsFollowBooking
<1> USE DEF Owns
<1>1. CASE UNCHANGED <<status, assignment>>
  BY <1>1, <1>b, <1>c
<1>2. ASSUME NEW B \in SUBSET Bookings, \A b \in B : Expirable(b), Expire(B) PROVE SeatInv'
  <2>1. \A c \in Bookings, s \in Slots :
          assignment'[c][s] = IF c \in B /\ assignment[c][s] = "HELD" THEN "RELEASED"
                              ELSE assignment[c][s]
    BY <1>2 DEF Expire, MoveSeats
  <2>2. \A c \in Bookings : status'[c] = IF c \in B THEN "EXPIRED" ELSE status[c]
    BY <1>2 DEF Expire
  <2>3. \A b \in B : status[b] \in {"HELD", "EXPIRED", "RELEASED"}
    BY <1>2 DEF TypeOK, BookingStatus, Expirable
  <2>4. \A c \in Bookings, s \in Slots : Follows(c, s)'
    BY <1>b, <2>1, <2>2, <2>3
  <2>5. QED
    BY <1>c, <2>1, <2>4
<1>3. ASSUME NEW b \in Bookings, status[b] = "HELD", Confirm(b) PROVE SeatInv'
  <2>1. \A c \in Bookings, s \in Slots :
          assignment'[c][s] = IF c = b /\ assignment[c][s] = "HELD" THEN "CONFIRMED"
                              ELSE assignment[c][s]
    BY <1>3 DEF Confirm, MoveSeats
  <2>2. \A c \in Bookings : status'[c] = IF c = b THEN "CONFIRMED" ELSE status[c]
    BY <1>3 DEF Confirm, TypeOK
  <2>3. \A c \in Bookings, s \in Slots : Follows(c, s)'
    BY <1>3, <1>b, <2>1, <2>2
  <2>4. QED
    BY <1>c, <2>1, <2>3
<1>4. ASSUME NEW b \in Bookings, ReleaseBooking(b) PROVE SeatInv'
  <2>1. \A c \in Bookings, s \in Slots :
          assignment'[c][s] = IF c = b /\ assignment[c][s] = "HELD" THEN "RELEASED"
                              ELSE assignment[c][s]
    BY <1>4 DEF ReleaseBooking, MoveSeats
  <2>2. \A c \in Bookings : status'[c] = IF c = b THEN "RELEASED" ELSE status[c]
    BY <1>4 DEF ReleaseBooking, TypeOK
  <2>3. \A c \in Bookings, s \in Slots : Follows(c, s)'
    BY <1>4, <1>b, <2>1, <2>2 DEF ReleaseBooking
  <2>4. QED
    BY <1>c, <2>1, <2>3
<1>5. ASSUME NEW b \in Bookings, NEW ch \in Channel, NEW S \in SUBSET Slots,
             CreateBooking(b, ch, S)
      PROVE  SeatInv'
  <2> DEFINE L == LapsedOn(Legs(S))
  <2>1. b \notin L /\ L \subseteq Bookings /\ \A c \in L : status[c] = "HELD"
    BY <1>5 DEF CreateBooking, LapsedOn
  <2>2. \A c \in Bookings, s \in Slots :
          assignment'[c][s] =
            IF c = b THEN IF s \in S THEN "HELD" ELSE "NONE"
            ELSE IF c \in L /\ assignment[c][s] = "HELD" THEN "RELEASED"
            ELSE assignment[c][s]
    BY <1>5 DEF CreateBooking, MoveSeats
  <2>3. \A c \in Bookings :
          status'[c] = IF c = b THEN "HELD" ELSE IF c \in L THEN "EXPIRED" ELSE status[c]
    BY <1>5 DEF CreateBooking
  <2>4. \A s \in S, c \in Bookings \ L : ~Owns(c, s)
    BY <1>5 DEF CreateBooking, MayBook, Available
  <2> HIDE DEF L
  <2>5. \A s \in S, c \in L : assignment[c][s] # "CONFIRMED"
    BY <1>b, <2>1
  <2>6. \A c \in Bookings, s \in Slots : c # b /\ Owns(c, s)' => Owns(c, s) /\ s \notin S
    BY <2>2, <2>4, <2>5
  <2>7. \A s \in Slots : Owns(b, s)' => s \in S
    BY <2>2
  <2>8. SeatExclusive'
    <3> SUFFICES ASSUME NEW c \in Bookings, NEW d \in Bookings, NEW s \in Slots,
                        Owns(c, s)', Owns(d, s)'
                 PROVE  c = d
      BY DEF SeatExclusive
    <3> HIDE DEF Owns
    <3>1. QED
      BY <1>a, <2>6, <2>7
  <2>9. \A c \in Bookings, s \in Slots : Follows(c, s)'
    BY <1>b, <2>1, <2>2, <2>3
  <2>10. QED
    BY <2>8, <2>9 DEF SeatInv, SeatsFollowBooking
<1>6. QED
  BY <1>1, <1>2, <1>3, <1>4, <1>5 DEF SeatStep

-----------------------------------------------------------------------------
(* The rest of the invariant speaks of one booking at a time. *)

BookingInv(b) ==
  /\ status[b] = "NONE" => attempts[b] = 0
  /\ HasPayment(b, {"AWAITING_VOUCHER"}) => channel[b] = "ONLINE"
  /\ \A i \in 1 .. attempts[b] : payment[b][i] \in ActivePayment => i = attempts[b]
  /\ HasPayment(b, {"APPROVED"}) => status[b] = "CONFIRMED"
  /\ status[b] = "CONFIRMED" => ~HasPayment(b, {"AWAITING_VOUCHER", "UNDER_REVIEW"})
  /\ status[b] = "HELD" =>
       /\ channel[b] = "MANUAL" <=> expires_at[b] = None
       /\ channel[b] = "ONLINE" /\ attempts[b] > 0 =>
            expires_at[b] = IF LatestStatus(b) = "AWAITING_VOUCHER"
                            THEN proof_deadline[b][attempts[b]]
                            ELSE review_deadline[b][attempts[b]]

\* The columns that BookingInv reads of b.
Row(b) == <<status[b], channel[b], expires_at[b], attempts[b], payment[b],
            proof_deadline[b], review_deadline[b]>>

\* The parts of IInv about payments and deadlines are BookingInv of every booking.
LEMMA BookingInvParts ==
  PaymentInv /\ DeadlineFollowsPayment <=> \A b \in Bookings : BookingInv(b)
BY DEF PaymentInv, OneActivePayment, PaymentsFitBooking, DeadlineFollowsPayment, BookingInv

\* A booking none of whose columns changes keeps its invariant.
LEMMA UntouchedBooking ==
  ASSUME NEW b \in Bookings, BookingInv(b), UNCHANGED Row(b)
  PROVE  BookingInv(b)'
BY DEF BookingInv, Row, HasPayment, LatestStatus

\* A booking that expires, with whatever payments expire with it, keeps its invariant.
LEMMA ExpiredBooking ==
  ASSUME TypeOK, NEW b \in Bookings, BookingInv(b),
         Expirable(b), status'[b] = "EXPIRED",
         UNCHANGED <<channel, attempts>>,
         \A i \in 1 .. attempts[b] : payment'[b][i] \in {payment[b][i], "EXPIRED"}
  PROVE  BookingInv(b)'
BY DEF BookingInv, HasPayment, ActivePayment, Expirable

\* A step that changes at most b's columns preserves the invariant if it does so for b.
LEMMA OneBooking ==
  ASSUME TypeOK, NEW b \in Bookings, \A c \in Bookings : BookingInv(c),
         \A c \in Bookings \ {b} : UNCHANGED Row(c),
         BookingInv(b)'
  PROVE  \A c \in Bookings : BookingInv(c)'
BY UntouchedBooking

\* The payment rows that exist are within bounds.
LEMMA RowsInRange ==
  ASSUME TypeOK, NEW b \in Bookings
  PROVE  /\ attempts[b] \in Nat /\ \A i \in 1 .. attempts[b] : i \in Attempts
         /\ b \in DOMAIN payment /\ DOMAIN payment[b] = Attempts
BY BoundsAssumption DEF TypeOK, Attempts

\* A new payment row is the latest one, and the others stay as they are.
LEMMA AddedPayment ==
  ASSUME TypeOK, NEW b \in Bookings, NEW st \in PaymentStatus, AddPayment(b, st)
  PROVE  /\ attempts'[b] = attempts[b] + 1
         /\ \A i \in 1 .. attempts'[b] :
              payment'[b][i] = IF i = attempts'[b] THEN st ELSE payment[b][i]
<1>1. attempts'[b] = attempts[b] + 1 /\ attempts[b] + 1 \in Attempts
  BY AddPaymentType DEF AddPayment, TypeOK
<1>2. \A i \in Attempts :
        payment'[b][i] = IF i = attempts[b] + 1 THEN st ELSE payment[b][i]
  BY <1>1, RowsInRange DEF AddPayment
<1>3. \A i \in 1 .. attempts'[b] : i \in Attempts
  BY <1>1, RowsInRange DEF Attempts
<1>4. QED
  BY <1>1, <1>2, <1>3

\* The steps of a payment request preserve the invariant of its own booking.
LEMMA PayBooking ==
  ASSUME TypeOK, PaymentInv, NEW b \in Bookings, BookingInv(b),
         NEW t \in Readings, Pay(b, t)
  PROVE  BookingInv(b)' /\ \A c \in Bookings \ {b} : UNCHANGED Row(c)
<1> DEFINE Goal == BookingInv(b)' /\ \A c \in Bookings \ {b} : UNCHANGED Row(c)
<1> USE DEF Row, deadlines
<1>0. /\ t + ProofWindow # None /\ t + ReviewWindow # None
      /\ b \in DOMAIN status /\ b \in DOMAIN expires_at /\ b \in DOMAIN attempts
      /\ attempts[b] \in Nat
  BY ReadingsType, TimesAssumption, NoneAssumption DEF TypeOK
<1>1. CASE RegisterCashPayment(b, t)
  <2>1. \A c \in Bookings \ {b} : UNCHANGED Row(c)
    BY <1>1 DEF RegisterCashPayment, AddPayment, Confirm
  <2>2. attempts'[b] = attempts[b] + 1 /\ status'[b] = "CONFIRMED"
    BY <1>0, <1>1 DEF RegisterCashPayment, AddPayment, Confirm
  <2>3. \A i \in 1 .. attempts[b] : payment[b][i] \notin ActivePayment
    BY <1>1 DEF RegisterCashPayment, CounterSale, HasPayment, BookingInv, ActivePayment
  <2>4. \A i \in 1 .. attempts'[b] :
          payment'[b][i] = IF i = attempts'[b] THEN "APPROVED" ELSE payment[b][i]
    BY <1>1, AddedPayment DEF RegisterCashPayment, PaymentStatus
  <2>5. BookingInv(b)'
    BY <1>0, <1>1, <2>2, <2>3, <2>4 DEF BookingInv, HasPayment, ActivePayment
  <2>6. QED
    BY <2>1, <2>5
<1>2. CASE RegisterTransferPayment(b, t)
  <2>1. \A c \in Bookings \ {b} : UNCHANGED Row(c)
    BY <1>2 DEF RegisterTransferPayment, AddPayment, bookingVars
  <2>2. attempts'[b] = attempts[b] + 1 /\ status'[b] = "HELD" /\ channel'[b] = "MANUAL"
        /\ UNCHANGED expires_at
    BY <1>0, <1>2 DEF RegisterTransferPayment, AddPayment, CounterSale, bookingVars
  <2>3. \A i \in 1 .. attempts[b] : payment[b][i] \notin ActivePayment
    BY <1>2 DEF RegisterTransferPayment, CounterSale, HasPayment, BookingInv, ActivePayment
  <2>4. \A i \in 1 .. attempts'[b] :
          payment'[b][i] = IF i = attempts'[b] THEN "UNDER_REVIEW" ELSE payment[b][i]
    BY <1>2, AddedPayment DEF RegisterTransferPayment, PaymentStatus
  <2>5. BookingInv(b)'
    BY <1>0, <1>2, <2>2, <2>3, <2>4
    DEF RegisterTransferPayment, CounterSale, BookingInv, HasPayment, ActivePayment
  <2>6. QED
    BY <2>1, <2>5
<1>3. CASE InitiateTransfer(b, t)
  <2>1. \A c \in Bookings \ {b} : UNCHANGED Row(c)
    BY <1>3 DEF InitiateTransfer, MayInitiate, AddPayment
  <2>2. /\ attempts'[b] = attempts[b] + 1 /\ status'[b] = "HELD" /\ channel'[b] = "ONLINE"
        /\ attempts'[b] \in Attempts
        /\ expires_at'[b] = t + ProofWindow
        /\ proof_deadline'[b][attempts'[b]] = t + ProofWindow
    BY <1>0, <1>3, AddPaymentType
    DEF InitiateTransfer, MayInitiate, AddPayment, OnlineHold, TypeOK, PaymentStatus
  <2>3. \A i \in 1 .. attempts[b] : payment[b][i] \notin ActivePayment
    BY <1>3 DEF InitiateTransfer, MayInitiate, HasPayment
  <2>4. \A i \in 1 .. attempts'[b] :
          payment'[b][i] = IF i = attempts'[b] THEN "AWAITING_VOUCHER" ELSE payment[b][i]
    BY <1>3, AddedPayment DEF InitiateTransfer, MayInitiate, PaymentStatus
  <2>5. BookingInv(b)'
    BY <1>0, <2>2, <2>3, <2>4 DEF BookingInv, HasPayment, ActivePayment, LatestStatus
  <2>6. QED
    BY <2>1, <2>5
<1>4. CASE InitiateTooLate(b, t)
  <2>1. \A c \in Bookings \ {b} : UNCHANGED Row(c)
    BY <1>4 DEF InitiateTooLate, Expire, ExpirePayments
  <2>2. \A i \in 1 .. attempts[b] : payment'[b][i] \in {payment[b][i], "EXPIRED"}
    BY <1>4, RowsInRange DEF InitiateTooLate, ExpirePayments
  <2>3. QED
    BY <1>4, <2>1, <2>2, ExpiredBooking DEF InitiateTooLate, Expire, OnlineHold, Expirable
<1>5. ASSUME NEW i \in Attempts, UploadVoucher(b, i, t) PROVE Goal
  <2>1. \A c \in Bookings \ {b} : UNCHANGED Row(c)
    BY <1>5 DEF UploadVoucher, MayUpload
  <2>2. i = attempts[b] /\ payment[b][i] = "AWAITING_VOUCHER" /\ i \in 1 .. attempts[b]
    BY <1>0, <1>5 DEF UploadVoucher, MayUpload, Awaiting, BookingInv, ActivePayment, Attempts
  <2>3. /\ UNCHANGED <<status, channel, attempts>> /\ status[b] = "HELD" /\ channel[b] = "ONLINE"
        /\ expires_at'[b] = t + ReviewWindow /\ review_deadline'[b][i] = t + ReviewWindow
    BY <1>0, <1>5 DEF UploadVoucher, MayUpload, OnlineHold, TypeOK
  <2>4. \A j \in 1 .. attempts[b] :
          payment'[b][j] = IF j = i THEN "UNDER_REVIEW" ELSE payment[b][j]
    BY <1>5, RowsInRange DEF UploadVoucher, MayUpload
  <2>5. BookingInv(b)'
    BY <1>0, <2>2, <2>3, <2>4 DEF BookingInv, HasPayment, ActivePayment, LatestStatus
  <2>6. QED
    BY <2>1, <2>5
<1>6. ASSUME NEW i \in Attempts, UploadTooLate(b, i, t) PROVE Goal
  <2>1. \A c \in Bookings \ {b} : UNCHANGED Row(c)
    BY <1>6 DEF UploadTooLate, Expire
  <2>2. \A j \in 1 .. attempts[b] : payment'[b][j] \in {payment[b][j], "EXPIRED"}
    BY <1>6, RowsInRange DEF UploadTooLate
  <2>3. QED
    BY <1>6, <2>1, <2>2, ExpiredBooking DEF UploadTooLate, Expire, OnlineHold, Expirable
<1>7. ASSUME NEW i \in Attempts, ApproveTransfer(b, i, t) PROVE Goal
  <2>1. \A c \in Bookings \ {b} : UNCHANGED Row(c)
    BY <1>7 DEF ApproveTransfer, Confirm
  <2>2. i = attempts[b] /\ i \in 1 .. attempts[b]
    BY <1>0, <1>7
    DEF ApproveTransfer, MayApprove, UnderReview, BookingInv, ActivePayment, Attempts
  <2>3. UNCHANGED attempts /\ status'[b] = "CONFIRMED"
    BY <1>0, <1>7 DEF ApproveTransfer, Confirm
  <2>4. \A j \in 1 .. attempts[b] :
          payment'[b][j] = IF j = i THEN "APPROVED" ELSE payment[b][j]
    BY <1>7, RowsInRange DEF ApproveTransfer
  <2>5. BookingInv(b)'
    BY <1>0, <2>2, <2>3, <2>4 DEF BookingInv, HasPayment, ActivePayment
  <2>6. QED
    BY <2>1, <2>5
<1>8. ASSUME NEW i \in Attempts, ApproveTooLate(b, i, t) PROVE Goal
  <2>1. \A c \in Bookings \ {b} : UNCHANGED Row(c)
    BY <1>8 DEF ApproveTooLate, Expire, paymentVars
  <2>2. Expirable(b)
    BY <1>8, ReviewedIsExpirable DEF ApproveTooLate, MayApprove
  <2>3. QED
    BY <1>8, <2>1, <2>2, ExpiredBooking DEF ApproveTooLate, Expire, paymentVars
<1>9. ASSUME NEW i \in Attempts, RejectTransfer(b, i) PROVE Goal
  <2>1. \A c \in Bookings \ {b} : UNCHANGED Row(c)
    BY <1>9 DEF RejectTransfer, bookingVars
  <2>2. i = attempts[b] /\ payment[b][i] = "UNDER_REVIEW" /\ i \in 1 .. attempts[b]
    BY <1>0, <1>9 DEF RejectTransfer, UnderReview, BookingInv, ActivePayment, Attempts
  <2>3. UNCHANGED <<status, channel, expires_at, attempts, proof_deadline, review_deadline>>
    BY <1>9 DEF RejectTransfer, bookingVars
  <2>4. \A j \in 1 .. attempts[b] :
          payment'[b][j] = IF j = i THEN "REJECTED" ELSE payment[b][j]
    BY <1>9, RowsInRange DEF RejectTransfer
  <2>5. BookingInv(b)'
    BY <1>0, <2>2, <2>3, <2>4 DEF BookingInv, HasPayment, ActivePayment, LatestStatus
  <2>6. QED
    BY <2>1, <2>5
<1>10. QED
  BY <1>1, <1>2, <1>3, <1>4, <1>5, <1>6, <1>7, <1>8, <1>9 DEF Pay

\* A new booking starts with no payment and its deadline, and expires lapsed ones on its way.
LEMMA CreateBookings ==
  ASSUME TypeOK, \A c \in Bookings : BookingInv(c),
         NEW b \in Bookings, NEW ch \in Channel, NEW S \in SUBSET Slots, CreateBooking(b, ch, S)
  PROVE  \A c \in Bookings : BookingInv(c)'
<1> DEFINE L == LapsedOn(Legs(S))
<1> USE DEF Row, paymentVars, deadlines
<1>1. status[b] = "NONE" /\ \A c \in L : status[c] = "HELD"
  BY DEF CreateBooking, LapsedOn
<1>2. \A c \in Bookings :
        status'[c] = IF c = b THEN "HELD" ELSE IF c \in L THEN "EXPIRED" ELSE status[c]
  BY DEF CreateBooking
<1>3. now + HoldTime # None
  BY TimesAssumption, NoneAssumption DEF TypeOK
<1>4. \A c \in Bookings : c # b => channel'[c] = channel[c] /\ expires_at'[c] = expires_at[c]
  BY DEF CreateBooking
<1>5. channel'[b] = ch /\ expires_at'[b] = IF ch = "ONLINE" THEN now + HoldTime ELSE None
  BY DEF CreateBooking, TypeOK
<1>6. UNCHANGED paymentVars
  BY DEF CreateBooking
<1> HIDE DEF L
<1>7. BookingInv(b)'
  BY <1>1, <1>2, <1>3, <1>5, <1>6 DEF BookingInv, HasPayment, Channel
<1>8. ASSUME NEW c \in Bookings \ {b}, c \in L PROVE BookingInv(c)'
  <2>1. status[c] = "HELD" /\ status'[c] = "EXPIRED" /\ channel'[c] = channel[c]
    BY <1>1, <1>2, <1>4, <1>8
  <2>2. QED
    BY <1>6, <2>1 DEF BookingInv, HasPayment
<1>9. ASSUME NEW c \in Bookings \ {b}, c \notin L PROVE BookingInv(c)'
  BY <1>2, <1>4, <1>6, <1>9, UntouchedBooking
<1>10. QED
  BY <1>7, <1>8, <1>9

\* A step of the worker expires a booking with its open payments, or changes none.
LEMMA SweepBookings ==
  ASSUME TypeOK, \A c \in Bookings : BookingInv(c), Sweep
  PROVE  \A c \in Bookings : BookingInv(c)'
<1> USE DEF Row, deadlines
<1>1. CASE NextTask \/ NextRun
  BY <1>1, UntouchedBooking DEF NextTask, NextRun, bookingVars, paymentVars
<1>2. ASSUME NEW b \in Bookings, SweepExpire(b) PROVE \A c \in Bookings : BookingInv(c)'
  <2>1. CASE status[b] = "HELD" /\ Lapsed(b, now)
    <3>1. BookingInv(b)'
      BY <1>2, <2>1, ExpiredBooking DEF SweepExpire, Expire, Expirable, paymentVars
    <3>2. \A c \in Bookings \ {b} : UNCHANGED Row(c)
      BY <1>2, <2>1 DEF SweepExpire, Expire, paymentVars
    <3>3. QED
      BY <3>1, <3>2, OneBooking
  <2>2. CASE ~(status[b] = "HELD" /\ Lapsed(b, now))
    BY <1>2, <2>2, UntouchedBooking DEF SweepExpire, paymentVars
  <2>3. QED
    BY <2>1, <2>2
<1>3. ASSUME NEW b \in Bookings, SweepPayment(b) PROVE \A c \in Bookings : BookingInv(c)'
  <2> DEFINE Due == status[b] = "HELD" /\ Lapsed(b, now) /\ LatestStatus(b) # "REJECTED"
  <2>1. CASE Due
    <3>1. \A i \in 1 .. attempts[b] : payment'[b][i] \in {payment[b][i], "EXPIRED"}
      BY <1>3, <2>1, RowsInRange DEF SweepPayment, ExpirePayments
    <3>2. BookingInv(b)'
      BY <1>3, <2>1, <3>1, ExpiredBooking DEF SweepPayment, Expire, Expirable
    <3>3. \A c \in Bookings \ {b} : UNCHANGED Row(c)
      BY <1>3, <2>1, RowsInRange DEF SweepPayment, Expire, ExpirePayments
    <3>4. QED
      BY <3>2, <3>3, OneBooking
  <2>2. CASE ~Due
    BY <1>3, <2>2, UntouchedBooking DEF SweepPayment
  <2>3. QED
    BY <2>1, <2>2
<1>4. QED
  BY <1>1, <1>2, <1>3 DEF Sweep

\* Every step preserves BookingInv of every booking.
LEMMA NextBookings ==
  ASSUME TypeOK, PaymentInv, \A c \in Bookings : BookingInv(c), [AllServices]_vars
  PROVE  \A c \in Bookings : BookingInv(c)'
<1> USE DEF Row, paymentVars, deadlines
<1>1. ASSUME NEW b \in Bookings, ReleaseBooking(b) PROVE \A c \in Bookings : BookingInv(c)'
  <2>1. status'[b] = "RELEASED" /\ status[b] = "HELD"
    BY <1>1 DEF ReleaseBooking, TypeOK
  <2>2. BookingInv(b)'
    BY <1>1, <2>1 DEF ReleaseBooking, BookingInv, HasPayment
  <2>3. \A c \in Bookings \ {b} : UNCHANGED Row(c)
    BY <1>1 DEF ReleaseBooking
  <2>4. QED
    BY <2>2, <2>3, OneBooking
<1>2. ASSUME NEW b \in Bookings, NEW t \in Readings, Pay(b, t)
      PROVE  \A c \in Bookings : BookingInv(c)'
  BY <1>2, PayBooking, OneBooking
<1>3. ASSUME NEW t \in Trips, TransitionTrip(t) PROVE \A c \in Bookings : BookingInv(c)'
  BY <1>3, UntouchedBooking DEF TransitionTrip, bookingVars
<1>4. CASE Tick
  BY <1>4, UntouchedBooking DEF Tick, bookingVars
<1>5. CASE UNCHANGED vars
  BY <1>5, UntouchedBooking DEF vars, bookingVars
<1>6. ASSUME NEW b \in Bookings, attempts[b] = 0, ConfirmBooking(b)
      PROVE  \A c \in Bookings : BookingInv(c)'
  <2>1. CASE Lapsed(b, now)
    <3>1. BookingInv(b)'
      BY <1>6, <2>1, ExpiredBooking DEF ConfirmBooking, Expire, Expirable
    <3>2. \A c \in Bookings \ {b} : UNCHANGED Row(c)
      BY <1>6, <2>1 DEF ConfirmBooking, Expire
    <3>3. QED
      BY <3>1, <3>2, OneBooking
  <2>2. CASE ~Lapsed(b, now)
    <3>1. /\ status'[b] = "CONFIRMED" /\ attempts'[b] = 0
          /\ \A c \in Bookings \ {b} : UNCHANGED Row(c)
      BY <1>6, <2>2 DEF ConfirmBooking, Confirm, TypeOK
    <3>2. BookingInv(b)'
      BY <3>1 DEF BookingInv, HasPayment
    <3>3. QED
      BY <3>1, <3>2, OneBooking
  <2>3. QED
    BY <2>1, <2>2
<1>7. ASSUME NEW b \in Bookings, ExpireBooking(b) PROVE \A c \in Bookings : BookingInv(c)'
  <2>1. BookingInv(b)'
    BY <1>7, ExpiredBooking DEF ExpireBooking, Expire, Expirable
  <2>2. \A c \in Bookings \ {b} : UNCHANGED Row(c)
    BY <1>7 DEF ExpireBooking, Expire
  <2>3. QED
    BY <2>1, <2>2, OneBooking
<1>8. ASSUME NEW t \in Trips, ReadAvailability(t) PROVE \A c \in Bookings : BookingInv(c)'
  <2>1. ASSUME NEW c \in Bookings, c \in LapsedOn({t}) PROVE BookingInv(c)'
    BY <1>8, <2>1, ExpiredBooking DEF ReadAvailability, Expire, Expirable, LapsedOn
  <2>2. ASSUME NEW c \in Bookings, c \notin LapsedOn({t}) PROVE BookingInv(c)'
    BY <1>8, <2>2, UntouchedBooking DEF ReadAvailability, Expire
  <2>3. QED
    BY <2>1, <2>2
<1>9. QED
  BY <1>1, <1>2, <1>3, <1>4, <1>5, <1>6, <1>7, <1>8, CreateBookings, SweepBookings
  DEF AllServices, Next, Sale

-----------------------------------------------------------------------------
(* The theorems. *)

\* Every step preserves the type invariant.
LEMMA NextType ==
  ASSUME TypeOK, [AllServices]_vars
  PROVE  TypeOK'
<1>1. ASSUME NEW b \in Bookings, Sale(b) PROVE TypeOK'
  <2>1. CASE ReleaseBooking(b)
    BY <2>1, MoveSeatsType
    DEF TypeOK, ReleaseBooking, BookingStatus, AssignmentStatus, paymentVars, deadlines
  <2>2. QED
    BY <1>1, <2>1, CreateType DEF Sale
<1>2. ASSUME NEW b \in Bookings, NEW t \in Readings, Pay(b, t) PROVE TypeOK'
  BY <1>2, PayType
<1>3. CASE Sweep
  BY <1>3, SweepType
<1>4. ASSUME NEW t \in Trips, TransitionTrip(t) PROVE TypeOK'
  BY <1>4 DEF TypeOK, TransitionTrip, TripStatus, bookingVars, paymentVars, deadlines
<1>5. CASE Tick
  BY <1>5 DEF TypeOK, Tick, bookingVars, paymentVars, deadlines
<1>6. CASE UNCHANGED vars
  BY <1>6 DEF TypeOK, vars, bookingVars, paymentVars, deadlines
<1>7. ASSUME NEW b \in Bookings, ConfirmBooking(b) \/ ExpireBooking(b) PROVE TypeOK'
  BY <1>7, ExpireType, ConfirmType
  DEF TypeOK, ConfirmBooking, ExpireBooking, paymentVars, deadlines
<1>8. ASSUME NEW t \in Trips, ReadAvailability(t) PROVE TypeOK'
  BY <1>8, ExpireType DEF TypeOK, ReadAvailability, paymentVars, deadlines
<1>9. QED
  BY <1>1, <1>2, <1>3, <1>4, <1>5, <1>6, <1>7, <1>8 DEF AllServices, Next

\* IInv holds at the start.
LEMMA InitInv == Init => IInv
<1> SUFFICES ASSUME Init PROVE IInv
  OBVIOUS
<1>1. TypeOK
  BY BoundsAssumption
  DEF Init, TypeOK, TripStatus, BookingStatus, Channel, AssignmentStatus, Deadline,
      PaymentStatus, Attempts, Tasks
<1>2. SeatInv
  BY DEF Init, SeatInv, SeatExclusive, SeatsFollowBooking, Owns
<1>3. \A b \in Bookings : BookingInv(b)
  BY DEF Init, BookingInv, HasPayment
<1>4. QED
  BY <1>1, <1>2, <1>3, BookingInvParts DEF IInv

\* Every step preserves IInv.
LEMMA NextInv ==
  ASSUME IInv, [AllServices]_vars
  PROVE  IInv'
<1>1. TypeOK'
  BY NextType DEF IInv
<1>2. SeatInv'
  BY NextSeatStep, SeatStepKeepsSeats DEF IInv
<1>3. \A b \in Bookings : BookingInv(b)'
  BY NextBookings, BookingInvParts DEF IInv
<1>4. (PaymentInv /\ DeadlineFollowsPayment)'
  BY <1>3
  DEF PaymentInv, OneActivePayment, PaymentsFitBooking, DeadlineFollowsPayment, BookingInv
<1>5. QED
  BY <1>1, <1>2, <1>4 DEF IInv

\* What is asked of all payments of a booking, the latest tells, for only that may be open.
LEMMA LatestTells ==
  ASSUME TypeOK, NEW b \in Bookings, BookingInv(b), NEW S \in SUBSET ActivePayment
  PROVE  HasPayment(b, S) <=> LatestStatus(b) \in S
<1>1. attempts[b] \in Nat /\ "NONE" \notin S
  BY DEF TypeOK, ActivePayment
<1>2. HasPayment(b, S) => LatestStatus(b) \in S
  BY <1>1 DEF HasPayment, LatestStatus, BookingInv
<1>3. LatestStatus(b) \in S => HasPayment(b, S)
  <2> SUFFICES ASSUME LatestStatus(b) \in S PROVE HasPayment(b, S)
    OBVIOUS
  <2>1. attempts[b] # 0 /\ payment[b][attempts[b]] \in S
    BY <1>1 DEF LatestStatus
  <2>2. attempts[b] \in 1 .. attempts[b]
    BY <1>1, <2>1
  <2>3. QED
    BY <2>1, <2>2 DEF HasPayment
<1>4. QED
  BY <1>2, <1>3

\* IInv holds at the start and every step preserves it, so it holds for ever.
THEOREM Invariance == ServicesSpec => []IInv
<1>1. IInv /\ [AllServices]_vars => IInv'
  BY NextInv
<1>2. QED
  BY <1>1, InitInv, PTL DEF ServicesSpec

\* Every row stays in the domain of its column, whatever services run.
THEOREM TypeCorrect == ServicesSpec => []TypeOK
BY Invariance, PTL DEF IInv

\* No seat is ever sold or held twice.
THEOREM SeatsNeverShared == ServicesSpec => []SeatExclusive
BY Invariance, PTL DEF IInv, SeatInv

\* A booking and its seats agree: dead bookings keep none, confirmed ones lose none.
THEOREM SeatsInStep == ServicesSpec => []SeatsFollowBooking
BY Invariance, PTL DEF IInv, SeatInv

\* Only the latest attempt to pay is ever open.
THEOREM OneOpenAttempt == ServicesSpec => []OneActivePayment
BY Invariance, PTL DEF IInv, PaymentInv

\* The deadline of a hold is always the one of its latest attempt.
THEOREM DeadlinesAgree == ServicesSpec => []DeadlineFollowsPayment
BY Invariance, PTL DEF IInv

\* The worker's two lists miss no lapsed hold but the rejected and, for a NULL, the unpaid ones.
THEOREM LapsedHoldsAreSeen == ServicesSpec => []WorkerSeesLapsed
<1>1. IInv => WorkerSeesLapsed
  <2> SUFFICES ASSUME IInv, NEW b \in Bookings, status[b] = "HELD", Lapsed(b, now)
               PROVE  b \in Candidates("expire") \cup Candidates("payments") <=>
                        LatestStatus(b) # "REJECTED" /\ (attempts[b] > 0 \/ ExcludeKeepsNull)
    BY DEF WorkerSeesLapsed
  <2>1. TypeOK /\ BookingInv(b)
    BY BookingInvParts DEF IInv
  <2>2. HasPayment(b, {"AWAITING_VOUCHER", "UNDER_REVIEW"}) <=>
          LatestStatus(b) \in {"AWAITING_VOUCHER", "UNDER_REVIEW"}
    BY <2>1, LatestTells DEF ActivePayment
  <2>3. b \in Candidates("payments") <=> LatestStatus(b) \in {"AWAITING_VOUCHER", "UNDER_REVIEW"}
    BY <2>2 DEF Candidates
  <2>4. b \in Candidates("expire") <=>
          /\ LatestStatus(b) \notin {"AWAITING_VOUCHER", "UNDER_REVIEW", "REJECTED"}
          /\ attempts[b] > 0 \/ ExcludeKeepsNull
    BY DEF Candidates
  <2>5. attempts[b] \in Nat /\ (attempts[b] = 0 => LatestStatus(b) = "NONE")
    BY <2>1 DEF TypeOK, LatestStatus
  <2>6. QED
    BY <2>3, <2>4, <2>5
<1>2. QED
  BY Invariance, <1>1, PTL

\* A step never takes back a confirmed booking nor any of its seats, and never revives one
\* that expired or was released: of the five kinds of SeatStep, none applies to the first
\* and none takes the second back.
THEOREM OutcomesStand == ServicesSpec => OutcomeStands
<1>1. IInv /\ [AllServices]_vars =>
        [\A b \in Bookings : status[b] = "CONFIRMED" =>
           status'[b] = "CONFIRMED" /\ assignment'[b] = assignment[b]]_vars
  <2> SUFFICES ASSUME IInv, [AllServices]_vars, NEW b \in Bookings, status[b] = "CONFIRMED"
               PROVE  status'[b] = "CONFIRMED" /\ assignment'[b] = assignment[b]
    OBVIOUS
  <2>1. SeatStep
    BY NextSeatStep DEF IInv
  <2>2. ASSUME NEW B \in SUBSET Bookings, \A c \in B : Expirable(c), Expire(B)
        PROVE  status'[b] = "CONFIRMED" /\ assignment'[b] = assignment[b]
    BY <2>2 DEF Expirable, Expire, MoveSeats
  <2>3. ASSUME NEW c \in Bookings, status[c] = "HELD", Confirm(c)
        PROVE  status'[b] = "CONFIRMED" /\ assignment'[b] = assignment[b]
    BY <2>3 DEF Confirm, MoveSeats, IInv, TypeOK
  <2>4. ASSUME NEW c \in Bookings, ReleaseBooking(c)
        PROVE  status'[b] = "CONFIRMED" /\ assignment'[b] = assignment[b]
    BY <2>4 DEF ReleaseBooking, MoveSeats, IInv, TypeOK
  <2>5. ASSUME NEW c \in Bookings, NEW ch \in Channel, NEW S \in SUBSET Slots,
               CreateBooking(c, ch, S)
        PROVE  status'[b] = "CONFIRMED" /\ assignment'[b] = assignment[b]
    BY <2>5 DEF CreateBooking, LapsedOn, MoveSeats, IInv, TypeOK
  <2>6. QED
    BY <2>1, <2>2, <2>3, <2>4, <2>5 DEF SeatStep
<1>2. IInv /\ [AllServices]_vars =>
        [\A b \in Bookings : status[b] \in {"EXPIRED", "RELEASED"} =>
           status'[b] \in {"EXPIRED", "RELEASED"}]_vars
  <2> SUFFICES ASSUME IInv, [AllServices]_vars,
                      NEW b \in Bookings, status[b] \in {"EXPIRED", "RELEASED"}
               PROVE  status'[b] \in {"EXPIRED", "RELEASED"}
    OBVIOUS
  <2>1. SeatStep
    BY NextSeatStep DEF IInv
  <2>2. ASSUME NEW B \in SUBSET Bookings, \A c \in B : Expirable(c), Expire(B)
        PROVE  status'[b] \in {"EXPIRED", "RELEASED"}
    BY <2>2 DEF Expire
  <2>3. ASSUME NEW c \in Bookings, status[c] = "HELD", Confirm(c)
        PROVE  status'[b] \in {"EXPIRED", "RELEASED"}
    BY <2>3 DEF Confirm, IInv, TypeOK
  <2>4. ASSUME NEW c \in Bookings, ReleaseBooking(c)
        PROVE  status'[b] \in {"EXPIRED", "RELEASED"}
    BY <2>4 DEF ReleaseBooking, IInv, TypeOK
  <2>5. ASSUME NEW c \in Bookings, NEW ch \in Channel, NEW S \in SUBSET Slots,
               CreateBooking(c, ch, S)
        PROVE  status'[b] \in {"EXPIRED", "RELEASED"}
    BY <2>5 DEF CreateBooking
  <2>6. QED
    BY <2>1, <2>2, <2>3, <2>4, <2>5 DEF SeatStep
<1>3. IInv /\ [AllServices]_vars =>
        [\A b \in Bookings :
           /\ status[b] = "CONFIRMED" =>
                status'[b] = "CONFIRMED" /\ assignment'[b] = assignment[b]
           /\ status[b] \in {"EXPIRED", "RELEASED"} => status'[b] \in {"EXPIRED", "RELEASED"}]_vars
  BY <1>1, <1>2
<1>4. QED
  BY <1>3, Invariance, PTL DEF ServicesSpec, OutcomeStands

\* The proof window of an open attempt is the deadline of its booking, so what is over by
\* an old reading of the clock is over by the server's.
LEMMA ProofOverIsLapsed ==
  ASSUME IInv, NEW b \in Bookings, OnlineHold(b), NEW i \in Attempts, Awaiting(b, i),
         NEW t \in Readings, ProofOver(b, i, t)
  PROVE  expires_at[b] # None /\ expires_at[b] <= now
<1>1. BookingInv(b) /\ TypeOK /\ attempts[b] \in Nat
  BY BookingInvParts, RowsInRange DEF IInv
<1>2. i = attempts[b] /\ attempts[b] > 0
  BY <1>1 DEF BookingInv, Awaiting, ActivePayment, Attempts
<1>3. expires_at[b] = proof_deadline[b][i] /\ expires_at[b] # None
  BY <1>1, <1>2 DEF BookingInv, OnlineHold, Awaiting, LatestStatus
<1>4. expires_at[b] \in Int /\ t \in Int /\ t <= now /\ now \in Int
  BY <1>1, <1>3, ReadingsType DEF TypeOK, Deadline
<1>5. QED
  BY <1>3, <1>4 DEF ProofOver

\* A deadline that had passed by an old reading of the clock has passed.
LEMMA LapsedStaysLapsed ==
  ASSUME TypeOK, NEW b \in Bookings, NEW t \in Readings, Lapsed(b, t)
  PROVE  expires_at[b] # None /\ expires_at[b] <= now
<1>1. expires_at[b] \in Int /\ t \in Int /\ t <= now /\ now \in Int
  BY ReadingsType DEF Lapsed, TypeOK, Deadline
<1>2. QED
  BY <1>1 DEF Lapsed

\* No hold ever expires before its own deadline has passed by the server's clock.
THEOREM HoldsLastUntilDeadline == ServicesSpec => NoEarlyExpiry
<1> DEFINE Due(b) == expires_at[b] # None /\ expires_at[b] <= now
<1>1. ASSUME IInv, AllServices, NEW b \in Bookings, status[b] = "HELD", status'[b] = "EXPIRED"
      PROVE  Due(b)
  <2>1. ASSUME NEW c \in Bookings, Sale(c) PROVE Due(b)
    <3>1. ASSUME NEW ch \in Channel, NEW S \in SUBSET Slots, CreateBooking(c, ch, S)
          PROVE  b \in LapsedOn(Legs(S))
      BY <1>1, <3>1 DEF CreateBooking
    <3>2. CASE ReleaseBooking(c)
      BY <1>1, <3>2 DEF ReleaseBooking, IInv, TypeOK
    <3>3. QED
      BY <2>1, <3>1, <3>2 DEF Sale, LapsedOn, Lapsed
  <2>2. ASSUME NEW c \in Bookings, NEW t \in Readings, Pay(c, t) PROVE Due(b)
    <3>1. CASE RegisterCashPayment(c, t)
      BY <1>1, <3>1 DEF RegisterCashPayment, Confirm, IInv, TypeOK
    <3>2. CASE RegisterTransferPayment(c, t) \/ InitiateTransfer(c, t)
      BY <1>1, <3>2 DEF RegisterTransferPayment, InitiateTransfer, MayInitiate, bookingVars
    <3>3. CASE InitiateTooLate(c, t)
      BY <1>1, <3>3, LapsedStaysLapsed, ProofOverIsLapsed DEF InitiateTooLate, Expire, IInv
    <3>4. ASSUME NEW i \in Attempts, UploadVoucher(c, i, t) \/ RejectTransfer(c, i)
          PROVE  Due(b)
      BY <1>1, <3>4 DEF UploadVoucher, MayUpload, RejectTransfer, bookingVars
    <3>5. ASSUME NEW i \in Attempts, UploadTooLate(c, i, t) PROVE Due(b)
      BY <1>1, <3>5, LapsedStaysLapsed, ProofOverIsLapsed DEF UploadTooLate, Expire, IInv
    <3>6. ASSUME NEW i \in Attempts, ApproveTransfer(c, i, t) PROVE Due(b)
      BY <1>1, <3>6 DEF ApproveTransfer, Confirm, IInv, TypeOK
    <3>7. ASSUME NEW i \in Attempts, ApproveTooLate(c, i, t) PROVE Due(b)
      BY <1>1, <3>7, LapsedStaysLapsed DEF ApproveTooLate, Expire, IInv
    <3>8. QED
      BY <2>2, <3>1, <3>2, <3>3, <3>4, <3>5, <3>6, <3>7 DEF Pay
  <2>3. CASE Sweep
    BY <1>1, <2>3
    DEF Sweep, NextTask, NextRun, SweepExpire, SweepPayment, Expire, Lapsed, bookingVars
  <2>4. ASSUME NEW t \in Trips, TransitionTrip(t) PROVE Due(b)
    BY <1>1, <2>4 DEF TransitionTrip, bookingVars
  <2>5. CASE Tick
    BY <1>1, <2>5 DEF Tick, bookingVars
  <2>6. ASSUME NEW c \in Bookings, ConfirmBooking(c) \/ ExpireBooking(c) PROVE Due(b)
    BY <1>1, <2>6 DEF ConfirmBooking, ExpireBooking, Expire, Confirm, Lapsed, IInv, TypeOK
  <2>7. ASSUME NEW t \in Trips, ReadAvailability(t) PROVE Due(b)
    BY <1>1, <2>7 DEF ReadAvailability, Expire, LapsedOn, Lapsed
  <2>8. QED
    BY <1>1, <2>1, <2>2, <2>3, <2>4, <2>5, <2>6, <2>7 DEF AllServices, Next
<1>2. IInv /\ [AllServices]_vars =>
        [\A b \in Bookings : status[b] = "HELD" /\ status'[b] = "EXPIRED" =>
           expires_at[b] # None /\ expires_at[b] <= now]_vars
  BY <1>1
<1>3. QED
  BY <1>2, Invariance, PTL DEF ServicesSpec, NoEarlyExpiry

-----------------------------------------------------------------------------
(* The worker and the rejected transfers. *)

\* A transfer reviewed while its booking is on the worker's `expire' list was presented
\* after the list was made, so its deadline lies beyond the end of the run.
Fresh(b) ==
  /\ sweep.task = "expire" /\ b \in sweep.todo
  /\ LatestStatus(b) \in {"UNDER_REVIEW", "REJECTED"}
  => expires_at[b] = None \/ expires_at[b] > sweep.since + MaxBatch

SweepInv == IInv /\ sweep.since <= now /\ \A b \in Bookings : Fresh(b)

\* A booking stays fresh when its deadline does and no review of it begins.
LEMMA FreshKept ==
  ASSUME NEW b \in Bookings, Fresh(b), expires_at'[b] = expires_at[b],
         sweep'.task = "expire" /\ b \in sweep'.todo =>
           sweep.task = "expire" /\ b \in sweep.todo /\ sweep'.since = sweep.since,
         LatestStatus(b)' \in {"UNDER_REVIEW", "REJECTED"} =>
           LatestStatus(b) \in {"UNDER_REVIEW", "REJECTED"}
  PROVE  Fresh(b)'
BY DEF Fresh

\* A request to pay that begins a review gives it a deadline the run cannot reach.
LEMMA PayFresh ==
  ASSUME SweepInv, NEW b \in Bookings, NEW t \in Readings, Pay(b, t)
  PROVE  Fresh(b)'
<1> DEFINE Reviewed == {"UNDER_REVIEW", "REJECTED"}
<1>0. /\ TypeOK /\ BookingInv(b) /\ Fresh(b) /\ sweep.since <= now /\ attempts[b] \in Nat
  BY BookingInvParts, RowsInRange DEF SweepInv, IInv
<1>1. CASE RegisterCashPayment(b, t) \/ RegisterTransferPayment(b, t)
  <2>1. expires_at'[b] = expires_at[b] /\ channel[b] = "MANUAL" /\ status[b] = "HELD"
    BY <1>1 DEF RegisterCashPayment, RegisterTransferPayment, CounterSale, bookingVars
  <2>2. expires_at'[b] = None
    BY <1>0, <2>1 DEF BookingInv
  <2>3. QED
    BY <2>2 DEF Fresh
<1>2. CASE InitiateTransfer(b, t)
  <2>1. /\ attempts'[b] = attempts[b] + 1
        /\ payment'[b][attempts'[b]] = "AWAITING_VOUCHER"
    BY <1>0, <1>2, AddedPayment DEF InitiateTransfer, PaymentStatus
  <2>2. LatestStatus(b)' = "AWAITING_VOUCHER"
    BY <1>0, <2>1 DEF LatestStatus
  <2>3. QED
    BY <2>2 DEF Fresh
<1>3. CASE InitiateTooLate(b, t)
  <2>1. UNCHANGED <<expires_at, attempts, sweep>>
    BY <1>3 DEF InitiateTooLate
  <2>2. LatestStatus(b)' \in Reviewed => LatestStatus(b) \in Reviewed
    BY <1>0, <1>3, <2>1, RowsInRange DEF InitiateTooLate, ExpirePayments, LatestStatus
  <2>3. QED
    BY <1>0, <2>1, <2>2, FreshKept
<1>4. ASSUME NEW i \in Attempts, UploadVoucher(b, i, t) PROVE Fresh(b)'
  <2>1. expires_at'[b] = t + ReviewWindow /\ sweep' = sweep
    BY <1>0, <1>4 DEF UploadVoucher, TypeOK
  <2>2. t \in Int /\ now <= t + MaxWait
    BY <1>0, ReadingsType DEF Readings
  <2>3. t + ReviewWindow > sweep.since + MaxBatch
    BY <1>0, <2>2, BatchAssumption, TimesAssumption DEF TypeOK
  <2>4. QED
    BY <2>1, <2>3 DEF Fresh
<1>5. ASSUME NEW i \in Attempts,
             UploadTooLate(b, i, t) \/ ApproveTransfer(b, i, t) \/ RejectTransfer(b, i)
      PROVE  Fresh(b)'
  <2>1. UNCHANGED <<expires_at, attempts, sweep>>
    BY <1>5 DEF UploadTooLate, ApproveTransfer, RejectTransfer, bookingVars
  <2>2. \A j \in Attempts : payment'[b][j] \in Reviewed => payment[b][j] \in Reviewed
    BY <1>0, <1>5
    DEF UploadTooLate, ApproveTransfer, RejectTransfer, MayApprove, UnderReview, TypeOK
  <2>3. LatestStatus(b)' \in Reviewed => LatestStatus(b) \in Reviewed
    BY <1>0, <2>1, <2>2, RowsInRange DEF LatestStatus
  <2>4. QED
    BY <1>0, <2>1, <2>3, FreshKept
<1>6. ASSUME NEW i \in Attempts, ApproveTooLate(b, i, t) PROVE Fresh(b)'
  <2>1. UNCHANGED <<expires_at, attempts, payment, sweep>>
    BY <1>6 DEF ApproveTooLate, paymentVars
  <2>2. LatestStatus(b)' = LatestStatus(b)
    BY <2>1 DEF LatestStatus
  <2>3. QED
    BY <1>0, <2>1, <2>2, FreshKept
<1>7. QED
  BY <1>1, <1>2, <1>3, <1>4, <1>5, <1>6 DEF Pay

\* The worker itself selects no reviewed transfer, keeps deadlines and only expires payments.
LEMMA SweepKeepsFresh ==
  ASSUME SweepInv, Sweep, NEW b \in Bookings
  PROVE  Fresh(b)'
<1> DEFINE Reviewed == {"UNDER_REVIEW", "REJECTED"}
<1>0. TypeOK /\ Fresh(b) /\ attempts[b] \in Nat
  BY RowsInRange DEF SweepInv, IInv
<1>1. CASE NextTask
  BY <1>1 DEF NextTask, Fresh
<1>2. CASE NextRun
  <2>1. sweep'.todo = Candidates("expire") /\ UNCHANGED <<attempts, payment>>
    BY <1>2 DEF NextRun, paymentVars
  <2>2. b \in sweep'.todo => LatestStatus(b) \notin Reviewed
    BY <2>1 DEF Candidates
  <2>3. LatestStatus(b)' = LatestStatus(b)
    BY <2>1 DEF LatestStatus
  <2>4. QED
    BY <2>2, <2>3 DEF Fresh
<1>3. ASSUME NEW c \in Bookings, SweepExpire(c) PROVE Fresh(b)'
  <2>1. UNCHANGED <<expires_at, attempts, payment>>
    BY <1>3 DEF SweepExpire, paymentVars
  <2>2. /\ sweep.task = "expire" /\ sweep'.since = sweep.since
        /\ sweep'.todo \subseteq sweep.todo
    BY <1>3 DEF SweepExpire, Take
  <2>3. LatestStatus(b)' = LatestStatus(b)
    BY <2>1 DEF LatestStatus
  <2>4. QED
    BY <1>0, <2>1, <2>2, <2>3, FreshKept
<1>4. ASSUME NEW c \in Bookings, SweepPayment(c) PROVE Fresh(b)'
  <2>1. sweep'.task = "payments"
    BY <1>4 DEF SweepPayment, Take
  <2>2. QED
    BY <2>1 DEF Fresh
<1>5. QED
  BY <1>1, <1>2, <1>3, <1>4 DEF Sweep

\* Every step keeps every booking fresh.
LEMMA NextFresh ==
  ASSUME SweepInv, [AllServices]_vars, NEW b \in Bookings
  PROVE  Fresh(b)'
<1> USE DEF paymentVars, deadlines
<1>0. /\ IInv /\ TypeOK /\ Fresh(b) /\ BookingInv(b)
  BY BookingInvParts DEF SweepInv, IInv
<1>1. ASSUME UNCHANGED <<expires_at, attempts, payment, sweep>> PROVE Fresh(b)'
  <2>1. LatestStatus(b)' = LatestStatus(b)
    BY <1>1 DEF LatestStatus
  <2>2. QED
    BY <1>0, <1>1, <2>1, FreshKept
<1>2. ASSUME NEW c \in Bookings, NEW ch \in Channel, NEW S \in SUBSET Slots,
             CreateBooking(c, ch, S)
      PROVE  Fresh(b)'
  <2>1. LatestStatus(b)' = LatestStatus(b) /\ sweep' = sweep /\ status[c] = "NONE"
    BY <1>2 DEF CreateBooking, LatestStatus
  <2>2. CASE b = c
    <3>1. LatestStatus(b) = "NONE"
      BY <1>0, <2>1, <2>2 DEF BookingInv, LatestStatus
    <3>2. QED
      BY <2>1, <3>1 DEF Fresh
  <2>3. CASE b # c
    <3>1. expires_at'[b] = expires_at[b]
      BY <1>2, <2>3 DEF CreateBooking
    <3>2. QED
      BY <1>0, <2>1, <3>1, FreshKept
  <2>4. QED
    BY <2>2, <2>3
<1>3. ASSUME NEW c \in Bookings, NEW t \in Readings, Pay(c, t) PROVE Fresh(b)'
  <2>1. CASE b = c
    BY <1>3, <2>1, PayFresh
  <2>2. CASE b # c
    <3>1. BookingInv(c) /\ PaymentInv
      BY <1>0, BookingInvParts DEF IInv
    <3>2. UNCHANGED Row(b)
      BY <1>0, <1>3, <2>2, <3>1, PayBooking
    <3>3. sweep' = sweep
      BY <1>3
      DEF Pay, RegisterCashPayment, RegisterTransferPayment, InitiateTransfer, InitiateTooLate,
          UploadVoucher, UploadTooLate, ApproveTransfer, ApproveTooLate, RejectTransfer
    <3>4. LatestStatus(b)' = LatestStatus(b)
      BY <3>2 DEF Row, LatestStatus
    <3>5. QED
      BY <1>0, <3>2, <3>3, <3>4, FreshKept DEF Row
  <2>3. QED
    BY <2>1, <2>2
<1>4. CASE Sweep
  BY <1>4, SweepKeepsFresh
<1>5. ASSUME NEW c \in Bookings, ReleaseBooking(c) PROVE Fresh(b)'
  BY <1>1, <1>5 DEF ReleaseBooking
<1>6. ASSUME NEW t \in Trips, TransitionTrip(t) PROVE Fresh(b)'
  BY <1>1, <1>6 DEF TransitionTrip, bookingVars
<1>7. CASE Tick \/ UNCHANGED vars
  BY <1>1, <1>7 DEF Tick, vars, bookingVars
<1>8. ASSUME NEW c \in Bookings, ConfirmBooking(c) \/ ExpireBooking(c) PROVE Fresh(b)'
  BY <1>1, <1>8 DEF ConfirmBooking, ExpireBooking
<1>9. ASSUME NEW t \in Trips, ReadAvailability(t) PROVE Fresh(b)'
  BY <1>1, <1>9 DEF ReadAvailability
<1>10. QED
  BY <1>2, <1>3, <1>4, <1>5, <1>6, <1>7, <1>8, <1>9 DEF AllServices, Next, Sale

\* A run never starts after the present.
LEMMA SinceIsPast ==
  ASSUME SweepInv, [AllServices]_vars
  PROVE  (sweep.since <= now)'
<1>0. sweep.since \in Nat /\ now \in Nat /\ sweep.since <= now
  BY DEF SweepInv, IInv, TypeOK
<1>1. ASSUME NEW b \in Bookings, Sale(b) PROVE UNCHANGED <<now, sweep>>
  BY <1>1 DEF Sale, CreateBooking, ReleaseBooking
<1>2. ASSUME NEW b \in Bookings, NEW t \in Readings, Pay(b, t) PROVE UNCHANGED <<now, sweep>>
  BY <1>2
  DEF Pay, RegisterCashPayment, RegisterTransferPayment, InitiateTransfer, InitiateTooLate,
      UploadVoucher, UploadTooLate, ApproveTransfer, ApproveTooLate, RejectTransfer
<1>3. CASE Sweep
  <2>1. now' = now /\ sweep'.since \in {sweep.since, now}
    <3>1. CASE NextTask \/ NextRun
      BY <3>1 DEF NextTask, NextRun
    <3>2. ASSUME NEW b \in Bookings, SweepExpire(b) \/ SweepPayment(b)
          PROVE  now' = now /\ sweep'.since = sweep.since
      BY <3>2 DEF SweepExpire, SweepPayment, Take
    <3>3. QED
      BY <1>3, <3>1, <3>2 DEF Sweep
  <2>2. QED
    BY <1>0, <2>1
<1>4. CASE Tick
  BY <1>0, <1>4 DEF Tick
<1>5. ASSUME NEW t \in Trips, TransitionTrip(t) PROVE UNCHANGED <<now, sweep>>
  BY <1>5 DEF TransitionTrip
<1>6. ASSUME NEW b \in Bookings, ConfirmBooking(b) \/ ExpireBooking(b)
      PROVE  UNCHANGED <<now, sweep>>
  BY <1>6 DEF ConfirmBooking, ExpireBooking
<1>7. ASSUME NEW t \in Trips, ReadAvailability(t) PROVE UNCHANGED <<now, sweep>>
  BY <1>7 DEF ReadAvailability
<1>8. QED
  BY <1>0, <1>1, <1>2, <1>3, <1>4, <1>5, <1>6, <1>7 DEF AllServices, Next, vars

\* The worker never touches a booking whose latest transfer was rejected, even when it was
\* presented and rejected while the booking was on its list: its deadline, a review window
\* from then, outlasts the run.
THEOREM RejectedIsSpared == ServicesSpec => MaintenanceSparesRejected
<1>1. Init => SweepInv
  BY InitInv DEF Init, SweepInv, Fresh
<1>2. SweepInv /\ [AllServices]_vars => SweepInv'
  <2> SUFFICES ASSUME SweepInv, [AllServices]_vars PROVE SweepInv'
    OBVIOUS
  <2>1. IInv'
    BY NextInv DEF SweepInv
  <2>2. QED
    BY <2>1, SinceIsPast, NextFresh DEF SweepInv
<1>3. ASSUME SweepInv, Sweep, NEW b \in Bookings, LatestStatus(b) = "REJECTED"
      PROVE  status'[b] = status[b]
  <2>0. TypeOK /\ Fresh(b)
    BY <1>3 DEF SweepInv, IInv
  <2>1. CASE NextTask \/ NextRun
    BY <2>1 DEF NextTask, NextRun, bookingVars
  <2>2. ASSUME NEW c \in Bookings, SweepExpire(c) PROVE status'[b] = status[b]
    <3>1. CASE c = b
      <4>1. sweep.task = "expire" /\ b \in sweep.todo /\ now <= sweep.since + MaxBatch
        BY <2>2, <3>1 DEF SweepExpire, Take, InTime
      <4>2. expires_at[b] = None \/ expires_at[b] > sweep.since + MaxBatch
        BY <1>3, <2>0, <4>1 DEF Fresh
      <4>3. ~Lapsed(b, now)
        BY <2>0, <4>1, <4>2, BatchAssumption DEF TypeOK, Deadline, Lapsed
      <4>4. QED
        BY <2>2, <3>1, <4>3 DEF SweepExpire
    <3>2. CASE c # b
      BY <2>2, <3>2 DEF SweepExpire, Expire
    <3>3. QED
      BY <3>1, <3>2
  <2>3. ASSUME NEW c \in Bookings, SweepPayment(c) PROVE status'[b] = status[b]
    BY <1>3, <2>3 DEF SweepPayment, Expire
  <2>4. QED
    BY <1>3, <2>1, <2>2, <2>3 DEF Sweep
<1>4. SweepInv /\ [AllServices]_vars =>
        [\A b \in Bookings : Sweep /\ LatestStatus(b) = "REJECTED" => status'[b] = status[b]]_vars
  BY <1>3
<1>5. QED
  BY <1>1, <1>2, <1>4, PTL DEF ServicesSpec, MaintenanceSparesRejected

-----------------------------------------------------------------------------
(* The services in use. *)

\* They are some of all the services, so that what is proved of all holds of them.
THEOREM FewerServices == Spec => ServicesSpec
<1>1. [Next]_vars => [AllServices]_vars
  BY DEF AllServices
<1>2. QED
  BY <1>1, PTL DEF Spec, ServicesSpec

\* Without confirm_booking, a confirmed booking has its approved payment.
PaidFor(b) == status[b] = "CONFIRMED" => HasPayment(b, {"APPROVED"})

PaidInv == IInv /\ \A b \in Bookings : PaidFor(b)

\* A booking stays paid for when its approved payments remain and it is not confirmed now.
LEMMA PaidKept ==
  ASSUME NEW b \in Bookings, PaidFor(b), attempts[b] \in Nat, attempts'[b] = attempts[b],
         status'[b] = "CONFIRMED" => status[b] = "CONFIRMED",
         \A i \in 1 .. attempts[b] : payment[b][i] = "APPROVED" => payment'[b][i] = "APPROVED"
  PROVE  PaidFor(b)'
BY DEF PaidFor, HasPayment

\* A request to pay confirms its booking with the payment it approves.
LEMMA PayPaid ==
  ASSUME PaidInv, NEW b \in Bookings, NEW t \in Readings, Pay(b, t)
  PROVE  PaidFor(b)'
<1>0. /\ TypeOK /\ BookingInv(b) /\ PaidFor(b) /\ attempts[b] \in Nat
      /\ \A i \in 1 .. attempts[b] : i \in Attempts
  BY BookingInvParts, RowsInRange DEF PaidInv, IInv
<1>1. CASE RegisterCashPayment(b, t)
  <2>1. attempts'[b] = attempts[b] + 1 /\ payment'[b][attempts'[b]] = "APPROVED"
    BY <1>0, <1>1, AddedPayment DEF RegisterCashPayment, PaymentStatus
  <2>2. QED
    BY <1>0, <2>1 DEF PaidFor, HasPayment
<1>2. CASE RegisterTransferPayment(b, t) \/ InitiateTransfer(b, t)
  <2>1. status'[b] = "HELD"
    BY <1>2 DEF RegisterTransferPayment, CounterSale, bookingVars, InitiateTransfer, MayInitiate,
                OnlineHold
  <2>2. QED
    BY <2>1 DEF PaidFor
<1>3. CASE InitiateTooLate(b, t)
  <2>1. status'[b] = "EXPIRED"
    BY <1>3 DEF InitiateTooLate, Expire
  <2>2. QED
    BY <2>1 DEF PaidFor
<1>4. ASSUME NEW i \in Attempts,
             UploadVoucher(b, i, t) \/ UploadTooLate(b, i, t) \/ ApproveTooLate(b, i, t)
      PROVE  PaidFor(b)'
  <2>1. status'[b] # "CONFIRMED"
    BY <1>4 DEF UploadVoucher, MayUpload, OnlineHold, UploadTooLate, ApproveTooLate, Expire
  <2>2. QED
    BY <2>1 DEF PaidFor
<1>5. ASSUME NEW i \in Attempts, ApproveTransfer(b, i, t) PROVE PaidFor(b)'
  <2>1. i \in 1 .. attempts[b] /\ attempts'[b] = attempts[b]
    BY <1>0, <1>5 DEF ApproveTransfer, MayApprove, UnderReview, Attempts
  <2>2. payment'[b][i] = "APPROVED"
    BY <1>0, <1>5 DEF ApproveTransfer, TypeOK
  <2>3. QED
    BY <2>1, <2>2 DEF PaidFor, HasPayment
<1>6. ASSUME NEW i \in Attempts, RejectTransfer(b, i) PROVE PaidFor(b)'
  <2>1. status' = status /\ attempts' = attempts
    BY <1>6 DEF RejectTransfer, bookingVars
  <2>2. \A j \in 1 .. attempts[b] : payment[b][j] = "APPROVED" => payment'[b][j] = "APPROVED"
    BY <1>0, <1>6, RowsInRange DEF RejectTransfer, UnderReview
  <2>3. QED
    BY <1>0, <2>1, <2>2, PaidKept
<1>7. QED
  BY <1>1, <1>2, <1>3, <1>4, <1>5, <1>6 DEF Pay

\* Every step of the services in use keeps every confirmed booking paid for.
LEMMA NextPaid ==
  ASSUME PaidInv, [Next]_vars, NEW b \in Bookings
  PROVE  PaidFor(b)'
<1> USE DEF paymentVars, deadlines
<1>0. /\ TypeOK /\ PaymentInv /\ PaidFor(b) /\ attempts[b] \in Nat
      /\ \A i \in 1 .. attempts[b] : i \in Attempts
  BY RowsInRange DEF PaidInv, IInv
<1>1. ASSUME UNCHANGED <<attempts, payment>>, status'[b] = "CONFIRMED" => status[b] = "CONFIRMED"
      PROVE  PaidFor(b)'
  BY <1>0, <1>1, PaidKept
<1>2. ASSUME NEW c \in Bookings, Sale(c) PROVE PaidFor(b)'
  <2>1. ASSUME NEW ch \in Channel, NEW S \in SUBSET Slots, CreateBooking(c, ch, S)
        PROVE  PaidFor(b)'
    BY <1>1, <2>1 DEF CreateBooking
  <2>2. CASE ReleaseBooking(c)
    BY <1>0, <1>1, <2>2 DEF ReleaseBooking, TypeOK
  <2>3. QED
    BY <1>2, <2>1, <2>2 DEF Sale
<1>3. ASSUME NEW c \in Bookings, NEW t \in Readings, Pay(c, t) PROVE PaidFor(b)'
  <2>1. CASE b = c
    BY <1>3, <2>1, PayPaid
  <2>2. CASE b # c
    <3>1. BookingInv(c)
      BY BookingInvParts DEF PaidInv, IInv
    <3>2. UNCHANGED Row(b)
      BY <1>0, <1>3, <2>2, <3>1, PayBooking
    <3>3. QED
      BY <1>0, <3>2, PaidKept DEF Row
  <2>3. QED
    BY <2>1, <2>2
<1>4. CASE NextTask \/ NextRun
  BY <1>1, <1>4 DEF NextTask, NextRun, bookingVars
<1>5. ASSUME NEW c \in Bookings, SweepExpire(c) PROVE PaidFor(b)'
  BY <1>1, <1>5 DEF SweepExpire, Expire
<1>6. ASSUME NEW c \in Bookings, SweepPayment(c) PROVE PaidFor(b)'
  <2>1. attempts' = attempts /\ (status'[b] = "CONFIRMED" => status[b] = "CONFIRMED")
    BY <1>6 DEF SweepPayment, Expire
  <2>2. \A i \in 1 .. attempts[b] : payment[b][i] = "APPROVED" => payment'[b][i] = "APPROVED"
    BY <1>0, <1>6, RowsInRange DEF SweepPayment, ExpirePayments
  <2>3. QED
    BY <1>0, <2>1, <2>2, PaidKept
<1>7. ASSUME NEW t \in Trips, TransitionTrip(t) PROVE PaidFor(b)'
  BY <1>1, <1>7 DEF TransitionTrip, bookingVars
<1>8. CASE Tick \/ UNCHANGED vars
  BY <1>1, <1>8 DEF Tick, vars, bookingVars
<1>9. QED
  BY <1>2, <1>3, <1>4, <1>5, <1>6, <1>7, <1>8 DEF Next, Sweep

\* Confirmed and paid are the same thing.
THEOREM PaidIsConfirmed == Spec => []ConfirmedIffPaid
<1>1. Init => PaidInv
  BY InitInv DEF Init, PaidInv, PaidFor
<1>2. PaidInv /\ [Next]_vars => PaidInv'
  <2> SUFFICES ASSUME PaidInv, [Next]_vars PROVE PaidInv'
    OBVIOUS
  <2>1. IInv'
    BY NextInv DEF PaidInv, AllServices
  <2>2. QED
    BY <2>1, NextPaid DEF PaidInv
<1>3. PaidInv => ConfirmedIffPaid
  BY DEF PaidInv, IInv, PaymentInv, PaymentsFitBooking, PaidFor, ConfirmedIffPaid
<1>4. QED
  BY <1>1, <1>2, <1>3, PTL DEF Spec

\* No sale at the counter is concluded once a trip of the booking has started: the only
\* two steps that confirm read the trips under their locks.
THEOREM CounterClosed == Spec => CounterClosesAtStart
<1>1. ASSUME IInv, Next, NEW b \in Bookings,
             status[b] = "HELD", status'[b] = "CONFIRMED", channel[b] = "MANUAL"
      PROVE  TripsOpen(b)
  <2>1. ASSUME NEW c \in Bookings, Sale(c) PROVE FALSE
    BY <1>1, <2>1 DEF Sale, CreateBooking, ReleaseBooking, IInv, TypeOK
  <2>2. ASSUME NEW c \in Bookings, NEW t \in Readings, Pay(c, t) PROVE TripsOpen(b)
    <3>1. CASE RegisterCashPayment(c, t)
      BY <1>1, <3>1 DEF RegisterCashPayment, CounterSale, Confirm, IInv, TypeOK
    <3>2. CASE RegisterTransferPayment(c, t) \/ InitiateTransfer(c, t)
      BY <1>1, <3>2 DEF RegisterTransferPayment, InitiateTransfer, MayInitiate, bookingVars
    <3>3. CASE InitiateTooLate(c, t)
      BY <1>1, <3>3 DEF InitiateTooLate, Expire
    <3>4. ASSUME NEW i \in Attempts,
                 \/ UploadVoucher(c, i, t) \/ RejectTransfer(c, i)
                 \/ UploadTooLate(c, i, t) \/ ApproveTooLate(c, i, t)
          PROVE  FALSE
      BY <1>1, <3>4
      DEF UploadVoucher, MayUpload, RejectTransfer, UploadTooLate, ApproveTooLate, Expire,
          bookingVars
    <3>5. ASSUME NEW i \in Attempts, ApproveTransfer(c, i, t) PROVE TripsOpen(b)
      BY <1>1, <3>5 DEF ApproveTransfer, MayApprove, Confirm, IInv, TypeOK
    <3>6. QED
      BY <2>2, <3>1, <3>2, <3>3, <3>4, <3>5 DEF Pay
  <2>3. CASE Sweep
    BY <1>1, <2>3 DEF Sweep, NextTask, NextRun, SweepExpire, SweepPayment, Expire, bookingVars
  <2>4. ASSUME NEW t \in Trips, TransitionTrip(t) PROVE FALSE
    BY <1>1, <2>4 DEF TransitionTrip, bookingVars
  <2>5. CASE Tick
    BY <1>1, <2>5 DEF Tick, bookingVars
  <2>6. QED
    BY <1>1, <2>1, <2>2, <2>3, <2>4, <2>5 DEF Next
<1>2. IInv /\ [Next]_vars =>
        [\A b \in Bookings :
           status[b] = "HELD" /\ status'[b] = "CONFIRMED" /\ channel[b] = "MANUAL"
             => TripsOpen(b)]_vars
  BY <1>1
<1>3. QED
  BY <1>2, FewerServices, Invariance, PTL DEF Spec, CounterClosesAtStart
=============================================================================
