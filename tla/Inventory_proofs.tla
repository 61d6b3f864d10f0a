-------------------------- MODULE Inventory_proofs --------------------------
(***************************************************************************)
(* The reservation services implement SeatInventory, and the pages offer   *)
(* what the services do, for every value of the constants.                 *)
(***************************************************************************)
EXTENDS Pages, Reservations_proofs, FiniteSetTheorems

-----------------------------------------------------------------------------
(* The abstract inventory. *)

\* A held booking holds something: without a seat there is nothing to sell.
HeldHasSeats ==
  \A b \in Bookings : status[b] = "HELD" => \E s \in Slots : assignment[b][s] = "HELD"

\* The owner of a slot in the mapping is the booking that holds it.
OwnersHold ==
  \A s \in Slots :
    /\ \A b \in Bookings : Owner(s) = b <=> Owns(b, s)
    /\ Owner(s) = None <=> \A b \in Bookings : ~Owns(b, s)

\* The mapping finds the holder because no seat has two.
LEMMA OwnerIs == SeatExclusive => OwnersHold
<1> SUFFICES ASSUME SeatExclusive, NEW s \in Slots
             PROVE  /\ \A b \in Bookings : Owner(s) = b <=> Owns(b, s)
                    /\ Owner(s) = None <=> \A b \in Bookings : ~Owns(b, s)
  BY DEF OwnersHold
<1>1. CASE \E b \in Bookings : Owns(b, s)
  <2>1. Owner(s) \in Bookings /\ Owns(Owner(s), s)
    BY <1>1 DEF Owner
  <2>2. \A b \in Bookings : Owns(b, s) => b = Owner(s)
    BY <2>1 DEF SeatExclusive
  <2>3. QED
    BY <1>1, <2>1, <2>2, NoneAssumption
<1>2. CASE ~\E b \in Bookings : Owns(b, s)
  BY <1>2, NoneAssumption DEF Owner
<1>3. QED
  BY <1>1, <1>2

\* And so it does after a step.
LEMMA OwnerIsNext == SeatExclusive' => OwnersHold'
BY OwnerIs, PTL

\* An itinerary is not empty.
LEMMA ItineraryHasSlots ==
  ASSUME NEW S \in SUBSET Slots, Itinerary(S)
  PROVE  S # {}
<1>1. Cardinality(Legs(S)) # 0
  BY DEF Itinerary
<1>2. Legs(S) # {}
  BY <1>1, FS_EmptySet
<1>3. QED
  BY <1>2 DEF Legs

\* A held booking has seats from the step that creates it until it is no longer held.
LEMMA SeatStepKeepsSomeSeat ==
  ASSUME TypeOK, HeldHasSeats, SeatStep
  PROVE  HeldHasSeats'
<1>1. CASE UNCHANGED <<status, assignment>>
  BY <1>1 DEF HeldHasSeats
<1>2. ASSUME NEW B \in SUBSET Bookings, Expire(B) PROVE HeldHasSeats'
  BY <1>2 DEF Expire, MoveSeats, HeldHasSeats
<1>3. ASSUME NEW b \in Bookings, Confirm(b) PROVE HeldHasSeats'
  BY <1>3 DEF Confirm, MoveSeats, HeldHasSeats, TypeOK
<1>4. ASSUME NEW b \in Bookings, ReleaseBooking(b) PROVE HeldHasSeats'
  BY <1>4 DEF ReleaseBooking, MoveSeats, HeldHasSeats, TypeOK
<1>5. ASSUME NEW b \in Bookings, NEW ch \in Channel, NEW S \in SUBSET Slots,
             CreateBooking(b, ch, S)
      PROVE  HeldHasSeats'
  <2>1. PICK s \in Slots : s \in S
    BY <1>5, ItineraryHasSlots DEF CreateBooking, MayBook
  <2>2. assignment'[b][s] = "HELD"
    BY <1>5, <2>1 DEF CreateBooking, MoveSeats
  <2>3. ASSUME NEW c \in Bookings \ {b}, status'[c] = "HELD"
        PROVE  \E u \in Slots : assignment'[c][u] = "HELD"
    BY <1>5, <2>3 DEF CreateBooking, MoveSeats, HeldHasSeats
  <2>4. QED
    BY <2>2, <2>3 DEF HeldHasSeats
<1>6. QED
  BY <1>1, <1>2, <1>3, <1>4, <1>5 DEF SeatStep

\* Bookings give up their slots when they are expired or released.
LEMMA FreeingIsGiveUp ==
  ASSUME OwnersHold, OwnersHold', NEW B \in SUBSET Bookings,
         \A b \in B : status[b] # "CONFIRMED",
         \A c \in Bookings, s \in Slots : Owns(c, s)' <=> c \notin B /\ Owns(c, s),
         \A c \in Bookings : status'[c] = "CONFIRMED" <=> status[c] = "CONFIRMED"
  PROVE  Inventory!Next
<1>1. ASSUME NEW s \in Slots
      PROVE  Owner(s)' = IF Owner(s) \in B THEN None ELSE Owner(s)
  <2>1. /\ \A c \in Bookings : Owner(s)' = c <=> Owns(c, s)'
        /\ Owner(s)' = None <=> \A c \in Bookings : ~Owns(c, s)'
    BY DEF OwnersHold
  <2>2. /\ \A c \in Bookings : Owner(s) = c <=> Owns(c, s)
        /\ Owner(s) = None <=> \A c \in Bookings : ~Owns(c, s)
    BY DEF OwnersHold
  <2>3. None \notin B
    BY NoneAssumption
  <2>4. QED
    BY <2>1, <2>2, <2>3
<1>2. B \in SUBSET (Bookings \ {c \in Bookings : status[c] = "CONFIRMED"})
  OBVIOUS
<1>3. QED
  BY <1>1, <1>2 DEF Inventory!Next, Inventory!GiveUp, Inventory!Freed

\* Confirming a held booking sells it where it stands.
LEMMA ConfirmingIsSell ==
  ASSUME TypeOK, HeldHasSeats, OwnersHold, OwnersHold',
         NEW b \in Bookings, status[b] = "HELD", Confirm(b)
  PROVE  Inventory!Next
<1>1. \A c \in Bookings, s \in Slots : Owns(c, s)' <=> Owns(c, s)
  BY DEF Confirm, MoveSeats, Owns
<1>2. \A s \in Slots : Owner(s)' = Owner(s)
  BY <1>1 DEF OwnersHold
<1>3. \E s \in Slots : Owner(s) = b
  BY DEF HeldHasSeats, OwnersHold, Owns
<1>4. {c \in Bookings : status'[c] = "CONFIRMED"}
        = {c \in Bookings : status[c] = "CONFIRMED"} \cup {b}
  BY DEF Confirm, TypeOK
<1>5. QED
  BY <1>2, <1>3, <1>4 DEF Inventory!Next, Inventory!Sell

\* A new booking claims all its slots at once; the lapsed holds give theirs up in that step.
LEMMA CreatingIsClaim ==
  ASSUME TypeOK, SeatInv, OwnersHold, OwnersHold',
         NEW b \in Bookings, NEW ch \in Channel, NEW S \in SUBSET Slots, CreateBooking(b, ch, S)
  PROVE  Inventory!Next
<1> DEFINE L == LapsedOn(Legs(S))
           sold == {c \in Bookings : status[c] = "CONFIRMED"}
<1>1. status[b] = "NONE" /\ b \notin L /\ L \in SUBSET (Bookings \ sold)
  BY DEF CreateBooking, LapsedOn
<1>2. \A c \in L : status[c] = "HELD"
  BY DEF LapsedOn
<1>3. S # {}
  BY ItineraryHasSlots DEF CreateBooking, MayBook
<1>4. \A s \in Slots : ~Owns(b, s)
  BY <1>1 DEF SeatInv, SeatsFollowBooking, Owns
<1>5. \A s \in S, c \in Bookings \ L : ~Owns(c, s)
  BY DEF CreateBooking, MayBook, Available, Owns
<1>6. \A c \in Bookings, s \in Slots :
        Owns(c, s)' <=> IF c = b THEN s \in S ELSE c \notin L /\ Owns(c, s)
  <2>1. \A c \in L, s \in Slots : assignment[c][s] # "CONFIRMED"
    BY <1>1, <1>2 DEF SeatInv, SeatsFollowBooking
  <2>2. \A c \in Bookings, s \in Slots :
          assignment'[c][s] =
            IF c = b THEN IF s \in S THEN "HELD" ELSE "NONE"
            ELSE IF c \in L /\ assignment[c][s] = "HELD" THEN "RELEASED"
            ELSE assignment[c][s]
    BY DEF CreateBooking, MoveSeats
  <2> HIDE DEF L
  <2>3. QED
    BY <2>1, <2>2 DEF Owns
<1>7. \A c \in Bookings : status'[c] = "CONFIRMED" <=> status[c] = "CONFIRMED"
  BY DEF CreateBooking, LapsedOn
<1> HIDE DEF L
<1>8. \A s \in Slots :
        /\ \A c \in Bookings : Owner(s) = c <=> Owns(c, s)
        /\ Owner(s) = None <=> \A c \in Bookings : ~Owns(c, s)
  BY DEF OwnersHold
<1>9. \A s \in Slots :
        /\ \A c \in Bookings : Owner(s)' = c <=> Owns(c, s)'
        /\ Owner(s)' = None <=> \A c \in Bookings : ~Owns(c, s)'
  BY DEF OwnersHold
<1>10. \A s \in Slots : Owner(s) # b
  BY <1>4, <1>8
<1>11. \A s \in S : (IF Owner(s) \in L THEN None ELSE Owner(s)) = None
  BY <1>1, <1>5, <1>8
<1>12. \A s \in Slots :
         Owner(s)' = IF s \in S THEN b ELSE IF Owner(s) \in L THEN None ELSE Owner(s)
  <2> SUFFICES ASSUME NEW s \in Slots
               PROVE  Owner(s)' = IF s \in S THEN b
                                  ELSE IF Owner(s) \in L THEN None ELSE Owner(s)
    OBVIOUS
  <2>1. CASE s \in S
    BY <1>6, <1>9, <2>1
  <2>2. CASE s \notin S /\ Owner(s) \in L
    <3>1. \A c \in Bookings : ~Owns(c, s)'
      BY <1>1, <1>6, <1>8, <2>2
    <3>2. QED
      BY <1>9, <2>2, <3>1
  <2>3. CASE s \notin S /\ Owner(s) \notin L
    BY <1>4, <1>6, <1>8, <1>9, <2>3
  <2>4. QED
    BY <2>1, <2>2, <2>3
<1>13. QED
  BY <1>1, <1>3, <1>7, <1>10, <1>11, <1>12 DEF Inventory!Next, Inventory!Claim, Inventory!Freed

\* Whatever a step does to seats is a step of the inventory, or nothing to it.
LEMMA SeatStepRefines ==
  ASSUME TypeOK, SeatInv, HeldHasSeats, OwnersHold, OwnersHold', SeatStep
  PROVE  [Inventory!Next]_Inventory!vars
<1>1. CASE UNCHANGED <<status, assignment>>
  <2>1. \A s \in Slots : Owner(s)' = Owner(s)
    BY <1>1 DEF Owner, Owns
  <2>2. QED
    BY <1>1, <2>1 DEF Inventory!vars
<1>2. ASSUME NEW B \in SUBSET Bookings, \A b \in B : Expirable(b), Expire(B)
      PROVE  Inventory!Next
  <2>1. \A c \in Bookings, s \in Slots : Owns(c, s)' <=> c \notin B /\ Owns(c, s)
    BY <1>2 DEF Expire, MoveSeats, Owns, Expirable, SeatInv, SeatsFollowBooking
  <2>2. \A c \in Bookings : status'[c] = "CONFIRMED" <=> status[c] = "CONFIRMED"
    BY <1>2 DEF Expire, Expirable
  <2>3. QED
    BY <1>2, <2>1, <2>2, FreeingIsGiveUp DEF Expirable
<1>3. ASSUME NEW b \in Bookings, ReleaseBooking(b) PROVE Inventory!Next
  <2>1. \A c \in Bookings, s \in Slots : Owns(c, s)' <=> c \notin {b} /\ Owns(c, s)
    BY <1>3 DEF ReleaseBooking, MoveSeats, Owns, SeatInv, SeatsFollowBooking
  <2>2. \A c \in Bookings : status'[c] = "CONFIRMED" <=> status[c] = "CONFIRMED"
    BY <1>3 DEF ReleaseBooking, TypeOK
  <2>3. {b} \in SUBSET Bookings /\ \A c \in {b} : status[c] # "CONFIRMED"
    BY <1>3 DEF ReleaseBooking
  <2>4. QED
    BY <2>1, <2>2, <2>3, FreeingIsGiveUp
<1>4. QED
  BY <1>1, <1>2, <1>3, ConfirmingIsSell, CreatingIsClaim DEF SeatStep

\* The reservation services implement the abstract inventory: a slot has one owner, a
\* booking gets and gives up both legs at once, and a sale is never undone.
THEOREM ServicesImplementInventory == ServicesSpec => ImplementsInventory
<1>1. Init => Inventory!Init /\ HeldHasSeats
  <2> SUFFICES ASSUME Init PROVE Inventory!Init /\ HeldHasSeats
    OBVIOUS
  <2>1. \A s \in Slots : Owner(s) = None
    BY DEF Init, Owner, Owns
  <2>2. QED
    BY <2>1 DEF Init, Inventory!Init, HeldHasSeats
<1>2. IInv /\ HeldHasSeats /\ [AllServices]_vars => HeldHasSeats'
  BY NextSeatStep, SeatStepKeepsSomeSeat DEF IInv
<1>3. IInv /\ IInv' /\ HeldHasSeats /\ [AllServices]_vars => [Inventory!Next]_Inventory!vars
  BY NextSeatStep, SeatStepRefines, OwnerIs, OwnerIsNext DEF IInv, SeatInv
<1>4. QED
  BY <1>1, <1>2, <1>3, Invariance, PTL DEF ServicesSpec, ImplementsInventory, Inventory!Spec

-----------------------------------------------------------------------------
(* The pages of a booking. *)

\* The transfer that waits for its review kept its own deadline, whatever became of the
\* booking, and one of an expired booking is over.
ReviewIsTimed(b) ==
  channel[b] = "ONLINE" /\ LatestStatus(b) = "UNDER_REVIEW" =>
    /\ expires_at[b] = review_deadline[b][attempts[b]] /\ expires_at[b] # None
    /\ status[b] = "EXPIRED" => expires_at[b] <= now

PagesInv == IInv /\ \A b \in Bookings : ReviewIsTimed(b)

\* What leaves the deadlines of a booking alone and expires it only when its time is over.
LEMMA TimedKept ==
  ASSUME TypeOK, NEW b \in Bookings, ReviewIsTimed(b), now' \in Int, now <= now',
         UNCHANGED <<channel[b], expires_at[b], attempts[b], review_deadline[b]>>,
         LatestStatus(b)' = "UNDER_REVIEW" => LatestStatus(b) = "UNDER_REVIEW",
         status'[b] = "EXPIRED" =>
           status[b] = "EXPIRED" \/ (expires_at[b] # None /\ expires_at[b] <= now)
  PROVE  ReviewIsTimed(b)'
<1> SUFFICES ASSUME (channel[b] = "ONLINE" /\ LatestStatus(b) = "UNDER_REVIEW")'
             PROVE  /\ expires_at'[b] = review_deadline'[b][attempts'[b]] /\ expires_at'[b] # None
                    /\ status'[b] = "EXPIRED" => expires_at'[b] <= now'
  BY DEF ReviewIsTimed
<1>1. /\ expires_at[b] = review_deadline[b][attempts[b]] /\ expires_at[b] # None
      /\ status[b] = "EXPIRED" => expires_at[b] <= now
  BY DEF ReviewIsTimed
<1>2. expires_at[b] \in Int /\ now \in Int
  BY <1>1 DEF TypeOK, Deadline
<1>3. QED
  BY <1>1, <1>2

\* A request to pay starts a review with its deadline, and ends a hold whose time is over.
LEMMA PayTimed ==
  ASSUME IInv, NEW b \in Bookings, ReviewIsTimed(b), NEW t \in Readings, Pay(b, t)
  PROVE  ReviewIsTimed(b)'
<1>0. /\ TypeOK /\ BookingInv(b) /\ now \in Int /\ now <= now /\ attempts[b] \in Nat
      /\ t + ReviewWindow # None
  BY BookingInvParts, RowsInRange, ReadingsType, TimesAssumption, NoneAssumption
  DEF IInv, TypeOK
<1>1. CASE RegisterCashPayment(b, t) \/ RegisterTransferPayment(b, t)
  <2>1. channel'[b] = "MANUAL"
    BY <1>1 DEF RegisterCashPayment, RegisterTransferPayment, CounterSale, bookingVars
  <2>2. QED
    BY <2>1 DEF ReviewIsTimed
<1>2. CASE InitiateTransfer(b, t)
  <2>1. /\ attempts'[b] = attempts[b] + 1
        /\ payment'[b][attempts'[b]] = "AWAITING_VOUCHER"
    BY <1>0, <1>2, AddedPayment DEF InitiateTransfer, PaymentStatus
  <2>2. LatestStatus(b)' = "AWAITING_VOUCHER"
    BY <1>0, <2>1 DEF LatestStatus
  <2>3. QED
    BY <2>2 DEF ReviewIsTimed
<1>3. CASE InitiateTooLate(b, t)
  <2>1. UNCHANGED <<now, channel, expires_at, attempts, review_deadline>>
    BY <1>3 DEF InitiateTooLate, deadlines
  <2>2. LatestStatus(b)' = "UNDER_REVIEW" => LatestStatus(b) = "UNDER_REVIEW"
    BY <1>0, <1>3, <2>1, RowsInRange DEF InitiateTooLate, ExpirePayments, LatestStatus
  <2>3. expires_at[b] # None /\ expires_at[b] <= now
    BY <1>0, <1>3, LapsedStaysLapsed, ProofOverIsLapsed DEF InitiateTooLate
  <2>4. QED
    BY <1>0, <2>1, <2>2, <2>3, TimedKept
<1>4. ASSUME NEW i \in Attempts, UploadVoucher(b, i, t) PROVE ReviewIsTimed(b)'
  <2>1. i = attempts[b]
    BY <1>0, <1>4 DEF UploadVoucher, MayUpload, Awaiting, BookingInv, ActivePayment, Attempts
  <2>2. /\ expires_at'[b] = t + ReviewWindow /\ review_deadline'[b][i] = t + ReviewWindow
        /\ attempts'[b] = i /\ status'[b] = "HELD"
    BY <1>0, <1>4, <2>1 DEF UploadVoucher, MayUpload, OnlineHold, TypeOK
  <2>3. QED
    BY <1>0, <2>2 DEF ReviewIsTimed
<1>5. ASSUME NEW i \in Attempts, UploadTooLate(b, i, t) PROVE ReviewIsTimed(b)'
  <2>1. UNCHANGED <<now, channel, expires_at, attempts, review_deadline>>
    BY <1>5 DEF UploadTooLate, deadlines
  <2>2. LatestStatus(b)' = "UNDER_REVIEW" => LatestStatus(b) = "UNDER_REVIEW"
    BY <1>0, <1>5, <2>1, RowsInRange DEF UploadTooLate, LatestStatus
  <2>3. expires_at[b] # None /\ expires_at[b] <= now
    BY <1>0, <1>5, LapsedStaysLapsed, ProofOverIsLapsed DEF UploadTooLate
  <2>4. QED
    BY <1>0, <2>1, <2>2, <2>3, TimedKept
<1>6. ASSUME NEW i \in Attempts, ApproveTransfer(b, i, t) PROVE ReviewIsTimed(b)'
  <2>1. /\ UNCHANGED <<now, channel, expires_at, attempts, review_deadline>>
        /\ status'[b] = "CONFIRMED"
    BY <1>0, <1>6 DEF ApproveTransfer, Confirm, deadlines, TypeOK
  <2>2. LatestStatus(b)' = "UNDER_REVIEW" => LatestStatus(b) = "UNDER_REVIEW"
    BY <1>0, <1>6, <2>1, RowsInRange DEF ApproveTransfer, LatestStatus
  <2>3. QED
    BY <1>0, <2>1, <2>2, TimedKept
<1>7. ASSUME NEW i \in Attempts, ApproveTooLate(b, i, t) PROVE ReviewIsTimed(b)'
  <2>1. UNCHANGED <<now, channel, expires_at, attempts, payment, review_deadline>>
    BY <1>7 DEF ApproveTooLate, paymentVars, deadlines
  <2>2. LatestStatus(b)' = LatestStatus(b)
    BY <2>1 DEF LatestStatus
  <2>3. status[b] = "EXPIRED" \/ (expires_at[b] # None /\ expires_at[b] <= now)
    BY <1>0, <1>7, LapsedStaysLapsed DEF ApproveTooLate
  <2>4. QED
    BY <1>0, <2>1, <2>2, <2>3, TimedKept
<1>8. ASSUME NEW i \in Attempts, RejectTransfer(b, i) PROVE ReviewIsTimed(b)'
  <2>1. UNCHANGED <<now, status, channel, expires_at, attempts, review_deadline>>
    BY <1>8 DEF RejectTransfer, bookingVars, deadlines
  <2>2. LatestStatus(b)' = "UNDER_REVIEW" => LatestStatus(b) = "UNDER_REVIEW"
    BY <1>0, <1>8, <2>1, RowsInRange DEF RejectTransfer, LatestStatus
  <2>3. QED
    BY <1>0, <2>1, <2>2, TimedKept
<1>9. QED
  BY <1>1, <1>2, <1>3, <1>4, <1>5, <1>6, <1>7, <1>8 DEF Pay

\* A booking none of whose columns changes stays timed while the clock runs.
LEMMA UntouchedTimed ==
  ASSUME TypeOK, NEW b \in Bookings, ReviewIsTimed(b), now' \in Int, now <= now',
         UNCHANGED Row(b)
  PROVE  ReviewIsTimed(b)'
<1>1. LatestStatus(b)' = LatestStatus(b)
  BY DEF Row, LatestStatus
<1>2. QED
  BY <1>1, TimedKept DEF Row

\* Every step keeps the bookings timed.
LEMMA NextTimed ==
  ASSUME PagesInv, [AllServices]_vars, NEW b \in Bookings
  PROVE  ReviewIsTimed(b)'
<1> USE DEF Row, paymentVars, deadlines
<1>0. /\ IInv /\ TypeOK /\ PaymentInv /\ ReviewIsTimed(b) /\ BookingInv(b)
      /\ now \in Int /\ now <= now
  BY BookingInvParts DEF PagesInv, IInv, TypeOK
<1>1. ASSUME NEW c \in Bookings, ReleaseBooking(c) PROVE ReviewIsTimed(b)'
  <2>1. /\ UNCHANGED <<now, channel, expires_at, paymentVars>>
        /\ status'[b] \in {status[b], "RELEASED"}
    BY <1>0, <1>1 DEF ReleaseBooking, TypeOK
  <2>2. LatestStatus(b)' = LatestStatus(b)
    BY <2>1 DEF LatestStatus
  <2>3. QED
    BY <1>0, <2>1, <2>2, TimedKept
<1>2. ASSUME NEW c \in Bookings, NEW ch \in Channel, NEW S \in SUBSET Slots,
             CreateBooking(c, ch, S)
      PROVE  ReviewIsTimed(b)'
  <2>1. UNCHANGED <<now, paymentVars>> /\ status[c] = "NONE"
    BY <1>2 DEF CreateBooking
  <2>2. LatestStatus(b)' = LatestStatus(b)
    BY <2>1 DEF LatestStatus
  <2>3. CASE b = c
    <3>1. LatestStatus(b) = "NONE"
      BY <1>0, <2>1, <2>3 DEF BookingInv, LatestStatus
    <3>2. QED
      BY <2>2, <3>1 DEF ReviewIsTimed
  <2>4. CASE b # c
    <3>1. UNCHANGED <<channel[b], expires_at[b]>>
      BY <1>2, <2>4 DEF CreateBooking
    <3>2. status'[b] = "EXPIRED" =>
            status[b] = "EXPIRED" \/ (expires_at[b] # None /\ expires_at[b] <= now)
      BY <1>2, <2>4 DEF CreateBooking, LapsedOn, Lapsed
    <3>3. QED
      BY <1>0, <2>1, <2>2, <3>1, <3>2, TimedKept
  <2>5. QED
    BY <2>3, <2>4
<1>3. ASSUME NEW c \in Bookings, NEW t \in Readings, Pay(c, t) PROVE ReviewIsTimed(b)'
  <2>1. CASE b = c
    BY <1>0, <1>3, <2>1, PayTimed
  <2>2. CASE b # c
    <3>1. UNCHANGED Row(b)
      <4>1. BookingInv(c)
        BY <1>0, BookingInvParts DEF IInv
      <4>2. QED
        BY <1>0, <1>3, <2>2, <4>1, PayBooking
    <3>2. UNCHANGED now
      BY <1>3
      DEF Pay, RegisterCashPayment, RegisterTransferPayment, InitiateTransfer, InitiateTooLate,
          UploadVoucher, UploadTooLate, ApproveTransfer, ApproveTooLate, RejectTransfer
    <3>3. QED
      BY <1>0, <3>1, <3>2, UntouchedTimed
  <2>3. QED
    BY <2>1, <2>2
<1>4. CASE Sweep
  <2>1. UNCHANGED <<now, channel, expires_at, attempts, deadlines>>
    BY <1>4
    DEF Sweep, NextTask, NextRun, SweepExpire, SweepPayment, bookingVars
  <2>2. LatestStatus(b)' = "UNDER_REVIEW" => LatestStatus(b) = "UNDER_REVIEW"
    <3>1. \A i \in Attempts : payment'[b][i] \in {payment[b][i], "EXPIRED"}
      <4>1. CASE UNCHANGED payment
        BY <4>1
      <4>2. ASSUME NEW c \in Bookings, NEW S, ExpirePayments(c, S)
            PROVE  \A i \in Attempts : payment'[b][i] \in {payment[b][i], "EXPIRED"}
        BY <1>0, <4>2, RowsInRange DEF ExpirePayments
      <4>3. QED
        BY <1>4, <4>1, <4>2 DEF Sweep, NextTask, NextRun, SweepExpire, SweepPayment
    <3>2. attempts'[b] = attempts[b] /\ (attempts[b] # 0 => attempts[b] \in Attempts)
      BY <1>0, <2>1, BoundsAssumption DEF TypeOK, Attempts
    <3>3. QED
      BY <3>1, <3>2 DEF LatestStatus
  <2>3. status'[b] = "EXPIRED" =>
          status[b] = "EXPIRED" \/ (expires_at[b] # None /\ expires_at[b] <= now)
    BY <1>4
    DEF Sweep, NextTask, NextRun, SweepExpire, SweepPayment, Expire, Lapsed, bookingVars
  <2>4. QED
    BY <1>0, <2>1, <2>2, <2>3, TimedKept
<1>5. ASSUME NEW t \in Trips, TransitionTrip(t) PROVE ReviewIsTimed(b)'
  BY <1>0, <1>5, UntouchedTimed DEF TransitionTrip, bookingVars
<1>6. CASE Tick
  <2>1. now' \in Int /\ now <= now'
    BY <1>0, <1>6 DEF Tick
  <2>2. QED
    BY <1>0, <1>6, <2>1, UntouchedTimed DEF Tick, bookingVars
<1>7. CASE UNCHANGED vars
  BY <1>0, <1>7, UntouchedTimed DEF vars, bookingVars
<1>8. ASSUME UNCHANGED <<now, channel, expires_at, paymentVars>>,
             NEW B \in SUBSET Bookings, \A c \in B : Lapsed(c, now),
             status' = [c \in Bookings |-> IF c \in B THEN "EXPIRED" ELSE status[c]]
      PROVE  ReviewIsTimed(b)'
  <2>1. LatestStatus(b)' = LatestStatus(b)
    BY <1>8 DEF LatestStatus
  <2>2. status'[b] = "EXPIRED" =>
          status[b] = "EXPIRED" \/ (expires_at[b] # None /\ expires_at[b] <= now)
    BY <1>8 DEF Lapsed
  <2>3. QED
    BY <1>0, <1>8, <2>1, <2>2, TimedKept
<1>9. ASSUME NEW c \in Bookings, ConfirmBooking(c) PROVE ReviewIsTimed(b)'
  <2>1. UNCHANGED <<now, channel, expires_at, paymentVars>>
    BY <1>9 DEF ConfirmBooking
  <2>2. CASE Lapsed(c, now)
    BY <1>8, <1>9, <2>1, <2>2 DEF ConfirmBooking, Expire
  <2>3. CASE ~Lapsed(c, now)
    <3>1. status'[b] \in {status[b], "CONFIRMED"}
      BY <1>0, <1>9, <2>3 DEF ConfirmBooking, Confirm, TypeOK
    <3>2. LatestStatus(b)' = LatestStatus(b)
      BY <2>1 DEF LatestStatus
    <3>3. QED
      BY <1>0, <2>1, <3>1, <3>2, TimedKept
  <2>4. QED
    BY <2>2, <2>3
<1>10. ASSUME NEW c \in Bookings, ExpireBooking(c) PROVE ReviewIsTimed(b)'
  BY <1>8, <1>10 DEF ExpireBooking, Expire
<1>11. ASSUME NEW t \in Trips, ReadAvailability(t) PROVE ReviewIsTimed(b)'
  BY <1>8, <1>11 DEF ReadAvailability, Expire, LapsedOn
<1>12. QED
  BY <1>1, <1>2, <1>3, <1>4, <1>5, <1>6, <1>7, <1>9, <1>10, <1>11 DEF AllServices, Next, Sale

\* The buttons of an online booking.
LEMMA OnlineButtons ==
  ASSUME PagesInv, NEW b \in Bookings, channel[b] = "ONLINE"
  PROVE  /\ \A p \in Page : Redirect(b, Landing(b, p)) = Landing(b, p)
         /\ StartOffered(b) => MayInitiate(b, now)
         /\ UploadOffered(b) <=> \E i \in Attempts : MayUpload(b, i, now)
         /\ MayInitiate(b, now) /\ LatestStatus(b) # "REJECTED" =>
              Landing(b, SummaryLeads(b)) = "payment"
         /\ UploadOffered(b) => Landing(b, SummaryLeads(b)) = "transfer"
         /\ Landing(b, SummaryLeads(b)) = "summary" <=>
              /\ status[b] \notin {"HELD", "CONFIRMED"} \/ (status[b] = "HELD" /\ Lapsed(b, now))
              /\ ~HasPayment(b, {"AWAITING_VOUCHER", "UNDER_REVIEW"})
         /\ Banner(b) = "approved" <=> status[b] = "CONFIRMED"
         /\ Banner(b) = "review" => status[b] = "RELEASED" \/ (OnlineHold(b) /\ ~Lapsed(b, now))
<1> DEFINE L == LatestStatus(b)
           Open == {"AWAITING_VOUCHER", "UNDER_REVIEW"}
           Paging == HasPayment(b, Open)
<1>0. /\ TypeOK /\ BookingInv(b) /\ ReviewIsTimed(b) /\ now \in Int
      /\ attempts[b] \in Nat /\ (attempts[b] # 0 => attempts[b] \in Attempts)
      /\ attempts[b] = 0 => L = "NONE"
      /\ status[b] \in {"NONE", "HELD", "CONFIRMED", "EXPIRED", "RELEASED"}
  BY BookingInvParts, BoundsAssumption
  DEF PagesInv, IInv, TypeOK, BookingStatus, LatestStatus, Attempts
<1>1. /\ Paging <=> L \in Open
      /\ L = "APPROVED" => status[b] = "CONFIRMED"
      /\ status[b] = "CONFIRMED" => L \notin Open
      /\ HasPayment(b, ActivePayment) <=> L \in ActivePayment
  BY <1>0, LatestTells DEF BookingInv, ActivePayment
<1>2. status[b] = "HELD" =>
        /\ expires_at[b] # None /\ expires_at[b] \in Int
        /\ L = "AWAITING_VOUCHER" => expires_at[b] = proof_deadline[b][attempts[b]]
        /\ L = "UNDER_REVIEW" => expires_at[b] = review_deadline[b][attempts[b]]
  BY <1>0 DEF BookingInv, TypeOK, Deadline
<1>3. L = "UNDER_REVIEW" =>
        /\ review_deadline[b][attempts[b]] = expires_at[b]
        /\ expires_at[b] # None /\ expires_at[b] \in Int
        /\ status[b] = "EXPIRED" => expires_at[b] <= now
  BY <1>0 DEF ReviewIsTimed, TypeOK, Deadline
<1>4. SummaryLeads(b) = IF status[b] = "CONFIRMED" THEN "none"
                       ELSE IF L \in Open THEN "transfer" ELSE "payment"
  <2> DEFINE shown == {i \in 1 .. attempts[b] : payment[b][i] # "EXPIRED"}
  <2>1. CASE L \in Open
    <3>1. attempts[b] \in shown /\ (\A j \in shown : j <= attempts[b])
          /\ payment[b][attempts[b]] \in Open
      BY <1>0, <2>1 DEF LatestStatus
    <3>2. QED
      BY <2>1, <3>1 DEF SummaryLeads
  <2>2. CASE L \notin Open
    <3>1. \A i \in shown : payment[b][i] \notin Open
      BY <1>1, <2>2 DEF HasPayment
    <3>2. QED
      BY <2>2, <3>1 DEF SummaryLeads
  <2>3. QED
    BY <2>1, <2>2
<1> HIDE DEF L, Open, Paging
<1>5. /\ PaymentPage(b) = "summary" <=> status[b] # "HELD" \/ Lapsed(b, now)
      /\ PaymentPage(b) = "transfer" <=> ~(status[b] # "HELD" \/ Lapsed(b, now)) /\ L \in Open
      /\ PaymentPage(b) = "payment" <=> ~(status[b] # "HELD" \/ Lapsed(b, now)) /\ L \notin Open
      /\ PaymentPage(b) \in Page
  BY <1>1 DEF PaymentPage, Paging, Open, Page
<1>6. attempts[b] = 0 => L \notin Open
  BY <1>0 DEF Open
<1>7. ASSUME NEW p \in Page PROVE Redirect(b, Landing(b, p)) = Landing(b, p)
  BY <1>5, <1>6 DEF Landing, Redirect, TransferPage, Page
<1>8. StartOffered(b) => MayInitiate(b, now)
  BY <1>1, <1>5 DEF StartOffered, MayInitiate, OnlineHold, ActivePayment, Open
<1>9. UploadOffered(b) <=>
        status[b] = "HELD" /\ L = "AWAITING_VOUCHER" /\ ~(expires_at[b] <= now)
  BY <1>0, <1>2 DEF UploadOffered, TransferPage, Banner, PaymentExpired, L
<1>10. UploadOffered(b) <=> \E i \in Attempts : MayUpload(b, i, now)
  <2>1. \A i \in Attempts : Awaiting(b, i) => i = attempts[b] /\ L = "AWAITING_VOUCHER"
    BY <1>0 DEF Awaiting, BookingInv, ActivePayment, Attempts, LatestStatus, L
  <2>2. L = "AWAITING_VOUCHER" => attempts[b] \in Attempts /\ Awaiting(b, attempts[b])
    BY <1>0 DEF Awaiting, LatestStatus, L
  <2>3. QED
    BY <1>2, <1>9, <2>1, <2>2 DEF MayUpload, OnlineHold, ProofOver, Lapsed
<1>11. MayInitiate(b, now) /\ L # "REJECTED" => Landing(b, SummaryLeads(b)) = "payment"
  BY <1>1, <1>4, <1>5 DEF MayInitiate, OnlineHold, ActivePayment, Open, L, Landing, Redirect
<1>12. UploadOffered(b) => Landing(b, SummaryLeads(b)) = "transfer"
  BY <1>4, <1>6, <1>9 DEF Open, Landing, Redirect, TransferPage
<1>13. Banner(b) = "approved" <=> status[b] = "CONFIRMED"
  BY <1>1 DEF Banner, L, Open
<1>14. Banner(b) = "review" => status[b] = "RELEASED" \/ (OnlineHold(b) /\ ~Lapsed(b, now))
  <2> SUFFICES ASSUME Banner(b) = "review"
               PROVE  status[b] = "RELEASED" \/ (OnlineHold(b) /\ ~Lapsed(b, now))
    OBVIOUS
  <2>1. L = "UNDER_REVIEW" /\ ~PaymentExpired(b)
    BY DEF Banner, L
  <2>2. ~(expires_at[b] <= now)
    BY <1>3, <2>1 DEF PaymentExpired, L
  <2>3. status[b] \in {"HELD", "RELEASED"}
    BY <1>0, <1>1, <1>3, <2>1, <2>2 DEF BookingInv, Open
  <2>4. QED
    BY <2>2, <2>3 DEF OnlineHold, Lapsed
<1>15. Landing(b, SummaryLeads(b)) = "summary" <=>
         /\ status[b] \notin {"HELD", "CONFIRMED"} \/ (status[b] = "HELD" /\ Lapsed(b, now))
         /\ ~Paging
  <2>1. CASE status[b] = "CONFIRMED"
    BY <1>4, <2>1 DEF Landing, Redirect
  <2>2. CASE status[b] # "CONFIRMED" /\ L \in Open
    BY <1>1, <1>4, <1>6, <2>2 DEF Landing, Redirect, TransferPage, Paging, Open
  <2>3. CASE status[b] # "CONFIRMED" /\ L \notin Open
    <3>1. SummaryLeads(b) = "payment" /\ ~Paging
      BY <1>1, <1>4, <2>3
    <3>2. Landing(b, "payment") = "summary" <=> PaymentPage(b) = "summary"
      BY <1>5, <2>3 DEF Landing, Redirect
    <3>3. QED
      BY <1>0, <1>5, <2>3, <3>1, <3>2
  <2>4. QED
    BY <2>1, <2>2, <2>3
<1>16. QED
  BY <1>7, <1>8, <1>10, <1>11, <1>12, <1>13, <1>14, <1>15 DEF L, Paging, Open

\* Whatever services and clock do, the pages of a booking and the services agree as far as
\* ButtonsWork says, its one circle and the panel's idle forms included.
THEOREM ButtonsAlwaysWork == ServicesSpec => []ButtonsWork
<1>1. Init => \A b \in Bookings : ReviewIsTimed(b)
  BY DEF Init, ReviewIsTimed
<1>2. PagesInv /\ [AllServices]_vars /\ IInv' => PagesInv'
  BY NextTimed DEF PagesInv
<1>3. Init /\ IInv => PagesInv
  BY <1>1 DEF PagesInv
<1>4. PagesInv => ButtonsWork
  <2> SUFFICES ASSUME PagesInv, NEW b \in Bookings
               PROVE  CounterSale(b, now) <=>
                        CounterOffered(b) /\ channel[b] = "MANUAL" /\ TripsOpen(b)
    BY OnlineButtons DEF ButtonsWork
  <2>1. BookingInv(b)
    BY BookingInvParts DEF PagesInv, IInv
  <2>2. HasPayment(b, {"UNDER_REVIEW", "APPROVED"}) <=>
          HasPayment(b, {"UNDER_REVIEW"}) \/ HasPayment(b, {"APPROVED"})
    BY DEF HasPayment
  <2>3. QED
    BY <2>1, <2>2 DEF BookingInv, CounterSale, CounterOffered, Lapsed
<1>5. QED
  BY <1>2, <1>3, <1>4, Invariance, PTL DEF ServicesSpec

-----------------------------------------------------------------------------
(* The seats on offer. *)

\* One or two legs are a pair of legs, perhaps twice the same.
LEMMA PairOfLegs ==
  ASSUME NEW L, IsFiniteSet(L)
  PROVE  Cardinality(L) \in {1, 2} <=> \E t, u \in L : L = {t, u}
<1>1. ASSUME Cardinality(L) = 1 PROVE \E t, u \in L : L = {t, u}
  <2>1. PICK x : L = {x}
    BY <1>1, FS_Singleton
  <2>2. x \in L /\ L = {x, x}
    BY <2>1
  <2>3. QED
    BY <2>2
<1>2. ASSUME Cardinality(L) = 2 PROVE \E t, u \in L : L = {t, u}
  <2>1. PICK t \in L : TRUE
    BY <1>2, FS_EmptySet
  <2>2. IsFiniteSet(L \ {t}) /\ Cardinality(L \ {t}) = 1
    BY <1>2, <2>1, FS_RemoveElement
  <2>3. PICK u : L \ {t} = {u}
    BY <2>2, FS_Singleton
  <2>4. u \in L /\ L = {t, u}
    BY <2>1, <2>3
  <2>5. QED
    BY <2>1, <2>4
<1>3. ASSUME NEW t \in L, NEW u \in L, L = {t, u} PROVE Cardinality(L) \in {1, 2}
  <2>1. IsFiniteSet({t}) /\ Cardinality({t}) = 1
    BY FS_Singleton
  <2>2. CASE t = u
    <3>1. L = {t}
      BY <1>3, <2>2
    <3>2. QED
      BY <2>1, <3>1
  <2>3. CASE t # u
    <3>1. u \notin {t} /\ L = {t} \cup {u}
      BY <1>3, <2>3
    <3>2. Cardinality({t} \cup {u}) = 2
      BY <2>1, <3>1, FS_AddElement
    <3>3. QED
      BY <3>1, <3>2
  <2>4. QED
    BY <2>2, <2>3
<1>4. QED
  BY <1>1, <1>2, <1>3

\* What reads the rows without releasing anything sees the seats that the release would free.
LEMMA OccupiedIsTaken ==
  ASSUME TypeOK, SeatsFollowBooking, NEW S \in SUBSET Slots
  PROVE  Available(S, LapsedOn(Legs(S))) <=> \A s \in S : ~Occupied(s)
<1>1. ASSUME NEW s \in S, NEW b \in Bookings
      PROVE  b \in LapsedOn(Legs(S)) /\ assignment[b][s] \in {"HELD", "CONFIRMED"} =>
               assignment[b][s] = "HELD" /\ Lapsed(b, now)
  BY DEF SeatsFollowBooking, LapsedOn
<1>2. ASSUME NEW s \in S, NEW b \in Bookings, assignment[b][s] = "HELD", Lapsed(b, now)
      PROVE  b \in LapsedOn(Legs(S))
  <2>1. status[b] = "HELD"
    BY <1>2 DEF SeatsFollowBooking, TypeOK, BookingStatus
  <2>2. s = <<s[1], s[2]>> /\ s[1] \in Trips /\ s[2] \in Seats /\ s[1] \in Legs(S)
    BY DEF Slots, Legs
  <2>3. assignment[b][<<s[1], s[2]>>] # "NONE"
    BY <1>2, <2>2
  <2>4. s[1] \in TripsOf(b) \cap Legs(S)
    BY <2>2, <2>3 DEF TripsOf
  <2>5. QED
    BY <1>2, <2>1, <2>4 DEF LapsedOn
<1>3. \A b \in Bookings : Lapsed(b, now) <=> ~(expires_at[b] = None \/ expires_at[b] > now)
  BY DEF Lapsed, TypeOK, Deadline
<1>4. QED
  BY <1>1, <1>2, <1>3 DEF Available, Occupied

\* What is selected on the seat maps.
LEMMA SelectionIsFree ==
  ASSUME NEW S \in SUBSET Slots, NEW n \in 1 .. MaxPassengers, NEW t \in Trips, NEW u \in Trips
  PROVE  MaySelect(t, u, n, S) <=>
           Legs(S) = {t, u} /\ Seated(n, S) /\ \A s \in S : ~Occupied(s)
<1>1. \A s \in S : /\ s \in Slots /\ s = <<s[1], s[2]>> /\ s[1] \in Trips /\ s[2] \in Seats
                   /\ s[1] \in Legs(S)
  BY DEF Slots, Legs
<1>2. ASSUME MaySelect(t, u, n, S) PROVE \A s \in S : ~Occupied(s)
  BY <1>1, <1>2 DEF MaySelect, DeckMap, FreeSeats
<1>3. ASSUME Legs(S) = {t, u}, \A s \in S : ~Occupied(s) PROVE S \subseteq DeckMap({t, u})
  <2> SUFFICES ASSUME NEW s \in S PROVE s \in DeckMap({t, u})
    OBVIOUS
  <2>1. s \in Slots /\ s[1] \in {t, u} /\ s[2] \in Seats /\ ~Occupied(<<s[1], s[2]>>)
    BY <1>1, <1>3
  <2>2. QED
    BY <2>1 DEF DeckMap, FreeSeats
<1>4. QED
  BY <1>2, <1>3 DEF MaySelect

\* The seats of a selection are among the free ones of its trips.
LEMMA SelectionFits ==
  ASSUME NEW S \in SUBSET Slots, NEW n \in 1 .. MaxPassengers, \A s \in S : ~Occupied(s),
         NEW leg \in Legs(S), ~(Cardinality(SeatsOn(S, leg)) < n /\ Cardinality(FreeSeats(leg)) < n)
  PROVE  Cardinality(FreeSeats(leg)) >= n
<1>1. SeatsOn(S, leg) \subseteq FreeSeats(leg)
  <2> SUFFICES ASSUME NEW s \in S, s[1] = leg PROVE s[2] \in FreeSeats(leg)
    BY DEF SeatsOn
  <2>1. s = <<leg, s[2]>> /\ s[2] \in Seats /\ ~Occupied(s)
    BY DEF Slots
  <2>2. QED
    BY <2>1 DEF FreeSeats
<1>2. FreeSeats(leg) \subseteq Seats
  BY DEF FreeSeats
<1>3. IsFiniteSet(FreeSeats(leg)) /\ Cardinality(FreeSeats(leg)) \in Nat
  BY <1>2, PagesAssumption, FS_Subset, FS_CardinalityType
<1>4. /\ Cardinality(SeatsOn(S, leg)) \in Nat
      /\ Cardinality(SeatsOn(S, leg)) <= Cardinality(FreeSeats(leg))
  BY <1>1, <1>3, FS_Subset, FS_CardinalityType
<1>5. QED
  BY <1>3, <1>4

\* An itinerary of free seats for a party is a selection on two seat maps, or twice on the same.
LEMMA ItineraryIsSelection ==
  ASSUME NEW S \in SUBSET Slots, NEW n \in 1 .. MaxPassengers
  PROVE  Itinerary(S) /\ Seated(n, S) /\ (\A s \in S : ~Occupied(s)) <=>
           \E t, u \in Trips : InOrder(t, u) /\ MaySelect(t, u, n, S)
<1>1. Legs(S) \subseteq Trips /\ IsFiniteSet(Legs(S))
  <2>1. Legs(S) \subseteq Trips
    BY DEF Legs, Slots
  <2>2. QED
    BY <2>1, PagesAssumption, FS_Subset
<1>2. ASSUME Itinerary(S), Seated(n, S), \A s \in S : ~Occupied(s)
      PROVE  \E t, u \in Trips : InOrder(t, u) /\ MaySelect(t, u, n, S)
  <2>1. PICK t \in Legs(S), u \in Legs(S) : Legs(S) = {t, u}
    BY <1>1, <1>2, PairOfLegs DEF Itinerary
  <2>2. t \in Trips /\ u \in Trips
    BY <1>1, <2>1
  <2>3. MaySelect(t, u, n, S)
    BY <1>2, <2>1, <2>2, SelectionIsFree
  <2>4. Legs(S) = {u, t}
    BY <2>1
  <2>5. MaySelect(u, t, n, S)
    BY <1>2, <2>2, <2>4, SelectionIsFree
  <2>6. InOrder(t, u) \/ InOrder(u, t)
    BY <1>2, <2>1 DEF Itinerary, InOrder
  <2>7. QED
    BY <2>2, <2>3, <2>5, <2>6
<1>3. ASSUME NEW t \in Trips, NEW u \in Trips, InOrder(t, u), MaySelect(t, u, n, S)
      PROVE  Itinerary(S) /\ Seated(n, S) /\ \A s \in S : ~Occupied(s)
  <2>1. Legs(S) = {t, u} /\ Seated(n, S) /\ \A s \in S : ~Occupied(s)
    BY <1>3, SelectionIsFree
  <2>2. Cardinality(Legs(S)) \in {1, 2}
    <3>1. t \in Legs(S) /\ u \in Legs(S)
      BY <2>1
    <3>2. \E x, y \in Legs(S) : Legs(S) = {x, y}
      BY <2>1, <3>1
    <3>3. QED
      BY <1>1, <3>2, PairOfLegs
  <2>3. PICK m \in 1 .. n : \A leg \in Legs(S) : Cardinality(SeatsOn(S, leg)) = m
    BY <2>1 DEF Seated
  <2>4. m <= MaxPassengers
    BY BoundsAssumption
  <2>5. \A x, y \in Legs(S) : x # y => Arrival[x] < Departure[y] \/ Arrival[y] < Departure[x]
    BY <1>3, <2>1 DEF InOrder
  <2>6. QED
    BY <2>1, <2>2, <2>3, <2>4, <2>5 DEF Itinerary
<1>4. QED
  BY <1>2, <1>3

\* The search and the seat maps offer what create_booking takes, by the release it makes, and
\* nothing else; what they hide from a party has a leg with fewer free seats than people.
LEMMA PublicIsSold ==
  ASSUME TypeOK, SeatsFollowBooking, NEW S \in SUBSET Slots, NEW n \in 1 .. MaxPassengers
  PROVE  /\ PublicOffer(n, S) => MayBook("ONLINE", S) /\ Seated(n, S)
         /\ MayBook("ONLINE", S) /\ Seated(n, S) =>
              \/ PublicOffer(n, S)
              \/ \E t \in Legs(S) :
                   Cardinality(SeatsOn(S, t)) < n /\ Cardinality(FreeSeats(t)) < n
<1>1. \A t \in Trips :
        OnSale(t) <=> trip_status[t] = "SCHEDULED" /\ BeforeCutoff("ONLINE", t)
  BY TimesAssumption DEF OnSale, BeforeCutoff, TypeOK
<1>2. MayBook("ONLINE", S) <=>
        /\ Itinerary(S) /\ \A s \in S : ~Occupied(s)
        /\ \A t \in Legs(S) : trip_status[t] = "SCHEDULED" /\ BeforeCutoff("ONLINE", t)
  BY OccupiedIsTaken DEF MayBook
<1>3. \A t, u \in Trips : MaySelect(t, u, n, S) => Legs(S) = {t, u}
  BY SelectionIsFree
<1>4. ASSUME PublicOffer(n, S) PROVE MayBook("ONLINE", S) /\ Seated(n, S)
  <2>1. PICK trip \in SearchTrips(n) :
          Checkout(trip[1], trip[2]) /\ MaySelect(trip[1], trip[2], n, S)
    BY <1>4 DEF PublicOffer
  <2>2. PICK t \in Trips, u \in Trips : trip[1] = t /\ trip[2] = u
    BY DEF SearchTrips, FindAvailableTrips
  <2>3. OnSale(t) /\ OnSale(u) /\ InOrder(t, u) /\ MaySelect(t, u, n, S)
    BY <2>1, <2>2 DEF Checkout
  <2>4. Itinerary(S) /\ Seated(n, S) /\ \A s \in S : ~Occupied(s)
    BY <2>3, ItineraryIsSelection
  <2>5. Legs(S) = {t, u}
    BY <1>3, <2>3
  <2>6. \A x \in {t, u} : trip_status[x] = "SCHEDULED" /\ BeforeCutoff("ONLINE", x)
    BY <1>1, <2>3
  <2>7. QED
    BY <1>2, <2>4, <2>5, <2>6
<1>5. ASSUME MayBook("ONLINE", S), Seated(n, S),
             ~\E t \in Legs(S) : Cardinality(SeatsOn(S, t)) < n /\ Cardinality(FreeSeats(t)) < n
      PROVE  PublicOffer(n, S)
  <2>1. PICK t \in Trips, u \in Trips : InOrder(t, u) /\ MaySelect(t, u, n, S)
    BY <1>2, <1>5, ItineraryIsSelection
  <2>2. t \in Legs(S) /\ u \in Legs(S)
    BY <1>3, <2>1
  <2>3. OnSale(t) /\ OnSale(u)
    BY <1>1, <1>2, <1>5, <2>2
  <2>4. Cardinality(FreeSeats(t)) >= n /\ Cardinality(FreeSeats(u)) >= n
    BY <1>2, <1>5, <2>2, SelectionFits
  <2>5. PICK trip : trip = <<t, u>>
    OBVIOUS
  <2>6. /\ trip \in SearchTrips(n) /\ Checkout(trip[1], trip[2])
        /\ MaySelect(trip[1], trip[2], n, S)
    BY <2>1, <2>3, <2>4, <2>5 DEF Checkout, SearchTrips, FindAvailableTrips
  <2>7. QED
    BY <2>6 DEF PublicOffer
<1>6. QED
  BY <1>4, <1>5

\* The panel's form offers what create_booking takes at the counter, before its cutoff.
LEMMA PanelIsSold ==
  ASSUME TypeOK, SeatsFollowBooking, NEW S \in SUBSET Slots, NEW n \in 1 .. MaxPassengers
  PROVE  MayBook("MANUAL", S) /\ Seated(n, S) <=>
           PanelOffer(n, S) /\ \A t \in Legs(S) : BeforeCutoff("MANUAL", t)
<1>1. \A t \in Trips : BeforeCutoff("MANUAL", t) => Departure[t] > now
  BY TimesAssumption, PagesAssumption DEF BeforeCutoff, TypeOK
<1>2. MayBook("MANUAL", S) <=>
        /\ Itinerary(S) /\ \A s \in S : ~Occupied(s)
        /\ \A t \in Legs(S) : trip_status[t] = "SCHEDULED" /\ BeforeCutoff("MANUAL", t)
  BY OccupiedIsTaken DEF MayBook
<1>3. \A t, u \in Trips : MaySelect(t, u, n, S) => Legs(S) = {t, u}
  BY SelectionIsFree
<1>4. ASSUME PanelOffer(n, S), \A t \in Legs(S) : BeforeCutoff("MANUAL", t)
      PROVE  MayBook("MANUAL", S) /\ Seated(n, S)
  <2>1. PICK t \in EligibleTrips, u \in EligibleTrips : InOrder(t, u) /\ MaySelect(t, u, n, S)
    BY <1>4 DEF PanelOffer
  <2>2. /\ t \in Trips /\ u \in Trips
        /\ trip_status[t] = "SCHEDULED" /\ trip_status[u] = "SCHEDULED"
    BY DEF EligibleTrips
  <2>3. Itinerary(S) /\ Seated(n, S) /\ \A s \in S : ~Occupied(s)
    BY <2>1, <2>2, ItineraryIsSelection
  <2>4. QED
    BY <1>2, <1>3, <1>4, <2>1, <2>2, <2>3
<1>5. ASSUME MayBook("MANUAL", S), Seated(n, S) PROVE PanelOffer(n, S)
  <2>1. PICK t \in Trips, u \in Trips : InOrder(t, u) /\ MaySelect(t, u, n, S)
    BY <1>2, <1>5, ItineraryIsSelection
  <2>2. t \in EligibleTrips /\ u \in EligibleTrips
    BY <1>1, <1>2, <1>3, <1>5, <2>1 DEF EligibleTrips
  <2>3. QED
    BY <2>1, <2>2 DEF PanelOffer
<1>6. QED
  BY <1>2, <1>4, <1>5

\* Reading without locks and releasing nothing, the pages offer what is for sale, apart from what
\* the search hides from parties with an infant on a lap.
THEOREM OffersAreAlwaysSold == ServicesSpec => []OffersAreSold
<1>1. IInv => OffersAreSold
  BY PublicIsSold, PanelIsSold DEF IInv, SeatInv, OffersAreSold
<1>2. QED
  BY <1>1, Invariance, PTL
=============================================================================
