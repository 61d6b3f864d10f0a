# A formal model of SC Viajes

SC Viajes sells seats on long-distance buses: customers on a public site, sellers
at a counter panel, one maintenance worker behind both. It is a Django program on
PostgreSQL. This directory holds TLA+ modules translated from its source, the TLC
configurations that check them on small instances, and proofs for every value of
the constants.

- `tlc -config X.cfg MCReservations.tla`, `MCFulfillment.tla`, `MCNotifications.tla`
  or `MCPanel.tla` runs a check (the configurations are listed under *Runs*).
- `tlapm Reservations_proofs.tla`, `Inventory_proofs.tla`, `Fulfillment_proofs.tla`,
  `Notifications_proofs.tla`, `CashRegister_proofs.tla`, `TripScheduling_proofs.tla`,
  `Boarding_proofs.tla` and `Site_proofs.tla` check the proofs.
- `PROJECT.json` ties definitions to source lines, properties to runs and
  mutants, and lists the findings and the hazards.

## The system

| Component | Source | State it keeps | Operations |
|---|---|---|---|
| Reservations | `sales/services.py`, `sales/models.py` | Booking (status, channel, expires_at), BookingLeg, SeatAssignment (status) | create_booking, release_booking, confirm_booking, expire_booking, release_expired_bookings, get_trip_availability |
| Payments | `payments/services.py`, `payments/models.py` | Payment rows (status, proof and review deadlines) | register cash / transfer, initiate public transfer, upload voucher, review (approve, reject), expire |
| Maintenance worker | `operations/management/commands/` | none of its own: the list it selected | expire, payments, fulfillment, notifications, abuse, in that order, once a minute |
| Trip state machine | `panel/trip_services.py` | Trip.status | transition_trip, schedules, fares |
| Ticket fulfillment | `tickets/services.py`, `tickets/models.py` | TicketFulfillment (issue and e-mail status, lease, attempts), Ticket, TicketEmailAttempt, TicketSequence | enqueue, process, issue, send, reconcile, void |
| Boarding | `tickets/boarding.py` | BoardingRecord | validate_boarding, reverse_boarding |
| Notifications | `notifications/services.py` | TransactionalNotification (status, lease, attempts) | schedule, process |
| Cash register | `cash_register/` | CashSession, CashMovement | open, record sale, adjust, close, review |
| Trip scheduling | `operations/services.py` | Trip, TripStop | schedule_trip, update_trip_schedules |
| Configuration | `panel/services.py` | Bus, Seat | edit, activate |
| Customers | `customers/` | User, Customer, BookingClaimToken, CustomerBooking, CustomerConsent | register, log in (password, Google, Apple), reset, claim, associate |
| Staff | `panel/staff_services.py` | User, groups, StaffInvitation, StaffProfile | invite, accept, update |
| Abuse counters | `core/abuse.py` | AbuseCounter | consume, prune |
| Site and panel pages | `core/views.py`, `panel/*_views.py` | sessions | forms around the services |

How they interact. Every service is a function that opens one database
transaction, locks the rows it decides on (`SELECT ... FOR UPDATE`) and commits;
`ATOMIC_REQUESTS` is off, so nothing wider is atomic. Payments write the booking
and its seats in the transaction that changes the payment; the trip state machine
is read by the sale and by the payments at the counter; a confirmation creates the
fulfillment job in the same transaction and starts it in an `on_commit` callback;
every change of interest to the customer leaves a notification row in the same
transaction, which the worker sends later. The worker is one process (a PostgreSQL
advisory lock), which selects its candidates first and handles them one transaction
at a time, surviving the exceptions of each.

What is hard here. Requests read the clock *before* they wait for a lock. The
worker acts on lists that are seconds old. Four services extend, keep or ignore
the deadline of a hold, and five expire it, by rules that differ in whether a
rejected payment exempts it. Round trips must move both legs together. E-mails,
PDF files and leases cross transaction boundaries, where the process may die. The
pages decide without locks what to offer, by rules of their own. Accounts, owners
and counters are first looked for and then inserted, and nothing locks a row that
is not there yet.
`PROJECT.json` lists these hazards at their lines.

What makes each component correct:

- Reservations and payments: no seat sold twice; legs in step; paid if and only if
  confirmed; no sale undone, no dead booking revived; no hold expired before its
  deadline, and none kept for ever.
- Trip state machine: no counter sale after the start.
- Fulfillment: one set of tickets per booking, gapless numbers, files that stay; one
  e-mail; issued and sent in the end, whatever dies in between.
- Notifications: sent or given up in the end; SENT only of what was sent; no more
  messages than leases that ran out explain.
- Boarding: one active boarding per ticket, none of a void ticket, and a history that stays.
- Cash register: one open session per seller; the expected amount at closing counts
  every movement.
- Scheduling: no bus on two trips at once; hours and fares that no longer move once the
  trip has left; seats sold at what is in force.
- Pages: what they offer the services take, but for the panel's forms to charge; what they
  hide is named; they lead to the step that is due, and in a circle only from a booking that is over.
- Accounts: nobody is of the staff (is_staff) and a customer; no updates of staff that cross
  leave the panel without an administrator.
- Ownership: an online booking gets one owner at most, and the right one.
- Abuse counters: no more calls than the limit, whoever comes first.
- Lock order: no cycle of waiting transactions.

## Modules

| Module | What it is |
|---|---|
| `Reservations` | bookings, seats, payments, trips and the worker's `expire` and `payments` tasks |
| `SeatInventory` | the abstract promise about seats: owners and sold bookings |
| `MCReservations` | the instances of Reservations and Pages TLC checks: hours of the trips, symmetry |
| `Reservations_proofs` | the inductive invariant and the safety theorems |
| `Inventory_proofs` | Reservations implements SeatInventory, and the theorems about Pages |
| `Fulfillment` | the ticket job: lease, issuing, files, e-mail, retries, deaths |
| `Delivery` | the abstract promise about a booking's tickets |
| `MCFulfillment` | its instances: two bookings of two tickets and one |
| `Fulfillment_proofs` | the inductive invariant, the safety theorems, and that Fulfillment implements Delivery |
| `Notifications` | the outbox of e-mails: lists of the worker, lease, retries, deaths |
| `MCNotifications` | its instance: two messages |
| `Notifications_proofs` | the inductive invariant and the safety theorems |
| `CashRegister` | cash sessions and the cash payment that charges them, lock by lock |
| `CashBook` | the abstract promise of the cash register |
| `CashRegister_proofs` | the inductive invariant, the safety theorems, and that CashRegister implements CashBook |
| `TripScheduling` | hours, fares and status of the trips, lock by lock, while seats are sold |
| `Timetable` | the abstract promise about a bus's trips, their fares and sales |
| `TripScheduling_proofs` | the inductive invariant, the safety theorems, and that TripScheduling implements Timetable |
| `Boarding` | scanning, boarding and its reversal, lock by lock |
| `Manifest` | the abstract promise of the doors: who is aboard, and who was taken off |
| `Boarding_proofs` | the inductive invariant, the safety theorems, and that Boarding implements Manifest |
| `Pages` | what the site and the panel show and offer, as functions of the rows of Reservations |
| `Accounts` | users, customers and staff: registration, callbacks, invitations, roles |
| `Ownership` | whose an online booking is: association, claim codes, browser sessions |
| `AbuseCounters` | calls counted per window, and the deletion of old counters |
| `Panel` | CashRegister, TripScheduling, Boarding, Accounts, Ownership and AbuseCounters side by side |
| `Site_proofs` | the inductive invariants and the safety theorems of Accounts, Ownership and AbuseCounters; what holds of a module alone holds of it in Panel |
| `MCPanel` | the instance of Panel: two requests at once |

### Reservations

State and code:

| Variable | Code |
|---|---|
| `status`, `channel`, `expires_at` | the columns of Booking; `"NONE"` is a row not yet there, `None` is NULL |
| `assignment[b][<<t, s>>]` | status of the SeatAssignment of booking b for seat s of trip t |
| `attempts`, `payment[b][i]`, `proof_deadline`, `review_deadline` | the Payment rows of b in order of creation |
| `trip_status` | Trip.status; BOARDING and CANCELLED are never written by the code |
| `now` | the server clock |
| `sweep` | the run of the worker: task, candidates left, time it started |

Each action is one transaction: `CreateBooking`, `ReleaseBooking`,
`ConfirmBooking`, `ExpireBooking`, `ReadAvailability` (`sales/services.py`);
`RegisterCashPayment`, `RegisterTransferPayment`, `InitiateTransfer`,
`InitiateTooLate`, `UploadVoucher`, `UploadTooLate`, `ApproveTransfer`,
`ApproveTooLate`, `RejectTransfer` (`payments/services.py`, a service with two
outcomes split in two actions with complementary guards); `NextTask`, `NextRun`,
`SweepExpire`, `SweepPayment` (the worker); `TransitionTrip`. A call that is
refused changes nothing and is no step.

Choices that matter:

- *Clocks.* The payment services read the clock and then wait for the booking's
  row, so they act at `now` with a reading `t` up to `MaxWait` old. create_booking
  reads its clock again once it has the locks, so there the reading is `now`; its
  first, older release is contained in the second.
- *Opportunistic release.* create_booking first expires whatever has lapsed on its
  trips, in its own transaction: `CreateBooking` does both, and a refused booking
  does neither.
- *The worker* keeps a set of candidates that grow stale, drops what is left when
  its time is up, and starts again. A worker that dies loses its list and is the
  same as one that ran out of time. Every candidate is judged again under its lock.
- *NULL.* `_candidates` excludes by an annotation that is NULL for a booking
  without payments. `ExcludeKeepsNull` says what becomes of it: FALSE, what SQL
  does, leaves the booking out; TRUE, what the query means to say, keeps it. The
  proofs hold for both; the safety runs use TRUE, which gives the worker more to do.
- *Abstracted:* fares, priority seats and documents (they only refuse a booking, so the
  model books more), the people of a booking (create_booking counts its seats, and an infant
  on a lap has none: `Pages` has the people), whether a seller has an open cash session
  (left open: both outcomes happen), permissions, audit, notifications, tickets.
  The stops of a route are one pair of hours per trip, `Departure` and `Arrival`, so
  that a return trip has to leave after the outward one arrives.
- confirm_booking, expire_booking on its own and the mutating availability query
  are public services that nothing in the program calls, its tests apart. `ServicesSpec` adds
  them to `Spec`, the program as it runs: confirm_booking for a booking that nobody has
  tried to pay (as a booking confirmed beside an open transfer would be expired by its late
  approval). It asks for no payment, so `ConfirmedIffPaid` is about `Spec`.

### SeatInventory

`owner` gives the booking each slot belongs to and `sold` the confirmed bookings.
A booking claims all its slots in one step, possibly over the bodies of unsold
ones; some unsold bookings give all of theirs up; or one is sold. `Reservations!Inventory` maps owner to the
HELD or CONFIRMED assignment of the slot and sold to the CONFIRMED bookings.

### Fulfillment

A confirmed booking has one TicketFulfillment row. The web request that confirmed
it, the worker and the panel each run `process_booking_fulfillment`, which is four
transactions with file and mail operations between them, and each may die anywhere.

| Variable | Code |
|---|---|
| `status` | Booking.status, HELD or CONFIRMED |
| `issue_status`, `email_status` | the columns of TicketFulfillment; `"NONE"` is no row |
| `lease_until` | NULL, in the future (`"live"`) or in the past (`"lapsed"`) |
| `delayed` | next_attempt_at is in the future |
| `tickets`, `last_number` | the booking's Ticket rows (numbers, set of PDF files) and TicketSequence |
| `files`, `next_file` | the private storage; names are uuid4, never used twice |
| `pending`, `sent`, `failed` | the TicketEmailAttempt rows of the booking, by status |
| `accepted` | e-mails the mail server took without an error |
| `pc`, `booking`, `retry`, `first`, `file` | where a process stands, and what it has in memory |

`Confirm`, `Reconcile`, `PanelRetry` start a process. `ClaimJob` / `ClaimRefused` is
the first transaction; `FindTickets` or `LockBooking`, `AllocateNumbers`, `WriteFiles`,
`CommitTickets` are issue_tickets_for_booking, split at its row locks because the
numbers and the files are made before the commit; `RollBack` is its except branch;
`IssueSucceeded`, `IssueFailed`, `EmailSent`, `EmailFailed` write the job;
`ClaimAttempt` / `AttemptRefused`, `MailAccepted` / `MailRefused` / `ReadFails`,
`RecordSent` are send_booking_tickets. Between any two of them anyone acts, a lease
lapses, a delay ends, or the process dies (`Crash`).

Choices that matter:

- *Time* enters only through the lease and the delay, so a lease may lapse between
  any two steps: every slow process is a process whose lease is over.
- *Errors* are those of the renderer, the storage and the mail server. A connection to
  the database that fails is a death (`Crash`), except one that fails while COMMIT is
  acknowledged (see the hazards).
- *Mail.* An exception of `email.send` is taken to mean that the mail was not taken,
  as the code takes it. If a server takes a mail and then breaks the connection, the
  customer gets it twice; `OneMail` says nothing of that.
- *Reading a file* may fail after `storage.exists`: nothing catches it inside
  send_booking_tickets, so the attempt stays PENDING as after a death.
- *Left out:* VOID tickets (void_ticket has no caller), the attempts counter and error
  texts (nothing reads them), partial sets of files (one name stands for the set;
  leftovers are only space), the audit rows, and the second call of
  issue_tickets_for_booking inside send_booking_tickets, which finds the tickets.

`Delivery` has one variable, the stage of each booking: held, confirmed, issued,
delivered. A step advances one booking by one stage.

### Notifications

Rows are written in the transaction of the event they tell of (`Schedule`), and sent
later by the worker (`Select`, `Work`, `StopRun`) or a person in the panel (`Retry`).

| Variable | Code |
|---|---|
| `status`, `attempts` | the columns of TransactionalNotification; `"NONE"` is no row |
| `lease_until`, `delayed` | NULL, in the future or in the past; next_attempt_at in the future |
| `todo` | the candidates of a run of the worker not yet come to |
| `pc`, `row` | where a process stands in process_notification, and its row |
| `accepted`, `lapses` | what the outside saw: e-mails taken and leases run out, per row |

process_notification is the claim (`Claim`, in `Work` and `Retry`), the e-mail outside
any transaction (`MailAccepted` or `SendFailed`, which also writes FAILED), and
`RecordSent`. Between them a lease may lapse (`LeaseLapses`), the process may die
(`Crash`) and others may claim.

Choices that matter:

- *retry* is TRUE for both callers, so the tests of the delay and of the attempts inside
  process_notification never refuse; they only count in the worker's list.
- *Failure* is one action with the write of FAILED, though the two are a moment apart:
  all that others could do between them they can also do before the failure, with the
  lease they find. A template that fails is a failure of the mail. An exception is
  taken to mean that the mail was not taken, as in Fulfillment.
- *The on_commit update* sets next_attempt_at of a PENDING row to NULL, which it is.
- *Left out:* recipients, payloads and texts, the switch that turns the outbox off, and
  the filter by the booking's status, which names every status.

### CashRegister

Reservations takes a payment as one step, which the booking's lock justifies; here the
question is the locks themselves, so a request (`Desks`) is a transaction in pieces:
what it locks first (`BeginCashPayment`, `BeginAdjustment`, `BeginClose`, `BeginReview`),
what it reads or locks next (`ChargeSession`, `SumMovements`), and its `Commit...`, at
which its writes are seen. At any place it may be rolled back (`RollBackCash`): refused,
failed or disconnected.

| Variable | Code |
|---|---|
| `cash_status`, `opened_by`, `expected`, `reviewed_by` | the columns of CashSession; `"NONE"` is a row not yet there |
| `balance` | what the committed CashMovement rows of a session add up to |
| `charged`, `paid` | the CASH_SALE movements of a booking in each session; the bookings CONFIRMED by a cash payment |
| `session_lock`, `booking_lock` | who holds the row |
| `at`, `operator`, `cash`, `sale`, `amount` | where a request stands, and its rows |

Choices that matter:

- A request that waits for a lock is one whose step is not enabled, and it judges the row
  again when it gets it, as READ COMMITTED does.
- open_cash first locks the operator's open session, if there is one; its insertion then
  fails. Without one it holds nothing. Only the insertion (`InsertSession`) is a step,
  which the unique index makes wait for another insertion of the same operator.
- record_cash_sale looks for a movement with its key first; the payment is new in the
  same transaction, so there is none.
- *Left out:* the trips and the deadline of the booking (in Reservations), the operator's
  role, notes, reasons and the closing amount, which is compared with nothing.

### CashBook

The register as if every service ran alone: a drawer is opened, charged, adjusted, closed at
what it holds, and reviewed, each in one step. `CashRegister!Book` maps a drawer to the
session's columns, and `charged_in` to the session that has the movement of the booking. Each
`Commit...` is one of these steps and the rest are stutters, so the expected amount, read
before the commit, is the balance at the commit.

### TripScheduling

Written like CashRegister: a request (`Clerks`) is a transaction in pieces, which waits by
not being enabled, judges what it reads under the locks it has by then, and may be rolled
back anywhere (`RollBackTrip`), also as the victim of a deadlock.

| Variable | Code |
|---|---|
| `hour` | the server clock |
| `trip_status`, `leaves`, `arrives` | Trip.status, and scheduled_at of its first and last TripStop; `"NONE"` is a row not yet there |
| `fare`, `fare_active` | amount and is_active of its TripFare; 0 is no row |
| `leg` | the last BookingLeg committed: trip, price of its seat, departure_at |
| `coach_active` | Bus.is_active |
| `trip_lock`, `line_lock`, `coach_lock` | who holds the Trip, Route or Bus row |
| `place`, `trip`, `from`, `to`, `price`, `asked` | where a request stands, its rows and values, and the hour it read first |

create_panel_trip is `AskToCreate`, `LockLine`, `LockCoach`, `FindNoConflict`, `SaveTrip`;
save_trip_schedules is `AskToMove`, `LockForMove` and then the same; the fares are
`LockForFare`, `SaveFare`; create_booking is `LockForSale`, `ReadFare`, `CommitSale`;
transition_trip is `LockForStatus`, `SaveStatus`; set_configuration_active of a bus is
`SwitchCoach`, one row locked, read and written.

Choices that matter:

- *Hours.* The stops in between follow the first and the last in strict order, so overlaps
  depend on these two only. departure_at is always the hour of the first stop.
- *The clock.* A new trip reads it again at the end (`SaveTrip`), the fares after their lock
  (`SaveFare`), and save_trip_schedules only before its lock: `asked` is up to `MaxWait`
  old, and `HoursHold` says how late hours may then be moved.
- *Rows.* Trip.clean refuses another bus and nothing changes the route, so `LineOf` and
  `CoachOf` are constants. FOR UPDATE with select_related locks the joined Route and Bus as
  well. BOARDING and CANCELLED are never written by the program.
- *Left out:* whether the route is active (no page of the panel writes it), seats, the stops'
  row locks, categories (one fare stands for them), audit, and of create_booking whatever is
  in Reservations. A status is asked for as the row is locked, which is when it is tested.

### Timetable

A trip gets its hours in one step, if its bus is in service (a new trip) and free at that time; a
fare is set before the departure; a leg is sold at the fare and the hours of that moment; a
trip moves on. `TripScheduling!Table` maps its `fare` to what a trip can be sold at
(`FareOnSale`, 0 for none or one that is not active). `Patience`, mapped to `MaxWait`, is all
that is left of the clock that save_trip_schedules reads too early: a trip may be moved that
long after its departure, and no longer.

### Boarding

| Variable | Code |
|---|---|
| `ticket_status`, `trip_state` | Ticket.status, Trip.status |
| `record_status`, `record_of`, `boarded_by`, `reversed_by` | the columns of BoardingRecord; `"NONE"` is a row not yet there |
| `ticket_lock`, `record_lock` | who holds the row |
| `stage`, `scanned`, `record`, `person`, `seen_state` | where a request at a door stands, its rows, its user, and the trip's status it read |

validate_boarding is `Scan` (the trip, outside the transaction), `FindTicket` (the ticket
under its lock and the tests) and `RegisterBoarding` (the insertion); reverse_boarding is
`BeginReversal` and `ReverseBoarding`; void_ticket and transition_trip are one step each
(`VoidTicket`, `MoveOn`), since each locks, reads and writes a single row. `Refuse` is every
outcome but VALID, and every failure.

Left out: what is scanned and how it is parsed, a ticket of another trip (refused), and the
status of booking and seat, which no service takes back once they are confirmed
(`OutcomeStands`). void_ticket has no caller in the program; it is a public service, and
the door has a test for it, so it is in the model.

### Manifest

Who boarded a ticket that is aboard (`aboard`), the voided tickets, and the boardings that
were taken back, with both people (`log`, which only grows). `Boarding!Passengers` maps `aboard`
to the author of the ticket's ACTIVE record, and `log` to the REVERSED ones. The commit of a
boarding is a `Board`, which asks that the ticket is not void *then*, and of a reversal a `TakeBack`.

### Pages

A page locks nothing and writes nothing, so it needs no variables: `Pages` extends
Reservations with what each page computes from the rows, and its two properties compare
that with the guards of the actions its forms call (`MayBook`, `MayInitiate`, `MayUpload`,
`CounterSale`), which Reservations names for it.

| Definitions | Code |
|---|---|
| `Occupied`, `FreeSeats` | get_trip_availability(mutate=False): by the clock, a lapsed hold does not count |
| `OnSale`, `FindAvailableTrips`, `SearchTrips`, `Checkout`, `DeckMap`, `MaySelect`, `PublicOffer` | search_trips, checkout_view, create_public_booking |
| `Seated` | required_seat_count: how many seats a party of n may need, whose infants on a lap need none |
| `EligibleTrips`, `PanelOffer`, `CounterOffered` | booking_create and booking_detail of the panel |
| `PaymentPage`, `TransferPage`, `Banner` | payment_pending, pantalla_transferencia: the page or where it redirects to |
| `SummaryLeads` | booking_summary: where its payment button leads, which a confirmed booking has not |

Choices that matter:

- A page and the service it leads to are compared at one instant. Whatever happens between
  the two is the service's to refuse; that it does is what the properties of Reservations say.
- The search asks for as many free seats as there are *people* (core/views.py:188); the form and
  create_booking count those who need one. `OffersAreSold` says that what is offered is sold, and that
  what is sold is offered but to a party with fewer seats than people, on a trip with fewer
  free seats than people: an adult with an infant never sees the last seat.
- The panel's form counts no people, and lists every trip that has not left, so in the last
  `ManualCutoff` minutes it shows seats that create_booking refuses; `OffersAreSold` says that this is
  its only difference. It needs a positive cutoff (`PagesAssumption`; 30 minutes by default).
- The panel's detail shows the forms for cash and a transfer for every hold without a transfer in
  review, of an online booking and of a trip that has started too. `ButtonsWork` says for every booking
  which of them a service takes: those of a manual one whose trips are open.
- The summary of a booking that is over (expired, released, or its deadline past) still has its
  button `Continuar al pago', which payment_pending sends back to the summary. `ButtonsWork`
  says exactly when: then, unless a payment was still open; the redirects themselves always end.
- A customer who cancels a booking under review still reads that its transfer is being
  reviewed; `ButtonsWork` leaves this case out, and says so.
- *Left out:* categories, fares and priority seats (as in Reservations), dates and stops, the
  session's token, without which every page of a booking answers 403, and texts.

### Accounts

All people are rows of Django's User, whose e-mail is not unique. A request (`Requests`)
first checks (`AskToJoin`, `AskToInvite`, `AskToManage`) and writes later, and READ COMMITTED
locks no row that is not there yet, so the checks may be over by then. What decides is the
constraint that is hit at the insertion: User.username, Customer.normalized_email,
StaffInvitation.normalized_email.

| Variable | Code |
|---|---|
| `created`, `address`, `username` | the User rows by primary key, their e-mail, what their username is made of |
| `is_staff`, `is_active`, `usable_password`, `role` | columns of User; its group |
| `profile` | the Customer of the user: with a password, Google or Apple, or none |
| `reset_links` | users who were mailed a link that still works |
| `invitation` | the StaffInvitation of an address: its role while it is open, `closed` once it is used or over |
| `request` | how far each request is, what it has read, whom it changes and whose rows it has locked |

`RegisterCustomer` is the rest of the transaction of register_customer. `CreateUser` and
`CreateCustomer` are the two commits of a callback, between which it may die or fail
(`GiveUpRequest`): the user stays. A reset of a password loads the user (`OpenReset`) and saves
every column of it later (`SaveReset`), is_active as it was loaded, over what an update of staff has
written meanwhile.

`InviteStaff` and `AcceptInvitation` are the transactions of staff_services. update_staff is three
steps: it reads its permission (`AskToManage`), locks the rows of the active administrators and of
its user and counts the others (`LockAdministrators`), and tests and writes (`UpdateStaff`); another
transaction that wants one of those rows waits. It takes the id of *any* user: it may give a role to a
customer's, or promote and activate one who has not accepted an invitation yet. An acceptance sets
the role it was invited for, whatever the user's is by then, and locks the administrators only to make
one. Whoever may log in may manage with the role of an administrator: with a password, or with the
session that a customer of Google or Apple has (`MayManage`).

Two users with one address do come about (an invitation and a callback of Apple, whose usernames
differ); then accept_invitation fails on `.get()`, and that it does not take the first of them
(`Invited`) is what `StaffApart` rests on. `AdministratorKept` is an action property: the last active
administrator goes only in the two ways that count nobody, an acceptance as Vendedor of somebody
promoted before it and a reset that saves a user it loaded inactive; both are reached. *Left out:*
superusers, whom update_staff refuses, and the order in which one statement locks several rows.

### Ownership

| Variable | Code |
|---|---|
| `session`, `cart` | the user of a browser's session and its active_held_booking_id |
| `maker`, `owner` | who made an online booking; CustomerBooking.customer |
| `code`, `claimed_by` | the BookingClaimToken: its state, its claimed_by |
| `task` | the association or claim that a browser's request is about to insert |

A request tests that the booking has no owner and inserts later (`AssociateBooking`,
`CommitClaim`); in between, others act, and the unique constraint makes the second insertion
fail (`Fail`). login() keeps what a guest's session holds and flushes what was somebody
else's (`CartAfter`), which is why a booking whose association failed does not pass to the
next customer of a shared browser. create_booking_claim_token is only called for a booking
just made, so its update_or_create never overwrites a code.

### AbuseCounters

One client, one endpoint. `counter[w]` is the row of the window that starts at w (0: no row),
`held_by` its lock, `granted` what was allowed; a call is `Consume` (it reads the clock once),
`LockRow` or `FindNoRow`, and then `Increment`, `CreateRow`, `Collide` (the unique constraint;
tried again once) or `Deny`. `Prune` deletes a row of a window that is over for `Retention`.
`AbuseAssumption` asks that the retention is no shorter than a window and the longest call:
the defaults are a day against minutes, though production_preflight only asks for a positive number, and a
counter deleted within its window would start again from nothing.

## Runs

On `MCReservations`, times are abstract units: a unit stands for the smallest
difference that matters, so a window of 1 can be met or missed.

| Run | Instance | What it shows |
|---|---|---|
| `Reservations` | 2 bookings, 1 trip, 1 seat, 2 attempts each, clock 0..4, review window 3, readings 1 unit old; bookings symmetric | the safety invariants and action properties but those of round trips, and that pages and services agree; 2.9 million states |
| `RoundTrip` | `ServicesSpec` (every service and the worker), 2 bookings, 2 trips of which the second returns after the first, 1 seat each, parties of 1 or 2, 1 attempt, clock 0..3, cutoffs 3 (online) and 2 (counter) before departures at 4 and 6 | both legs in step, what is offered is sold and what is hidden is an infant's, and the refinement of SeatInventory; 680 thousand states |
| `Worker` | as Reservations with exact clocks, clock 0..3, ExcludeKeepsNull FALSE | an expired transfer is eventually freed |
| `RejectedHoldIsKept` | as Reservations | violated: finding 1 |
| `StartedTripBlocksSales` | as Reservations | violated: finding 2 |
| `UnpaidHoldsAreFreed` | as Worker | violated: finding 3 |
| `RejectedMayRetry` | as Reservations | violated: finding 5 |
| `Fulfillment` | `MCFulfillment`: 2 bookings of 2 and 1 tickets, web request and panel, 1 error, 2 deaths | the safety properties and the refinement of Delivery, 1.9 million states |
| `Recovery` | 1 booking, web request and worker, 2 errors, 2 deaths | tickets issued and mailed in the end, unless an attempt is abandoned; the outcome recorded |
| `PendingIsRecovered` | 1 booking, 1 death, no error | violated: finding 4 |
| `Notifications` | `MCNotifications`: 2 messages, worker and panel, 2 attempts, 2 errors, 1 death | repeats explained by lapses, SENT true, every message settles, 240 thousand states |
| `Panel` | `MCPanel`: 2 requests; 2 operators, sessions and bookings, adjustments of 1, balance within 2; 2 trips of one bus on two routes, hours 0..3, clock 0..2, waits of 2, one amount; 2 tickets of one trip, 2 people, 2 boardings; 2 addresses, 3 users; 2 browsers, customers and online bookings; 2 calls, limit 2, windows of 2, clock 0..5; requests and rows symmetric | books balance, one charge per booking, the cash book implemented; no overlap, the timetable implemented; one boarding per ticket, history stands, the manifest implemented; staff apart from customers, no crossing updates take the last administrator; owners stand; limits kept; 1.7 million states |

These six modules share no row, so `Panel` puts them side by side and one run checks them: a
behaviour follows one of them, chosen at its start, and leaves the variables of the others
alone. `PartsBehave` proves that a behaviour of Panel is one of each module, so that every theorem
about one holds here. Their type invariants are one, `PanelTypeOK`.

The run checks the three refinements in place of what they imply: that hours stay (`HoursHold`)
and legs are sold as published (`SoldAsPublished`), that closings and reviews stand
(`ReviewStands`), an operator has one open session (`OneOpenSession`) and void tickets do not
board (`VoidTicketsStayOut`). These, `NoCircleOfWaits` and `NoCircleAtTheRegister` hold on this
instance too, as `NothingForgotten` does on that of `Notifications` and `WorkerSeesLapsed` on
those of `Reservations` and `Worker`; they are proved and no configuration lists them, to keep
each run within minutes.

Why the bounds are enough. Two bookings and one seat give every conflict the code
can have over a seat (a conflict is between two bookings); a third booking only
repeats one. Two attempts give a rejection followed by a correction, the longest
history the deadline rules tell apart. Four units of time let a hold of one unit
lapse, its correction run its proof window and a review of three outlive both,
with room for a stale reading. Two trips make a round trip; the clock of `RoundTrip` passes both
cutoffs of the first and the online one of the second; a party of two with one seat free is one that
fits with an infant and one that does not without. `MaxAttempts`,
`MaxTime` and `MaxWait` are bounds of the model and nothing else depends on them;
`MaxBatch` is the worker's time limit.

For Fulfillment, two processes give every overlap of two stages on one booking, and
two bookings the contention for the sequence; the panel retries any confirmed booking
at any moment, so in the safety run it stands for the worker too. A second death lets
the process that takes over die as well; two errors fail issuing and then the mail, or
either twice. The theorems hold for any number of each.

For Notifications, two rows make a list that can age while its first entry is sent; two
failures use up the attempts of one row or one of each; a death leaves PROCESSING
behind, and a slow worker is one whose lease lapses. `MaxAttempts` is 5 in the program
and 2 here: the second attempt is already the last.

For CashRegister, the properties speak of two requests that meet on a row, and two sessions
let an operator close one and open another, or both operators have one. Sums of larger
amounts add nothing: the code only adds.

For TripScheduling, a conflict is between two trips of a bus and two requests, and on two routes
nothing but the bus keeps the requests apart; four hours let two trips overlap, follow each
other, and be moved past each other. A clock up to 2 with waits as long lets a request come in
time and save late, by one hour or two. With one amount a fare comes, is switched off and on
again: a sale at a fare that was read and is off by the commit is the case that matters, and one
whose amount has changed differs from it in nothing the code looks at (a second amount makes
seven times the states; the theorems have any number). For Boarding, two records let a ticket
board again after a reversal, or twice.

For Accounts, two requests give every crossing of a check and an insertion, of a count and a write, or
of a load and a save; two addresses and two new users let one address get two users, or each its
own, and a second administrator come about, who with the provisioned one can turn on the other at
once, or be one who has not accepted yet. For Ownership, two browsers
and two customers give every race for a booking, and one browser two customers in turn; a
second booking is one more to mix up. For AbuseCounters, a limit of 2 is passed by a third call;
six ticks are three windows, with time for the first to be pruned while a call is late.

Deadlock is checked, except in `Recovery`, `PendingIsRecovered`, `Notifications` and `Panel`:
when all is delivered, sent, closed, or boarded, nobody has anything left to do. In the other
runs the worker always has a next run, and the panel a next retry.

### Fairness

`FairSpec` adds `WF_vars(Sweep)`: the worker is a loop that survives the failure of
every candidate and every run, and is restarted by its platform. Nobody else is
fair: no customer has to pay, no seller to review, and time itself may stop.
`OpenTransfersAreFreed` therefore only promises for a hold that has lapsed by the
clock; it ends with the hold freed, renewed by a new attempt, or exempted by a
rejection. An administrator who approves a lapsed transfer frees it too.

Fulfillment's `FairSpec`: a process that has started goes on unless it dies
(`WF_vars(Proceed(p))`), leases lapse and delays end by themselves, and the worker
comes back to every candidate: strong fairness of `Reconcile` for each booking,
because a candidate may stop being one and become one again, or find the worker busy,
and each run goes through the whole list. The number of errors and deaths is bounded:
with a mail server that never works nothing is sent. There is no panel in the liveness
runs: a person who retries for ever against the worker can keep rewriting the status.

Notifications' `FairSpec`: a process that has claimed a row goes on unless it dies, time passes,
the worker keeps selecting and working, and some run gets to every row that is on list after
list (strong fairness of `Work`, for runs may be cut short: a run is 30 seconds, an e-mail 10 at
most, and a row that failed is delayed for 300, so that the others have their turn). This
assumes that the tasks before it leave the run some time, which the worker with all its tasks
would have to show (see the plan). Errors and deaths are bounded; the panel is not fair, and its
retries end by themselves, since each one ends SENT or costs a failure, a death or a lapse.

### Findings

1. **A rejected transfer does not keep its seat.** docs/PROJECT_SPEC.md:99 and a
   comment in the review service say that it does; the worker and the public
   transfer spare it; `release_expired_bookings`, which create_booking calls, does
   not look at payments. After the review window the next booking on the trip, for
   any seat, expires the hold.
2. **An online transfer can be approved after the trip has started.**
   docs/PROJECT_SPEC.md:90 and docs/ARCHITECTURE.md:66 exclude it; only manual
   bookings have their trips checked.
3. **The worker never expires a hold that nobody tried to pay**, for the NULL above.
   The seat is offered again all the same and the next booking on the trip expires
   the hold; what is missing is the status and its notification.

4. **A job whose e-mail attempt was cut short is never finished.** A process that dies
   between writing its PENDING attempt and its outcome leaves it PENDING; every retry,
   of the worker or the panel, finds it and gives up, while tickets/services.py:629 says
   that pending jobs are recovered. It is the price of `OneMail`: nobody knows whether
   that mail went out. `EventuallySent` shows that this is the only way a job gets stuck.
5. **A rejected transfer may be tried again, but not from its page.** docs/STATUS.md:25 and the page
   itself (templates/core/transfer_voucher.html:70) say that it may. The service accepts a new
   attempt at any time; `payment_pending`, where the button leads, goes by the deadline of the
   hold alone, and sends the customer to the summary once the review window is over.

Two observations about Fulfillment. The lease is renewed for the e-mail stage but only
looked at while issue_status is PROCESSING, so a second process may claim the job
meanwhile; the booking's lock and the PENDING attempt still allow one set of tickets
and one e-mail. If that second process dies, PROCESSING and SENT remain with a NULL
lease, which the worker does not select: only the status is wrong then.

Observations about Notifications. The panel tells its user of a SENT message that it will
not be repeated (panel/notification_views.py:16), and process_notification returns at
once for such a row. A sender that is slower than its lease, and then fails, writes
FAILED over the SENT of the one that took over, without asking whether the row is still
its own: the message goes out once more. `OneMailPerLease` says how far it can go, and
`Settles` that it comes to rest. `NOTIFICATIONS_MAX_ATTEMPTS` limits what the worker
selects, except a row left PROCESSING, and not the panel, so `attempts` may exceed it.

Observations about TripScheduling. Hours may be moved by a request that came before the
departure and got the row after it, because save_trip_schedules reads its clock first;
create_panel_trip takes care to read it again. And update_trip_schedules locks the Stop rows
of its trip in the order of the route, so that moving trips of opposite routes at once may
end in a deadlock, which PostgreSQL breaks by failing one request. Those rows are the only
ones that can be the cause: over trips, routes and buses nobody waits in a circle
(`NobodyWaitsInACircle`).

Observation about Boarding. A ticket scanned before its trip is completed may be boarded
after it, because the trip is read before the transaction and not locked. No document says
that it may not, and a completed trip is otherwise refused.

Observations about accounts. A callback that stops after create_user leaves a user without a
customer; every registration, callback or invitation for that address is then refused, and no
service removes the user. An invitation that expired is not replaced, because its address is
unique and has a user by then. Where two users have one address, the password of the second is
never asked for (customers/backends.py:18 takes the first). update_staff gives a role to any user, a
customer's too, though the panel's list never shows one. Its count of administrators
(staff_services.py:89-91) is passed by in two ways: somebody promoted to the last administrator before
accepting an invitation as Vendedor becomes one by accepting it (lines 69-73), and the confirmation of
a reset (customers/views.py:464) saves is_active as it loaded it, so that an activation in between is
undone. And update_staff locks administrators by key while accept_invitation locks its user first, so
that the two may end in a deadlock when that user is an administrator already; PostgreSQL breaks it
by failing one.

Observations about pages. A family with an infant on a lap is not shown a trip with one seat less than
people, though it needs no more (core/views.py:188). `Continuar al pago' on the summary of a booking
that is over leads back to the same summary. And the panel offers to charge online bookings, and
bookings of started trips, which the payment services refuse (panel/reservation_views.py:146).

Two observations about payments, for no document says otherwise: approving a
transfer too late turns a RELEASED booking into an EXPIRED one, and leaves its
payment UNDER_REVIEW; and payments of bookings that were released or expired by
create_booking stay AWAITING_VOUCHER or UNDER_REVIEW for good.

## Proofs

`Reservations_proofs` proves, for any sets of bookings, trips and seats and any
windows and bounds that satisfy the named assumptions, of `ServicesSpec`, or of `Spec` where the
table says so. `FewerServices` (Spec => ServicesSpec) carries the first over to the program as it runs.

| Theorem | Property |
|---|---|
| `TypeCorrect` | `TypeOK` |
| `SeatsNeverShared` | `SeatExclusive` |
| `SeatsInStep` | `SeatsFollowBooking` |
| `PaidIsConfirmed` | `ConfirmedIffPaid`, of `Spec` |
| `OneOpenAttempt` | `OneActivePayment` |
| `DeadlinesAgree` | `DeadlineFollowsPayment` |
| `OutcomesStand` | `OutcomeStands` |
| `HoldsLastUntilDeadline` | `NoEarlyExpiry` |
| `RejectedIsSpared` | `MaintenanceSparesRejected` |
| `CounterClosed` | `CounterClosesAtStart`, of `Spec` |
| `LapsedHoldsAreSeen` | `WorkerSeesLapsed` |
| `ServicesImplementInventory` (`Inventory_proofs`) | `ImplementsInventory` |
| `ButtonsAlwaysWork` (`Inventory_proofs`) | `ButtonsWork` |
| `OffersAreAlwaysSold` (`Inventory_proofs`) | `OffersAreSold` |

`Fulfillment_proofs` proves, for any bookings, processes, ticket counts and bounds:

| Theorem | Property |
|---|---|
| `TypeCorrect` | `TypeOK` |
| `NumbersInSequence` | `NumbersGapless` |
| `FilesStay` | `TicketsHaveFiles` |
| `MailedOnce` | `OneMail` |
| `SentSpeaksTrue` | `SentIsTrue` |
| `TicketsAreFinal` | `IssuedOnce` |
| `FulfillmentImplementsDelivery` | `KeepsPromise` |

`Notifications_proofs` proves, for any rows, processes and bounds:

| Theorem | Property |
|---|---|
| `TypeCorrect` | `TypeOK` |
| `SentSpeaksTrue` | `SentIsTrue` |
| `RepeatsArePaidFor` | `OneMailPerLease` |
| `NoMessageIsForgotten` | `NothingForgotten` |

`CashRegister_proofs` proves, for any desks, operators, sessions and amounts:

| Theorem | Property |
|---|---|
| `CashTypeCorrect` | `CashTypeOK` |
| `ExpectedIsTheBalance` | `ClosedBooksBalance` |
| `OneSessionEach` | `OneOpenSession` |
| `CashIsChargedOnce` | `ChargedOnce` |
| `ClosingsAndReviewsStand` | `ReviewStands` |
| `DesksKeepTheBook` | `ImplementsCashBook` |
| `NobodyWaitsAtTheRegister` | `NoCircleAtTheRegister` |

`TripScheduling_proofs` proves, for any clerks, trips, routes, buses, amounts and bounds:

| Theorem | Property |
|---|---|
| `TripTypeCorrect` | `TripTypeOK` |
| `BusesAreOnOneTrip` | `NoOverlap` |
| `HoursStand` | `HoursHold` |
| `LegsAreSoldAsPublished` | `SoldAsPublished` |
| `ClerksKeepTheTimetable` | `ImplementsTimetable` |
| `NobodyWaitsInACircle` | `NoCircleOfWaits` |

`Boarding_proofs` proves, for any doors, staff, tickets, trips and records:

| Theorem | Property |
|---|---|
| `BoardingTypeCorrect` | `BoardingTypeOK` |
| `TicketsBoardOnce` | `OneActiveBoarding` |
| `VoidTicketsDoNotBoard` | `VoidTicketsStayOut` |
| `BoardingHistoryStands` | `HistoryStands` |
| `DoorsKeepTheManifest` | `ImplementsManifest` |

`Site_proofs` proves, for any addresses, users, requests, browsers, customers, bookings, calls,
limits and windows that satisfy the assumptions below (and of Panel as a whole):

| Theorem | Property |
|---|---|
| `AccountsTyped` | `AccountsTypeOK` |
| `StaffStaysApart` | `StaffApart` |
| `AdministratorIsKept` | `AdministratorKept` |
| `OwnershipTyped` | `OwnershipTypeOK` |
| `OwnersAlwaysStand` | `OwnersStand` |
| `AbuseTyped` | `AbuseTypeOK` |
| `LimitIsKept` | `WithinLimit` |
| `PartsBehave` | Panel behaves like each of its modules |
| `PanelTypeCorrect` | `PanelTypeOK` |

### Reservations: the argument

The invariant `IInv` is the conjunction of `TypeOK`, what the
payments of a booking can be (`PaymentInv`), what its seats can be (`SeatInv`) and
`DeadlineFollowsPayment`. None of these is inductive alone: that a counter payment
finds no approved row needs that only a CONFIRMED booking has one, which needs that
an open payment is the latest, which needs that a HELD booking's guards saw all the
rows; and `NoEarlyExpiry` needs that a lapsed proof window is a lapsed booking,
which is `DeadlineFollowsPayment`. `PaymentInv` and `DeadlineFollowsPayment` speak
of one booking at a time, so a step is first classified by what it does to seats
(`SeatStep`: some bookings are released, one is confirmed, one is created on free
slots, or none changes) and then, per booking, by what it does to its payments.
`SeatExclusive` follows from the classification: the only step that gives a slot an
owner is a creation, guarded by `Available`.

Readings of the clock enter the proofs only through `t <= now`: a deadline that has
passed by an old clock has passed by the present one. This is why `MaxWait` may be
anything, but for `RejectedIsSpared`. There a booking on the worker's `expire` list had no
reviewed transfer when the list was made (`Candidates`), so if its latest one is under review or
rejected now, the voucher was uploaded since, with a clock at most `MaxWait` old, and its
deadline lies a `ReviewWindow` after that: beyond the last instant at which this run takes a
candidate, by `BatchAssumption` (`Fresh`, kept by every step together with `IInv`). At the
counter there is no deadline at all, by `DeadlineFollowsPayment`.

`ConfirmedIffPaid` needs a conjunct more, `PaidFor`, which confirm_booking breaks: `PaidInv` is
IInv with it, kept by every step of the program as it runs.

`LapsedHoldsAreSeen` follows from the invariant: the worker's second list asks whether a booking has
any open payment, the first what its latest one is, and by `PaymentInv` only the latest can be
open (`LatestTells`), so no lapsed hold falls between the two but the rejected ones and those of
finding 3. It is the safety half of `OpenTransfersAreFreed`.

For the refinement, each class of `SeatStep` is a step of SeatInventory: a release
with a creation is a `Claim`, a release a `GiveUp`, a confirmation a `Sell`. A release
of several bookings at once is a `GiveUp` of a set.

### Fulfillment: the argument

No process knows what the others do, so the invariant says for each place of the
program what is true of its booking (`RunInv`: who holds the booking's lock still finds
no tickets, who holds the sequence has the next number, who holds the PENDING attempt
knows that no mail was taken) and that these three holders are unique (`Exclusion`).
`FileInv` says that the file of a process in the middle of issuing belongs to no
tickets, so that its except branch takes nobody's; `MailInv` counts the attempts of a
booking: PENDING and SENT together are at most one, and a mail taken stays covered by
one of them, also after the death of its sender. Each conjunct needs the others:
`OneMail` needs that a PENDING attempt stands for at most one mail, which needs that
it has one holder, which needs that claiming it saw none. For the refinement only
`Confirm`, `CommitTickets` and `MailAccepted` change a stage (`ThreeActions`), and the
invariant says from which stage.

### Notifications: the argument

`OneMailPerLease` is not inductive: a process that is about to send says nothing about
it. `Budget` counts those too: the e-mails taken and the processes about to send are
together at most one for each lapse, and one more while the lease is live or the row is
SENT (`Allowance`). A claim takes that one, and only finds it free because it is refused
by SENT and by a live lease; an e-mail taken moves one from the second count to the
first; a lapse turns the one that is allowed into one for the lapse; a failure ends the
lease, with one sender less. `RunInv` says what a process that may write SENT knows of
its row. `OneMore` (a process more or less in a finite set) is all the counting there is.

`NothingForgotten` has one case that its own words do not keep: a row that waits for nothing must
be on the list, so a row nobody has tried is not delayed and has its attempts left
(`Untried`). It is the safety half of `Settles`, for any number of rows.

### CashRegister: the argument

As with fulfillment, the invariant says what each place of a request knows: a request
that has locked an open session finds it open at its commit, one that has summed it
finds the same balance (`SessionHeld`), one that has locked a booking finds it unpaid
(`BookingHeld`), and one that has inserted a session is the only one for its operator
(`Opening`, `OpeningsApart`). Two requests cannot hold a row, because the row names its
holder. An end (`End`) frees nobody else's rows (`EndSparesOthers`), so each commit only
has to be compared with the places of the others.

For CashBook a place must also tell what is about to be written: that an opening, an adjustment
and a charge carry an amount of their kind (`Asked`; `BookInv` is IInv with it), and that the session
with a booking's movement is one, so that the mapping's CHOOSE finds it (`ChargeFound`, from
`ChargedOnce`). No request waits in a circle because who holds a session waits for nothing
(`Served`): a payment locks its booking first and its session last, and nobody else locks two rows.

### TripScheduling: the argument

`TripInv` says of each place what its request may rely on. A request that moves a trip has
its lock, so the trip is still SCHEDULED and the hour it asked at is still before the
departure (`Moving`); one that creates a trip has a row that is nobody else's (`Creating`);
one that has looked for conflicts has the bus, and while it has it no trip of that bus gets
hours, so the answer still holds as it saves (`OnTheCoach`); a sale, a fare or a status has
the trip's lock (`WithTheTrip`), so that the fare read is the fare in force at the commit.
`NoOverlap` needs all of it: a bus is only locked by who saves, and `MaxWait` may be
anything, because the wait for a lock enters through `hour <= asked[c] + MaxWait` alone.

For Timetable each `Save...` and `CommitSale` is a step, and the invariant turns what was read
under locks into what is true at the commit: the fare and the hours of a sale, and that the bus is free. A
fare found at the sale is a positive amount, which is why `FareOnSale` may use 0 for none. For the
waits, `Holding` says of each place which rows its request may have: none before the
trip, none but the trip before the route, none of a bus before it has the route. A request
therefore only waits for one whose `Turn` is later, and a circle would be one whose turns grow all round.

### Boarding: the argument

`BoardingInv` adds to the type and to `OneActiveBoarding` what each stage holds
(`Standing`): the ticket of a request that has found it is locked by it and ISSUED, and the
record of one that is reversing is locked by it and ACTIVE. OneActiveBoarding itself rests
on the unique index, which `RegisterBoarding` asks for again; the two action properties rest
on the locks.

For Manifest, `Aboard` says that a ticket's author is that of its ACTIVE record, of which there is one at
most, so the CHOOSE of the mapping finds it; a record never changes but from ACTIVE to
REVERSED, and so the log only grows.

### Pages: the argument

Both are state predicates that follow from the inductive invariant of Reservations and one
conjunct more, `ReviewIsTimed` (`PagesInv` is the two together): while the latest payment of an
online booking is under review, the hold's deadline is the review's, whatever becomes of the
booking, and if the booking expired that deadline is over. With `PaymentInv` the latest payment
tells whether any is open (`LatestTells`), and with `DeadlineFollowsPayment` the clock of the
page, which looks at the payment, and that of the services, which look at the booking, agree. For
`OffersAreSold`, `Available` after the opportunistic release is the same set as `FreeSeats`
before it; what remains is to turn the counts of the form into those of create_booking, for one leg
and for two, and to find the leg with fewer free seats than people that hid a selection. In
`ButtonsWork` the summary leads back to itself exactly where `PaymentPage` is the summary and no
payment is open, and the panel's forms follow from `BookingInv` alone.

### Accounts, Ownership, AbuseCounters: the argument

`AccountsInv`: an open invitation has a user of the staff at its address (`InvitationsAwaitUsers`);
the user a callback is about to give a customer is not of the staff (`CallbacksHoldUsers`); a reset
knows whether its user was active (`ResetsLoaded`); and `LocksHeld`. `StaffApart` is a conjunct: accepting
an invitation needs that its address has one user only, and then it is the invited one, who was of
the staff already.

`LocksHeld` says what the rows that an update of staff has locked are worth: no two requests have one in
common, those of the administrators it counted are administrators still, and if it counted any beside its
user, one is there. Whatever is written meanwhile is written to a row it has not locked
(`LocksOutlive`), so an update that takes an administrator leaves the one it counted
(`UpdatesKeepAdministrator`). Of the other steps, only acceptances and resets take one, and
`AdministratorKept` names how (`AcceptancesAreSeen`, `ResetsAreSeen`).

`OwnershipInv`: a booking that was claimed is its claimer's, and one that a customer made has no
code and no other owner (`BookingOwned`); a browser remembers such a booking, and is about to
insert its owner, only for that customer (`BrowserOwns`), because logging out or in as another
flushes the session.

`AbuseInv`: a call in progress is not older than `MaxDelay` (`CallsAreRecent`), so its window's
row is too young to be pruned; who has the row has read its count (`CountsAreHeld`); and the
row of a window that a call can still reach tells how many were granted (`CountersTell`).

### Panel: the argument

A step of Panel is a step of one part and leaves the variables of the others, so of every
module it is a step or a stutter; with the initial states, a behaviour of Panel is one of each
(`PartsBehave`). `PanelTypeCorrect` then takes nothing but the six type theorems.

### Assumptions

Pages': finitely many trips and seats, and a positive cutoff at the counter. Accounts': a place
for the provisioned user, `Nowhere` is no address. Ownership's: a guest, the staff and NULL are
no customers. AbuseCounters': a limit and a window of at least one, and a retention of a window
and the longest call. TripScheduling's: every trip has a route and a bus, amounts are positive,
bounds are natural numbers, `NoClerk` is no clerk and `NoTrip` no trip. Boarding's: every ticket
has a trip, and `None` is no door, person, ticket or record. CashRegister's: a positive price,
integer amounts, `Nobody` is no user and no row. Notifications': a finite number of processes,
natural bounds, `None` is no row, and the worker is not the panel. Fulfillment's: bookings have
at least one ticket, bounds are natural numbers, `None` is no booking. Reservations': times and
bounds are natural numbers, trips have hours, NULL is no number and no booking, and
`BatchAssumption` (a maintenance run and a wait for a lock are shorter than a review window:
seconds against a day). TLC evaluates them on every run.

Only model-checked: the liveness properties `OpenTransfersAreFreed`, `EventuallySent`,
`OutcomeIsRecorded` and `Settles`, which need fairness and ENABLED, out of the prover's reach; and the
five runs that show a violation, whose counterexamples are what they say. All other properties of the
runs are theorems.

## Not modelled

`PROJECT.json` gives every component its reason. In short:

- Panel lists, reports, the inbox and the audit log only read. Rendering of PDF and QR codes is
  layout; backup, restore, export and preflight are operator tools around files.
- Prices, priority seats and documents are pure tests of one request that refuse it; of the rules
  about minors, only that an infant on a lap needs no seat is modelled, not who is one.
- In accounts: superusers, whom the services refuse to touch; state, nonce and tokens of Google and Apple
  (whoever gets past them is an action of Accounts); the end of other sessions of a user,
  which decides when a request begins and not what it may do; the consent log, which only grows.
- The row locks of every service as one order (`LockOrder`), but for those of TripScheduling and
  CashRegister, which are proved free of circles: a cycle costs one request, which
  PostgreSQL aborts, and the modules allow any request to be rolled back.
- The limit that the five tasks of a run of the worker share, and its advisory lock.

## Plan

Done: `Reservations` with `SeatInventory` and `Pages`, `Fulfillment` with `Delivery`,
`Notifications`, `CashRegister` with `CashBook`, `TripScheduling` with `Timetable`, `Boarding` with
`Manifest`, `Accounts`, `Ownership` and `AbuseCounters`, and `Panel`, each with its invariants and
refinements proved. Next, in this order:

1. The worker with all its tasks and its limit: does the limit starve the last task?
2. `LockOrder`: the rows of stops, and those of the services of Reservations and Fulfillment, in the
   order each service locks them.
3. An abstract specification of the outbox, and one of whose a booking is, that Notifications and
   Ownership implement.
4. Pure rules against a reference definition: the release date of priority seats, and which minors
   travel on whose lap.
