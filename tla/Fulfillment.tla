----------------------------- MODULE Fulfillment -----------------------------
(***************************************************************************)
(* Tickets of a confirmed booking: the durable TicketFulfillment job and   *)
(* the processes that work on it (tickets/services.py), from the web       *)
(* request that confirmed the payment, from the maintenance worker and     *)
(* from the panel.                                                         *)
(*                                                                         *)
(* One action is one committed transaction, one file operation or one      *)
(* e-mail; between two of them other processes act and the process may     *)
(* die.  The transaction that issues tickets is split where it takes its   *)
(* two row locks, since it numbers the tickets and writes their files      *)
(* before it commits.  Time enters only through what is compared with it:  *)
(* a lease is live until it lapses, a retry is delayed until it is not.    *)
(***************************************************************************)
EXTENDS Integers, FiniteSets

CONSTANTS
  Bookings,
  Web,          \* processes that confirm a payment and run its on_commit callback
  Workers,      \* the maintenance worker, reconcile_fulfillments
  Panel,        \* retries from the panel
  TicketCount,  \* legs x passengers of each booking
  MaxErrors,    \* bound: failures of the file storage, the renderer or the mail server
  MaxCrashes,   \* bound: processes that die
  None

Processes == Web \cup Workers \cup Panel

ASSUME CountsAssumption ==
  /\ TicketCount \in [Bookings -> Nat \ {0}]
  /\ MaxErrors \in Nat /\ MaxCrashes \in Nat

ASSUME NamesAssumption == None \notin Bookings

VARIABLES
  status,         \* Booking.status, HELD or CONFIRMED
  issue_status,   \* TicketFulfillment.issue_status; "NONE" is a job not yet there
  email_status,   \* TicketFulfillment.email_status
  lease_until,    \* NULL, in the future ("live") or in the past ("lapsed")
  delayed,        \* next_attempt_at is in the future
  tickets,        \* the booking's Ticket rows: their numbers and their set of PDF files
  last_number,    \* TicketSequence.last_number
  files,          \* sets of PDF files in the private storage
  next_file,      \* a name no set of files has had (uuid4)
  pending, sent,  \* how many TicketEmailAttempt rows of the booking are PENDING, SENT
  failed,         \* is one of them FAILED?
  accepted,       \* e-mails of the booking the mail server took without an error
  pc, booking, retry,  \* what a process is about to do, on what booking, with which retry=
  first, file,    \* the first number it allocated, the files it wrote
  errors, crashes

jobVars == <<issue_status, email_status, lease_until, delayed>>
ticketVars == <<tickets, last_number>>
fileVars == <<files, next_file>>
mailVars == <<pending, sent, failed, accepted>>
runVars == <<pc, booking, retry, first, file>>
faultVars == <<errors, crashes>>
vars == <<status, jobVars, ticketVars, fileVars, mailVars, runVars, faultVars>>

NoTickets == [numbers |-> {}, file |-> 0]

\* Inside the transaction of issue_tickets_for_booking: the Booking row is locked,
\* and from the allocation on the TicketSequence row too.
Issuing == {"locked", "numbered", "written"}
Numbering == {"numbered", "written"}
\* Between the PENDING attempt and the row that says how it ended.
Mailing == {"mailing", "accepted"}
Working ==
  {"issue", "issued", "issueFailed", "send", "mailed", "mailFailed"} \cup Issuing \cup Mailing

Init ==
  /\ status \in [Bookings -> {"HELD", "CONFIRMED"}]
  /\ issue_status = [b \in Bookings |-> "NONE"]
  /\ email_status = [b \in Bookings |-> "PENDING"]
  /\ lease_until = [b \in Bookings |-> "null"]
  /\ delayed = [b \in Bookings |-> FALSE]
  /\ tickets = [b \in Bookings |-> NoTickets] /\ last_number = 0
  /\ files = {} /\ next_file = 1
  /\ pending = [b \in Bookings |-> 0] /\ sent = [b \in Bookings |-> 0]
  /\ failed = [b \in Bookings |-> FALSE] /\ accepted = [b \in Bookings |-> 0]
  /\ pc = [p \in Processes |-> "idle"] /\ booking = [p \in Processes |-> None]
  /\ retry = [p \in Processes |-> FALSE]
  /\ first = [p \in Processes |-> 0] /\ file = [p \in Processes |-> 0]
  /\ errors = 0 /\ crashes = 0

-----------------------------------------------------------------------------
(* Who starts *)

Start(p, b, r) ==
  /\ pc[p] = "idle"
  /\ pc' = [pc EXCEPT ![p] = "claim"]
  /\ booking' = [booking EXCEPT ![p] = b]
  /\ retry' = [retry EXCEPT ![p] = r]
  /\ UNCHANGED <<first, file>>

\* TicketFulfillment.objects.get_or_create
GetOrCreate(b) ==
  issue_status' = [issue_status EXCEPT ![b] = IF @ = "NONE" THEN "PENDING" ELSE @]

\* The transaction that confirms the booking creates the job; its on_commit callback
\* processes it in the same request, without retry.
Confirm(p, b) ==
  /\ status[b] = "HELD"
  /\ status' = [status EXCEPT ![b] = "CONFIRMED"]
  /\ GetOrCreate(b)
  /\ Start(p, b, FALSE)
  /\ UNCHANGED <<email_status, lease_until, delayed, ticketVars, fileVars, mailVars,
                 faultVars>>

\* Mutant: jobs whose e-mail is missing or failed are not selected.
Candidate_NoEmail(b) ==
  /\ status[b] = "CONFIRMED"
  /\ \/ issue_status[b] \in {"NONE", "PENDING", "FAILED"}
     \/ issue_status[b] = "PROCESSING" /\ lease_until[b] = "lapsed"

\* What the worker and reconcile_fulfillments select.  The list grows stale before it is
\* handled, which changes nothing here: what is then claimed and is not a candidate is a
\* job in PROCESSING without a lease, as PanelRetry may claim it.
Candidate(b) ==
  /\ status[b] = "CONFIRMED"
  /\ \/ issue_status[b] \in {"NONE", "PENDING", "FAILED"}
     \/ email_status[b] \in {"PENDING", "FAILED"}
     \/ issue_status[b] = "PROCESSING" /\ lease_until[b] = "lapsed"

Reconcile(p, b) ==
  /\ Candidate(b)
  /\ GetOrCreate(b)
  /\ Start(p, b, TRUE)
  /\ UNCHANGED <<status, email_status, lease_until, delayed, ticketVars, fileVars, mailVars,
                 faultVars>>

\* fulfillment_reconcile and booking_fulfillment_retry: any confirmed booking.
PanelRetry(p, b) ==
  /\ status[b] = "CONFIRMED"
  /\ GetOrCreate(b)
  /\ Start(p, b, TRUE)
  /\ UNCHANGED <<status, email_status, lease_until, delayed, ticketVars, fileVars, mailVars,
                 faultVars>>

-----------------------------------------------------------------------------
(* The stages of process_booking_fulfillment *)

Goto(p, label) ==
  /\ pc' = [pc EXCEPT ![p] = label]
  /\ UNCHANGED <<booking, retry, first, file>>

\* The process returns, or dies: nothing it held in memory is left.
Stop(p) ==
  /\ pc' = [pc EXCEPT ![p] = "idle"]
  /\ booking' = [booking EXCEPT ![p] = None]
  /\ retry' = [retry EXCEPT ![p] = FALSE]
  /\ first' = [first EXCEPT ![p] = 0]
  /\ file' = [file EXCEPT ![p] = 0]

Finished(b) == issue_status[b] = "SUCCEEDED" /\ email_status[b] = "SENT"

\* Mutant: the lease of a job in PROCESSING never ends.
MayClaim_NoLapse(p) ==
  LET b == booking[p]
  IN  /\ retry[p] \/ ~delayed[b]
      /\ status[b] = "CONFIRMED"
      /\ ~Finished(b)
      /\ issue_status[b] # "PROCESSING"

MayClaim(p) ==
  LET b == booking[p]
  IN  /\ retry[p] \/ ~delayed[b]
      /\ status[b] = "CONFIRMED"
      /\ ~Finished(b)
      /\ issue_status[b] = "PROCESSING" => lease_until[b] # "live"

ClaimJob(p) ==
  LET b == booking[p]
  IN  /\ pc[p] = "claim" /\ MayClaim(p)
      /\ issue_status' = [issue_status EXCEPT ![b] = "PROCESSING"]
      /\ lease_until' = [lease_until EXCEPT ![b] = "live"]
      /\ delayed' = [delayed EXCEPT ![b] = FALSE]
      /\ Goto(p, "issue")
      /\ UNCHANGED <<status, email_status, ticketVars, fileVars, mailVars, faultVars>>

\* Too early, finished already, or somebody's live lease: returns or raises.
ClaimRefused(p) ==
  /\ pc[p] = "claim" /\ ~MayClaim(p)
  /\ Stop(p)
  /\ UNCHANGED <<status, jobVars, ticketVars, fileVars, mailVars, faultVars>>

IssueSucceeded(p) ==
  LET b == booking[p]
  IN  /\ pc[p] = "issued"
      /\ issue_status' = [issue_status EXCEPT ![b] = "SUCCEEDED"]
      /\ email_status' = [email_status EXCEPT ![b] = "PENDING"]
      /\ lease_until' = [lease_until EXCEPT ![b] = "live"]
      /\ Goto(p, "send")
      /\ UNCHANGED <<status, delayed, ticketVars, fileVars, mailVars, faultVars>>

IssueFailed(p) ==
  LET b == booking[p]
  IN  /\ pc[p] = "issueFailed"
      /\ issue_status' = [issue_status EXCEPT ![b] = "FAILED"]
      /\ lease_until' = [lease_until EXCEPT ![b] = "null"]
      /\ delayed' = [delayed EXCEPT ![b] = TRUE]
      /\ Stop(p)
      /\ UNCHANGED <<status, email_status, ticketVars, fileVars, mailVars, faultVars>>

EmailFailed(p) ==
  LET b == booking[p]
  IN  /\ pc[p] = "mailFailed"
      /\ email_status' = [email_status EXCEPT ![b] = "FAILED"]
      /\ lease_until' = [lease_until EXCEPT ![b] = "null"]
      /\ delayed' = [delayed EXCEPT ![b] = TRUE]
      /\ Stop(p)
      /\ UNCHANGED <<status, issue_status, ticketVars, fileVars, mailVars, faultVars>>

EmailSent(p) ==
  LET b == booking[p]
  IN  /\ pc[p] = "mailed"
      /\ email_status' = [email_status EXCEPT ![b] = "SENT"]
      /\ lease_until' = [lease_until EXCEPT ![b] = "null"]
      /\ delayed' = [delayed EXCEPT ![b] = FALSE]
      /\ Stop(p)
      /\ UNCHANGED <<status, issue_status, ticketVars, fileVars, mailVars, faultVars>>

-----------------------------------------------------------------------------
(* issue_tickets_for_booking *)

BookingLocked(b) == \E q \in Processes : pc[q] \in Issuing /\ booking[q] = b
SequenceLocked == \E q \in Processes : pc[q] \in Numbering

\* The tickets are there: they are returned as they are.
FindTickets(p) ==
  /\ pc[p] = "issue" /\ ~BookingLocked(booking[p])
  /\ tickets[booking[p]] # NoTickets
  /\ Goto(p, "issued")
  /\ UNCHANGED <<status, jobVars, ticketVars, fileVars, mailVars, faultVars>>

\* Mutant: the tickets are looked for without the booking's lock.
LockBooking_NoLock(p) ==
  /\ pc[p] = "issue"
  /\ tickets[booking[p]] = NoTickets
  /\ Goto(p, "locked")
  /\ UNCHANGED <<status, jobVars, ticketVars, fileVars, mailVars, faultVars>>

LockBooking(p) ==
  /\ pc[p] = "issue" /\ ~BookingLocked(booking[p])
  /\ tickets[booking[p]] = NoTickets
  /\ Goto(p, "locked")
  /\ UNCHANGED <<status, jobVars, ticketVars, fileVars, mailVars, faultVars>>

\* Mutant: the sequence is read without its lock.
AllocateNumbers_NoLock(p) ==
  /\ pc[p] = "locked"
  /\ first' = [first EXCEPT ![p] = last_number + 1]
  /\ pc' = [pc EXCEPT ![p] = "numbered"]
  /\ UNCHANGED <<booking, retry, file, status, jobVars, ticketVars, fileVars, mailVars, faultVars>>

\* The new last_number is not committed before the tickets are.
AllocateNumbers(p) ==
  /\ pc[p] = "locked" /\ ~SequenceLocked
  /\ first' = [first EXCEPT ![p] = last_number + 1]
  /\ pc' = [pc EXCEPT ![p] = "numbered"]
  /\ UNCHANGED <<booking, retry, file, status, jobVars, ticketVars, fileVars, mailVars, faultVars>>

WriteFiles(p) ==
  /\ pc[p] = "numbered"
  /\ files' = files \cup {next_file} /\ next_file' = next_file + 1
  /\ file' = [file EXCEPT ![p] = next_file]
  /\ pc' = [pc EXCEPT ![p] = "written"]
  /\ UNCHANGED <<booking, retry, first, status, jobVars, ticketVars, mailVars, faultVars>>

CommitTickets(p) ==
  LET b == booking[p]
      last == first[p] + TicketCount[b] - 1
  IN  /\ pc[p] = "written"
      /\ tickets' = [tickets EXCEPT ![b] = [numbers |-> first[p]..last, file |-> file[p]]]
      /\ last_number' = last
      /\ pc' = [pc EXCEPT ![p] = "issued"]
      /\ first' = [first EXCEPT ![p] = 0] /\ file' = [file EXCEPT ![p] = 0]
      /\ UNCHANGED <<booking, retry, status, jobVars, fileVars, mailVars, faultVars>>

\* Mutants: a failure deletes all the files of the booking, or its tickets.
RollBack_BookingFiles(p) ==
  /\ pc[p] \in Issuing \cup {"issue"}
  /\ errors < MaxErrors /\ errors' = errors + 1
  /\ files' = files \ {file[p], tickets[booking[p]].file}
  /\ pc' = [pc EXCEPT ![p] = "issueFailed"]
  /\ first' = [first EXCEPT ![p] = 0] /\ file' = [file EXCEPT ![p] = 0]
  /\ UNCHANGED <<booking, retry, next_file, crashes, status, jobVars, ticketVars, mailVars>>

RollBack_BookingTickets(p) ==
  /\ pc[p] \in Issuing \cup {"issue"}
  /\ errors < MaxErrors /\ errors' = errors + 1
  /\ files' = files \ {file[p]}
  /\ tickets' = [tickets EXCEPT ![booking[p]] = NoTickets]
  /\ pc' = [pc EXCEPT ![p] = "issueFailed"]
  /\ first' = [first EXCEPT ![p] = 0] /\ file' = [file EXCEPT ![p] = 0]
  /\ UNCHANGED <<booking, retry, next_file, crashes, status, jobVars, last_number, mailVars>>

\* Any exception: rollback, and the files written by this call are deleted, unless
\* deleting fails too, which is ignored.
RollBack(p) ==
  /\ pc[p] \in Issuing \cup {"issue"}
  /\ errors < MaxErrors /\ errors' = errors + 1
  /\ files' \in {files, files \ {file[p]}}
  /\ pc' = [pc EXCEPT ![p] = "issueFailed"]
  /\ first' = [first EXCEPT ![p] = 0] /\ file' = [file EXCEPT ![p] = 0]
  /\ UNCHANGED <<booking, retry, next_file, crashes, status, jobVars, ticketVars, mailVars>>

-----------------------------------------------------------------------------
(* send_booking_tickets; its first call, issue_tickets_for_booking, finds the tickets *)

\* Mutants: a second attempt while one is PENDING, or after one was SENT.
MayAttempt_Pending(p) ==
  LET b == booking[p] IN sent[b] = 0 /\ (failed[b] => retry[p])

MayAttempt_Sent(p) ==
  LET b == booking[p] IN pending[b] = 0 /\ (failed[b] => retry[p])

MayAttempt(p) ==
  LET b == booking[p] IN sent[b] = 0 /\ pending[b] = 0 /\ (failed[b] => retry[p])

ClaimAttempt(p) ==
  /\ pc[p] = "send" /\ MayAttempt(p)
  /\ pending' = [pending EXCEPT ![booking[p]] = @ + 1]
  /\ Goto(p, "mailing")
  /\ UNCHANGED <<status, jobVars, ticketVars, fileVars, sent, failed, accepted, faultVars>>

\* Mutant: somebody else's PENDING attempt counts as a success.
AttemptRefused_PendingIsSent(p) ==
  /\ pc[p] = "send" /\ ~MayAttempt(p)
  /\ Goto(p, IF sent[booking[p]] > 0 \/ pending[booking[p]] > 0 THEN "mailed" ELSE "mailFailed")
  /\ UNCHANGED <<status, jobVars, ticketVars, fileVars, mailVars, faultVars>>

\* A SENT attempt is returned as a success; a PENDING one leaves the job as it is; a
\* FAILED one is an error unless the caller asked for a retry.
AttemptRefused(p) ==
  /\ pc[p] = "send" /\ ~MayAttempt(p)
  /\ CASE sent[booking[p]] > 0 -> Goto(p, "mailed")
       [] sent[booking[p]] = 0 /\ pending[booking[p]] > 0 -> Stop(p)
       [] OTHER -> Goto(p, "mailFailed")
  /\ UNCHANGED <<status, jobVars, ticketVars, fileVars, mailVars, faultVars>>

MailAccepted(p) ==
  /\ pc[p] = "mailing" /\ tickets[booking[p]].file \in files
  /\ accepted' = [accepted EXCEPT ![booking[p]] = @ + 1]
  /\ Goto(p, "accepted")
  /\ UNCHANGED <<status, jobVars, ticketVars, fileVars, pending, sent, failed, faultVars>>

\* A file is missing, or the mail server raises: the attempt is FAILED.
MailRefused(p) ==
  LET b == booking[p]
  IN  /\ pc[p] = "mailing"
      /\ tickets[b].file \in files => errors < MaxErrors
      /\ errors' = IF tickets[b].file \in files THEN errors + 1 ELSE errors
      /\ pending' = [pending EXCEPT ![b] = @ - 1]
      /\ failed' = [failed EXCEPT ![b] = TRUE]
      /\ Goto(p, "mailFailed")
      /\ UNCHANGED <<status, jobVars, ticketVars, fileVars, sent, accepted, crashes>>

\* storage.open or read raises: no handler of send_booking_tickets is around it, so the
\* attempt stays PENDING.
ReadFails(p) ==
  /\ pc[p] = "mailing" /\ tickets[booking[p]].file \in files
  /\ errors < MaxErrors /\ errors' = errors + 1
  /\ Goto(p, "mailFailed")
  /\ UNCHANGED <<status, jobVars, ticketVars, fileVars, mailVars, crashes>>

RecordSent(p) ==
  LET b == booking[p]
  IN  /\ pc[p] = "accepted"
      /\ pending' = [pending EXCEPT ![b] = @ - 1]
      /\ sent' = [sent EXCEPT ![b] = @ + 1]
      /\ Goto(p, "mailed")
      /\ UNCHANGED <<status, jobVars, ticketVars, fileVars, failed, accepted, faultVars>>

-----------------------------------------------------------------------------
(* Time and failures *)

LeaseLapses(b) ==
  /\ lease_until[b] = "live"
  /\ lease_until' = [lease_until EXCEPT ![b] = "lapsed"]
  /\ UNCHANGED <<status, issue_status, email_status, delayed, ticketVars, fileVars, mailVars,
                 runVars, faultVars>>

DelayEnds(b) ==
  /\ delayed[b]
  /\ delayed' = [delayed EXCEPT ![b] = FALSE]
  /\ UNCHANGED <<status, issue_status, email_status, lease_until, ticketVars, fileVars, mailVars,
                 runVars, faultVars>>

\* The open transaction is rolled back by the database; files and attempts stay.
Crash(p) ==
  /\ pc[p] # "idle"
  /\ crashes < MaxCrashes /\ crashes' = crashes + 1
  /\ Stop(p)
  /\ UNCHANGED <<status, jobVars, ticketVars, fileVars, mailVars, errors>>

-----------------------------------------------------------------------------
\* What a process does once it has started, if nothing fails.
Proceed(p) ==
  \/ ClaimJob(p) \/ ClaimRefused(p)
  \/ FindTickets(p) \/ LockBooking(p) \/ AllocateNumbers(p) \/ WriteFiles(p) \/ CommitTickets(p)
  \/ IssueSucceeded(p) \/ IssueFailed(p)
  \/ ClaimAttempt(p) \/ AttemptRefused(p) \/ MailAccepted(p) \/ RecordSent(p)
  \/ EmailSent(p) \/ EmailFailed(p)

Fail(p) == RollBack(p) \/ MailRefused(p) \/ ReadFails(p) \/ Crash(p)

Begin(b) ==
  \/ \E p \in Web : Confirm(p, b)
  \/ \E p \in Workers : Reconcile(p, b)
  \/ \E p \in Panel : PanelRetry(p, b)

Pass(b) == LeaseLapses(b) \/ DelayEnds(b)

Next ==
  \/ \E p \in Processes : Proceed(p) \/ Fail(p)
  \/ \E b \in Bookings : Begin(b) \/ Pass(b)

Spec == Init /\ [][Next]_vars

\* A process that has started goes on until it dies, time passes, and the worker comes
\* to every candidate again and again.
FairSpec ==
  /\ Spec
  /\ \A p \in Processes : WF_vars(Proceed(p))
  /\ \A b \in Bookings : WF_vars(LeaseLapses(b)) /\ WF_vars(DelayEnds(b))
  /\ \A b \in Bookings : SF_vars(\E p \in Workers : Reconcile(p, b))

-----------------------------------------------------------------------------
(* Properties *)

JobTypeOK ==
  /\ status \in [Bookings -> {"HELD", "CONFIRMED"}]
  /\ issue_status \in [Bookings -> {"NONE", "PENDING", "PROCESSING", "SUCCEEDED", "FAILED"}]
  /\ email_status \in [Bookings -> {"PENDING", "SENT", "FAILED"}]
  /\ lease_until \in [Bookings -> {"null", "live", "lapsed"}]
  /\ delayed \in [Bookings -> BOOLEAN]
  /\ pending \in [Bookings -> 0..1] /\ sent \in [Bookings -> 0..1]
  /\ failed \in [Bookings -> BOOLEAN] /\ accepted \in [Bookings -> Nat]

TicketTypeOK ==
  /\ tickets \in [Bookings -> [numbers : SUBSET Nat, file : Nat]]
  /\ last_number \in Nat /\ next_file \in Nat \ {0} /\ files \subseteq Nat

RunTypeOK ==
  /\ pc \in [Processes -> {"idle", "claim"} \cup Working]
  /\ booking \in [Processes -> Bookings \cup {None}] /\ retry \in [Processes -> BOOLEAN]
  /\ first \in [Processes -> Nat] /\ file \in [Processes -> Nat]
  /\ errors \in Nat /\ crashes \in Nat

\* Every variable has its type; a booking never has a second PENDING or SENT e-mail
\* attempt (send_booking_tickets looks for them under the booking's lock).
TypeOK == JobTypeOK /\ TicketTypeOK /\ RunTypeOK

\* Ticket numbers are consecutive, without a gap and never given twice, whatever
\* fails between their allocation and the commit (TicketSequence).
NumbersGapless ==
  /\ UNION {tickets[b].numbers : b \in Bookings} = 1..last_number
  /\ \A b, c \in Bookings : b # c => tickets[b].numbers \cap tickets[c].numbers = {}

\* The PDF files of issued tickets are in the storage: a call that fails deletes what
\* it wrote and nothing else (the except branch of issue_tickets_for_booking).
TicketsHaveFiles ==
  \A b \in Bookings : tickets[b] # NoTickets => tickets[b].file \in files

\* The mail server takes at most one e-mail with a booking's tickets, whoever retries
\* and whoever dies (the PENDING attempt of send_booking_tickets).
OneMail == \A b \in Bookings : accepted[b] <= 1

\* A job that says SENT is about a booking whose tickets exist and were taken by the
\* mail server, and of which an attempt says so.
SentIsTrue ==
  \A b \in Bookings :
    email_status[b] = "SENT" => tickets[b] # NoTickets /\ sent[b] = 1 /\ accepted[b] = 1

Stage(b) ==
  IF accepted[b] > 0 THEN "delivered"
  ELSE IF tickets[b] # NoTickets THEN "issued"
  ELSE IF status[b] = "CONFIRMED" THEN "confirmed" ELSE "held"

Promise == INSTANCE Delivery WITH stage <- [b \in Bookings |-> Stage(b)]

\* Confirmed, issued, delivered, in this order and never back: issuing again, from a
\* retry or a second process, changes nothing.
KeepsPromise == Promise!Spec

\* Issued tickets are the same ones for ever: retries return them, and the unique
\* constraints on (leg, passenger) never have to refuse a second set.
IssuedOnce ==
  [][\A b \in Bookings : tickets[b] # NoTickets => tickets'[b] = tickets[b]]_vars

\* An e-mail that is recorded as sent ends as SENT in the job for good, although a
\* process that failed earlier may write FAILED over it.
OutcomeIsRecorded ==
  \A b \in Bookings : sent[b] = 1 ~> [](email_status[b] = "SENT")

\* A PENDING attempt whose process died, or could not read a file.
Abandoned(b) ==
  pending[b] = 1 /\ \A p \in Processes : pc[p] \in Mailing => booking[p] # b

\* Unless that happens, a confirmed booking gets its tickets and its e-mail (there is none
\* without them) and its job says so, whatever died or failed before.
EventuallySent ==
  \A b \in Bookings : status[b] = "CONFIRMED" ~> (email_status[b] = "SENT" \/ Abandoned(b))

\* tickets/services.py:629: pending jobs of confirmed bookings are recovered.
PendingIsRecovered ==
  \A b \in Bookings : status[b] = "CONFIRMED" ~> email_status[b] = "SENT"
=============================================================================
