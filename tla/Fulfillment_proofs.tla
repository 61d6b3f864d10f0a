-------------------------- MODULE Fulfillment_proofs --------------------------
(***************************************************************************)
(* What Fulfillment guarantees for any bookings, processes and failures.   *)
(***************************************************************************)
EXTENDS Fulfillment, TLAPS

\* Where a process stands says what is true of its booking.
RunInv ==
  \A p \in Processes :
    /\ pc[p] # "idle" => booking[p] \in Bookings /\ status[booking[p]] = "CONFIRMED"
    /\ pc[p] \in Issuing => tickets[booking[p]] = NoTickets
    /\ pc[p] \in Numbering => first[p] = last_number + 1
    /\ pc[p] \in {"issued", "send", "mailed"} \cup Mailing => tickets[booking[p]] # NoTickets
    /\ pc[p] = "mailing" => pending[booking[p]] = 1 /\ accepted[booking[p]] = 0
    /\ pc[p] = "accepted" => pending[booking[p]] = 1 /\ accepted[booking[p]] = 1
    /\ pc[p] = "mailed" => sent[booking[p]] = 1

\* The two row locks, and the PENDING attempt, each have one holder.
Exclusion ==
  \A p, q \in Processes : p # q =>
    /\ pc[p] \in Numbering => pc[q] \notin Numbering
    /\ pc[p] \in Issuing /\ pc[q] \in Issuing => booking[p] # booking[q]
    /\ pc[p] \in Mailing /\ pc[q] \in Mailing => booking[p] # booking[q]

\* Files of issued tickets are in the storage and in nobody's hands.
FileInv ==
  /\ \A f \in files : f # 0 /\ f < next_file
  /\ \A b \in Bookings : tickets[b] # NoTickets => tickets[b].file \in files
  /\ \A p \in Processes :
       /\ pc[p] = "written" => file[p] \in files
       /\ pc[p] # "written" => file[p] = 0
       /\ \A b \in Bookings : file[p] # 0 => file[p] # tickets[b].file

\* What the attempts of a booking say about its e-mail.
MailInv ==
  \A b \in Bookings :
    /\ pending[b] + sent[b] <= 1 /\ accepted[b] <= 1
    /\ sent[b] = 1 => accepted[b] = 1
    /\ accepted[b] = 1 => sent[b] + pending[b] = 1 /\ tickets[b] # NoTickets
    /\ tickets[b] # NoTickets => status[b] = "CONFIRMED"
    /\ email_status[b] = "SENT" => sent[b] = 1

IInv == TypeOK /\ RunInv /\ Exclusion /\ FileInv /\ MailInv /\ NumbersGapless

-----------------------------------------------------------------------------
\* A process that starts.
LEMMA BeginKeepsInv ==
  ASSUME IInv, NEW b \in Bookings, Begin(b)
  PROVE  IInv'
<1> USE DEF jobVars, ticketVars, fileVars, mailVars, runVars, faultVars, Processes,
       Issuing, Numbering, Mailing, Working, NoTickets
<1>0. TypeOK /\ RunInv /\ Exclusion /\ FileInv /\ MailInv /\ NumbersGapless
  BY DEF IInv
<1> USE <1>0
<1>1. ASSUME NEW p \in Web, Confirm(p, b)
      PROVE  IInv'
  <2>1. TypeOK' /\ Exclusion' /\ FileInv' /\ MailInv' /\ NumbersGapless'
    BY <1>1 DEF TypeOK, JobTypeOK, TicketTypeOK, RunTypeOK, Exclusion, FileInv, MailInv,
        NumbersGapless, Confirm, GetOrCreate, Start
  <2>2. RunInv'
    BY <1>1 DEF TypeOK, JobTypeOK, TicketTypeOK, RunTypeOK, RunInv, Confirm, GetOrCreate,
        Start
  <2>3. QED
    BY <2>1, <2>2 DEF IInv
<1>2. ASSUME NEW p \in Workers, Reconcile(p, b)
      PROVE  IInv'
  <2>1. TypeOK' /\ Exclusion' /\ FileInv' /\ MailInv' /\ NumbersGapless'
    BY <1>2 DEF TypeOK, JobTypeOK, TicketTypeOK, RunTypeOK, Exclusion, FileInv, MailInv,
        NumbersGapless, Reconcile, Candidate, GetOrCreate, Start
  <2>2. RunInv'
    BY <1>2 DEF TypeOK, JobTypeOK, TicketTypeOK, RunTypeOK, RunInv, Reconcile, Candidate,
        GetOrCreate, Start
  <2>3. QED
    BY <2>1, <2>2 DEF IInv
<1>3. ASSUME NEW p \in Panel, PanelRetry(p, b)
      PROVE  IInv'
  <2>1. TypeOK' /\ Exclusion' /\ FileInv' /\ MailInv' /\ NumbersGapless'
    BY <1>3 DEF TypeOK, JobTypeOK, TicketTypeOK, RunTypeOK, Exclusion, FileInv, MailInv,
        NumbersGapless, PanelRetry, GetOrCreate, Start
  <2>2. RunInv'
    BY <1>3 DEF TypeOK, JobTypeOK, TicketTypeOK, RunTypeOK, RunInv, PanelRetry, GetOrCreate,
        Start
  <2>3. QED
    BY <2>1, <2>2 DEF IInv
<1>4. QED
  BY <1>1, <1>2, <1>3 DEF Begin

\* The transactions that write the job.
LEMMA JobKeepsInv ==
  ASSUME IInv, NEW p \in Processes,
         ClaimJob(p) \/ ClaimRefused(p) \/ IssueSucceeded(p)
           \/ IssueFailed(p) \/ EmailFailed(p) \/ EmailSent(p)
  PROVE  IInv'
<1> USE DEF jobVars, ticketVars, fileVars, mailVars, runVars, faultVars, Processes,
       Issuing, Numbering, Mailing, Working, NoTickets
<1>0. TypeOK /\ RunInv /\ Exclusion /\ FileInv /\ MailInv /\ NumbersGapless
  BY DEF IInv
<1> USE <1>0
<1>1. ASSUME ClaimJob(p)
      PROVE  IInv'
  <2>1. TypeOK'
    BY <1>1 DEF TypeOK, JobTypeOK, TicketTypeOK, RunTypeOK, RunInv, ClaimJob, MayClaim, Goto
  <2>2. RunInv' /\ Exclusion' /\ FileInv' /\ MailInv' /\ NumbersGapless'
    BY <1>1 DEF RunInv, Exclusion, FileInv, MailInv, NumbersGapless, ClaimJob, MayClaim,
        Goto
  <2>3. QED
    BY <2>1, <2>2 DEF IInv
<1>2. ASSUME ClaimRefused(p)
      PROVE  IInv'
  <2>1. TypeOK' /\ Exclusion' /\ FileInv' /\ MailInv' /\ NumbersGapless'
    BY <1>2 DEF TypeOK, JobTypeOK, TicketTypeOK, RunTypeOK, Exclusion, FileInv, MailInv,
        NumbersGapless, ClaimRefused, Stop
  <2>2. RunInv'
    BY <1>2 DEF TypeOK, JobTypeOK, TicketTypeOK, RunTypeOK, RunInv, ClaimRefused, Stop
  <2>3. QED
    BY <2>1, <2>2 DEF IInv
<1>3. ASSUME IssueSucceeded(p)
      PROVE  IInv'
  <2>1. TypeOK'
    BY <1>3 DEF TypeOK, JobTypeOK, TicketTypeOK, RunTypeOK, RunInv, IssueSucceeded, Goto
  <2>2. RunInv' /\ Exclusion' /\ FileInv' /\ MailInv' /\ NumbersGapless'
    BY <1>3 DEF RunInv, Exclusion, FileInv, MailInv, NumbersGapless, IssueSucceeded, Goto
  <2>3. QED
    BY <2>1, <2>2 DEF IInv
<1>4. ASSUME IssueFailed(p)
      PROVE  IInv'
  <2>1. TypeOK'
    BY <1>4 DEF TypeOK, JobTypeOK, TicketTypeOK, RunTypeOK, RunInv, IssueFailed, Stop
  <2>2. Exclusion' /\ FileInv' /\ MailInv' /\ NumbersGapless'
    BY <1>4 DEF Exclusion, FileInv, MailInv, NumbersGapless, IssueFailed, Stop
  <2>3. RunInv'
    BY <1>4 DEF TypeOK, JobTypeOK, TicketTypeOK, RunTypeOK, RunInv, IssueFailed, Stop
  <2>4. QED
    BY <2>1, <2>2, <2>3 DEF IInv
<1>5. ASSUME EmailFailed(p)
      PROVE  IInv'
  <2>1. TypeOK'
    BY <1>5 DEF TypeOK, JobTypeOK, TicketTypeOK, RunTypeOK, RunInv, EmailFailed, Stop
  <2>2. Exclusion' /\ FileInv' /\ MailInv' /\ NumbersGapless'
    BY <1>5 DEF Exclusion, FileInv, MailInv, NumbersGapless, EmailFailed, Stop
  <2>3. RunInv'
    BY <1>5 DEF TypeOK, JobTypeOK, TicketTypeOK, RunTypeOK, RunInv, EmailFailed, Stop
  <2>4. QED
    BY <2>1, <2>2, <2>3 DEF IInv
<1>6. ASSUME EmailSent(p)
      PROVE  IInv'
  <2>1. TypeOK'
    BY <1>6 DEF TypeOK, JobTypeOK, TicketTypeOK, RunTypeOK, RunInv, EmailSent, Stop
  <2>2. Exclusion' /\ FileInv' /\ NumbersGapless'
    BY <1>6 DEF Exclusion, FileInv, NumbersGapless, EmailSent, Stop
  <2>3. RunInv'
    BY <1>6 DEF TypeOK, JobTypeOK, TicketTypeOK, RunTypeOK, RunInv, EmailSent, Stop
  <2>4. MailInv'
    BY <1>6 DEF RunInv, MailInv, EmailSent, Stop
  <2>5. QED
    BY <2>1, <2>2, <2>3, <2>4 DEF IInv
<1>7. QED
  BY <1>1, <1>2, <1>3, <1>4, <1>5, <1>6

\* The transaction that issues the tickets.
LEMMA IssueKeepsInv ==
  ASSUME IInv, NEW p \in Processes,
         FindTickets(p) \/ LockBooking(p) \/ AllocateNumbers(p)
           \/ WriteFiles(p) \/ CommitTickets(p)
  PROVE  IInv'
<1> USE DEF jobVars, ticketVars, fileVars, mailVars, runVars, faultVars, Processes,
       Issuing, Numbering, Mailing, Working, NoTickets
<1>0. TypeOK /\ RunInv /\ Exclusion /\ FileInv /\ MailInv /\ NumbersGapless
  BY DEF IInv
<1> USE <1>0
<1>1. ASSUME FindTickets(p)
      PROVE  IInv'
  <2>1. TypeOK' /\ RunInv' /\ Exclusion' /\ FileInv' /\ MailInv' /\ NumbersGapless'
    BY <1>1 DEF TypeOK, JobTypeOK, TicketTypeOK, RunTypeOK, RunInv, Exclusion, FileInv,
        MailInv, NumbersGapless, FindTickets, Goto, BookingLocked
  <2>2. QED
    BY <2>1 DEF IInv
<1>2. ASSUME LockBooking(p)
      PROVE  IInv'
  <2>1. TypeOK' /\ RunInv' /\ Exclusion' /\ FileInv' /\ MailInv' /\ NumbersGapless'
    BY <1>2 DEF TypeOK, JobTypeOK, TicketTypeOK, RunTypeOK, RunInv, Exclusion, FileInv,
        MailInv, NumbersGapless, LockBooking, Goto, BookingLocked
  <2>2. QED
    BY <2>1 DEF IInv
<1>3. ASSUME AllocateNumbers(p)
      PROVE  IInv'
  <2>1. TypeOK' /\ Exclusion' /\ FileInv' /\ MailInv' /\ NumbersGapless'
    BY <1>3 DEF TypeOK, JobTypeOK, TicketTypeOK, RunTypeOK, Exclusion, FileInv, MailInv,
        NumbersGapless, AllocateNumbers, SequenceLocked
  <2>2. RunInv'
    BY <1>3 DEF TypeOK, JobTypeOK, TicketTypeOK, RunTypeOK, RunInv, AllocateNumbers,
        SequenceLocked
  <2>3. QED
    BY <2>1, <2>2 DEF IInv
<1>4. ASSUME WriteFiles(p)
      PROVE  IInv'
  <2>1. TypeOK' /\ RunInv' /\ Exclusion' /\ MailInv' /\ NumbersGapless'
    BY <1>4 DEF TypeOK, JobTypeOK, TicketTypeOK, RunTypeOK, RunInv, Exclusion, MailInv,
        NumbersGapless, WriteFiles
  <2>2. FileInv'
    BY <1>4 DEF TypeOK, JobTypeOK, TicketTypeOK, RunTypeOK, FileInv, WriteFiles
  <2>3. QED
    BY <2>1, <2>2 DEF IInv
<1>5. ASSUME CommitTickets(p)
      PROVE  IInv'
  <2> DEFINE b == booking[p]
             last == first[p] + TicketCount[b] - 1
  <2>0. b \in Bookings /\ TicketCount[b] \in Nat \ {0} /\ first[p] = last_number + 1 /\ last \in Nat
    <3>1. b \in Bookings /\ first[p] = last_number + 1
      BY <1>5 DEF RunInv, CommitTickets
    <3>2. TicketCount[b] \in Nat \ {0}
      BY <3>1, CountsAssumption
    <3>3. QED
      BY <3>1, <3>2 DEF TypeOK, TicketTypeOK
  <2>1. TypeOK'
    <3>1. first[p]..last \in SUBSET Nat
      BY <2>0 DEF TypeOK, TicketTypeOK
    <3>2. [numbers |-> first[p]..last, file |-> file[p]] \in [numbers : SUBSET Nat, file : Nat]
      BY <3>1, <1>5 DEF TypeOK, RunTypeOK
    <3>3. TicketTypeOK'
      BY <1>5, <2>0, <3>2 DEF TypeOK, TicketTypeOK, CommitTickets
    <3>4. JobTypeOK' /\ RunTypeOK'
      BY <1>5 DEF TypeOK, JobTypeOK, RunTypeOK, CommitTickets
    <3>5. QED
      BY <3>3, <3>4 DEF TypeOK
  <2>2. Exclusion'
    BY <1>5 DEF Exclusion, CommitTickets
  <2>3. RunInv'
    BY <1>5 DEF TypeOK, JobTypeOK, TicketTypeOK, RunTypeOK, RunInv, Exclusion, FileInv,
        MailInv, CommitTickets
  <2>4. FileInv'
    <3>1. file[p] \in files /\ \A q \in Processes \ {p} : file[q] = 0
      BY <1>5 DEF FileInv, Exclusion, CommitTickets
    <3>2. \A c \in Bookings : c # b => tickets'[c] = tickets[c]
      BY <1>5 DEF CommitTickets, TypeOK, TicketTypeOK
    <3>3. tickets'[b].file = file[p]
      BY <1>5, <2>0 DEF CommitTickets, TypeOK, TicketTypeOK
    <3>4. \A q \in Processes : file'[q] = 0 /\ pc'[q] # "written"
      BY <1>5, <3>1 DEF CommitTickets, TypeOK, RunTypeOK, Exclusion
    <3>5. UNCHANGED <<files, next_file>>
      BY <1>5 DEF CommitTickets
    <3>6. QED
      BY <3>1, <3>2, <3>3, <3>4, <3>5 DEF FileInv
  <2>5. MailInv'
    BY <1>5 DEF RunInv, MailInv, CommitTickets
  <2>6. NumbersGapless'
    <3>1. tickets[b].numbers = {} /\ tickets'[b].numbers = last_number + 1..last
      BY <1>5, <2>0 DEF TypeOK, TicketTypeOK, RunInv, CommitTickets
    <3>2. \A c \in Bookings : c # b => tickets'[c] = tickets[c]
      BY <1>5 DEF CommitTickets, TypeOK, TicketTypeOK
    <3>3. last_number' = last /\ last_number \in Nat /\ last_number < last
      BY <1>5, <2>0 DEF CommitTickets, TypeOK, TicketTypeOK
    <3>4. ASSUME NEW n \in Nat
          PROVE  (\E c \in Bookings : n \in tickets'[c].numbers)
                   <=> (\E c \in Bookings : n \in tickets[c].numbers) \/ n \in last_number + 1..last
      BY <2>0, <3>1, <3>2
    <3>5. UNION {tickets[c].numbers : c \in Bookings} = 1..last_number
      BY DEF NumbersGapless
    <3>6. \A n \in Nat : (\E c \in Bookings : n \in tickets[c].numbers) <=> n \in 1..last_number
      BY <3>5
    <3>7. \A n \in Nat : (\E c \in Bookings : n \in tickets'[c].numbers) <=> n \in 1..last
      BY <3>3, <3>4, <3>6
    <3>8. \A c \in Bookings : tickets'[c].numbers \subseteq Nat
      BY <2>1 DEF TypeOK, TicketTypeOK
    <3>9. UNION {tickets'[c].numbers : c \in Bookings} = 1..last
      BY <2>0, <3>7, <3>8
    <3>10. \A c \in Bookings : tickets[c].numbers \subseteq 1..last_number
      BY <3>5
    <3>11. \A c \in Bookings : c # b => tickets'[c].numbers \cap tickets'[b].numbers = {}
      BY <2>0, <3>1, <3>2, <3>3, <3>10
    <3>12. \A c, d \in Bookings : c # d => tickets'[c].numbers \cap tickets'[d].numbers = {}
      BY <3>2, <3>11 DEF NumbersGapless
    <3>13. QED
      BY <3>3, <3>9, <3>12 DEF NumbersGapless
  <2>7. QED
    BY <2>1, <2>2, <2>3, <2>4, <2>5, <2>6 DEF IInv
<1>6. QED
  BY <1>1, <1>2, <1>3, <1>4, <1>5

\* The e-mail and its attempt.
LEMMA MailKeepsInv ==
  ASSUME IInv, NEW p \in Processes,
         ClaimAttempt(p) \/ AttemptRefused(p) \/ MailAccepted(p) \/ RecordSent(p)
  PROVE  IInv'
<1> USE DEF jobVars, ticketVars, fileVars, mailVars, runVars, faultVars, Processes,
       Issuing, Numbering, Mailing, Working, NoTickets
<1>0. TypeOK /\ RunInv /\ Exclusion /\ FileInv /\ MailInv /\ NumbersGapless
  BY DEF IInv
<1> USE <1>0
<1>1. ASSUME ClaimAttempt(p)
      PROVE  IInv'
  <2>1. TypeOK'
    BY <1>1 DEF TypeOK, JobTypeOK, TicketTypeOK, RunTypeOK, RunInv, ClaimAttempt, Goto,
        MayAttempt
  <2>2. FileInv' /\ MailInv' /\ NumbersGapless'
    BY <1>1 DEF FileInv, MailInv, NumbersGapless, ClaimAttempt, Goto, MayAttempt
  <2>3. RunInv'
    BY <1>1 DEF TypeOK, JobTypeOK, TicketTypeOK, RunTypeOK, RunInv, Exclusion, FileInv,
        MailInv, ClaimAttempt, Goto, MayAttempt
  <2>4. Exclusion'
    BY <1>1 DEF RunInv, Exclusion, ClaimAttempt, Goto, MayAttempt
  <2>5. QED
    BY <2>1, <2>2, <2>3, <2>4 DEF IInv
<1>2. ASSUME AttemptRefused(p)
      PROVE  IInv'
  <2>1. TypeOK'
    <3>1. pc' \in [Processes -> {"idle", "claim"} \cup Working]
      BY <1>2 DEF TypeOK, RunTypeOK, AttemptRefused, Goto, Stop
    <3>2. booking' \in [Processes -> Bookings \cup {None}] /\ retry' \in [Processes -> BOOLEAN]
      BY <1>2 DEF TypeOK, RunTypeOK, AttemptRefused, Goto, Stop
    <3>3. first' \in [Processes -> Nat] /\ file' \in [Processes -> Nat]
      BY <1>2 DEF TypeOK, RunTypeOK, AttemptRefused, Goto, Stop
    <3>4. QED
      BY <1>2, <3>1, <3>2, <3>3 DEF TypeOK, JobTypeOK, TicketTypeOK, RunTypeOK, AttemptRefused
  <2>2. MailInv' /\ NumbersGapless'
    BY <1>2 DEF MailInv, NumbersGapless, AttemptRefused, Goto, Stop, MayAttempt
  <2>3. RunInv'
    BY <1>2 DEF TypeOK, JobTypeOK, TicketTypeOK, RunTypeOK, RunInv, AttemptRefused, Goto,
        Stop, MayAttempt
  <2>4. Exclusion'
    BY <1>2 DEF TypeOK, JobTypeOK, TicketTypeOK, RunTypeOK, Exclusion, AttemptRefused, Goto,
        Stop, MayAttempt
  <2>5. FileInv'
    BY <1>2 DEF TypeOK, JobTypeOK, TicketTypeOK, RunTypeOK, FileInv, AttemptRefused, Goto,
        Stop, MayAttempt
  <2>6. QED
    BY <2>1, <2>2, <2>3, <2>4, <2>5 DEF IInv
<1>3. ASSUME MailAccepted(p)
      PROVE  IInv'
  <2>1. TypeOK'
    BY <1>3 DEF TypeOK, JobTypeOK, TicketTypeOK, RunTypeOK, RunInv, MailAccepted, Goto
  <2>2. Exclusion' /\ FileInv' /\ NumbersGapless'
    BY <1>3 DEF Exclusion, FileInv, NumbersGapless, MailAccepted, Goto
  <2>3. RunInv'
    BY <1>3 DEF TypeOK, JobTypeOK, TicketTypeOK, RunTypeOK, RunInv, Exclusion, MailAccepted,
        Goto
  <2>4. MailInv'
    BY <1>3 DEF TypeOK, JobTypeOK, TicketTypeOK, RunTypeOK, RunInv, FileInv, MailInv,
        MailAccepted, Goto
  <2>5. QED
    BY <2>1, <2>2, <2>3, <2>4 DEF IInv
<1>4. ASSUME RecordSent(p)
      PROVE  IInv'
  <2>1. TypeOK'
    BY <1>4 DEF TypeOK, JobTypeOK, TicketTypeOK, RunTypeOK, RunInv, MailInv, RecordSent,
        Goto
  <2>2. Exclusion' /\ FileInv' /\ NumbersGapless'
    BY <1>4 DEF Exclusion, FileInv, NumbersGapless, RecordSent, Goto
  <2>3. RunInv'
    BY <1>4 DEF TypeOK, JobTypeOK, TicketTypeOK, RunTypeOK, RunInv, Exclusion, FileInv,
        MailInv, RecordSent, Goto
  <2>4. MailInv'
    BY <1>4 DEF TypeOK, JobTypeOK, TicketTypeOK, RunTypeOK, RunInv, MailInv, RecordSent,
        Goto
  <2>5. QED
    BY <2>1, <2>2, <2>3, <2>4 DEF IInv
<1>5. QED
  BY <1>1, <1>2, <1>3, <1>4

\* Failures.
LEMMA FailKeepsInv ==
  ASSUME IInv, NEW p \in Processes, Fail(p)
  PROVE  IInv'
<1> USE DEF jobVars, ticketVars, fileVars, mailVars, runVars, faultVars, Processes,
       Issuing, Numbering, Mailing, Working, NoTickets
<1>0. TypeOK /\ RunInv /\ Exclusion /\ FileInv /\ MailInv /\ NumbersGapless
  BY DEF IInv
<1> USE <1>0
<1>1. ASSUME RollBack(p)
      PROVE  IInv'
  <2>1. TypeOK' /\ Exclusion' /\ MailInv' /\ NumbersGapless'
    BY <1>1 DEF TypeOK, JobTypeOK, TicketTypeOK, RunTypeOK, Exclusion, MailInv,
        NumbersGapless, RollBack
  <2>2. RunInv'
    BY <1>1 DEF TypeOK, JobTypeOK, TicketTypeOK, RunTypeOK, RunInv, RollBack
  <2>3. FileInv'
    BY <1>1 DEF TypeOK, JobTypeOK, TicketTypeOK, RunTypeOK, RunInv, Exclusion, FileInv,
        RollBack
  <2>4. QED
    BY <2>1, <2>2, <2>3 DEF IInv
<1>2. ASSUME MailRefused(p)
      PROVE  IInv'
  <2>1. TypeOK'
    BY <1>2 DEF TypeOK, JobTypeOK, TicketTypeOK, RunTypeOK, RunInv, MailRefused, Goto
  <2>2. Exclusion' /\ FileInv' /\ NumbersGapless'
    BY <1>2 DEF Exclusion, FileInv, NumbersGapless, MailRefused, Goto
  <2>3. RunInv'
    BY <1>2 DEF TypeOK, JobTypeOK, TicketTypeOK, RunTypeOK, RunInv, Exclusion, MailRefused,
        Goto
  <2>4. MailInv'
    BY <1>2 DEF TypeOK, JobTypeOK, TicketTypeOK, RunTypeOK, RunInv, MailInv, MailRefused,
        Goto
  <2>5. QED
    BY <2>1, <2>2, <2>3, <2>4 DEF IInv
<1>3. ASSUME ReadFails(p)
      PROVE  IInv'
  <2>1. TypeOK' /\ MailInv'
    BY <1>3 DEF TypeOK, JobTypeOK, TicketTypeOK, RunTypeOK, MailInv, ReadFails, Goto
  <2>2. Exclusion' /\ FileInv' /\ NumbersGapless'
    BY <1>3 DEF Exclusion, FileInv, NumbersGapless, ReadFails, Goto
  <2>3. RunInv'
    BY <1>3 DEF TypeOK, JobTypeOK, TicketTypeOK, RunTypeOK, RunInv, ReadFails, Goto
  <2>4. QED
    BY <2>1, <2>2, <2>3 DEF IInv
<1>4. ASSUME Crash(p)
      PROVE  IInv'
  <2>1. TypeOK' /\ MailInv' /\ NumbersGapless'
    BY <1>4 DEF TypeOK, JobTypeOK, TicketTypeOK, RunTypeOK, MailInv, NumbersGapless, Crash,
        Stop
  <2>2. RunInv'
    BY <1>4 DEF TypeOK, JobTypeOK, TicketTypeOK, RunTypeOK, RunInv, Crash, Stop
  <2>3. Exclusion'
    BY <1>4 DEF TypeOK, JobTypeOK, TicketTypeOK, RunTypeOK, Exclusion, Crash, Stop
  <2>4. FileInv'
    BY <1>4 DEF TypeOK, JobTypeOK, TicketTypeOK, RunTypeOK, FileInv, Crash, Stop
  <2>5. QED
    BY <2>1, <2>2, <2>3, <2>4 DEF IInv
<1>5. QED
  BY <1>1, <1>2, <1>3, <1>4 DEF Fail

\* Time.
LEMMA PassKeepsInv ==
  ASSUME IInv, NEW b \in Bookings, Pass(b)
  PROVE  IInv'
<1> USE DEF jobVars, ticketVars, fileVars, mailVars, runVars, faultVars, Processes,
       Issuing, Numbering, Mailing, Working, NoTickets
<1>0. TypeOK /\ RunInv /\ Exclusion /\ FileInv /\ MailInv /\ NumbersGapless
  BY DEF IInv
<1> USE <1>0
<1>1. ASSUME LeaseLapses(b)
      PROVE  IInv'
  <2>1. TypeOK' /\ RunInv' /\ Exclusion' /\ FileInv' /\ MailInv' /\ NumbersGapless'
    BY <1>1 DEF TypeOK, JobTypeOK, TicketTypeOK, RunTypeOK, RunInv, Exclusion, FileInv,
        MailInv, NumbersGapless, LeaseLapses
  <2>2. QED
    BY <2>1 DEF IInv
<1>2. ASSUME DelayEnds(b)
      PROVE  IInv'
  <2>1. TypeOK' /\ RunInv' /\ Exclusion' /\ FileInv' /\ MailInv' /\ NumbersGapless'
    BY <1>2 DEF TypeOK, JobTypeOK, TicketTypeOK, RunTypeOK, RunInv, Exclusion, FileInv,
        MailInv, NumbersGapless, DelayEnds
  <2>2. QED
    BY <2>1 DEF IInv
<1>3. QED
  BY <1>1, <1>2 DEF Pass

\* The invariant is inductive.
LEMMA Inductive == Spec => []IInv
<1>1. Init => IInv
  <2> SUFFICES ASSUME Init PROVE IInv
    OBVIOUS
  <2>1. TypeOK
    BY DEF Init, TypeOK, JobTypeOK, TicketTypeOK, RunTypeOK, NoTickets
  <2>2. RunInv /\ Exclusion /\ FileInv /\ MailInv
    BY DEF Init, RunInv, Exclusion, FileInv, MailInv, Issuing, Numbering, Mailing, NoTickets
  <2>3. UNION {tickets[b].numbers : b \in Bookings} = {} /\ 1..last_number = {}
    BY DEF Init, NoTickets
  <2>4. NumbersGapless
    BY <2>3 DEF Init, NumbersGapless, NoTickets
  <2>5. QED
    BY <2>1, <2>2, <2>4 DEF IInv
<1>2. IInv /\ [Next]_vars => IInv'
  <2> SUFFICES ASSUME IInv, [Next]_vars PROVE IInv'
    OBVIOUS
  <2>1. ASSUME NEW p \in Processes, Proceed(p) PROVE IInv'
    BY <2>1, JobKeepsInv, IssueKeepsInv, MailKeepsInv DEF Proceed
  <2>2. ASSUME NEW p \in Processes, Fail(p) PROVE IInv'
    BY <2>2, FailKeepsInv
  <2>3. ASSUME NEW b \in Bookings, Begin(b) \/ Pass(b) PROVE IInv'
    BY <2>3, BeginKeepsInv, PassKeepsInv
  <2>4. CASE UNCHANGED vars
    <3> USE DEF vars, jobVars, ticketVars, fileVars, mailVars, runVars, faultVars
    <3>1. TypeOK' /\ RunInv' /\ Exclusion'
      BY <2>4 DEF IInv, TypeOK, JobTypeOK, TicketTypeOK, RunTypeOK, RunInv, Exclusion
    <3>2. FileInv' /\ MailInv' /\ NumbersGapless'
      BY <2>4 DEF IInv, FileInv, MailInv, NumbersGapless
    <3>3. QED
      BY <3>1, <3>2 DEF IInv
  <2>5. QED
    BY <2>1, <2>2, <2>3, <2>4 DEF Next
<1>3. QED
  BY <1>1, <1>2, PTL DEF Spec

-----------------------------------------------------------------------------
\* Every variable keeps its type, and a booking never has two PENDING or two SENT
\* e-mail attempts.
THEOREM TypeCorrect == Spec => []TypeOK
<1>1. IInv => TypeOK
  BY DEF IInv
<1>2. QED
  BY <1>1, Inductive, PTL

\* Ticket numbers are consecutive and given once, whatever fails before the commit.
THEOREM NumbersInSequence == Spec => []NumbersGapless
<1>1. IInv => NumbersGapless
  BY DEF IInv
<1>2. QED
  BY <1>1, Inductive, PTL

\* The files of issued tickets are never deleted.
THEOREM FilesStay == Spec => []TicketsHaveFiles
<1>1. IInv => TicketsHaveFiles
  BY DEF IInv, FileInv, TicketsHaveFiles
<1>2. QED
  BY <1>1, Inductive, PTL

\* No booking's tickets are mailed twice.
THEOREM MailedOnce == Spec => []OneMail
<1>1. IInv => OneMail
  BY DEF IInv, MailInv, OneMail
<1>2. QED
  BY <1>1, Inductive, PTL

\* A job says SENT only of tickets that exist and were mailed.
THEOREM SentSpeaksTrue == Spec => []SentIsTrue
<1>1. IInv => SentIsTrue
  BY DEF IInv, MailInv, SentIsTrue
<1>2. QED
  BY <1>1, Inductive, PTL

-----------------------------------------------------------------------------
\* What a step can do to the tickets, the mail and the confirmation of bookings.
Kept == UNCHANGED <<tickets, accepted, status>>

\* Only three actions touch them, each one booking.
LEMMA ThreeActions ==
  ASSUME [Next]_vars
  PROVE  \/ Kept
         \/ \E p \in Processes : CommitTickets(p) \/ MailAccepted(p)
         \/ \E p \in Web, b \in Bookings : Confirm(p, b)
<1> USE DEF Kept, vars, jobVars, ticketVars, fileVars, mailVars, runVars, faultVars
<1>1. ASSUME NEW p \in Processes, Proceed(p) PROVE Kept \/ CommitTickets(p) \/ MailAccepted(p)
  BY <1>1 DEF Proceed, ClaimJob, ClaimRefused, FindTickets, LockBooking, AllocateNumbers,
    WriteFiles, IssueSucceeded, IssueFailed, ClaimAttempt, AttemptRefused, RecordSent,
    EmailSent, EmailFailed
<1>2. ASSUME NEW p \in Processes, Fail(p) PROVE Kept
  BY <1>2 DEF Fail, RollBack, MailRefused, ReadFails, Crash
<1>3. ASSUME NEW b \in Bookings, Begin(b) PROVE Kept \/ \E p \in Web : Confirm(p, b)
  BY <1>3 DEF Begin, Reconcile, PanelRetry
<1>4. ASSUME NEW b \in Bookings, Pass(b) PROVE Kept
  BY <1>4 DEF Pass, LeaseLapses, DelayEnds
<1>5. CASE UNCHANGED vars
  BY <1>5
<1>6. QED
  BY <1>1, <1>2, <1>3, <1>4, <1>5 DEF Next

\* Issued tickets are the same ones for ever.
THEOREM TicketsAreFinal == Spec => IssuedOnce
<1> DEFINE Final == \A b \in Bookings : tickets[b] # NoTickets => tickets'[b] = tickets[b]
<1>1. IInv /\ [Next]_vars => Final
  <2> SUFFICES ASSUME IInv, [Next]_vars PROVE Final
    OBVIOUS
  <2>1. CASE Kept
    BY <2>1 DEF Kept
  <2>2. ASSUME NEW p \in Processes, CommitTickets(p) PROVE Final
    BY <2>2 DEF CommitTickets, IInv, TypeOK, TicketTypeOK, RunInv, Issuing
  <2>3. ASSUME NEW p \in Processes, MailAccepted(p) PROVE Final
    BY <2>3 DEF MailAccepted, ticketVars
  <2>4. ASSUME NEW p \in Web, NEW b \in Bookings, Confirm(p, b) PROVE Final
    BY <2>4 DEF Confirm, ticketVars
  <2>5. QED
    BY <2>1, <2>2, <2>3, <2>4, ThreeActions
<1>2. QED
  BY <1>1, Inductive, PTL DEF Spec, IssuedOnce

\* Fulfillment implements Delivery: a booking is confirmed, issued, delivered, in this
\* order and never back.
THEOREM FulfillmentImplementsDelivery == Spec => KeepsPromise
<1> DEFINE stages == [b \in Bookings |-> Stage(b)]
<1>1. Init => Promise!Init
  BY DEF Init, Promise!Init, Stage
<1>2. IInv /\ [Next]_vars => [Promise!Next]_stages
  <2> SUFFICES ASSUME IInv, [Next]_vars PROVE [Promise!Next]_stages
    OBVIOUS
  <2>0. /\ RunInv /\ FileInv /\ MailInv
        /\ status \in [Bookings -> {"HELD", "CONFIRMED"}] /\ accepted \in [Bookings -> Nat]
        /\ DOMAIN tickets = Bookings /\ booking \in [Processes -> Bookings \cup {None}]
    BY DEF IInv, TypeOK, JobTypeOK, TicketTypeOK, RunTypeOK
  <2>1. CASE Kept
    BY <2>1 DEF Kept, Stage, NoTickets
  <2>2. ASSUME NEW p \in Processes, CommitTickets(p) PROVE Promise!Next
    <3>0. PICK c \in Bookings : c = booking[p]
      BY <2>0, <2>2 DEF CommitTickets, RunInv
    <3>1. /\ tickets[c] = NoTickets /\ status[c] = "CONFIRMED"
          /\ accepted[c] = 0 /\ UNCHANGED <<accepted, status>>
      BY <2>0, <2>2, <3>0 DEF CommitTickets, RunInv, MailInv, Issuing, mailVars
    <3>2. tickets'[c] # NoTickets /\ \A b \in Bookings : b # c => tickets'[b] = tickets[b]
      BY <2>0, <2>2, <3>0 DEF CommitTickets, FileInv, NoTickets
    <3>3. stages[c] = "confirmed" /\ Stage(c)' = "issued"
      BY <2>0, <3>1, <3>2 DEF Stage
    <3>4. \A d \in Bookings : d # c => Stage(d)' = stages[d]
      BY <2>0, <3>1, <3>2 DEF Stage
    <3>5. stages' = [stages EXCEPT ![c] = "issued"]
      BY <3>1, <3>3, <3>4
    <3>6. QED
      BY <3>1, <3>3, <3>5 DEF Promise!Next, Promise!Advance
  <2>3. ASSUME NEW p \in Processes, MailAccepted(p) PROVE Promise!Next
    <3>0. PICK c \in Bookings : c = booking[p]
      BY <2>0, <2>3 DEF MailAccepted, RunInv
    <3>1. /\ tickets[c] # NoTickets /\ accepted[c] = 0
          /\ UNCHANGED <<tickets, status>> /\ accepted' = [accepted EXCEPT ![c] = @ + 1]
      BY <2>0, <2>3, <3>0 DEF MailAccepted, RunInv, Mailing, ticketVars
    <3>2. stages[c] = "issued" /\ Stage(c)' = "delivered"
      BY <2>0, <3>1 DEF Stage
    <3>3. \A d \in Bookings : d # c => Stage(d)' = stages[d]
      BY <2>0, <3>1 DEF Stage
    <3>4. stages' = [stages EXCEPT ![c] = "delivered"]
      BY <3>1, <3>2, <3>3
    <3>5. QED
      BY <3>1, <3>2, <3>4 DEF Promise!Next, Promise!Advance
  <2>4. ASSUME NEW p \in Web, NEW b \in Bookings, Confirm(p, b) PROVE Promise!Next
    <3>1. status[b] = "HELD" /\ tickets[b] = NoTickets
      BY <2>0, <2>4 DEF Confirm, MailInv
    <3>2. accepted[b] = 0
      BY <2>0, <3>1 DEF MailInv
    <3>3. UNCHANGED <<tickets, accepted>> /\ status' = [status EXCEPT ![b] = "CONFIRMED"]
      BY <2>4 DEF Confirm, ticketVars, mailVars
    <3>4. stages[b] = "held" /\ Stage(b)' = "confirmed"
      BY <2>0, <3>1, <3>2, <3>3 DEF Stage
    <3>5. \A d \in Bookings : d # b => Stage(d)' = stages[d]
      BY <2>0, <3>1, <3>2, <3>3 DEF Stage
    <3>6. stages' = [stages EXCEPT ![b] = "confirmed"]
      BY <3>4, <3>5
    <3>7. QED
      BY <3>4, <3>6 DEF Promise!Next, Promise!Advance
  <2>5. QED
    BY <2>1, <2>2, <2>3, <2>4, ThreeActions
<1>3. QED
  BY <1>1, <1>2, Inductive, PTL DEF Spec, KeepsPromise, Promise!Spec
=============================================================================
