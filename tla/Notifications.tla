---------------------------- MODULE Notifications ----------------------------
(***************************************************************************)
(* The outbox of e-mails to customers (notifications/services.py): rows    *)
(* written in the transaction of the event, sent later by the maintenance  *)
(* worker or by a retry from the panel, under a lease.                     *)
(*                                                                         *)
(* One action is one committed transaction or one e-mail.  Time enters     *)
(* only through what is compared with it: a lease is live until it lapses, *)
(* a retry is delayed until it is not.                                     *)
(***************************************************************************)
EXTENDS Integers, FiniteSets

CONSTANTS
  Rows,         \* notifications: one per booking, event, type and recipient
  Workers,      \* runs of run_operational_maintenance, of which the worker is one
  Panel,        \* retries from the panel
  MaxAttempts,  \* NOTIFICATIONS_MAX_ATTEMPTS
  MaxErrors,    \* bound: failures of the mail server
  MaxCrashes,   \* bound: processes that die
  None

Processes == Workers \cup Panel

ASSUME BoundsAssumption ==
  /\ MaxAttempts \in Nat \ {0} /\ MaxErrors \in Nat /\ MaxCrashes \in Nat
  /\ IsFiniteSet(Processes)

ASSUME NamesAssumption == None \notin Rows /\ Workers \cap Panel = {}

VARIABLES
  status,       \* TransactionalNotification.status; "NONE" is a row not yet there
  attempts,
  lease_until,  \* NULL, in the future ("live") or in the past ("lapsed")
  delayed,      \* next_attempt_at is in the future
  todo,         \* the candidates a run selected and has not come to yet
  pc, row,      \* what a process is about to do, with what row
  accepted,     \* e-mails of the row the mail server took
  lapses,       \* leases of the row that ran out
  errors, crashes

rowVars == <<status, attempts, lease_until, delayed>>
runVars == <<todo, pc, row>>
countVars == <<accepted, lapses>>
faultVars == <<errors, crashes>>
vars == <<rowVars, runVars, countVars, faultVars>>

Status == {"NONE", "PENDING", "PROCESSING", "SENT", "FAILED"}

Init ==
  /\ status = [n \in Rows |-> "NONE"] /\ attempts = [n \in Rows |-> 0]
  /\ lease_until = [n \in Rows |-> "null"] /\ delayed = [n \in Rows |-> FALSE]
  /\ todo = [p \in Processes |-> {}]
  /\ pc = [p \in Processes |-> "idle"] /\ row = [p \in Processes |-> None]
  /\ accepted = [n \in Rows |-> 0] /\ lapses = [n \in Rows |-> 0]
  /\ errors = 0 /\ crashes = 0

-----------------------------------------------------------------------------
\* schedule_notification: get_or_create, so that a second call finds the row and
\* changes nothing.
Schedule(n) ==
  /\ status[n] = "NONE"
  /\ status' = [status EXCEPT ![n] = "PENDING"]
  /\ UNCHANGED <<attempts, lease_until, delayed, runVars, countVars, faultVars>>

\* Mutant: what a dead process left in PROCESSING is not selected.
Candidates_NoStale ==
  {n \in Rows : status[n] \in {"PENDING", "FAILED"} /\ attempts[n] < MaxAttempts /\ ~delayed[n]}

Candidates ==
  {n \in Rows :
     \/ status[n] \in {"PENDING", "FAILED"} /\ attempts[n] < MaxAttempts /\ ~delayed[n]
     \/ status[n] = "PROCESSING" /\ lease_until[n] = "lapsed"}

\* The list of a run, made once.
Select(p) ==
  /\ pc[p] = "idle" /\ todo[p] = {} /\ Candidates # {}
  /\ todo' = [todo EXCEPT ![p] = Candidates]
  /\ UNCHANGED <<pc, row, rowVars, countVars, faultVars>>

\* The time of a run, or its limit, is up before its list is.
StopRun(p) ==
  /\ pc[p] = "idle" /\ todo[p] # {}
  /\ todo' = [todo EXCEPT ![p] = {}]
  /\ UNCHANGED <<pc, row, rowVars, countVars, faultVars>>

-----------------------------------------------------------------------------
(* process_notification, which everybody calls with retry=True: neither the delay nor
   the attempts are looked at again. *)

\* Mutants: SENT, or somebody's live lease, does not stop a claim.
MayClaim_Sent(n) ==
  status[n] # "NONE" /\ (status[n] = "PROCESSING" => lease_until[n] # "live")

MayClaim(n) ==
  /\ status[n] \notin {"NONE", "SENT"}
  /\ status[n] = "PROCESSING" => lease_until[n] # "live"

Claim(p, n) ==
  /\ MayClaim(n)
  /\ status' = [status EXCEPT ![n] = "PROCESSING"]
  /\ attempts' = [attempts EXCEPT ![n] = @ + 1]
  /\ lease_until' = [lease_until EXCEPT ![n] = "live"]
  /\ pc' = [pc EXCEPT ![p] = "sending"] /\ row' = [row EXCEPT ![p] = n]
  /\ UNCHANGED <<delayed, countVars, faultVars>>

\* The run comes to a row of its list, which may not be a candidate any more.
Work(p, n) ==
  /\ pc[p] = "idle" /\ n \in todo[p]
  /\ todo' = [todo EXCEPT ![p] = @ \ {n}]
  /\ \/ Claim(p, n)
     \/ ~MayClaim(n) /\ UNCHANGED <<rowVars, pc, row, countVars, faultVars>>

\* notification_retry, for any row that is there; a refused retry changes nothing.
Retry(p, n) ==
  /\ pc[p] = "idle"
  /\ Claim(p, n) /\ UNCHANGED todo

Finish(p) ==
  /\ pc' = [pc EXCEPT ![p] = "idle"] /\ row' = [row EXCEPT ![p] = None]

\* The mail server takes the e-mail; nothing is recorded yet.
MailAccepted(p) ==
  /\ pc[p] = "sending"
  /\ accepted' = [accepted EXCEPT ![row[p]] = @ + 1]
  /\ pc' = [pc EXCEPT ![p] = "accepted"]
  /\ UNCHANGED <<rowVars, todo, row, lapses, faultVars>>

\* Mutants: the lease outlives the failure; the failure is taken for a success.
SendFailed_LeaseKept(p) ==
  LET n == row[p]
  IN  /\ pc[p] = "sending" /\ errors < MaxErrors /\ errors' = errors + 1
      /\ status' = [status EXCEPT ![n] = "FAILED"]
      /\ delayed' = [delayed EXCEPT ![n] = TRUE]
      /\ Finish(p)
      /\ UNCHANGED <<attempts, lease_until, todo, countVars, crashes>>

SendFailed_Silently(p) ==
  /\ pc[p] = "sending" /\ errors < MaxErrors /\ errors' = errors + 1
  /\ pc' = [pc EXCEPT ![p] = "accepted"]
  /\ UNCHANGED <<rowVars, todo, row, countVars, crashes>>

\* Rendering or sending raises; FAILED is written whatever the row says by now.
SendFailed(p) ==
  LET n == row[p]
  IN  /\ pc[p] = "sending" /\ errors < MaxErrors /\ errors' = errors + 1
      /\ status' = [status EXCEPT ![n] = "FAILED"]
      /\ lease_until' = [lease_until EXCEPT ![n] = "null"]
      /\ delayed' = [delayed EXCEPT ![n] = TRUE]
      /\ Finish(p)
      /\ UNCHANGED <<attempts, todo, countVars, crashes>>

RecordSent(p) ==
  LET n == row[p]
  IN  /\ pc[p] = "accepted"
      /\ IF status[n] = "SENT" THEN UNCHANGED <<status, lease_until, delayed>>
         ELSE /\ status' = [status EXCEPT ![n] = "SENT"]
              /\ lease_until' = [lease_until EXCEPT ![n] = "null"]
              /\ delayed' = [delayed EXCEPT ![n] = FALSE]
      /\ Finish(p)
      /\ UNCHANGED <<attempts, todo, countVars, faultVars>>

-----------------------------------------------------------------------------
(* Time and deaths *)

LeaseLapses(n) ==
  /\ lease_until[n] = "live"
  /\ lease_until' = [lease_until EXCEPT ![n] = "lapsed"]
  /\ lapses' = [lapses EXCEPT ![n] = @ + 1]
  /\ UNCHANGED <<status, attempts, delayed, runVars, accepted, faultVars>>

DelayEnds(n) ==
  /\ delayed[n]
  /\ delayed' = [delayed EXCEPT ![n] = FALSE]
  /\ UNCHANGED <<status, attempts, lease_until, runVars, countVars, faultVars>>

\* The process dies with its list.
Crash(p) ==
  /\ pc[p] # "idle" \/ todo[p] # {}
  /\ crashes < MaxCrashes /\ crashes' = crashes + 1
  /\ todo' = [todo EXCEPT ![p] = {}]
  /\ Finish(p)
  /\ UNCHANGED <<rowVars, countVars, errors>>

-----------------------------------------------------------------------------
Send(p) == MailAccepted(p) \/ RecordSent(p)

Run(p) == Select(p) \/ StopRun(p) \/ \E n \in Rows : Work(p, n)

Pass(n) == LeaseLapses(n) \/ DelayEnds(n)

Next ==
  \/ \E n \in Rows : Schedule(n) \/ Pass(n)
  \/ \E p \in Workers : Run(p)
  \/ \E p \in Panel, n \in Rows : Retry(p, n)
  \/ \E p \in Processes : Send(p) \/ SendFailed(p) \/ Crash(p)

Spec == Init /\ [][Next]_vars

\* A process goes on unless it dies, time passes, the worker's cycles do not end, and
\* some run comes to every row that is on list after list.
FairSpec ==
  /\ Spec
  /\ \A p \in Workers : WF_vars(Run(p)) /\ \A n \in Rows : SF_vars(Work(p, n))
  /\ \A p \in Processes : WF_vars(Send(p))
  /\ \A n \in Rows : WF_vars(LeaseLapses(n)) /\ WF_vars(DelayEnds(n))

-----------------------------------------------------------------------------
(* Properties *)

\* Every variable has its type, and a row has a lease exactly while it is PROCESSING:
\* no outcome leaves one behind, which would keep others out or never lapse.
TypeOK ==
  /\ status \in [Rows -> Status] /\ attempts \in [Rows -> Nat]
  /\ lease_until \in [Rows -> {"null", "live", "lapsed"}] /\ delayed \in [Rows -> BOOLEAN]
  /\ todo \in [Processes -> SUBSET Rows]
  /\ pc \in [Processes -> {"idle", "sending", "accepted"}]
  /\ row \in [Processes -> Rows \cup {None}]
  /\ accepted \in [Rows -> Nat] /\ lapses \in [Rows -> Nat]
  /\ errors \in Nat /\ crashes \in Nat
  /\ \A p \in Processes : pc[p] # "idle" => row[p] \in Rows
  /\ \A n \in Rows : lease_until[n] # "null" <=> status[n] = "PROCESSING"

\* SENT is only written about a message the mail server took, and an attempt counted.
SentIsTrue ==
  \A n \in Rows : status[n] = "SENT" => accepted[n] >= 1 /\ attempts[n] >= 1

\* A customer gets a message again only for a lease that ran out, whoever died, retried
\* or failed late: at most one more for each.
OneMailPerLease == \A n \in Rows : accepted[n] <= 1 + lapses[n]

\* No message is forgotten: until it is sent or has used up its attempts it is on the worker's
\* next list, waits for its delay, or is under a lease that will run out (_candidates).
NothingForgotten ==
  \A n \in Rows :
    \/ status[n] \in {"NONE", "SENT"}
    \/ status[n] = "FAILED" /\ attempts[n] >= MaxAttempts
    \/ status[n] = "FAILED" /\ delayed[n]
    \/ status[n] = "PROCESSING" /\ lease_until[n] = "live"
    \/ n \in Candidates

\* A message is sent, or given up after all its attempts, and then stays so: nobody
\* stays PROCESSING, and a late failure over SENT is made good.
Settles ==
  \A n \in Rows :
    status[n] # "NONE" ~>
      [](status[n] = "SENT" \/ (status[n] = "FAILED" /\ attempts[n] >= MaxAttempts))
=============================================================================
