------------------------------ MODULE Boarding ------------------------------
(***************************************************************************)
(* Tickets scanned at the doors of a trip (tickets/boarding.py), while     *)
(* tickets are voided and the trip is started and completed.  A request at *)
(* a door is a transaction at READ COMMITTED, in pieces.                   *)
(***************************************************************************)
EXTENDS Naturals

CONSTANTS
  Doors,      \* requests served at once
  Staff,      \* who scans and who reverses
  Tickets, Journeys,
  JourneyOf,  \* the trip of a ticket's leg
  Records,    \* the BoardingRecord rows there may ever be
  None

ASSUME BoardingAssumption ==
  /\ JourneyOf \in [Tickets -> Journeys]
  /\ None \notin Doors \cup Staff \cup Tickets \cup Records

VARIABLES
  ticket_status, trip_state,                \* Ticket.status, Trip.status
  record_status, record_of,                 \* BoardingRecord.status and .ticket
  boarded_by, reversed_by,                  \* its operators
  ticket_lock, record_lock,                 \* who holds the row
  stage, scanned, record, person, seen_state  \* of the request at a door

boardingRows == <<ticket_status, trip_state, record_status, record_of, boarded_by, reversed_by>>
recordVars == <<record_status, record_of, boarded_by, reversed_by>>
doorVars == <<stage, scanned, record, person, seen_state>>
boardingVars == <<boardingRows, ticket_lock, record_lock, doorVars>>

BoardingInit ==
  /\ ticket_status = [k \in Tickets |-> "ISSUED"]
  /\ trip_state = [j \in Journeys |-> "SCHEDULED"]
  /\ record_status = [r \in Records |-> "NONE"] /\ record_of = [r \in Records |-> None]
  /\ boarded_by = [r \in Records |-> None] /\ reversed_by = [r \in Records |-> None]
  /\ ticket_lock = [k \in Tickets |-> None] /\ record_lock = [r \in Records |-> None]
  /\ stage = [d \in Doors |-> "idle"] /\ scanned = [d \in Doors |-> None]
  /\ record = [d \in Doors |-> None] /\ person = [d \in Doors |-> None]
  /\ seen_state = [d \in Doors |-> "NONE"]

-----------------------------------------------------------------------------
(* Requests *)

\* The request at door d has come to a stage.
Reach(d, where, k, r, p, s) ==
  /\ stage' = [stage EXCEPT ![d] = where] /\ scanned' = [scanned EXCEPT ![d] = k]
  /\ record' = [record EXCEPT ![d] = r] /\ person' = [person EXCEPT ![d] = p]
  /\ seen_state' = [seen_state EXCEPT ![d] = s]

LockTicket(d, k) == ticket_lock[k] = None /\ ticket_lock' = [ticket_lock EXCEPT ![k] = d]

\* The transaction ends, and with it its locks.
Done(d) ==
  /\ Reach(d, "idle", None, None, None, "NONE")
  /\ ticket_lock' = [k \in Tickets |-> IF ticket_lock[k] = d THEN None ELSE ticket_lock[k]]
  /\ record_lock' = [r \in Records |-> IF record_lock[r] = d THEN None ELSE record_lock[r]]

\* Refused with one of the outcomes of BoardingCode, or failed.
Refuse(d) == stage[d] # "idle" /\ Done(d) /\ UNCHANGED boardingRows

-----------------------------------------------------------------------------
(* validate_boarding *)

\* Mutant: only the operator's own boardings are looked for.
Active_OwnOnly(k, p) ==
  \E r \in Records : record_of[r] = k /\ record_status[r] = "ACTIVE" /\ boarded_by[r] = p

\* The ticket has an active boarding, whoever (p) asks.
Active(k, p) == \E r \in Records : record_of[r] = k /\ record_status[r] = "ACTIVE"

\* The trip selected at the door is read before the transaction.
Scan(d, k, p) ==
  /\ stage[d] = "idle"
  /\ Reach(d, "scanned", k, None, p, trip_state[JourneyOf[k]])
  /\ UNCHANGED <<boardingRows, ticket_lock, record_lock>>

\* Mutant: the ticket is read without its lock.
FindTicket_NoLock(d) ==
  LET k == scanned[d]
  IN  /\ stage[d] = "scanned"
      /\ ticket_status[k] = "ISSUED" /\ ~Active(k, person[d])
      /\ seen_state[d] \in {"SCHEDULED", "STARTED"}
      /\ Reach(d, "found", k, None, person[d], seen_state[d])
      /\ UNCHANGED <<boardingRows, ticket_lock, record_lock>>

\* What refuses a ticket is read under its lock, but for the status of the trip.
FindTicket(d) ==
  LET k == scanned[d]
  IN  /\ stage[d] = "scanned"
      /\ LockTicket(d, k)
      /\ ticket_status[k] = "ISSUED" /\ ~Active(k, person[d])
      /\ seen_state[d] \in {"SCHEDULED", "STARTED"}
      /\ Reach(d, "found", k, None, person[d], seen_state[d])
      /\ UNCHANGED <<boardingRows, record_lock>>

\* The row r is inserted, unless tickets_active_boarding_ticket_unique refuses it.
RegisterBoarding(d, r) ==
  /\ stage[d] = "found"
  /\ record_status[r] = "NONE" /\ ~Active(scanned[d], person[d])
  /\ record_status' = [record_status EXCEPT ![r] = "ACTIVE"]
  /\ record_of' = [record_of EXCEPT ![r] = scanned[d]]
  /\ boarded_by' = [boarded_by EXCEPT ![r] = person[d]]
  /\ Done(d)
  /\ UNCHANGED <<ticket_status, trip_state, reversed_by>>

-----------------------------------------------------------------------------
(* reverse_boarding, void_ticket, transition_trip *)

\* Mutant: the record is read without its lock.
BeginReversal_NoLock(d, r, p) ==
  /\ stage[d] = "idle" /\ record_status[r] = "ACTIVE"
  /\ Reach(d, "reversing", record_of[r], r, p, "NONE")
  /\ UNCHANGED <<boardingRows, ticket_lock, record_lock>>

\* FOR UPDATE reaches the ticket that is joined to the record, too.
BeginReversal(d, r, p) ==
  /\ stage[d] = "idle" /\ record_status[r] = "ACTIVE"
  /\ record_lock[r] = None /\ record_lock' = [record_lock EXCEPT ![r] = d]
  /\ LockTicket(d, record_of[r])
  /\ Reach(d, "reversing", record_of[r], r, p, "NONE")
  /\ UNCHANGED boardingRows

ReverseBoarding(d) ==
  /\ stage[d] = "reversing"
  /\ record_status' = [record_status EXCEPT ![record[d]] = "REVERSED"]
  /\ reversed_by' = [reversed_by EXCEPT ![record[d]] = person[d]]
  /\ Done(d)
  /\ UNCHANGED <<ticket_status, trip_state, record_of, boarded_by>>

\* Locks, reads and writes one row.
VoidTicket(k) ==
  /\ ticket_lock[k] = None /\ ticket_status[k] = "ISSUED"
  /\ ticket_status' = [ticket_status EXCEPT ![k] = "VOID"]
  /\ UNCHANGED <<trip_state, recordVars, ticket_lock, record_lock, doorVars>>

MoveOn(j) ==
  /\ \/ trip_state[j] = "SCHEDULED" /\ trip_state' = [trip_state EXCEPT ![j] = "STARTED"]
     \/ trip_state[j] = "STARTED" /\ trip_state' = [trip_state EXCEPT ![j] = "COMPLETED"]
  /\ UNCHANGED <<ticket_status, recordVars, ticket_lock, record_lock, doorVars>>

-----------------------------------------------------------------------------
AtDoor(d) ==
  \/ \E k \in Tickets, p \in Staff : Scan(d, k, p)
  \/ FindTicket(d)
  \/ \E r \in Records : RegisterBoarding(d, r)
  \/ \E r \in Records, p \in Staff : BeginReversal(d, r, p)
  \/ ReverseBoarding(d)
  \/ Refuse(d)

BoardingNext ==
  \/ \E d \in Doors : AtDoor(d)
  \/ \E k \in Tickets : VoidTicket(k)
  \/ \E j \in Journeys : MoveOn(j)

BoardingSpec == BoardingInit /\ [][BoardingNext]_boardingVars

-----------------------------------------------------------------------------
(* Properties *)

\* Every variable has its type, and a record is reversed by somebody exactly when it says so
\* (tickets_boarding_reversal_consistent).
BoardingTypeOK ==
  /\ ticket_status \in [Tickets -> {"ISSUED", "VOID"}]
  /\ trip_state \in [Journeys -> {"SCHEDULED", "STARTED", "COMPLETED"}]
  /\ record_status \in [Records -> {"NONE", "ACTIVE", "REVERSED"}]
  /\ record_of \in [Records -> Tickets \cup {None}]
  /\ boarded_by \in [Records -> Staff \cup {None}]
  /\ reversed_by \in [Records -> Staff \cup {None}]
  /\ ticket_lock \in [Tickets -> Doors \cup {None}]
  /\ record_lock \in [Records -> Doors \cup {None}]
  /\ stage \in [Doors -> {"idle", "scanned", "found", "reversing"}]
  /\ scanned \in [Doors -> Tickets \cup {None}] /\ record \in [Doors -> Records \cup {None}]
  /\ person \in [Doors -> Staff \cup {None}]
  /\ seen_state \in [Doors -> {"NONE", "SCHEDULED", "STARTED", "COMPLETED"}]
  /\ \A r \in Records : record_status[r] = "REVERSED" <=> reversed_by[r] # None

\* A ticket boards once, whatever is scanned at whichever doors, until that boarding is
\* reversed.
OneActiveBoarding ==
  \A r, q \in Records :
    /\ record_status[r] = "ACTIVE" /\ record_status[q] = "ACTIVE"
    /\ record_of[r] = record_of[q]
    => r = q

\* Nobody boards with a ticket that is void as the boarding is recorded.
VoidTicketsStayOut ==
  [][\A r \in Records :
       record_status[r] = "NONE" /\ record_status'[r] = "ACTIVE" =>
         ticket_status[record_of'[r]] = "ISSUED"]_boardingVars

\* The history stays: a boarding is of the same ticket for ever and is reversed once, by whom
\* it says.
HistoryStands ==
  [][\A r \in Records :
       /\ record_status[r] # "NONE" =>
            record_of'[r] = record_of[r] /\ boarded_by'[r] = boarded_by[r]
       /\ record_status[r] = "REVERSED" =>
            record_status'[r] = "REVERSED" /\ reversed_by'[r] = reversed_by[r]]_boardingVars

-----------------------------------------------------------------------------
(* The abstract manifest. *)

\* Whoever boarded a ticket that is aboard.
BoardedBy(k) ==
  IF Active(k, None)
  THEN boarded_by[CHOOSE r \in Records : record_of[r] = k /\ record_status[r] = "ACTIVE"]
  ELSE None

\* The boardings that were reversed, whichever records say so.
TakenBack ==
  {<<record_of[r], boarded_by[r], reversed_by[r]>> :
     r \in {q \in Records : record_status[q] = "REVERSED"}}

Passengers == INSTANCE Manifest WITH
  Nobody <- None,
  aboard <- [k \in Tickets |-> BoardedBy(k)],
  void <- {k \in Tickets : ticket_status[k] = "VOID"},
  log <- TakenBack

\* The doors keep the manifest as if they were one: a boarding or a reversal takes effect at
\* once and counts once, of a ticket that was not voided while its request waited, and the
\* history of boardings and reversals is never rewritten.
ImplementsManifest == Passengers!Spec
=============================================================================
