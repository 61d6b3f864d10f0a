--------------------------- MODULE Boarding_proofs ---------------------------
(***************************************************************************)
(* What the boarding of tickets guarantees for any doors, tickets, trips   *)
(* and records.                                                            *)
(***************************************************************************)
EXTENDS Boarding, TLAPS

\* What the stage of a request says of the rows it has read.
Standing(d) ==
  /\ stage[d] # "idle" => scanned[d] \in Tickets /\ person[d] \in Staff
  /\ stage[d] = "found" => ticket_lock[scanned[d]] = d /\ ticket_status[scanned[d]] = "ISSUED"
  /\ stage[d] = "reversing" =>
       record[d] \in Records /\ record_lock[record[d]] = d /\ record_status[record[d]] = "ACTIVE"

BoardingInv ==
  /\ BoardingTypeOK /\ OneActiveBoarding
  /\ \A d \in Doors : Standing(d)
  /\ \A r \in Records :
       record_status[r] # "NONE" => record_of[r] \in Tickets /\ boarded_by[r] \in Staff

LEMMA BoardingInitInv == BoardingInit => BoardingInv
BY BoardingAssumption
   DEF BoardingInit, BoardingInv, BoardingTypeOK, OneActiveBoarding, Standing

\* The end of a request takes no lock from another one, and keeps the types.
LEMMA DoneSparesOthers ==
  ASSUME BoardingTypeOK, NEW d \in Doors, Done(d)
  PROVE  /\ stage'[d] = "idle"
         /\ \A e \in Doors \ {d} :
              /\ stage'[e] = stage[e] /\ scanned'[e] = scanned[e] /\ record'[e] = record[e]
              /\ person'[e] = person[e]
              /\ \A k \in Tickets : ticket_lock[k] = e => ticket_lock'[k] = e
              /\ \A r \in Records : record_lock[r] = e => record_lock'[r] = e
         /\ ticket_lock' \in [Tickets -> Doors \cup {None}]
         /\ record_lock' \in [Records -> Doors \cup {None}]
         /\ stage' \in [Doors -> {"idle", "scanned", "found", "reversing"}]
         /\ scanned' \in [Doors -> Tickets \cup {None}]
         /\ record' \in [Doors -> Records \cup {None}]
         /\ person' \in [Doors -> Staff \cup {None}]
         /\ seen_state' \in [Doors -> {"NONE", "SCHEDULED", "STARTED", "COMPLETED"}]
BY BoardingAssumption DEF BoardingTypeOK, Done, Reach

LEMMA AtDoorInv ==
  ASSUME BoardingInv, NEW d \in Doors, AtDoor(d)
  PROVE  BoardingInv'
<1> USE BoardingAssumption
<1>0. BoardingTypeOK /\ OneActiveBoarding /\ \A e \in Doors : Standing(e)
  BY DEF BoardingInv
<1>1. ASSUME NEW k \in Tickets, NEW p \in Staff, Scan(d, k, p) PROVE BoardingInv'
  <2>1. BoardingTypeOK'
    BY <1>0, <1>1 DEF Scan, Reach, boardingRows, BoardingTypeOK
  <2>2. \A e \in Doors : Standing(e)'
    BY <1>0, <1>1 DEF Scan, Reach, boardingRows, BoardingTypeOK, Standing
  <2>3. QED
    BY <2>1, <2>2, <1>1 DEF BoardingInv, Scan, boardingRows, OneActiveBoarding
<1>2. ASSUME FindTicket(d) PROVE BoardingInv'
  <2>1. BoardingTypeOK'
    BY <1>0, <1>2 DEF FindTicket, LockTicket, Reach, boardingRows, BoardingTypeOK, Standing
  <2>2. \A e \in Doors : Standing(e)'
    BY <1>0, <1>2 DEF FindTicket, LockTicket, Reach, boardingRows, BoardingTypeOK, Standing
  <2>3. QED
    BY <2>1, <2>2, <1>2 DEF BoardingInv, FindTicket, boardingRows, OneActiveBoarding
<1>3. ASSUME NEW r \in Records, RegisterBoarding(d, r) PROVE BoardingInv'
  <2>1. scanned[d] \in Tickets /\ person[d] \in Staff /\ Done(d)
    BY <1>0, <1>3 DEF RegisterBoarding, Standing
  <2>2. BoardingTypeOK'
    BY <1>0, <1>3, <2>1, DoneSparesOthers DEF RegisterBoarding, BoardingTypeOK
  <2>3. \A e \in Doors : Standing(e)'
    BY <1>0, <1>3, <2>1, DoneSparesOthers DEF RegisterBoarding, BoardingTypeOK, Standing
  <2>4. OneActiveBoarding'
    BY <1>0, <1>3, <2>1 DEF RegisterBoarding, BoardingTypeOK, OneActiveBoarding, Active
  <2>5. QED
    BY <2>1, <2>2, <2>3, <2>4, <1>3 DEF BoardingInv, RegisterBoarding, BoardingTypeOK
<1>4. ASSUME NEW r \in Records, NEW p \in Staff, BeginReversal(d, r, p) PROVE BoardingInv'
  <2>0. record_of[r] \in Tickets
    BY <1>4 DEF BoardingInv, BeginReversal
  <2>1. BoardingTypeOK'
    BY <1>0, <1>4, <2>0 DEF BeginReversal, LockTicket, Reach, boardingRows, BoardingTypeOK
  <2>2. \A e \in Doors : Standing(e)'
    BY <1>0, <1>4, <2>0
       DEF BeginReversal, LockTicket, Reach, boardingRows, BoardingTypeOK, Standing
  <2>3. QED
    BY <2>1, <2>2, <1>4 DEF BoardingInv, BeginReversal, boardingRows, OneActiveBoarding
<1>5. ASSUME ReverseBoarding(d) PROVE BoardingInv'
  <2>1. record[d] \in Records /\ record_lock[record[d]] = d /\ person[d] \in Staff /\ Done(d)
    BY <1>0, <1>5 DEF ReverseBoarding, Standing
  <2>2. BoardingTypeOK'
    BY <1>0, <1>5, <2>1, DoneSparesOthers DEF ReverseBoarding, BoardingTypeOK
  <2>3. \A e \in Doors : Standing(e)'
    BY <1>0, <1>5, <2>1, DoneSparesOthers DEF ReverseBoarding, BoardingTypeOK, Standing
  <2>4. QED
    BY <1>0, <2>1, <2>2, <2>3, <1>5
       DEF BoardingInv, ReverseBoarding, BoardingTypeOK, OneActiveBoarding, Standing
<1>6. ASSUME Refuse(d) PROVE BoardingInv'
  <2>1. BoardingTypeOK'
    BY <1>0, <1>6, DoneSparesOthers DEF Refuse, boardingRows, BoardingTypeOK
  <2>2. \A e \in Doors : Standing(e)'
    BY <1>0, <1>6, DoneSparesOthers DEF Refuse, boardingRows, BoardingTypeOK, Standing
  <2>3. QED
    BY <2>1, <2>2, <1>6 DEF BoardingInv, Refuse, boardingRows, OneActiveBoarding
<1>7. QED
  BY <1>1, <1>2, <1>3, <1>4, <1>5, <1>6 DEF AtDoor

\* What is done to tickets and trips meanwhile.
LEMMA MeanwhileInv ==
  ASSUME BoardingInv,
         (\E k \in Tickets : VoidTicket(k)) \/ (\E j \in Journeys : MoveOn(j))
  PROVE  BoardingInv'
<1>1. ASSUME NEW k \in Tickets, VoidTicket(k) PROVE BoardingInv'
  BY <1>1, BoardingAssumption
     DEF BoardingInv, VoidTicket, BoardingTypeOK, OneActiveBoarding, Standing, recordVars, doorVars
<1>2. ASSUME NEW j \in Journeys, MoveOn(j) PROVE BoardingInv'
  BY <1>2 DEF BoardingInv, MoveOn, BoardingTypeOK, OneActiveBoarding, Standing, recordVars, doorVars
<1>3. QED
  BY <1>1, <1>2

\* BoardingInv is inductive.
THEOREM BoardingStaysConsistent == BoardingSpec => []BoardingInv
<1>1. BoardingInv /\ [BoardingNext]_boardingVars => BoardingInv'
  <2> SUFFICES ASSUME BoardingInv, [BoardingNext]_boardingVars PROVE BoardingInv'
    OBVIOUS
  <2>1. CASE BoardingNext
    BY <2>1, AtDoorInv, MeanwhileInv DEF BoardingNext
  <2>2. CASE UNCHANGED boardingVars
    BY <2>2 DEF BoardingInv, BoardingTypeOK, OneActiveBoarding, Standing, boardingVars,
                boardingRows, doorVars
  <2>3. QED
    BY <2>1, <2>2
<1>2. QED
  BY BoardingInitInv, <1>1, PTL DEF BoardingSpec

\* Every variable keeps its type, and records say by whom they were reversed.
THEOREM BoardingTypeCorrect == BoardingSpec => []BoardingTypeOK
<1>1. BoardingInv => BoardingTypeOK
  BY DEF BoardingInv
<1>2. QED
  BY BoardingStaysConsistent, <1>1, PTL

\* A ticket has one active boarding, at any number of doors.
THEOREM TicketsBoardOnce == BoardingSpec => []OneActiveBoarding
<1>1. BoardingInv => OneActiveBoarding
  BY DEF BoardingInv
<1>2. QED
  BY BoardingStaysConsistent, <1>1, PTL

-----------------------------------------------------------------------------
(* Steps *)

\* A step that makes a record active is a RegisterBoarding; one that touches a record that is
\* there is a ReverseBoarding of it.
LEMMA WhoWritesRecords ==
  ASSUME BoardingInv, [BoardingNext]_boardingVars, NEW r \in Records
  PROVE  \/ /\ record_status'[r] = record_status[r] /\ record_of'[r] = record_of[r]
            /\ boarded_by'[r] = boarded_by[r] /\ reversed_by'[r] = reversed_by[r]
         \/ /\ record_status[r] = "NONE"
            /\ \E d \in Doors : stage[d] = "found" /\ record_of'[r] = scanned[d]
         \/ /\ record_status[r] = "ACTIVE" /\ record_status'[r] = "REVERSED"
            /\ record_of'[r] = record_of[r] /\ boarded_by'[r] = boarded_by[r]
<1>0. BoardingTypeOK /\ \A d \in Doors : Standing(d)
  BY DEF BoardingInv
<1>1. ASSUME NEW d \in Doors, NEW q \in Records, RegisterBoarding(d, q)
      PROVE  \/ /\ record_status'[r] = record_status[r] /\ record_of'[r] = record_of[r]
                /\ boarded_by'[r] = boarded_by[r] /\ reversed_by'[r] = reversed_by[r]
             \/ /\ record_status[r] = "NONE"
                /\ \E e \in Doors : stage[e] = "found" /\ record_of'[r] = scanned[e]
  BY <1>0, <1>1 DEF RegisterBoarding, BoardingTypeOK
<1>2. ASSUME NEW d \in Doors, ReverseBoarding(d)
      PROVE  \/ /\ record_status'[r] = record_status[r] /\ record_of'[r] = record_of[r]
                /\ boarded_by'[r] = boarded_by[r] /\ reversed_by'[r] = reversed_by[r]
             \/ /\ record_status[r] = "ACTIVE" /\ record_status'[r] = "REVERSED"
                /\ record_of'[r] = record_of[r] /\ boarded_by'[r] = boarded_by[r]
  BY <1>0, <1>2 DEF ReverseBoarding, BoardingTypeOK, Standing
<1>3. ASSUME NEW d \in Doors, Refuse(d) \/ FindTicket(d)
                              \/ (\E k \in Tickets, p \in Staff : Scan(d, k, p))
                              \/ (\E q \in Records, p \in Staff : BeginReversal(d, q, p))
      PROVE  UNCHANGED recordVars
  BY <1>3 DEF Refuse, FindTicket, Scan, BeginReversal, boardingRows, recordVars
<1>4. (\E k \in Tickets : VoidTicket(k)) \/ (\E j \in Journeys : MoveOn(j)) =>
        UNCHANGED recordVars
  BY DEF VoidTicket, MoveOn
<1>5. UNCHANGED boardingVars => UNCHANGED recordVars
  BY DEF boardingVars, boardingRows, recordVars
<1>6. UNCHANGED recordVars =>
        /\ record_status'[r] = record_status[r] /\ record_of'[r] = record_of[r]
        /\ boarded_by'[r] = boarded_by[r] /\ reversed_by'[r] = reversed_by[r]
  BY DEF recordVars
<1>7. QED
  BY <1>1, <1>2, <1>3, <1>4, <1>5, <1>6 DEF BoardingNext, AtDoor

\* No boarding is recorded with a ticket that is void at that moment.
THEOREM VoidTicketsDoNotBoard == BoardingSpec => VoidTicketsStayOut
<1>1. BoardingInv /\ [BoardingNext]_boardingVars =>
        [\A r \in Records :
           record_status[r] = "NONE" /\ record_status'[r] = "ACTIVE" =>
             ticket_status[record_of'[r]] = "ISSUED"]_boardingVars
  BY WhoWritesRecords DEF BoardingInv, Standing
<1>2. QED
  BY BoardingStaysConsistent, <1>1, PTL DEF BoardingSpec, VoidTicketsStayOut

\* The history of boardings and reversals is never rewritten.
THEOREM BoardingHistoryStands == BoardingSpec => HistoryStands
<1>1. BoardingInv /\ [BoardingNext]_boardingVars =>
        [\A r \in Records :
           /\ record_status[r] # "NONE" =>
                record_of'[r] = record_of[r] /\ boarded_by'[r] = boarded_by[r]
           /\ record_status[r] = "REVERSED" =>
                record_status'[r] = "REVERSED" /\ reversed_by'[r] = reversed_by[r]]_boardingVars
  BY WhoWritesRecords
<1>2. QED
  BY BoardingStaysConsistent, <1>1, PTL DEF BoardingSpec, HistoryStands

-----------------------------------------------------------------------------
(* The abstract manifest. *)

\* The mapping finds who boarded a ticket because it has one active record at most.
Aboard ==
  \A k \in Tickets :
    /\ \A r \in Records :
         record_of[r] = k /\ record_status[r] = "ACTIVE" => BoardedBy(k) = boarded_by[r]
    /\ Active(k, None) <=> BoardedBy(k) # None

LEMMA BoardedByIs == BoardingInv => Aboard
<1> SUFFICES ASSUME BoardingInv, NEW k \in Tickets
             PROVE  /\ \A r \in Records :
                         record_of[r] = k /\ record_status[r] = "ACTIVE" =>
                           BoardedBy(k) = boarded_by[r]
                    /\ Active(k, None) <=> BoardedBy(k) # None
  BY DEF Aboard
<1>1. ASSUME NEW r \in Records, record_of[r] = k, record_status[r] = "ACTIVE"
      PROVE  BoardedBy(k) = boarded_by[r] /\ boarded_by[r] # None
  <2> DEFINE q == CHOOSE q \in Records : record_of[q] = k /\ record_status[q] = "ACTIVE"
  <2>1. q \in Records /\ record_of[q] = k /\ record_status[q] = "ACTIVE"
    BY <1>1
  <2>2. q = r
    BY <1>1, <2>1 DEF BoardingInv, OneActiveBoarding
  <2>3. Active(k, None)
    BY <1>1 DEF Active
  <2>4. boarded_by[r] # None
    BY <1>1, BoardingAssumption DEF BoardingInv
  <2>5. QED
    BY <2>2, <2>3, <2>4 DEF BoardedBy
<1>2. Active(k, None) => BoardedBy(k) # None
  BY <1>1 DEF Active
<1>3. ~Active(k, None) => BoardedBy(k) = None
  BY DEF BoardedBy
<1>4. QED
  BY <1>1, <1>2, <1>3

LEMMA BoardedByIsNext == BoardingInv' => Aboard'
BY BoardedByIs, PTL

\* Recording a boarding is boarding.
LEMMA RegisteringIsBoarding ==
  ASSUME BoardingInv, Aboard, Aboard', NEW d \in Doors, NEW r \in Records,
         RegisterBoarding(d, r)
  PROVE  Passengers!Next
<1>0. BoardingTypeOK /\ Standing(d)
  BY DEF BoardingInv
<1>k. PICK k \in Tickets : k = scanned[d]
  BY <1>0 DEF RegisterBoarding, Standing
<1>p. PICK p \in Staff : p = person[d]
  BY <1>0 DEF RegisterBoarding, Standing
<1>1. /\ ticket_status[k] = "ISSUED"
      /\ record_status[r] = "NONE" /\ ~Active(k, None)
  BY <1>0, <1>k DEF RegisterBoarding, Standing, Active
<1>2. /\ record_status' = [record_status EXCEPT ![r] = "ACTIVE"]
      /\ record_of' = [record_of EXCEPT ![r] = k] /\ boarded_by' = [boarded_by EXCEPT ![r] = p]
      /\ UNCHANGED <<ticket_status, reversed_by>>
  BY <1>k, <1>p DEF RegisterBoarding
<1>3. BoardedBy(k) = None
  BY <1>1 DEF Aboard
<1>4. BoardedBy(k)' = p
  BY <1>0, <1>1, <1>2 DEF Aboard, BoardingTypeOK
<1>5. ASSUME NEW j \in Tickets \ {k} PROVE BoardedBy(j)' = BoardedBy(j)
  <2>1. \A q \in Records :
          (record_of[q] = j /\ record_status[q] = "ACTIVE")' <=>
            record_of[q] = j /\ record_status[q] = "ACTIVE"
    BY <1>0, <1>1, <1>2 DEF BoardingTypeOK
  <2>2. CASE \E q \in Records : record_of[q] = j /\ record_status[q] = "ACTIVE"
    <3>1. PICK q \in Records : record_of[q] = j /\ record_status[q] = "ACTIVE"
      BY <2>2
    <3>2. boarded_by'[q] = boarded_by[q]
      BY <1>0, <1>1, <1>2, <3>1 DEF BoardingTypeOK
    <3>3. QED
      BY <2>1, <3>1, <3>2 DEF Aboard
  <2>3. CASE ~\E q \in Records : record_of[q] = j /\ record_status[q] = "ACTIVE"
    BY <2>1, <2>3 DEF BoardedBy, Active
  <2>4. QED
    BY <2>2, <2>3
<1>6. UNCHANGED TakenBack
  BY <1>0, <1>1, <1>2 DEF TakenBack, BoardingTypeOK
<1>7. [j \in Tickets |-> BoardedBy(j)]' = [[j \in Tickets |-> BoardedBy(j)] EXCEPT ![k] = p]
  BY <1>4, <1>5
<1>8. Passengers!Board(k)
  BY <1>1, <1>2, <1>3, <1>4, <1>6, <1>7 DEF Passengers!Board
<1>9. QED
  BY <1>8 DEF Passengers!Next

\* Reversing the active record of a ticket is taking its boarding back.
LEMMA ReversingIsTakingBack ==
  ASSUME BoardingInv, Aboard, Aboard', NEW d \in Doors, ReverseBoarding(d)
  PROVE  Passengers!Next
<1>0. BoardingTypeOK /\ Standing(d) /\ OneActiveBoarding
  BY DEF BoardingInv
<1>r. PICK r \in Records : r = record[d] /\ record_status[r] = "ACTIVE"
  BY <1>0 DEF ReverseBoarding, Standing
<1>k. PICK k \in Tickets : k = record_of[r]
  BY <1>r DEF BoardingInv
<1>p. PICK p \in Staff : p = person[d]
  BY <1>0 DEF ReverseBoarding, Standing
<1>2. /\ record_status' = [record_status EXCEPT ![r] = "REVERSED"]
      /\ reversed_by' = [reversed_by EXCEPT ![r] = p]
      /\ UNCHANGED <<ticket_status, record_of, boarded_by>>
  BY <1>r, <1>p DEF ReverseBoarding
<1>3. \A q \in Records : k = record_of[q] /\ record_status[q] = "ACTIVE" => q = r
  BY <1>0, <1>r, <1>k DEF OneActiveBoarding
<1>4. BoardedBy(k) = boarded_by[r] /\ BoardedBy(k) # None
  BY <1>r, <1>k DEF Aboard, Active
<1>5. BoardedBy(k)' = None
  <2>1. ~Active(k, None)'
    BY <1>0, <1>r, <1>2, <1>3 DEF Active, BoardingTypeOK
  <2>2. QED
    BY <2>1 DEF BoardedBy
<1>6. ASSUME NEW j \in Tickets, j # k PROVE BoardedBy(j)' = BoardedBy(j)
  <2>1. \A q \in Records :
          (record_of[q] = j /\ record_status[q] = "ACTIVE")' <=>
            record_of[q] = j /\ record_status[q] = "ACTIVE"
    BY <1>0, <1>r, <1>k, <1>2, <1>6 DEF BoardingTypeOK
  <2>2. QED
    BY <1>2, <2>1 DEF BoardedBy, Active
<1>7. TakenBack' = TakenBack \cup {<<k, boarded_by[r], p>>}
  BY <1>0, <1>r, <1>k, <1>2 DEF TakenBack, BoardingTypeOK
<1>8. [j \in Tickets |-> BoardedBy(j)]' = [[j \in Tickets |-> BoardedBy(j)] EXCEPT ![k] = None]
  BY <1>5, <1>6
<1>9. Passengers!TakeBack(k, p)
  BY <1>2, <1>4, <1>7, <1>8 DEF Passengers!TakeBack
<1>10. QED
  BY <1>9 DEF Passengers!Next

\* Any number of doors keep the manifest: what is recorded took effect at once, of a ticket
\* that was good, and stays written.
THEOREM DoorsKeepTheManifest == BoardingSpec => ImplementsManifest
<1>1. BoardingInit => Passengers!Init
  BY DEF BoardingInit, Passengers!Init, BoardedBy, Active, TakenBack
<1>2. ASSUME BoardingInv, Aboard, Aboard', [BoardingNext]_boardingVars
      PROVE  [Passengers!Next]_Passengers!vars
  <2>1. ASSUME UNCHANGED recordVars, UNCHANGED ticket_status PROVE UNCHANGED Passengers!vars
    BY <2>1 DEF recordVars, Passengers!vars, BoardedBy, Active, TakenBack
  <2>2. ASSUME NEW k \in Tickets, VoidTicket(k) PROVE Passengers!Next
    <3>1. UNCHANGED <<record_status, record_of, boarded_by, reversed_by>>
      BY <2>2 DEF VoidTicket, recordVars
    <3>2. {j \in Tickets : ticket_status'[j] = "VOID"}
            = {j \in Tickets : ticket_status[j] = "VOID"} \cup {k}
      BY <1>2, <2>2 DEF VoidTicket, BoardingInv, BoardingTypeOK
    <3>3. [j \in Tickets |-> BoardedBy(j)]' = [j \in Tickets |-> BoardedBy(j)]
      BY <3>1 DEF BoardedBy, Active
    <3>4. TakenBack' = TakenBack
      BY <3>1 DEF TakenBack
    <3>5. Passengers!Void(k)
      BY <3>2, <3>3, <3>4 DEF Passengers!Void
    <3>6. QED
      BY <3>5 DEF Passengers!Next
  <2>3. ASSUME NEW d \in Doors, AtDoor(d) PROVE [Passengers!Next]_Passengers!vars
    BY <1>2, <2>1, <2>3, RegisteringIsBoarding, ReversingIsTakingBack
    DEF AtDoor, Scan, FindTicket, BeginReversal, Refuse, boardingRows, recordVars
  <2>4. ASSUME NEW j \in Journeys, MoveOn(j) PROVE UNCHANGED Passengers!vars
    BY <2>1, <2>4 DEF MoveOn
  <2>5. CASE UNCHANGED boardingVars
    BY <2>1, <2>5 DEF boardingVars, boardingRows, recordVars
  <2>6. QED
    BY <1>2, <2>2, <2>3, <2>4, <2>5 DEF BoardingNext
<1>3. QED
  BY <1>1, <1>2, BoardingStaysConsistent, BoardedByIs, BoardedByIsNext, PTL
  DEF BoardingSpec, ImplementsManifest, Passengers!Spec
=============================================================================
