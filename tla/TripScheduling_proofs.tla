------------------------ MODULE TripScheduling_proofs ------------------------
(***************************************************************************)
(* What the panel's trips guarantee for any clerks, buses, routes, hours   *)
(* and amounts.                                                            *)
(***************************************************************************)
EXTENDS TripScheduling, TLAPS

Saving == {"line", "coach", "conflicts", "save"}

\* A request that creates a trip: the row is its own.
Creating(c) ==
  place[c] \in Saving /\ trip_status[trip[c]] = "NONE" =>
    /\ \A d \in Clerks : trip[d] = trip[c] => d = c
    /\ place[c] \in {"conflicts", "save"} => coach_active[CoachOf[trip[c]]]

\* A request that moves one: it came in time, and has the trip's lock.
Moving(c) ==
  place[c] \in Saving /\ trip_status[trip[c]] # "NONE" =>
    /\ trip_lock[trip[c]] = c /\ trip_status[trip[c]] = "SCHEDULED"
    /\ asked[c] < leaves[trip[c]]

\* Both: the bus is theirs from the search for conflicts on.
OnTheCoach(c) ==
  /\ place[c] \in {"conflicts", "save"} => coach_lock[CoachOf[trip[c]]] = c
  /\ place[c] = "save" => NoConflict(trip[c], from[c], to[c])

\* The rest have the trip's lock, and a sale the fare that it has read.
WithTheTrip(c) ==
  /\ place[c] \in {"fare", "sale", "sell", "STARTED", "COMPLETED"} => trip_lock[trip[c]] = c
  /\ place[c] = "sell" =>
       /\ trip_status[trip[c]] = "SCHEDULED" /\ fare_active[trip[c]]
       /\ price[c] = fare[trip[c]] /\ price[c] # 0
  /\ place[c] \in {"STARTED", "COMPLETED"} => trip_status[trip[c]] = Before(place[c])

Request(c) ==
  /\ place[c] # "idle" => trip[c] \in Departures /\ hour <= asked[c] + MaxWait
  /\ place[c] \in Saving \cup {"trip"} => from[c] < to[c]
  /\ place[c] \notin Saving \cup {"idle"} => trip_status[trip[c]] # "NONE"
  /\ Creating(c) /\ Moving(c) /\ OnTheCoach(c) /\ WithTheTrip(c)

TripInv == TripTypeOK /\ NoOverlap /\ \A c \in Clerks : Request(c)

LEMMA TripInitInv == TripInit => TripInv
BY TripAssumption
   DEF TripInit, TripInv, TripTypeOK, Hours, NoOverlap, Request, Creating, Moving, OnTheCoach,
       WithTheTrip, Saving

-----------------------------------------------------------------------------
(* Steps that write no row but locks *)

\* What other requests know is not disturbed when only request c and locks that were free change.
LEMMA SparedRequests ==
  ASSUME TripInv, NEW c \in Clerks, NEW d \in Clerks \ {c}, UNCHANGED <<hour, rowVars>>,
         place'[d] = place[d], trip'[d] = trip[d], from'[d] = from[d], to'[d] = to[d],
         price'[d] = price[d], asked'[d] = asked[d],
         trip'[c] \in {trip[c], NoTrip} \/ trip_status[trip'[c]] # "NONE"
           \/ \A e \in Clerks : trip[e] # trip'[c],
         \A e \in Clerks \ {c, d} : trip'[e] = trip[e],
         \A t \in Departures : trip_lock[t] = d => trip_lock'[t] = d,
         \A b \in Coaches : coach_lock[b] = d => coach_lock'[b] = d
  PROVE  Request(d)'
<1>1. TripTypeOK /\ Request(d)
  BY DEF TripInv
<1>2. place[d] # "idle" => trip[d] \in Departures /\ CoachOf[trip[d]] \in Coaches
  BY <1>1, TripAssumption DEF Request
<1>3. Creating(d)'
  BY <1>1, <1>2, TripAssumption DEF TripTypeOK, Request, Creating, Saving, rowVars, tripVars
<1>4. Moving(d)' /\ OnTheCoach(d)' /\ WithTheTrip(d)'
  BY <1>1, <1>2
     DEF Request, Moving, OnTheCoach, WithTheTrip, NoConflict, Saving, rowVars, tripVars, fareVars
<1>5. QED
  BY <1>1, <1>3, <1>4 DEF Request, Saving, rowVars, tripVars

\* Nothing that holds of the rows is disturbed.
LEMMA UnwrittenTrips ==
  ASSUME NoOverlap, UNCHANGED rowVars
  PROVE  NoOverlap'
BY DEF NoOverlap, rowVars, tripVars

LEMMA ArriveInv ==
  ASSUME TripInv, NEW c \in Clerks, NEW t \in Departures, ArriveAt(c, t)
  PROVE  TripInv'
<1> USE TripAssumption DEF Arrive
<1>0. TripTypeOK /\ NoOverlap /\ \A d \in Clerks : Request(d)
  BY DEF TripInv
<1>1. ASSUME NEW f \in Hours, NEW u \in Hours, AskToCreate(c, t, f, u) PROVE TripInv'
  <2>1. TripTypeOK'
    BY <1>0, <1>1 DEF AskToCreate, TripTypeOK, Hours, rowVars, tripVars, fareVars, tripLockVars
  <2>2. Request(c)'
    BY <1>0, <1>1
       DEF AskToCreate, TripTypeOK, Request, Creating, Moving, OnTheCoach, WithTheTrip, Saving,
           rowVars, tripVars
  <2>3. ASSUME NEW d \in Clerks \ {c} PROVE Request(d)'
    BY <1>0, <1>1, SparedRequests DEF AskToCreate, TripInv, TripTypeOK, tripLockVars
  <2>4. QED
    BY <1>0, <1>1, <2>1, <2>2, <2>3, UnwrittenTrips DEF AskToCreate, TripInv
<1>2. ASSUME NEW f \in Hours, NEW u \in Hours, AskToMove(c, t, f, u) PROVE TripInv'
  <2>1. TripTypeOK'
    BY <1>0, <1>2 DEF AskToMove, TripTypeOK, Hours, rowVars, tripVars, fareVars, tripLockVars
  <2>2. Request(c)'
    BY <1>0, <1>2
       DEF AskToMove, TripTypeOK, Request, Creating, Moving, OnTheCoach, WithTheTrip, Saving,
           rowVars, tripVars
  <2>3. ASSUME NEW d \in Clerks \ {c} PROVE Request(d)'
    BY <1>0, <1>2, SparedRequests DEF AskToMove, TripInv, TripTypeOK, tripLockVars
  <2>4. QED
    BY <1>0, <1>2, <2>1, <2>2, <2>3, UnwrittenTrips DEF AskToMove, TripInv
<1>3. ASSUME NEW p \in Amounts \cup {0}, LockForFare(c, t, p) PROVE TripInv'
  <2>1. TripTypeOK'
    BY <1>0, <1>3
       DEF LockForFare, LockTrip, TripTypeOK, Hours, rowVars, tripVars, fareVars
  <2>2. Request(c)'
    BY <1>0, <1>3
       DEF LockForFare, LockTrip, TripTypeOK, Request, Creating, Moving, OnTheCoach, WithTheTrip,
           Saving, rowVars, tripVars
  <2>3. ASSUME NEW d \in Clerks \ {c} PROVE Request(d)'
    BY <1>0, <1>3, SparedRequests DEF LockForFare, LockTrip, TripInv, TripTypeOK
  <2>4. QED
    BY <1>0, <1>3, <2>1, <2>2, <2>3, UnwrittenTrips DEF LockForFare, TripInv
<1>4. ASSUME LockForSale(c, t) PROVE TripInv'
  <2>1. TripTypeOK'
    BY <1>0, <1>4
       DEF LockForSale, LockTrip, TripTypeOK, Hours, rowVars, tripVars, fareVars
  <2>2. Request(c)'
    BY <1>0, <1>4
       DEF LockForSale, LockTrip, TripTypeOK, Request, Creating, Moving, OnTheCoach, WithTheTrip,
           Saving, rowVars, tripVars
  <2>3. ASSUME NEW d \in Clerks \ {c} PROVE Request(d)'
    BY <1>0, <1>4, SparedRequests DEF LockForSale, LockTrip, TripInv, TripTypeOK
  <2>4. QED
    BY <1>0, <1>4, <2>1, <2>2, <2>3, UnwrittenTrips DEF LockForSale, TripInv
<1>5. ASSUME NEW target \in {"STARTED", "COMPLETED"}, LockForStatus(c, t, target) PROVE TripInv'
  <2>0. trip_status[t] # "NONE"
    BY <1>5 DEF LockForStatus, Before
  <2>1. TripTypeOK'
    BY <1>0, <1>5
       DEF LockForStatus, LockTrip, TripTypeOK, Hours, rowVars, tripVars, fareVars
  <2>2. Request(c)'
    BY <1>0, <1>5, <2>0
       DEF LockForStatus, LockTrip, TripTypeOK, Request, Creating, Moving, OnTheCoach,
           WithTheTrip, Saving, rowVars, tripVars
  <2>3. ASSUME NEW d \in Clerks \ {c} PROVE Request(d)'
    BY <1>0, <1>5, <2>0, SparedRequests DEF LockForStatus, LockTrip, TripInv, TripTypeOK
  <2>4. QED
    BY <1>0, <1>5, <2>1, <2>2, <2>3, UnwrittenTrips DEF LockForStatus, TripInv
<1>6. QED
  BY <1>1, <1>2, <1>3, <1>4, <1>5 DEF ArriveAt

LEMMA GoOnInv ==
  ASSUME TripInv, NEW c \in Clerks, GoOn(c)
  PROVE  TripInv'
<1> USE TripAssumption DEF Proceed
<1>0. TripTypeOK /\ NoOverlap /\ Request(c)
  BY DEF TripInv
<1>1. ASSUME LockForMove(c) PROVE TripInv'
  <2>1. TripTypeOK'
    BY <1>0, <1>1
       DEF LockForMove, LockTrip, Request, TripTypeOK, Hours, rowVars, tripVars, fareVars
  <2>2. Request(c)'
    BY <1>0, <1>1
       DEF LockForMove, LockTrip, MayModify, TripTypeOK, Request, Creating, Moving, OnTheCoach,
           WithTheTrip, Saving, rowVars, tripVars
  <2>3. ASSUME NEW d \in Clerks \ {c} PROVE Request(d)'
    BY <1>0, <1>1, SparedRequests DEF LockForMove, LockTrip, Request, TripInv, TripTypeOK
  <2>4. QED
    BY <1>0, <1>1, <2>1, <2>2, <2>3, UnwrittenTrips DEF LockForMove, TripInv
<1>2. ASSUME LockLine(c) PROVE TripInv'
  <2>1. TripTypeOK'
    BY <1>0, <1>2
       DEF LockLine, Request, TripTypeOK, Hours, rowVars, tripVars, fareVars
  <2>2. Request(c)'
    BY <1>0, <1>2
       DEF LockLine, TripTypeOK, Request, Creating, Moving, OnTheCoach, WithTheTrip, Saving,
           rowVars, tripVars
  <2>3. ASSUME NEW d \in Clerks \ {c} PROVE Request(d)'
    BY <1>0, <1>2, SparedRequests DEF LockLine, TripInv, TripTypeOK
  <2>4. QED
    BY <1>0, <1>2, <2>1, <2>2, <2>3, UnwrittenTrips DEF LockLine, TripInv
<1>3. ASSUME LockCoach(c) PROVE TripInv'
  <2>1. TripTypeOK'
    BY <1>0, <1>3
       DEF LockCoach, Request, TripTypeOK, Hours, rowVars, tripVars, fareVars
  <2>2. Request(c)'
    BY <1>0, <1>3
       DEF LockCoach, TripTypeOK, Request, Creating, Moving, OnTheCoach, WithTheTrip, Saving,
           rowVars, tripVars
  <2>3. ASSUME NEW d \in Clerks \ {c} PROVE Request(d)'
    BY <1>0, <1>3, SparedRequests DEF LockCoach, Request, TripInv, TripTypeOK
  <2>4. QED
    BY <1>0, <1>3, <2>1, <2>2, <2>3, UnwrittenTrips DEF LockCoach, TripInv
<1>4. ASSUME FindNoConflict(c) PROVE TripInv'
  <2>1. TripTypeOK'
    BY <1>0, <1>4
       DEF FindNoConflict, TripTypeOK, Hours, rowVars, tripVars, fareVars, tripLockVars
  <2>2. Request(c)'
    BY <1>0, <1>4
       DEF FindNoConflict, NoConflict, TripTypeOK, Request, Creating, Moving, OnTheCoach,
           WithTheTrip, Saving, rowVars, tripVars, tripLockVars
  <2>3. ASSUME NEW d \in Clerks \ {c} PROVE Request(d)'
    BY <1>0, <1>4, SparedRequests DEF FindNoConflict, TripInv, TripTypeOK, tripLockVars
  <2>4. QED
    BY <1>0, <1>4, <2>1, <2>2, <2>3, UnwrittenTrips DEF FindNoConflict, TripInv
<1>5. ASSUME ReadFare(c) PROVE TripInv'
  <2>1. TripTypeOK'
    BY <1>0, <1>5
       DEF ReadFare, Request, TripTypeOK, Hours, rowVars, tripVars, fareVars, tripLockVars
  <2>2. Request(c)'
    BY <1>0, <1>5
       DEF ReadFare, TripTypeOK, Request, Creating, Moving, OnTheCoach, WithTheTrip, Saving,
           rowVars, tripVars, fareVars, tripLockVars
  <2>3. ASSUME NEW d \in Clerks \ {c} PROVE Request(d)'
    BY <1>0, <1>5, SparedRequests DEF ReadFare, TripInv, TripTypeOK, tripLockVars
  <2>4. QED
    BY <1>0, <1>5, <2>1, <2>2, <2>3, UnwrittenTrips DEF ReadFare, TripInv
<1>6. QED
  BY <1>1, <1>2, <1>3, <1>4, <1>5 DEF GoOn

-----------------------------------------------------------------------------
(* Ends *)

\* The end of a request takes no lock from another one, and keeps the types.
LEMMA LeaveSparesOthers ==
  ASSUME TripTypeOK, NEW c \in Clerks, Leave(c)
  PROVE  /\ place'[c] = "idle" /\ trip'[c] = NoTrip /\ hour' = hour
         /\ \A d \in Clerks \ {c} :
              /\ place'[d] = place[d] /\ trip'[d] = trip[d] /\ from'[d] = from[d]
              /\ to'[d] = to[d] /\ price'[d] = price[d] /\ asked'[d] = asked[d]
              /\ \A t \in Departures : trip_lock[t] = d => trip_lock'[t] = d
              /\ \A b \in Coaches : coach_lock[b] = d => coach_lock'[b] = d
         /\ trip_lock' \in [Departures -> Clerks \cup {NoClerk}]
         /\ line_lock' \in [Lines -> Clerks \cup {NoClerk}]
         /\ coach_lock' \in [Coaches -> Clerks \cup {NoClerk}]
         /\ place' \in [Clerks -> {"idle", "trip", "line", "coach", "conflicts", "save", "fare",
                                   "sale", "sell", "STARTED", "COMPLETED"}]
         /\ trip' \in [Clerks -> Departures \cup {NoTrip}]
         /\ from' \in [Clerks -> Hours] /\ to' \in [Clerks -> Hours]
         /\ price' \in [Clerks -> Amounts \cup {0}] /\ asked' \in [Clerks -> 0 .. LastHour]
BY TripAssumption DEF TripTypeOK, Leave, Unlocked, Hours

\* The request that ends has nothing left to know.
LEMMA GoneRequest ==
  ASSUME NEW c \in Clerks, place'[c] = "idle"
  PROVE  Request(c)'
BY DEF Request, Creating, Moving, OnTheCoach, WithTheTrip, Saving

LEMMA RollBackInv ==
  ASSUME TripInv, NEW c \in Clerks, RollBackTrip(c)
  PROVE  TripInv'
<1>0. TripTypeOK /\ NoOverlap
  BY DEF TripInv
<1>1. TripTypeOK'
  BY <1>0, LeaveSparesOthers DEF RollBackTrip, TripTypeOK, rowVars, tripVars, fareVars
<1>2. ASSUME NEW d \in Clerks \ {c} PROVE Request(d)'
  BY <1>0, LeaveSparesOthers, SparedRequests DEF RollBackTrip
<1>3. QED
  BY <1>0, <1>1, <1>2, GoneRequest, LeaveSparesOthers, UnwrittenTrips DEF TripInv, RollBackTrip

\* The trip that is saved meets no other trip of its bus, and nobody else is about to save one.
LEMMA SaveTripInv ==
  ASSUME TripInv, NEW c \in Clerks, SaveTrip(c)
  PROVE  TripInv'
<1> DEFINE t == trip[c]
<1>0. TripTypeOK /\ NoOverlap /\ Request(c)
  BY DEF TripInv
<1>1. /\ t \in Departures /\ from[c] < to[c] /\ from[c] \in Hours /\ to[c] \in Hours
      /\ coach_lock[CoachOf[t]] = c /\ NoConflict(t, from[c], to[c])
      /\ trip_status[t] \in {"NONE", "SCHEDULED"}
      /\ trip_status[t] # "NONE" => trip_lock[t] = c
      /\ trip_status[t] = "NONE" => \A d \in Clerks : trip[d] = t => d = c
  BY <1>0 DEF SaveTrip, Request, Creating, Moving, OnTheCoach, Saving, TripTypeOK
<1>2. /\ trip_status' = [trip_status EXCEPT ![t] = "SCHEDULED"]
      /\ leaves' = [leaves EXCEPT ![t] = from[c]] /\ arrives' = [arrives EXCEPT ![t] = to[c]]
      /\ Leave(c) /\ UNCHANGED <<fareVars, leg, coach_active>>
  BY <1>0, <1>1 DEF SaveTrip, TripTypeOK
<1>3. TripTypeOK'
  BY <1>0, <1>1, <1>2, LeaveSparesOthers DEF TripTypeOK, Hours, fareVars
<1>4. NoOverlap'
  BY <1>0, <1>1, <1>2, TripAssumption DEF NoOverlap, NoConflict, TripTypeOK, Hours
<1>5. ASSUME NEW d \in Clerks \ {c} PROVE Request(d)'
  <2>0. Request(d)
    BY DEF TripInv
  <2>1. place[d] # "idle" => trip[d] \in Departures /\ CoachOf[trip[d]] \in Coaches
    BY <2>0, TripAssumption DEF Request
  <2>2. place[d] # "idle" /\ trip[d] = t => place[d] = "trip"
    BY <1>0, <1>1, <2>0 DEF Request, Creating, Moving, WithTheTrip, Saving, TripTypeOK
  <2>3. place[d] \in {"conflicts", "save"} => CoachOf[trip[d]] # CoachOf[t]
    BY <1>1, <2>0 DEF Request, OnTheCoach
  <2>4. Creating(d)' /\ Moving(d)'
    BY <1>0, <1>2, <2>0, <2>1, <2>2, LeaveSparesOthers, TripAssumption
       DEF Request, Creating, Moving, Saving, TripTypeOK
  <2>5. OnTheCoach(d)'
    BY <1>0, <1>1, <1>2, <2>0, <2>1, <2>3, LeaveSparesOthers
       DEF Request, OnTheCoach, NoConflict, TripTypeOK
  <2>6. WithTheTrip(d)'
    BY <1>0, <1>2, <2>0, <2>1, <2>2, LeaveSparesOthers
       DEF Request, WithTheTrip, TripTypeOK, fareVars
  <2>7. QED
    BY <1>0, <1>2, <2>0, <2>1, <2>4, <2>5, <2>6, LeaveSparesOthers
       DEF Request, Saving, TripTypeOK
<1>6. QED
  BY <1>0, <1>2, <1>3, <1>4, <1>5, GoneRequest, LeaveSparesOthers DEF TripInv

\* A fare and a status are written by who has the trip's lock, so nobody has read them.
LEMMA SaveUnderTripLock ==
  ASSUME TripInv, NEW c \in Clerks, SaveFare(c) \/ CommitSale(c) \/ SaveStatus(c)
  PROVE  TripInv'
<1>0. TripTypeOK /\ NoOverlap /\ Request(c)
  BY DEF TripInv
<1>1. trip[c] \in Departures /\ trip_lock[trip[c]] = c /\ trip_status[trip[c]] # "NONE"
  BY <1>0 DEF SaveFare, CommitSale, SaveStatus, Request, WithTheTrip, Saving
<1>2. /\ Leave(c) /\ UNCHANGED <<leaves, arrives, coach_active>>
      /\ SaveFare(c) \/ CommitSale(c) => UNCHANGED trip_status
      /\ \A z \in Departures \ {trip[c]} :
           /\ trip_status'[z] = trip_status[z]
           /\ fare'[z] = fare[z] /\ fare_active'[z] = fare_active[z]
      /\ \A z \in Departures : trip_status'[z] = "NONE" <=> trip_status[z] = "NONE"
  BY <1>0, <1>1 DEF SaveFare, CommitSale, SaveStatus, tripVars, fareVars, TripTypeOK
<1>3. TripTypeOK'
  <2>1. trip_status' \in [Departures -> {"NONE", "SCHEDULED", "STARTED", "COMPLETED"}]
    BY <1>0 DEF SaveFare, CommitSale, SaveStatus, tripVars, TripTypeOK
  <2>2. fare' \in [Departures -> Amounts \cup {0}]
    BY <1>0 DEF SaveFare, CommitSale, SaveStatus, fareVars, TripTypeOK
  <2>3. fare_active' \in [Departures -> BOOLEAN]
    <3>1. \/ UNCHANGED fare_active
          \/ fare_active' = [fare_active EXCEPT ![trip[c]] = ~fare_active[trip[c]]]
      BY DEF SaveFare, CommitSale, SaveStatus, fareVars
    <3>2. fare_active \in [Departures -> BOOLEAN]
      BY <1>0 DEF TripTypeOK
    <3>3. QED
      BY <3>1, <3>2
  <2>4. leg' \in [trip : Departures \cup {NoTrip}, price : Amounts \cup {0}, departs : Hours]
    BY <1>0, <1>1 DEF SaveFare, CommitSale, SaveStatus, TripTypeOK
  <2>5. QED
    BY <1>0, <1>2, <2>1, <2>2, <2>3, <2>4, LeaveSparesOthers DEF TripTypeOK
<1>4. NoOverlap'
  BY <1>0, <1>2 DEF NoOverlap
<1>5. ASSUME NEW d \in Clerks \ {c} PROVE Request(d)'
  <2>0. Request(d)
    BY DEF TripInv
  <2>1. place[d] # "idle" => trip[d] \in Departures /\ CoachOf[trip[d]] \in Coaches
    BY <2>0, TripAssumption DEF Request
  <2>2. place[d] # "idle" /\ trip[d] = trip[c] => place[d] = "trip"
    BY <1>0, <1>1, <2>0 DEF Request, Creating, Moving, WithTheTrip, Saving, TripTypeOK
  <2>3. Creating(d)' /\ Moving(d)'
    BY <1>0, <1>2, <2>0, <2>1, <2>2, LeaveSparesOthers, TripAssumption
       DEF Request, Creating, Moving, Saving, TripTypeOK
  <2>4. OnTheCoach(d)'
    BY <1>0, <1>2, <2>0, <2>1, LeaveSparesOthers DEF Request, OnTheCoach, NoConflict
  <2>5. WithTheTrip(d)'
    BY <1>0, <1>2, <2>0, <2>1, <2>2, LeaveSparesOthers DEF Request, WithTheTrip
  <2>6. QED
    BY <1>0, <1>2, <2>0, <2>1, <2>3, <2>4, <2>5, LeaveSparesOthers DEF Request, Saving
<1>6. QED
  BY <1>0, <1>2, <1>3, <1>4, <1>5, GoneRequest, LeaveSparesOthers DEF TripInv

\* The clock, and buses taken in and out of service.
LEMMA MeanwhileTripInv ==
  ASSUME TripInv, TickHour \/ \E b \in Coaches : SwitchCoach(b)
  PROVE  TripInv'
<1>0. TripTypeOK /\ NoOverlap
  BY DEF TripInv
<1>1. ASSUME TickHour PROVE TripInv'
  <2>1. TripTypeOK' /\ NoOverlap'
    BY <1>0, <1>1, TripAssumption
       DEF TickHour, TripTypeOK, NoOverlap, rowVars, tripVars, fareVars, tripLockVars, clerkVars
  <2>2. ASSUME NEW c \in Clerks PROVE Request(c)'
    BY <1>0, <1>1, TripAssumption
       DEF TripInv, TickHour, TripTypeOK, Request, Creating, Moving, OnTheCoach, WithTheTrip,
           NoConflict, rowVars, tripVars, fareVars, tripLockVars, clerkVars
  <2>3. QED
    BY <2>1, <2>2 DEF TripInv
<1>2. ASSUME NEW b \in Coaches, SwitchCoach(b) PROVE TripInv'
  <2>1. TripTypeOK' /\ NoOverlap'
    BY <1>0, <1>2
       DEF SwitchCoach, TripTypeOK, NoOverlap, tripVars, fareVars, tripLockVars, clerkVars
  <2>2. ASSUME NEW c \in Clerks PROVE Request(c)'
    <3>0. Request(c)
      BY DEF TripInv
    <3>1. place[c] \in {"conflicts", "save"} => CoachOf[trip[c]] # b
      BY <3>0, <1>2, TripAssumption DEF SwitchCoach, Request, OnTheCoach
    <3>2. Creating(c)'
      BY <1>0, <1>2, <3>0, <3>1, TripAssumption
         DEF SwitchCoach, Request, Creating, Saving, TripTypeOK, tripVars, clerkVars
    <3>3. QED
      BY <3>0, <3>2, <1>2
         DEF SwitchCoach, Request, Moving, OnTheCoach, WithTheTrip, NoConflict, tripVars,
             fareVars, tripLockVars, clerkVars
  <2>3. QED
    BY <2>1, <2>2 DEF TripInv
<1>3. QED
  BY <1>1, <1>2

-----------------------------------------------------------------------------
(* Theorems *)

\* TripInv is inductive.
THEOREM TripsStayConsistent == TripSpec => []TripInv
<1>1. TripInv /\ [TripNext]_schedulingVars => TripInv'
  <2> SUFFICES ASSUME TripInv, [TripNext]_schedulingVars PROVE TripInv'
    OBVIOUS
  <2>1. CASE TripNext
    BY <2>1, ArriveInv, GoOnInv, SaveTripInv, SaveUnderTripLock, RollBackInv, MeanwhileTripInv
       DEF TripNext, Save
  <2>2. CASE UNCHANGED schedulingVars
    BY <2>2
       DEF TripInv, TripTypeOK, NoOverlap, Request, Creating, Moving, OnTheCoach, WithTheTrip,
           NoConflict, schedulingVars, rowVars, tripVars, fareVars, tripLockVars, clerkVars
  <2>3. QED
    BY <2>1, <2>2
<1>2. QED
  BY TripInitInv, <1>1, PTL DEF TripSpec

\* Every variable keeps its type, and trips arrive after they leave.
THEOREM TripTypeCorrect == TripSpec => []TripTypeOK
<1>1. TripInv => TripTypeOK
  BY DEF TripInv
<1>2. QED
  BY TripsStayConsistent, <1>1, PTL

\* No bus is on two trips at once, whatever is created and moved at the same time.
THEOREM BusesAreOnOneTrip == TripSpec => []NoOverlap
<1>1. TripInv => NoOverlap
  BY DEF TripInv
<1>2. QED
  BY TripsStayConsistent, <1>1, PTL

\* Only SaveTrip writes hours, and only SaveTrip and SaveStatus a status.
LEMMA WhoWritesTrips ==
  ASSUME TripInv, [TripNext]_schedulingVars
  PROVE  \/ UNCHANGED <<tripVars, leg>>
         \/ \E c \in Clerks : SaveTrip(c) \/ CommitSale(c) \/ SaveStatus(c)
<1>1. ASSUME NEW c \in Clerks, NEW t \in Departures, ArriveAt(c, t) PROVE UNCHANGED rowVars
  BY <1>1 DEF ArriveAt, AskToCreate, AskToMove, LockForFare, LockForSale, LockForStatus
<1>2. ASSUME NEW c \in Clerks, GoOn(c) PROVE UNCHANGED rowVars
  BY <1>2 DEF GoOn, LockForMove, LockLine, LockCoach, FindNoConflict, ReadFare
<1>3. ASSUME NEW c \in Clerks, RollBackTrip(c) \/ SaveFare(c) PROVE UNCHANGED <<tripVars, leg>>
  BY <1>3 DEF RollBackTrip, SaveFare, rowVars
<1>4. TickHour \/ (\E b \in Coaches : SwitchCoach(b)) => UNCHANGED <<tripVars, leg>>
  BY DEF TickHour, SwitchCoach, rowVars
<1>5. UNCHANGED rowVars \/ UNCHANGED schedulingVars => UNCHANGED <<tripVars, leg>>
  BY DEF rowVars, schedulingVars
<1>6. QED
  BY <1>1, <1>2, <1>3, <1>4, <1>5 DEF TripNext, Save

\* The hours of a trip stand once it has started, and after its departure but for a wait.
LEMMA StepFreezes ==
  ASSUME TripInv, [TripNext]_schedulingVars, NEW t \in Departures
  PROVE  Frozen(t)
<1> SUFFICES ASSUME trip_status[t] # "NONE", leaves'[t] # leaves[t] \/ arrives'[t] # arrives[t]
             PROVE  trip_status[t] = "SCHEDULED" /\ hour < leaves[t] + MaxWait
  BY DEF Frozen
<1>1. PICK c \in Clerks : SaveTrip(c)
  BY WhoWritesTrips DEF tripVars, CommitSale, SaveStatus
<1>2. trip[c] = t
  BY <1>1 DEF SaveTrip, TripInv, TripTypeOK
<1>3. QED
  BY <1>1, <1>2, TripAssumption DEF SaveTrip, TripInv, TripTypeOK, Request, Moving, Saving, Hours

\* A new trip has a bus that is in service, and an hour that is still to come.
LEMMA StepBearsInService ==
  ASSUME TripInv, [TripNext]_schedulingVars, NEW t \in Departures
  PROVE  BornInService(t)
<1> SUFFICES ASSUME trip_status[t] = "NONE", trip_status'[t] # "NONE"
             PROVE  coach_active[CoachOf[t]] /\ hour < leaves'[t]
  BY DEF BornInService
<1>1. \A c \in Clerks : ~(SaveStatus(c) /\ trip[c] = t)
  BY DEF SaveStatus, TripInv, Request, WithTheTrip, Before
<1>2. PICK c \in Clerks : SaveTrip(c)
  BY <1>1, WhoWritesTrips DEF tripVars, CommitSale, SaveStatus, TripInv, TripTypeOK
<1>3. trip[c] = t
  BY <1>2 DEF SaveTrip, TripInv, TripTypeOK
<1>4. QED
  BY <1>2, <1>3 DEF SaveTrip, TripInv, TripTypeOK, Request, Creating, Saving

\* A trip gets its hours in time, on a bus in service, and keeps them once it has started or
\* left.
THEOREM HoursStand == TripSpec => HoursHold
<1>1. TripInv /\ [TripNext]_schedulingVars =>
        [\A t \in Departures : BornInService(t) /\ Frozen(t)]_schedulingVars
  BY StepFreezes, StepBearsInService
<1>2. QED
  BY TripsStayConsistent, <1>1, PTL DEF TripSpec, HoursHold

\* What a leg copies is in force as it is sold.
THEOREM LegsAreSoldAsPublished == TripSpec => SoldAsPublished
<1>1. TripInv /\ [TripNext]_schedulingVars =>
        [leg' # leg =>
           /\ trip_status[leg'.trip] = "SCHEDULED" /\ fare_active[leg'.trip]
           /\ leg'.price = fare[leg'.trip] /\ leg'.departs = leaves[leg'.trip]]_schedulingVars
  <2> SUFFICES ASSUME TripInv, [TripNext]_schedulingVars, leg' # leg
               PROVE  /\ trip_status[leg'.trip] = "SCHEDULED" /\ fare_active[leg'.trip]
                      /\ leg'.price = fare[leg'.trip] /\ leg'.departs = leaves[leg'.trip]
    OBVIOUS
  <2>1. PICK c \in Clerks : CommitSale(c)
    BY WhoWritesTrips DEF SaveTrip, SaveStatus
  <2>2. QED
    BY <2>1 DEF CommitSale, TripInv, Request, WithTheTrip
<1>2. QED
  BY TripsStayConsistent, <1>1, PTL DEF TripSpec, SoldAsPublished

-----------------------------------------------------------------------------
(* Who waits for whom *)

\* Who has a row has come as far as its place says.
Holding(d) ==
  /\ \A t \in Departures : trip_lock[t] = d => place[d] \notin {"idle", "trip"}
  /\ \A l \in Lines : line_lock[l] = d => place[d] \in {"coach", "conflicts", "save"}
  /\ \A b \in Coaches : coach_lock[b] = d => place[d] \in {"conflicts", "save"}

\* A request that begins locks a trip at most, and one that goes on the row of its place.
LEMMA NextHolding ==
  ASSUME TripInv, [TripNext]_schedulingVars, \A e \in Clerks : Holding(e), NEW d \in Clerks
  PROVE  Holding(d)'
<1>0. TripTypeOK /\ Holding(d) /\ NoClerk # d
  BY TripAssumption DEF TripInv
<1>1. ASSUME NEW c \in Clerks, NEW t \in Departures, ArriveAt(c, t) PROVE Holding(d)'
  <2>1. PICK where : /\ where \in {"line", "trip", "fare", "sale", "STARTED", "COMPLETED"}
                     /\ place[c] = "idle" /\ place' = [place EXCEPT ![c] = where]
                     /\ UNCHANGED <<line_lock, coach_lock>>
                     /\ \/ UNCHANGED trip_lock
                        \/ trip_lock' = [trip_lock EXCEPT ![t] = c] /\ where # "trip"
    BY <1>1
    DEF ArriveAt, AskToCreate, AskToMove, LockForFare, LockForSale, LockForStatus, LockTrip,
        Arrive, tripLockVars
  <2>2. QED
    BY <1>0, <2>1 DEF Holding, TripTypeOK
<1>2. ASSUME NEW c \in Clerks, GoOn(c) PROVE Holding(d)'
  <2>0. trip[c] \in Departures /\ LineOf[trip[c]] \in Lines /\ CoachOf[trip[c]] \in Coaches
    BY <1>2, TripAssumption
    DEF GoOn, LockForMove, LockLine, LockCoach, FindNoConflict, ReadFare, TripInv, Request
  <2>1. CASE LockForMove(c)
    BY <1>0, <2>0, <2>1 DEF LockForMove, LockTrip, Proceed, Holding, TripTypeOK
  <2>2. CASE LockLine(c)
    BY <1>0, <2>0, <2>2 DEF LockLine, Proceed, Holding, TripTypeOK
  <2>3. CASE LockCoach(c)
    BY <1>0, <2>0, <2>3 DEF LockCoach, Proceed, Holding, TripTypeOK
  <2>4. CASE FindNoConflict(c) \/ ReadFare(c)
    BY <1>0, <2>4 DEF FindNoConflict, ReadFare, Proceed, Holding, TripTypeOK, tripLockVars
  <2>5. QED
    BY <1>2, <2>1, <2>2, <2>3, <2>4 DEF GoOn
<1>3. ASSUME NEW c \in Clerks, Save(c) \/ RollBackTrip(c) PROVE Holding(d)'
  <2>1. Leave(c)
    BY <1>3 DEF Save, SaveTrip, SaveFare, CommitSale, SaveStatus, RollBackTrip
  <2>2. QED
    BY <1>0, <2>1 DEF Leave, Unlocked, Holding, TripTypeOK
<1>4. ASSUME TickHour \/ (\E b \in Coaches : SwitchCoach(b)) \/ UNCHANGED schedulingVars
      PROVE  Holding(d)'
  BY <1>0, <1>4 DEF TickHour, SwitchCoach, schedulingVars, tripLockVars, clerkVars, Holding
<1>5. QED
  BY <1>1, <1>2, <1>3, <1>4 DEF TripNext

\* No requests wait for one another in a circle.
THEOREM NobodyWaitsInACircle == TripSpec => []NoCircleOfWaits
<1>1. TripInit => \A d \in Clerks : Holding(d)
  BY TripAssumption DEF TripInit, Holding
<1>2. TripInv /\ (\A d \in Clerks : Holding(d)) /\ [TripNext]_schedulingVars =>
        (\A d \in Clerks : Holding(d))'
  BY NextHolding
<1>3. TripInv /\ (\A d \in Clerks : Holding(d)) => NoCircleOfWaits
  <2> SUFFICES ASSUME TripInv, \A d \in Clerks : Holding(d), NEW c \in Clerks,
                      NEW d \in AwaitedBy(c)
               PROVE  Turn(c) < Turn(d)
    BY DEF NoCircleOfWaits
  <2>0. /\ d \in Clerks /\ Holding(d) /\ place[c] \in {"trip", "line", "coach"}
        /\ trip[c] \in Departures /\ LineOf[trip[c]] \in Lines /\ CoachOf[trip[c]] \in Coaches
    BY TripAssumption DEF AwaitedBy, TripInv, Request
  <2>1. QED
    BY <2>0 DEF AwaitedBy, Holding, Turn
<1>4. QED
  BY <1>1, <1>2, <1>3, TripsStayConsistent, PTL DEF TripSpec

-----------------------------------------------------------------------------
(* The abstract timetable *)

\* A request that is saved under the bus's lock, and the trip's if it was there, gives the trip
\* its hours at once, whatever has been saved since it looked for conflicts.
LEMMA SavingSetsHours ==
  ASSUME TripInv, NEW c \in Clerks, SaveTrip(c)
  PROVE  Table!Next
<1>0. PICK t : t = trip[c]
  OBVIOUS
<1>1. TripTypeOK /\ Request(c)
  BY DEF TripInv
<1>2. /\ t \in Departures /\ from[c] \in Hours /\ to[c] \in Hours /\ from[c] < to[c]
      /\ NoConflict(t, from[c], to[c])
      /\ trip_status[t] \in {"NONE", "SCHEDULED"}
      /\ hour \in Nat /\ hour <= asked[c] + MaxWait
  BY <1>0, <1>1, TripAssumption
  DEF SaveTrip, Request, Moving, OnTheCoach, Saving, TripTypeOK
<1>3. \/ trip_status[t] = "NONE" /\ coach_active[CoachOf[t]]
      \/ trip_status[t] = "SCHEDULED" /\ hour < leaves[t] + MaxWait
  <2>1. CASE trip_status[t] = "NONE"
    BY <1>0, <1>1, <2>1 DEF SaveTrip, Request, Creating, Saving
  <2>2. CASE trip_status[t] # "NONE"
    BY <1>0, <1>1, <1>2, <2>2, TripAssumption
    DEF SaveTrip, Request, Moving, Saving, TripTypeOK, Hours
  <2>3. QED
    BY <2>1, <2>2
<1>4. trip_status[t] = "NONE" => hour < from[c]
  BY <1>0 DEF SaveTrip
<1>5. Table!BusIsFree(t, from[c], to[c])
  BY <1>1, <1>2, TripAssumption DEF Table!BusIsFree, NoConflict, TripTypeOK, Hours
<1>6. /\ trip_status' = [trip_status EXCEPT ![t] = "SCHEDULED"]
      /\ leaves' = [leaves EXCEPT ![t] = from[c]] /\ arrives' = [arrives EXCEPT ![t] = to[c]]
      /\ UNCHANGED <<hour, fareVars, leg, coach_active>>
  BY <1>0, <1>1, <1>2 DEF SaveTrip, Leave, TripTypeOK
<1>7. [z \in Departures |-> FareOnSale(z)]' = [z \in Departures |-> FareOnSale(z)]
  BY <1>6 DEF FareOnSale, fareVars
<1>8. Table!SetHours(t)
  BY <1>2, <1>3, <1>4, <1>5, <1>6, <1>7 DEF Table!SetHours
<1>9. QED
  BY <1>2, <1>8 DEF Table!Next

\* A fare that is saved or switched is the fare on sale of a trip that can still be changed.
LEMMA SavingSetsFare ==
  ASSUME TripInv, NEW c \in Clerks, SaveFare(c)
  PROVE  Table!Next
<1>0. PICK t : t = trip[c]
  OBVIOUS
<1>1. TripTypeOK /\ Request(c)
  BY DEF TripInv
<1>2. t \in Departures /\ trip_status[t] = "SCHEDULED" /\ hour < leaves[t]
  BY <1>0, <1>1 DEF SaveFare, MayModify, Request
<1>3. /\ UNCHANGED <<hour, tripVars, leg, coach_active>>
      /\ \A z \in Departures \ {t} : fare'[z] = fare[z] /\ fare_active'[z] = fare_active[z]
  BY <1>0, <1>1 DEF SaveFare, Leave, TripTypeOK
<1>4. fare'[t] \in Amounts \cup {0}
  BY <1>0, <1>1, <1>2 DEF SaveFare, TripTypeOK
<1>5. PICK p \in Amounts \cup {0} : p = IF fare_active'[t] THEN fare'[t] ELSE 0
  BY <1>4
<1>6. [z \in Departures |-> FareOnSale(z)]' = [[z \in Departures |-> FareOnSale(z)] EXCEPT ![t] = p]
  BY <1>2, <1>3, <1>5 DEF FareOnSale
<1>7. Table!SetFare(t, p)
  BY <1>2, <1>3, <1>6 DEF Table!SetFare, Table!trips, tripVars
<1>8. QED
  BY <1>2, <1>5, <1>7 DEF Table!Next

\* A sale is at the fare and the hours of the moment at which it commits.
LEMMA CommittingSells ==
  ASSUME TripInv, NEW c \in Clerks, CommitSale(c)
  PROVE  Table!Next
<1>0. PICK t : t = trip[c]
  OBVIOUS
<1>1. TripTypeOK /\ Request(c)
  BY DEF TripInv
<1>2. /\ t \in Departures /\ trip_status[t] = "SCHEDULED" /\ fare_active[t]
      /\ price[c] = fare[t] /\ fare[t] \in Amounts
  BY <1>0, <1>1 DEF CommitSale, Request, WithTheTrip, TripTypeOK
<1>3. [z \in Departures |-> FareOnSale(z)][t] = fare[t] /\ fare[t] # 0
  BY <1>2, TripAssumption DEF FareOnSale
<1>4. /\ UNCHANGED <<hour, tripVars, fareVars, coach_active>>
      /\ leg' = [trip |-> t, price |-> fare[t], departs |-> leaves[t]]
  BY <1>0, <1>2 DEF CommitSale, Leave
<1>5. [z \in Departures |-> FareOnSale(z)]' = [z \in Departures |-> FareOnSale(z)]
  BY <1>4 DEF FareOnSale, fareVars
<1>6. Table!Sell(t)
  BY <1>2, <1>3, <1>4, <1>5 DEF Table!Sell, Table!trips, tripVars
<1>7. QED
  BY <1>2, <1>6 DEF Table!Next

\* A status is saved only over the one that comes before it.
LEMMA SavingMovesOn ==
  ASSUME TripInv, NEW c \in Clerks, SaveStatus(c)
  PROVE  Table!Next
<1>0. PICK t : t = trip[c]
  OBVIOUS
<1>1. Request(c)
  BY DEF TripInv
<1>2. t \in Departures /\ place[c] \in {"STARTED", "COMPLETED"}
      /\ trip_status[t] = Before(place[c])
  BY <1>0, <1>1 DEF SaveStatus, Request, WithTheTrip
<1>3. /\ UNCHANGED <<hour, leaves, arrives, fareVars, leg, coach_active>>
      /\ trip_status' = [trip_status EXCEPT ![t] = place[c]]
  BY <1>0 DEF SaveStatus, Leave
<1>4. [z \in Departures |-> FareOnSale(z)]' = [z \in Departures |-> FareOnSale(z)]
  BY <1>3 DEF FareOnSale, fareVars
<1>5. Table!MoveOn(t)
  BY <1>2, <1>3, <1>4 DEF Table!MoveOn, Before
<1>6. QED
  BY <1>2, <1>5 DEF Table!Next

\* The requests about trips come out as if each had run alone, at its commit.
THEOREM ClerksKeepTheTimetable == TripSpec => ImplementsTimetable
<1>1. TripInit => Table!Init
  BY DEF TripInit, Table!Init, FareOnSale
<1>2. ASSUME TripInv, [TripNext]_schedulingVars PROVE [Table!Next]_Table!vars
  <2>1. ASSUME UNCHANGED rowVars
        PROVE  UNCHANGED <<Table!trips, [z \in Departures |-> FareOnSale(z)], leg, coach_active>>
    BY <2>1 DEF rowVars, tripVars, fareVars, Table!trips, FareOnSale
  <2>2. ASSUME NEW c \in Clerks, NEW t \in Departures, ArriveAt(c, t) PROVE UNCHANGED Table!vars
    BY <2>1, <2>2
    DEF ArriveAt, AskToCreate, AskToMove, LockForFare, LockForSale, LockForStatus, Arrive,
        Table!vars
  <2>3. ASSUME NEW c \in Clerks, GoOn(c) \/ RollBackTrip(c) PROVE UNCHANGED Table!vars
    BY <2>1, <2>3
    DEF GoOn, LockForMove, LockLine, LockCoach, FindNoConflict, ReadFare, Proceed, RollBackTrip,
        Leave, Table!vars
  <2>4. ASSUME NEW c \in Clerks, Save(c) PROVE Table!Next
    BY <1>2, <2>4, SavingSetsHours, SavingSetsFare, CommittingSells, SavingMovesOn DEF Save
  <2>5. ASSUME NEW b \in Coaches, SwitchCoach(b) PROVE Table!Next
    <3>1. Table!SwitchBus(b)
      BY <2>5 DEF SwitchCoach, Table!SwitchBus, Table!trips, tripVars, fareVars, FareOnSale
    <3>2. QED
      BY <3>1 DEF Table!Next
  <2>6. ASSUME TickHour PROVE Table!Next
    <3>1. Table!Tick
      BY <2>1, <2>6 DEF TickHour, Table!Tick
    <3>2. QED
      BY <3>1 DEF Table!Next
  <2>7. CASE UNCHANGED schedulingVars
    BY <2>1, <2>7 DEF schedulingVars, Table!vars
  <2>8. QED
    BY <1>2, <2>2, <2>3, <2>4, <2>5, <2>6, <2>7 DEF TripNext
<1>3. QED
  BY <1>1, <1>2, TripsStayConsistent, PTL DEF TripSpec, ImplementsTimetable, Table!Spec
=============================================================================
