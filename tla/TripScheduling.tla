--------------------------- MODULE TripScheduling ---------------------------
(***************************************************************************)
(* The hours, the fares and the status of the trips, as the panel sets     *)
(* them (panel/trip_services.py over operations/services.py) while         *)
(* create_booking copies them.  Every request is a transaction at READ     *)
(* COMMITTED that locks rows one after the other.                          *)
(***************************************************************************)
EXTENDS Integers

CONSTANTS
  Clerks,      \* requests served at once
  Departures,  \* the Trip rows there may ever be
  Lines,       \* Route rows
  Coaches,     \* Bus rows
  LineOf, CoachOf,  \* the route and the bus of a departure, which never change
  Amounts,     \* amounts of a TripFare
  LastHour,    \* bound: the clock stops there
  MaxWait,     \* bound: how long a request may wait for its locks
  NoClerk, NoTrip

Hours == 0 .. LastHour + 1

ASSUME TripAssumption ==
  /\ LineOf \in [Departures -> Lines] /\ CoachOf \in [Departures -> Coaches]
  /\ Amounts \subseteq Nat \ {0} /\ LastHour \in Nat /\ MaxWait \in Nat
  /\ NoClerk \notin Clerks /\ NoTrip \notin Departures

VARIABLES
  hour,                          \* the clock
  trip_status, leaves, arrives,  \* Trip.status, the first and the last TripStop.scheduled_at
  fare, fare_active,             \* the TripFare of a departure: 0 before there is one
  leg,                           \* the last BookingLeg sold, with the price of its seat
  coach_active,                  \* Bus.is_active
  trip_lock, line_lock, coach_lock,     \* who holds the row
  place, trip, from, to, price, asked   \* of the request of a clerk

tripVars == <<trip_status, leaves, arrives>>
fareVars == <<fare, fare_active>>
rowVars == <<tripVars, fareVars, leg, coach_active>>
tripLockVars == <<trip_lock, line_lock, coach_lock>>
clerkVars == <<place, trip, from, to, price, asked>>
schedulingVars == <<hour, rowVars, tripLockVars, clerkVars>>

TripInit ==
  /\ hour = 0
  /\ trip_status = [t \in Departures |-> "NONE"]
  /\ leaves = [t \in Departures |-> 0] /\ arrives = [t \in Departures |-> 0]
  /\ fare = [t \in Departures |-> 0] /\ fare_active = [t \in Departures |-> TRUE]
  /\ leg = [trip |-> NoTrip, price |-> 0, departs |-> 0]
  /\ coach_active = [b \in Coaches |-> TRUE]
  /\ trip_lock = [t \in Departures |-> NoClerk] /\ line_lock = [l \in Lines |-> NoClerk]
  /\ coach_lock = [b \in Coaches |-> NoClerk]
  /\ place = [c \in Clerks |-> "idle"] /\ trip = [c \in Clerks |-> NoTrip]
  /\ from = [c \in Clerks |-> 0] /\ to = [c \in Clerks |-> 0]
  /\ price = [c \in Clerks |-> 0] /\ asked = [c \in Clerks |-> 0]

-----------------------------------------------------------------------------
(* Requests *)

Arrive(c, where, t, f, u, p) ==
  /\ place[c] = "idle"
  /\ place' = [place EXCEPT ![c] = where] /\ trip' = [trip EXCEPT ![c] = t]
  /\ from' = [from EXCEPT ![c] = f] /\ to' = [to EXCEPT ![c] = u]
  /\ price' = [price EXCEPT ![c] = p] /\ asked' = [asked EXCEPT ![c] = hour]
  /\ UNCHANGED hour

\* The request at a place goes on to the next one.
Proceed(c, here, there) ==
  /\ place[c] = here /\ place' = [place EXCEPT ![c] = there]
  /\ UNCHANGED <<hour, trip, from, to, asked>>

Unlocked(lock, c) == [r \in DOMAIN lock |-> IF lock[r] = c THEN NoClerk ELSE lock[r]]

\* Its transaction ends, and with it its locks.
Leave(c) ==
  /\ place' = [place EXCEPT ![c] = "idle"] /\ trip' = [trip EXCEPT ![c] = NoTrip]
  /\ from' = [from EXCEPT ![c] = 0] /\ to' = [to EXCEPT ![c] = 0]
  /\ price' = [price EXCEPT ![c] = 0] /\ asked' = [asked EXCEPT ![c] = 0]
  /\ trip_lock' = Unlocked(trip_lock, c) /\ line_lock' = Unlocked(line_lock, c)
  /\ coach_lock' = Unlocked(coach_lock, c)
  /\ UNCHANGED hour

\* Refused, failed, or chosen by the database to end a deadlock.
RollBackTrip(c) == place[c] # "idle" /\ Leave(c) /\ UNCHANGED rowVars

LockTrip(c, t) == trip_lock[t] = NoClerk /\ trip_lock' = [trip_lock EXCEPT ![t] = c]

\* can_modify_trip_schedules and can_modify_trip_fares.
MayModify(t, now) == trip_status[t] = "SCHEDULED" /\ now < leaves[t]

\* A request waits for its locks for MaxWait at most.
TickHour ==
  /\ hour < LastHour /\ hour' = hour + 1
  /\ \A c \in Clerks : place[c] # "idle" => hour < asked[c] + MaxWait
  /\ UNCHANGED <<rowVars, tripLockVars, clerkVars>>

-----------------------------------------------------------------------------
(* create_panel_trip and save_trip_schedules *)

\* The row t will be this request's own.
AskToCreate(c, t, f, u) ==
  /\ trip_status[t] = "NONE" /\ \A d \in Clerks : trip[d] # t
  /\ hour < f /\ f < u
  /\ Arrive(c, "line", t, f, u, 0)
  /\ UNCHANGED <<rowVars, tripLockVars>>

\* The clock is read before the trip's lock.
AskToMove(c, t, f, u) ==
  /\ trip_status[t] # "NONE"
  /\ hour < f /\ f < u
  /\ Arrive(c, "trip", t, f, u, 0)
  /\ UNCHANGED <<rowVars, tripLockVars>>

LockForMove(c) ==
  /\ place[c] = "trip" /\ LockTrip(c, trip[c])
  /\ MayModify(trip[c], asked[c])
  /\ Proceed(c, "trip", "line")
  /\ UNCHANGED <<rowVars, line_lock, coach_lock, price>>

\* FOR UPDATE reaches the route that is joined to the trip, too.
LockLine(c) ==
  /\ place[c] = "line"
  /\ line_lock[LineOf[trip[c]]] = NoClerk
  /\ line_lock' = [line_lock EXCEPT ![LineOf[trip[c]]] = c]
  /\ Proceed(c, "line", "coach")
  /\ UNCHANGED <<rowVars, trip_lock, coach_lock, price>>

\* Mutant: the bus is read without its lock.
LockCoach_NoLock(c) ==
  /\ place[c] = "coach"
  /\ trip_status[trip[c]] = "NONE" => coach_active[CoachOf[trip[c]]]
  /\ Proceed(c, "coach", "conflicts")
  /\ UNCHANGED <<rowVars, tripLockVars, price>>

\* Only a new trip asks for the bus to be active.
LockCoach(c) ==
  /\ place[c] = "coach"
  /\ coach_lock[CoachOf[trip[c]]] = NoClerk
  /\ coach_lock' = [coach_lock EXCEPT ![CoachOf[trip[c]]] = c]
  /\ trip_status[trip[c]] = "NONE" => coach_active[CoachOf[trip[c]]]
  /\ Proceed(c, "coach", "conflicts")
  /\ UNCHANGED <<rowVars, trip_lock, line_lock, price>>

\* No other trip of the bus that is there overlaps the hours f to u.
NoConflict(t, f, u) ==
  \A z \in Departures \ {t} :
    trip_status[z] # "NONE" /\ CoachOf[z] = CoachOf[t] => ~(leaves[z] < u /\ arrives[z] > f)

FindNoConflict(c) ==
  /\ place[c] = "conflicts"
  /\ NoConflict(trip[c], from[c], to[c])
  /\ Proceed(c, "conflicts", "save")
  /\ UNCHANGED <<rowVars, tripLockVars, price>>

\* A new trip must still leave in the future.
SaveTrip(c) ==
  /\ place[c] = "save"
  /\ trip_status[trip[c]] = "NONE" => hour < from[c]
  /\ trip_status' = [trip_status EXCEPT ![trip[c]] = IF @ = "NONE" THEN "SCHEDULED" ELSE @]
  /\ leaves' = [leaves EXCEPT ![trip[c]] = from[c]]
  /\ arrives' = [arrives EXCEPT ![trip[c]] = to[c]]
  /\ Leave(c)
  /\ UNCHANGED <<fareVars, leg, coach_active>>

-----------------------------------------------------------------------------
(* save_fare, set_fare_active *)

\* Mutant: the trip is read without its lock.
LockForFare_NoLock(c, t, p) ==
  /\ trip_status[t] # "NONE" /\ (p = 0 => fare[t] # 0)
  /\ Arrive(c, "fare", t, 0, 0, p)
  /\ UNCHANGED <<rowVars, tripLockVars>>

\* An amount of 0 asks to switch the fare that is there.
LockForFare(c, t, p) ==
  /\ trip_status[t] # "NONE" /\ (p = 0 => fare[t] # 0)
  /\ LockTrip(c, t)
  /\ Arrive(c, "fare", t, 0, 0, p)
  /\ UNCHANGED <<rowVars, line_lock, coach_lock>>

\* The clock is read after the lock.
SaveFare(c) ==
  LET t == trip[c]
  IN  /\ place[c] = "fare" /\ MayModify(t, hour)
      /\ IF price[c] = 0
         THEN fare_active' = [fare_active EXCEPT ![t] = ~@] /\ UNCHANGED fare
         ELSE fare' = [fare EXCEPT ![t] = price[c]] /\ UNCHANGED fare_active
      /\ Leave(c)
      /\ UNCHANGED <<tripVars, leg, coach_active>>

-----------------------------------------------------------------------------
(* create_booking, as far as the trip's rows go *)

LockForSale(c, t) ==
  /\ trip_status[t] # "NONE"
  /\ LockTrip(c, t)
  /\ Arrive(c, "sale", t, 0, 0, 0)
  /\ UNCHANGED <<rowVars, line_lock, coach_lock>>

ReadFare(c) ==
  LET t == trip[c]
  IN  /\ place[c] = "sale"
      /\ trip_status[t] = "SCHEDULED" /\ fare[t] # 0 /\ fare_active[t]
      /\ Proceed(c, "sale", "sell") /\ price' = [price EXCEPT ![c] = fare[t]]
      /\ UNCHANGED <<rowVars, tripLockVars>>

\* The hours were read before the fare, under the same lock.
CommitSale(c) ==
  /\ place[c] = "sell"
  /\ leg' = [trip |-> trip[c], price |-> price[c], departs |-> leaves[trip[c]]]
  /\ Leave(c)
  /\ UNCHANGED <<tripVars, fareVars, coach_active>>

-----------------------------------------------------------------------------
(* transition_trip, set_configuration_active *)

\* The status a trip must have to be given another one.
Before(target) == IF target = "STARTED" THEN "SCHEDULED" ELSE "STARTED"

LockForStatus(c, t, target) ==
  /\ trip_status[t] = Before(target)
  /\ LockTrip(c, t)
  /\ Arrive(c, target, t, 0, 0, 0)
  /\ UNCHANGED <<rowVars, line_lock, coach_lock>>

SaveStatus(c) ==
  /\ place[c] \in {"STARTED", "COMPLETED"}
  /\ trip_status' = [trip_status EXCEPT ![trip[c]] = place[c]]
  /\ Leave(c)
  /\ UNCHANGED <<leaves, arrives, fareVars, leg, coach_active>>

SwitchCoach(b) ==
  /\ coach_lock[b] = NoClerk
  /\ coach_active' = [coach_active EXCEPT ![b] = ~@]
  /\ UNCHANGED <<hour, tripVars, fareVars, leg, tripLockVars, clerkVars>>

-----------------------------------------------------------------------------
ArriveAt(c, t) ==
  \/ \E f, u \in Hours : AskToCreate(c, t, f, u) \/ AskToMove(c, t, f, u)
  \/ \E p \in Amounts \cup {0} : LockForFare(c, t, p)
  \/ LockForSale(c, t)
  \/ \E target \in {"STARTED", "COMPLETED"} : LockForStatus(c, t, target)

GoOn(c) ==
  \/ LockForMove(c)
  \/ LockLine(c)
  \/ LockCoach(c)
  \/ FindNoConflict(c)
  \/ ReadFare(c)

Save(c) ==
  \/ SaveTrip(c)
  \/ SaveFare(c)
  \/ CommitSale(c)
  \/ SaveStatus(c)

TripNext ==
  \/ TickHour
  \/ \E b \in Coaches : SwitchCoach(b)
  \/ \E c \in Clerks :
       \/ \E t \in Departures : ArriveAt(c, t)
       \/ GoOn(c)
       \/ Save(c)
       \/ RollBackTrip(c)

TripSpec == TripInit /\ [][TripNext]_schedulingVars

-----------------------------------------------------------------------------
(* Properties *)

\* Every variable has its type, and a trip arrives after it leaves.
TripTypeOK ==
  /\ hour \in 0 .. LastHour
  /\ trip_status \in [Departures -> {"NONE", "SCHEDULED", "STARTED", "COMPLETED"}]
  /\ leaves \in [Departures -> Hours] /\ arrives \in [Departures -> Hours]
  /\ fare \in [Departures -> Amounts \cup {0}] /\ fare_active \in [Departures -> BOOLEAN]
  /\ leg \in [trip : Departures \cup {NoTrip}, price : Amounts \cup {0}, departs : Hours]
  /\ coach_active \in [Coaches -> BOOLEAN]
  /\ trip_lock \in [Departures -> Clerks \cup {NoClerk}]
  /\ line_lock \in [Lines -> Clerks \cup {NoClerk}]
  /\ coach_lock \in [Coaches -> Clerks \cup {NoClerk}]
  /\ place \in [Clerks -> {"idle", "trip", "line", "coach", "conflicts", "save", "fare", "sale",
                           "sell", "STARTED", "COMPLETED"}]
  /\ trip \in [Clerks -> Departures \cup {NoTrip}]
  /\ from \in [Clerks -> Hours] /\ to \in [Clerks -> Hours]
  /\ price \in [Clerks -> Amounts \cup {0}] /\ asked \in [Clerks -> 0 .. LastHour]
  /\ \A t \in Departures : trip_status[t] # "NONE" => leaves[t] < arrives[t]

\* A bus is on one trip at a time, whoever creates trips for it and moves their hours (docs/
\* ARCHITECTURE.md:37).
NoOverlap ==
  \A t, z \in Departures :
    /\ t # z /\ CoachOf[t] = CoachOf[z]
    /\ trip_status[t] # "NONE" /\ trip_status[z] # "NONE"
    => arrives[t] <= leaves[z] \/ arrives[z] <= leaves[t]

\* A trip is created with a bus in service and an hour still to come.
BornInService(t) ==
  trip_status[t] = "NONE" /\ trip_status'[t] # "NONE" =>
    coach_active[CoachOf[t]] /\ hour < leaves'[t]

\* The hours of a trip that has started are never moved, nor those of one that has left, but
\* by a request that came in time and waited.
Frozen(t) ==
  trip_status[t] # "NONE" /\ (leaves'[t] # leaves[t] \/ arrives'[t] # arrives[t]) =>
    trip_status[t] = "SCHEDULED" /\ hour < leaves[t] + MaxWait

\* However long its request waited, a trip gets its hours in time, on a bus in service, and
\* keeps them once it has started or left (save_trip_schedules, create_panel_trip).
HoursHold == [][\A t \in Departures : BornInService(t) /\ Frozen(t)]_schedulingVars

\* A leg is sold at the fare and the hours that are in force as it is sold, on a trip that has
\* not started, however they are being changed (docs/STATUS_TARIFAS_SALIDA_20261025.md:25).
SoldAsPublished ==
  [][leg' # leg =>
       /\ trip_status[leg'.trip] = "SCHEDULED" /\ fare_active[leg'.trip]
       /\ leg'.price = fare[leg'.trip] /\ leg'.departs = leaves[leg'.trip]]_schedulingVars

\* The requests that have the row which c needs to go on.
AwaitedBy(c) ==
  {d \in Clerks :
     \/ place[c] = "trip" /\ trip_lock[trip[c]] = d
     \/ place[c] = "line" /\ line_lock[LineOf[trip[c]]] = d
     \/ place[c] = "coach" /\ coach_lock[CoachOf[trip[c]]] = d}

\* How far a request has come with its locks.
Turn(c) ==
  CASE place[c] = "trip" -> 1
    [] place[c] = "line" -> 2
    [] place[c] = "coach" -> 3
    [] OTHER -> 4

\* A request only waits for one that has come further, so none waits for itself over others:
\* trips, routes and buses are locked in this order by whoever locks them (docs/
\* PLAN_STAGING_Y_DATOS_SANDRO.md:25), the rows of stops apart.
NoCircleOfWaits == \A c \in Clerks : \A d \in AwaitedBy(c) : Turn(c) < Turn(d)

-----------------------------------------------------------------------------
(* The abstract timetable. *)

\* The fare a trip can be sold at, 0 if there is none.
FareOnSale(t) == IF fare_active[t] THEN fare[t] ELSE 0

Table == INSTANCE Timetable WITH
  Trips <- Departures, Buses <- Coaches, BusOf <- CoachOf, Patience <- MaxWait, None <- NoTrip,
  state <- trip_status, in_service <- coach_active, fare <- [t \in Departures |-> FareOnSale(t)]

\* The requests about trips come out as if each had run alone, at its commit: hours, fares,
\* sales and departures are never decided on what another request has changed since.
ImplementsTimetable == Table!Spec
=============================================================================
