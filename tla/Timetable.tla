----------------------------- MODULE Timetable ------------------------------
(***************************************************************************)
(* What the panel's trips promise, without requests, locks or rows: as if  *)
(* every service ran alone, a bus is given to trips whose hours are apart, *)
(* in time; a leg is sold at the fare and hours of that moment; and a trip *)
(* that has started keeps its hours and is sold no more.                   *)
(***************************************************************************)
EXTENDS Integers

CONSTANTS Trips, Buses, BusOf, Amounts,
  Hours,     \* of trips
  Patience,  \* how long after a trip's departure a change that was asked in time may come
  None       \* no trip

VARIABLES
  hour,
  state,       \* of each trip: "NONE", "SCHEDULED", "STARTED" or "COMPLETED"
  leaves, arrives,
  fare,        \* of a trip, 0 if it is not on sale
  leg,         \* the last one sold
  in_service   \* of each bus

trips == <<state, leaves, arrives>>
vars == <<hour, trips, fare, leg, in_service>>

Init ==
  /\ hour = 0 /\ state = [t \in Trips |-> "NONE"]
  /\ leaves = [t \in Trips |-> 0] /\ arrives = [t \in Trips |-> 0] /\ fare = [t \in Trips |-> 0]
  /\ leg = [trip |-> None, price |-> 0, departs |-> 0]
  /\ in_service = [b \in Buses |-> TRUE]

\* The bus of t is on no other trip between f and u.
BusIsFree(t, f, u) ==
  \A z \in Trips \ {t} :
    state[z] # "NONE" /\ BusOf[z] = BusOf[t] => u <= leaves[z] \/ arrives[z] <= f

\* The trip t, new or in time to be moved, gets its hours.
SetHours(t) ==
  /\ \/ state[t] = "NONE" /\ in_service[BusOf[t]]
     \/ state[t] = "SCHEDULED" /\ hour < leaves[t] + Patience
  /\ state' = [state EXCEPT ![t] = "SCHEDULED"]
  /\ UNCHANGED <<hour, fare, leg, in_service>>
  /\ \E f, u \in Hours :
       /\ f < u /\ (state[t] = "NONE" => hour < f)
       /\ leaves' = [leaves EXCEPT ![t] = f] /\ arrives' = [arrives EXCEPT ![t] = u]
       /\ BusIsFree(t, f, u)

SetFare(t, p) ==
  /\ state[t] = "SCHEDULED" /\ hour < leaves[t]
  /\ fare' = [fare EXCEPT ![t] = p]
  /\ UNCHANGED <<hour, trips, leg, in_service>>

Sell(t) ==
  /\ state[t] = "SCHEDULED" /\ fare[t] # 0
  /\ leg' = [trip |-> t, price |-> fare[t], departs |-> leaves[t]]
  /\ UNCHANGED <<hour, trips, fare, in_service>>

MoveOn(t) ==
  /\ \/ state[t] = "SCHEDULED" /\ state' = [state EXCEPT ![t] = "STARTED"]
     \/ state[t] = "STARTED" /\ state' = [state EXCEPT ![t] = "COMPLETED"]
  /\ UNCHANGED <<hour, leaves, arrives, fare, leg, in_service>>

SwitchBus(b) ==
  /\ in_service' = [in_service EXCEPT ![b] = ~@]
  /\ UNCHANGED <<hour, trips, fare, leg>>

Tick == hour' = hour + 1 /\ UNCHANGED <<trips, fare, leg, in_service>>

Next ==
  \/ \E t \in Trips :
       \/ SetHours(t)
       \/ \E p \in Amounts \cup {0} : SetFare(t, p)
       \/ Sell(t)
       \/ MoveOn(t)
  \/ \E b \in Buses : SwitchBus(b)
  \/ Tick

Spec == Init /\ [][Next]_vars
=============================================================================
