------------------------------ MODULE CashBook ------------------------------
(***************************************************************************)
(* What the cash register promises, without requests, locks or rows: as if *)
(* every service ran alone, an operator has one drawer open at most, each  *)
(* booking is charged in one, and a drawer is closed at its balance and    *)
(* reviewed, once and for ever.                                            *)
(***************************************************************************)
EXTENDS Integers

CONSTANTS Operators, Drawers, Sales, Price, Adjustments, OpeningAmounts,
  Nobody  \* no operator and no drawer

VARIABLES
  state,       \* of each drawer: "NONE", "OPEN" or "CLOSED"
  holder,      \* the operator who opened it
  balance,     \* what it holds
  counted,     \* what it was closed at
  reviewer,    \* who reviewed the closing
  charged_in   \* the drawer a booking was paid into

vars == <<state, holder, balance, counted, reviewer, charged_in>>

Init ==
  /\ state = [s \in Drawers |-> "NONE"] /\ holder = [s \in Drawers |-> Nobody]
  /\ balance = [s \in Drawers |-> 0] /\ counted = [s \in Drawers |-> 0]
  /\ reviewer = [s \in Drawers |-> Nobody] /\ charged_in = [b \in Sales |-> Nobody]

Open(s, o, a) ==
  /\ state[s] = "NONE" /\ \A z \in Drawers : ~(state[z] = "OPEN" /\ holder[z] = o)
  /\ state' = [state EXCEPT ![s] = "OPEN"] /\ holder' = [holder EXCEPT ![s] = o]
  /\ balance' = [balance EXCEPT ![s] = a]
  /\ UNCHANGED <<counted, reviewer, charged_in>>

Charge(s, b) ==
  /\ state[s] = "OPEN" /\ charged_in[b] = Nobody
  /\ charged_in' = [charged_in EXCEPT ![b] = s]
  /\ balance' = [balance EXCEPT ![s] = @ + Price]
  /\ UNCHANGED <<state, holder, counted, reviewer>>

Adjust(s, a) ==
  /\ state[s] = "OPEN"
  /\ balance' = [balance EXCEPT ![s] = @ + a]
  /\ UNCHANGED <<state, holder, counted, reviewer, charged_in>>

Close(s) ==
  /\ state[s] = "OPEN"
  /\ state' = [state EXCEPT ![s] = "CLOSED"] /\ counted' = [counted EXCEPT ![s] = balance[s]]
  /\ UNCHANGED <<holder, balance, reviewer, charged_in>>

Review(s, o) ==
  /\ state[s] = "CLOSED" /\ reviewer[s] = Nobody
  /\ reviewer' = [reviewer EXCEPT ![s] = o]
  /\ UNCHANGED <<state, holder, balance, counted, charged_in>>

Next ==
  \E s \in Drawers :
    \/ \E o \in Operators : Review(s, o) \/ \E a \in OpeningAmounts : Open(s, o, a)
    \/ \E b \in Sales : Charge(s, b)
    \/ \E a \in Adjustments : Adjust(s, a)
    \/ Close(s)

Spec == Init /\ [][Next]_vars
=============================================================================
