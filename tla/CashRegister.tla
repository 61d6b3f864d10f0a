---------------------------- MODULE CashRegister ----------------------------
(***************************************************************************)
(* The cash sessions of the panel's operators (cash_register/), with the   *)
(* cash payment of a manual booking that charges one.  Every request is a  *)
(* transaction at READ COMMITTED: it locks rows as it reaches them, its    *)
(* writes are seen when it commits, and it may be rolled back before.      *)
(***************************************************************************)
EXTENDS Integers

CONSTANTS
  Desks,         \* requests the panel serves at once
  Operators,     \* users who open sessions, charge and review
  CashSessions,  \* the CashSession rows there may ever be
  ManualSales,   \* manual bookings that are HELD and have an amount
  Price,         \* what a booking costs
  Adjustments,   \* amounts of an ADJUSTMENT_IN, negative for an ADJUSTMENT_OUT
  OpeningAmounts,
  MaxBalance,    \* bound: no adjustment or opening takes a session beyond it
  Nobody

ASSUME CashAssumption ==
  /\ Price \in Nat \ {0} /\ Adjustments \subseteq Int /\ OpeningAmounts \subseteq Nat
  /\ MaxBalance \in Nat
  /\ Nobody \notin Desks \cup Operators \cup CashSessions \cup ManualSales

VARIABLES
  cash_status, opened_by, expected, reviewed_by,  \* columns of CashSession
  balance,  \* inflows less outflows of the session's committed movements
  charged,  \* CASH_SALE movements of a booking in each session
  paid,     \* bookings that are CONFIRMED, with an APPROVED payment
  session_lock, booking_lock,          \* who holds the row
  at, operator, cash, sale, amount     \* of the request at a desk

sessionVars == <<cash_status, opened_by, expected, reviewed_by>>
movementVars == <<balance, charged, paid>>
lockVars == <<session_lock, booking_lock>>
requestVars == <<at, operator, cash, sale, amount>>
cashVars == <<sessionVars, movementVars, lockVars, requestVars>>

CashInit ==
  /\ cash_status = [s \in CashSessions |-> "NONE"] /\ opened_by = [s \in CashSessions |-> Nobody]
  /\ expected = [s \in CashSessions |-> 0] /\ reviewed_by = [s \in CashSessions |-> Nobody]
  /\ balance = [s \in CashSessions |-> 0]
  /\ charged = [b \in ManualSales |-> [s \in CashSessions |-> 0]] /\ paid = {}
  /\ session_lock = [s \in CashSessions |-> Nobody]
  /\ booking_lock = [b \in ManualSales |-> Nobody]
  /\ at = [d \in Desks |-> "idle"] /\ operator = [d \in Desks |-> Nobody]
  /\ cash = [d \in Desks |-> Nobody] /\ sale = [d \in Desks |-> Nobody]
  /\ amount = [d \in Desks |-> 0]

-----------------------------------------------------------------------------
(* Transactions *)

\* The request at desk d has come to a place, for an operator, with its rows.
Goto(d, place, o, s, b, a) ==
  /\ at' = [at EXCEPT ![d] = place] /\ operator' = [operator EXCEPT ![d] = o]
  /\ cash' = [cash EXCEPT ![d] = s] /\ sale' = [sale EXCEPT ![d] = b]
  /\ amount' = [amount EXCEPT ![d] = a]

LockSession(d, s) ==
  session_lock[s] = Nobody /\ session_lock' = [session_lock EXCEPT ![s] = d]

\* The transaction ends, and with it its locks.
End(d) ==
  /\ Goto(d, "idle", Nobody, Nobody, Nobody, 0)
  /\ session_lock' =
       [s \in CashSessions |-> IF session_lock[s] = d THEN Nobody ELSE session_lock[s]]
  /\ booking_lock' = [b \in ManualSales |-> IF booking_lock[b] = d THEN Nobody ELSE booking_lock[b]]

\* Refused, failed or disconnected: nothing of what it wrote remains.
RollBackCash(d) ==
  /\ at[d] # "idle"
  /\ End(d)
  /\ UNCHANGED <<sessionVars, movementVars>>

\* The one session that the operator has open, as a query sees it.
OpenOf(o, s) == cash_status[s] = "OPEN" /\ opened_by[s] = o

-----------------------------------------------------------------------------
(* open_cash.  The row it locks first is the one that makes its insertion fail, so only
   the insertion is a step. *)

\* The unique index waits for another insertion of the same operator to end.
InsertSession(d, o, s, a) ==
  /\ at[d] = "idle" /\ cash_status[s] = "NONE" /\ \A e \in Desks : cash[e] # s
  /\ \A z \in CashSessions : ~OpenOf(o, z)
  /\ \A e \in Desks : ~(at[e] = "opening" /\ operator[e] = o)
  /\ Goto(d, "opening", o, s, Nobody, a)
  /\ UNCHANGED <<sessionVars, movementVars, lockVars>>

CommitOpen(d) ==
  LET s == cash[d]
  IN  /\ at[d] = "opening"
      /\ cash_status' = [cash_status EXCEPT ![s] = "OPEN"]
      /\ opened_by' = [opened_by EXCEPT ![s] = operator[d]]
      /\ balance' = [balance EXCEPT ![s] = amount[d]]
      /\ End(d)
      /\ UNCHANGED <<expected, reviewed_by, charged, paid>>

-----------------------------------------------------------------------------
(* _register_cash_payment_atomic with record_cash_sale *)

\* Mutant: the booking's status is read without its lock.
BeginCashPayment_NoLock(d, o, b) ==
  /\ at[d] = "idle" /\ b \notin paid
  /\ Goto(d, "paying", o, Nobody, b, 0)
  /\ UNCHANGED <<sessionVars, movementVars, lockVars>>

BeginCashPayment(d, o, b) ==
  /\ at[d] = "idle" /\ b \notin paid
  /\ booking_lock[b] = Nobody /\ booking_lock' = [booking_lock EXCEPT ![b] = d]
  /\ Goto(d, "paying", o, Nobody, b, 0)
  /\ UNCHANGED <<sessionVars, movementVars, session_lock>>

\* Mutant: the open session is found as current_cash finds it.
ChargeSession_NoLock(d, s) ==
  /\ at[d] = "paying" /\ OpenOf(operator[d], s)
  /\ Goto(d, "charged", operator[d], s, sale[d], Price)
  /\ UNCHANGED <<sessionVars, movementVars, lockVars>>

\* Without an open session the request is refused, which RollBackCash does.
ChargeSession(d, s) ==
  /\ at[d] = "paying" /\ OpenOf(operator[d], s)
  /\ LockSession(d, s)
  /\ Goto(d, "charged", operator[d], s, sale[d], Price)
  /\ UNCHANGED <<sessionVars, movementVars, booking_lock>>

CommitCashPayment(d) ==
  LET s == cash[d]
      b == sale[d]
  IN  /\ at[d] = "charged"
      /\ charged' = [charged EXCEPT ![b][s] = @ + 1]
      /\ balance' = [balance EXCEPT ![s] = @ + amount[d]]
      /\ paid' = paid \cup {b}
      /\ End(d)
      /\ UNCHANGED sessionVars

-----------------------------------------------------------------------------
(* record_adjustment *)

BeginAdjustment(d, s, a) ==
  /\ at[d] = "idle" /\ cash_status[s] = "OPEN"
  /\ balance[s] + a \in -MaxBalance .. MaxBalance
  /\ LockSession(d, s)
  /\ Goto(d, "adjusting", Nobody, s, Nobody, a)
  /\ UNCHANGED <<sessionVars, movementVars, booking_lock>>

CommitAdjustment(d) ==
  /\ at[d] = "adjusting"
  /\ balance' = [balance EXCEPT ![cash[d]] = @ + amount[d]]
  /\ End(d)
  /\ UNCHANGED <<sessionVars, charged, paid>>

-----------------------------------------------------------------------------
(* close_cash *)

BeginClose(d, o, s) ==
  /\ at[d] = "idle" /\ OpenOf(o, s)
  /\ LockSession(d, s)
  /\ Goto(d, "closing", o, s, Nobody, 0)
  /\ UNCHANGED <<sessionVars, movementVars, booking_lock>>

\* The two sums see what is committed by then.
SumMovements(d) ==
  /\ at[d] = "closing"
  /\ Goto(d, "summed", operator[d], cash[d], Nobody, balance[cash[d]])
  /\ UNCHANGED <<sessionVars, movementVars, lockVars>>

CommitClose(d) ==
  /\ at[d] = "summed"
  /\ cash_status' = [cash_status EXCEPT ![cash[d]] = "CLOSED"]
  /\ expected' = [expected EXCEPT ![cash[d]] = amount[d]]
  /\ End(d)
  /\ UNCHANGED <<opened_by, reviewed_by, movementVars>>

-----------------------------------------------------------------------------
(* review_cash_close *)

\* Mutants: any session may be reviewed; two reviewers find it unreviewed.
BeginReview_AnyStatus(d, o, s) ==
  /\ at[d] = "idle" /\ cash_status[s] # "NONE" /\ reviewed_by[s] = Nobody
  /\ LockSession(d, s)
  /\ Goto(d, "reviewing", o, s, Nobody, 0)
  /\ UNCHANGED <<sessionVars, movementVars, booking_lock>>

BeginReview_NoLock(d, o, s) ==
  /\ at[d] = "idle" /\ cash_status[s] = "CLOSED" /\ reviewed_by[s] = Nobody
  /\ Goto(d, "reviewing", o, s, Nobody, 0)
  /\ UNCHANGED <<sessionVars, movementVars, lockVars>>

BeginReview(d, o, s) ==
  /\ at[d] = "idle" /\ cash_status[s] = "CLOSED" /\ reviewed_by[s] = Nobody
  /\ LockSession(d, s)
  /\ Goto(d, "reviewing", o, s, Nobody, 0)
  /\ UNCHANGED <<sessionVars, movementVars, booking_lock>>

CommitReview(d) ==
  /\ at[d] = "reviewing"
  /\ reviewed_by' = [reviewed_by EXCEPT ![cash[d]] = operator[d]]
  /\ End(d)
  /\ UNCHANGED <<cash_status, opened_by, expected, movementVars>>

-----------------------------------------------------------------------------
BeginRequest(d) ==
  \/ \E o \in Operators, s \in CashSessions :
       \/ \E a \in OpeningAmounts : InsertSession(d, o, s, a)
       \/ BeginClose(d, o, s)
       \/ BeginReview(d, o, s)
  \/ \E o \in Operators, b \in ManualSales : BeginCashPayment(d, o, b)
  \/ \E s \in CashSessions, a \in Adjustments : BeginAdjustment(d, s, a)

Commit(d) ==
  \/ CommitOpen(d)
  \/ CommitCashPayment(d)
  \/ CommitAdjustment(d)
  \/ CommitClose(d)
  \/ CommitReview(d)

CashNext ==
  \E d \in Desks :
    \/ BeginRequest(d)
    \/ \E s \in CashSessions : ChargeSession(d, s)
    \/ SumMovements(d)
    \/ Commit(d)
    \/ RollBackCash(d)

CashSpec == CashInit /\ [][CashNext]_cashVars

-----------------------------------------------------------------------------
(* Properties *)

\* Every variable has its type, and only what is closed has been reviewed.
CashTypeOK ==
  /\ cash_status \in [CashSessions -> {"NONE", "OPEN", "CLOSED"}]
  /\ opened_by \in [CashSessions -> Operators \cup {Nobody}]
  /\ expected \in [CashSessions -> Int] /\ reviewed_by \in [CashSessions -> Operators \cup {Nobody}]
  /\ balance \in [CashSessions -> Int]
  /\ charged \in [ManualSales -> [CashSessions -> Nat]] /\ paid \subseteq ManualSales
  /\ session_lock \in [CashSessions -> Desks \cup {Nobody}]
  /\ booking_lock \in [ManualSales -> Desks \cup {Nobody}]
  /\ at \in [Desks -> {"idle", "opening", "paying", "charged", "adjusting", "closing", "summed",
                       "reviewing"}]
  /\ operator \in [Desks -> Operators \cup {Nobody}]
  /\ cash \in [Desks -> CashSessions \cup {Nobody}] /\ sale \in [Desks -> ManualSales \cup {Nobody}]
  /\ amount \in [Desks -> Int]
  /\ \A s \in CashSessions : reviewed_by[s] # Nobody => cash_status[s] = "CLOSED"

\* The amount expected at the closing is what the session's movements come to, then and for
\* ever: no sale or adjustment slips in between the sum and the closing, or after it.
ClosedBooksBalance ==
  \A s \in CashSessions : cash_status[s] = "CLOSED" => expected[s] = balance[s]

\* An operator has one session open at most, also when two requests open it at once
\* (cash_one_open_session_per_operator).
OneOpenSession ==
  \A o \in Operators, s, z \in CashSessions : OpenOf(o, s) /\ OpenOf(o, z) => s = z

\* A booking is paid in cash exactly when one movement of one session says so: docs/
\* ARCHITECTURE.md:76 links every approved cash payment with a movement of its own.
ChargedOnce ==
  \A b \in ManualSales :
    /\ b \in paid <=> \E s \in CashSessions : charged[b][s] > 0
    /\ \A s \in CashSessions : charged[b][s] <= 1
    /\ \A s, z \in CashSessions : charged[b][s] > 0 /\ charged[b][z] > 0 => s = z

\* Nobody's review of a closing replaces an earlier one, and no closing is taken back.
ReviewStands ==
  [][\A s \in CashSessions : cash_status[s] = "CLOSED" =>
       /\ cash_status'[s] = "CLOSED" /\ expected'[s] = expected[s]
       /\ reviewed_by[s] # Nobody => reviewed_by'[s] = reviewed_by[s]]_cashVars

\* The requests that have the session's row which d, with its booking locked, needs to go on.
AwaitedAt(d) ==
  {e \in Desks :
     /\ at[d] = "paying"
     /\ \E s \in CashSessions : OpenOf(operator[d], s) /\ session_lock[s] = e}

\* Whoever a payment waits for waits for nobody: bookings are locked before sessions, so no
\* requests wait for one another in a circle (docs/PLAN_STAGING_Y_DATOS_SANDRO.md:25).
NoCircleAtTheRegister == \A d \in Desks : \A e \in AwaitedAt(d) : AwaitedAt(e) = {}

-----------------------------------------------------------------------------
(* The abstract cash book. *)

\* The session that has the movement of a booking's payment.
ChargedIn(b) ==
  IF \E s \in CashSessions : charged[b][s] > 0
  THEN CHOOSE s \in CashSessions : charged[b][s] > 0
  ELSE Nobody

Book == INSTANCE CashBook WITH
  Drawers <- CashSessions, Sales <- ManualSales,
  state <- cash_status, holder <- opened_by, counted <- expected, reviewer <- reviewed_by,
  charged_in <- [b \in ManualSales |-> ChargedIn(b)]

\* The requests at the cash register come out as if each had run alone: nothing is charged,
\* adjusted, summed or reviewed on what another one changed before the commit.
ImplementsCashBook == Book!Spec
=============================================================================
