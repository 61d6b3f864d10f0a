------------------------ MODULE CashRegister_proofs -------------------------
(***************************************************************************)
(* What the cash register guarantees for any desks, operators and amounts. *)
(***************************************************************************)
EXTENDS CashRegister, TLAPS

\* What the place of a request says of the rows it has locked or inserted.
SessionHeld(d) ==
  at[d] \in {"charged", "adjusting", "closing", "summed", "reviewing"} =>
    /\ cash[d] \in CashSessions /\ session_lock[cash[d]] = d
    /\ IF at[d] = "reviewing"
       THEN cash_status[cash[d]] = "CLOSED" /\ reviewed_by[cash[d]] = Nobody
       ELSE cash_status[cash[d]] = "OPEN"
    /\ at[d] = "summed" => amount[d] = balance[cash[d]]

BookingHeld(d) ==
  at[d] \in {"paying", "charged"} =>
    sale[d] \in ManualSales /\ booking_lock[sale[d]] = d /\ sale[d] \notin paid

Opening(d) ==
  at[d] = "opening" =>
    /\ operator[d] \in Operators /\ cash[d] \in CashSessions
    /\ cash_status[cash[d]] = "NONE" /\ reviewed_by[cash[d]] = Nobody
    /\ \A s \in CashSessions : ~OpenOf(operator[d], s)

RequestInv == \A d \in Desks : SessionHeld(d) /\ BookingHeld(d) /\ Opening(d)

\* No two insertions are of one operator, or of one row.
OpeningsApart ==
  \A d, e \in Desks :
    at[d] = "opening" /\ at[e] = "opening" /\ d # e =>
      operator[d] # operator[e] /\ cash[d] # cash[e]

IInv ==
  /\ CashTypeOK /\ RequestInv /\ OpeningsApart
  /\ ClosedBooksBalance /\ OneOpenSession /\ ChargedOnce

-----------------------------------------------------------------------------
(* Beginnings *)

\* What a step that writes no row but locks cannot disturb.
LEMMA UnwrittenRows ==
  ASSUME IInv, UNCHANGED <<sessionVars, movementVars>>
  PROVE  ClosedBooksBalance' /\ OneOpenSession' /\ ChargedOnce'
BY DEF IInv, sessionVars, movementVars, ClosedBooksBalance, OneOpenSession, OpenOf, ChargedOnce

LEMMA BeginKeepsInv ==
  ASSUME IInv, NEW d \in Desks, BeginRequest(d) \/ SumMovements(d)
                                \/ \E s \in CashSessions : ChargeSession(d, s)
  PROVE  IInv'
<1> USE CashAssumption DEF sessionVars, movementVars, lockVars, Goto, LockSession, OpenOf
<1>0. CashTypeOK /\ RequestInv /\ OpeningsApart
  BY DEF IInv
<1>1. ASSUME NEW o \in Operators, NEW s \in CashSessions, NEW a \in OpeningAmounts,
             InsertSession(d, o, s, a)
      PROVE  IInv'
  <2>1. CashTypeOK'
    BY <1>0, <1>1 DEF CashTypeOK, InsertSession
  <2>2. RequestInv' /\ OpeningsApart'
    <3>1. ASSUME NEW e \in Desks PROVE SessionHeld(e)' /\ BookingHeld(e)' /\ Opening(e)'
      BY <1>0, <1>1 DEF CashTypeOK, InsertSession, RequestInv, SessionHeld, BookingHeld, Opening
    <3>2. OpeningsApart'
      BY <1>0, <1>1 DEF CashTypeOK, InsertSession, OpeningsApart
    <3>3. QED
      BY <3>1, <3>2 DEF RequestInv
  <2>3. QED
    BY <2>1, <2>2, <1>1, UnwrittenRows DEF IInv, InsertSession
<1>2. ASSUME NEW o \in Operators, NEW s \in CashSessions, BeginClose(d, o, s) PROVE IInv'
  <2>1. CashTypeOK'
    BY <1>0, <1>2 DEF CashTypeOK, BeginClose
  <2>2. ASSUME NEW e \in Desks PROVE SessionHeld(e)' /\ BookingHeld(e)' /\ Opening(e)'
    BY <1>0, <1>2 DEF CashTypeOK, BeginClose, RequestInv, SessionHeld, BookingHeld, Opening
  <2>3. OpeningsApart'
    BY <1>0, <1>2 DEF CashTypeOK, BeginClose, OpeningsApart
  <2>4. QED
    BY <2>1, <2>2, <2>3, <1>2, UnwrittenRows DEF IInv, BeginClose, RequestInv
<1>3. ASSUME NEW o \in Operators, NEW s \in CashSessions, BeginReview(d, o, s) PROVE IInv'
  <2>1. CashTypeOK'
    BY <1>0, <1>3 DEF CashTypeOK, BeginReview
  <2>2. ASSUME NEW e \in Desks PROVE SessionHeld(e)' /\ BookingHeld(e)' /\ Opening(e)'
    BY <1>0, <1>3 DEF CashTypeOK, BeginReview, RequestInv, SessionHeld, BookingHeld, Opening
  <2>3. OpeningsApart'
    BY <1>0, <1>3 DEF CashTypeOK, BeginReview, OpeningsApart
  <2>4. QED
    BY <2>1, <2>2, <2>3, <1>3, UnwrittenRows DEF IInv, BeginReview, RequestInv
<1>4. ASSUME NEW o \in Operators, NEW b \in ManualSales, BeginCashPayment(d, o, b) PROVE IInv'
  <2>1. CashTypeOK'
    BY <1>0, <1>4 DEF CashTypeOK, BeginCashPayment
  <2>2. ASSUME NEW e \in Desks PROVE SessionHeld(e)' /\ BookingHeld(e)' /\ Opening(e)'
    BY <1>0, <1>4 DEF CashTypeOK, BeginCashPayment, RequestInv, SessionHeld, BookingHeld, Opening
  <2>3. OpeningsApart'
    BY <1>0, <1>4 DEF CashTypeOK, BeginCashPayment, OpeningsApart
  <2>4. QED
    BY <2>1, <2>2, <2>3, <1>4, UnwrittenRows DEF IInv, BeginCashPayment, RequestInv
<1>5. ASSUME NEW s \in CashSessions, NEW a \in Adjustments, BeginAdjustment(d, s, a) PROVE IInv'
  <2>1. CashTypeOK'
    BY <1>0, <1>5 DEF CashTypeOK, BeginAdjustment
  <2>2. ASSUME NEW e \in Desks PROVE SessionHeld(e)' /\ BookingHeld(e)' /\ Opening(e)'
    BY <1>0, <1>5 DEF CashTypeOK, BeginAdjustment, RequestInv, SessionHeld, BookingHeld, Opening
  <2>3. OpeningsApart'
    BY <1>0, <1>5 DEF CashTypeOK, BeginAdjustment, OpeningsApart
  <2>4. QED
    BY <2>1, <2>2, <2>3, <1>5, UnwrittenRows DEF IInv, BeginAdjustment, RequestInv
<1>6. ASSUME SumMovements(d) PROVE IInv'
  <2>1. CashTypeOK'
    BY <1>0, <1>6 DEF CashTypeOK, SumMovements, RequestInv, SessionHeld
  <2>2. ASSUME NEW e \in Desks PROVE SessionHeld(e)' /\ BookingHeld(e)' /\ Opening(e)'
    BY <1>0, <1>6 DEF CashTypeOK, SumMovements, RequestInv, SessionHeld, BookingHeld, Opening
  <2>3. OpeningsApart'
    BY <1>0, <1>6 DEF CashTypeOK, SumMovements, OpeningsApart
  <2>4. QED
    BY <2>1, <2>2, <2>3, <1>6, UnwrittenRows DEF IInv, SumMovements, RequestInv
<1>7. ASSUME NEW s \in CashSessions, ChargeSession(d, s) PROVE IInv'
  <2>1. CashTypeOK'
    BY <1>0, <1>7 DEF CashTypeOK, ChargeSession
  <2>2. ASSUME NEW e \in Desks PROVE SessionHeld(e)' /\ BookingHeld(e)' /\ Opening(e)'
    BY <1>0, <1>7 DEF CashTypeOK, ChargeSession, RequestInv, SessionHeld, BookingHeld, Opening
  <2>3. OpeningsApart'
    BY <1>0, <1>7 DEF CashTypeOK, ChargeSession, OpeningsApart
  <2>4. QED
    BY <2>1, <2>2, <2>3, <1>7, UnwrittenRows DEF IInv, ChargeSession, RequestInv
<1>8. QED
  BY <1>1, <1>2, <1>3, <1>4, <1>5, <1>6, <1>7 DEF BeginRequest

-----------------------------------------------------------------------------
(* Ends *)

\* An end takes no lock from another request.
LEMMA EndSparesOthers ==
  ASSUME CashTypeOK, NEW d \in Desks, End(d)
  PROVE  /\ at'[d] = "idle"
         /\ \A e \in Desks \ {d} :
              /\ at'[e] = at[e] /\ operator'[e] = operator[e] /\ cash'[e] = cash[e]
              /\ sale'[e] = sale[e] /\ amount'[e] = amount[e]
              /\ \A s \in CashSessions : session_lock[s] = e => session_lock'[s] = e
              /\ \A b \in ManualSales : booking_lock[b] = e => booking_lock'[b] = e
BY DEF CashTypeOK, End, Goto

\* The variables an end writes keep their types.
LEMMA EndTyped ==
  ASSUME CashTypeOK, NEW d \in Desks, End(d)
  PROVE  /\ session_lock' \in [CashSessions -> Desks \cup {Nobody}]
         /\ booking_lock' \in [ManualSales -> Desks \cup {Nobody}]
         /\ at' \in [Desks -> {"idle", "opening", "paying", "charged", "adjusting", "closing",
                               "summed", "reviewing"}]
         /\ operator' \in [Desks -> Operators \cup {Nobody}]
         /\ cash' \in [Desks -> CashSessions \cup {Nobody}]
         /\ sale' \in [Desks -> ManualSales \cup {Nobody}] /\ amount' \in [Desks -> Int]
BY DEF CashTypeOK, End, Goto

\* What ends leaves the others' requests apart.
LEMMA EndKeepsApart ==
  ASSUME CashTypeOK, OpeningsApart, NEW d \in Desks, End(d)
  PROVE  OpeningsApart'
BY EndSparesOthers DEF OpeningsApart

LEMMA RollBackKeepsInv ==
  ASSUME IInv, NEW d \in Desks, RollBackCash(d)
  PROVE  IInv'
<1> USE DEF sessionVars, movementVars
<1>0. CashTypeOK /\ RequestInv /\ OpeningsApart /\ End(d)
  BY DEF IInv, RollBackCash
<1>1. CashTypeOK' /\ OpeningsApart'
  BY <1>0, EndTyped, EndKeepsApart DEF CashTypeOK, RollBackCash
<1>2. ASSUME NEW e \in Desks PROVE SessionHeld(e)' /\ BookingHeld(e)' /\ Opening(e)'
  BY <1>0, EndSparesOthers
  DEF RollBackCash, RequestInv, SessionHeld, BookingHeld, Opening, OpenOf, CashTypeOK
<1>3. QED
  BY <1>1, <1>2, UnwrittenRows DEF IInv, RollBackCash, RequestInv

\* The row that opens was nobody's, and nobody else opens one for the operator.
LEMMA CommitOpenKeepsInv ==
  ASSUME IInv, NEW d \in Desks, CommitOpen(d)
  PROVE  IInv'
<1> USE DEF OpenOf
<1>0. /\ CashTypeOK /\ RequestInv /\ OpeningsApart /\ End(d) /\ at[d] = "opening"
      /\ ClosedBooksBalance /\ OneOpenSession /\ ChargedOnce
      /\ operator[d] \in Operators /\ cash[d] \in CashSessions
      /\ cash_status[cash[d]] = "NONE" /\ reviewed_by[cash[d]] = Nobody
      /\ \A s \in CashSessions : ~OpenOf(operator[d], s)
  BY DEF IInv, CommitOpen, RequestInv, Opening
<1>1. CashTypeOK' /\ OpeningsApart'
  BY <1>0, EndTyped, EndKeepsApart DEF CashTypeOK, CommitOpen
<1>2. ASSUME NEW e \in Desks PROVE SessionHeld(e)' /\ BookingHeld(e)' /\ Opening(e)'
  <2>1. CASE e = d
    BY <1>0, <2>1, EndSparesOthers DEF SessionHeld, BookingHeld, Opening
  <2>2. CASE e # d
    <3>1. SessionHeld(e)' /\ BookingHeld(e)'
      BY <1>0, <2>2, EndSparesOthers
      DEF CommitOpen, RequestInv, SessionHeld, BookingHeld, CashTypeOK
    <3>2. Opening(e)'
      BY <1>0, <2>2, EndSparesOthers
      DEF CommitOpen, RequestInv, Opening, OpeningsApart, CashTypeOK
    <3>3. QED
      BY <3>1, <3>2
  <2>3. QED
    BY <2>1, <2>2
<1>3. ClosedBooksBalance' /\ ChargedOnce'
  BY <1>0 DEF CommitOpen, CashTypeOK, ClosedBooksBalance, ChargedOnce
<1>4. OneOpenSession'
  <2>1. \A o \in Operators, s \in CashSessions :
          OpenOf(o, s)' <=> IF s = cash[d] THEN o = operator[d] ELSE OpenOf(o, s)
    BY <1>0 DEF CommitOpen, CashTypeOK
  <2> HIDE DEF OpenOf
  <2>2. QED
    BY <1>0, <2>1 DEF OneOpenSession
<1>5. QED
  BY <1>1, <1>2, <1>3, <1>4 DEF IInv, RequestInv

\* The session that is charged is open, and no other request has summed it.
LEMMA CommitCashPaymentKeepsInv ==
  ASSUME IInv, NEW d \in Desks, CommitCashPayment(d)
  PROVE  IInv'
<1> USE DEF OpenOf, sessionVars
<1>0. /\ CashTypeOK /\ RequestInv /\ OpeningsApart /\ End(d) /\ at[d] = "charged"
      /\ ClosedBooksBalance /\ OneOpenSession /\ ChargedOnce
      /\ cash[d] \in CashSessions /\ session_lock[cash[d]] = d /\ cash_status[cash[d]] = "OPEN"
      /\ sale[d] \in ManualSales /\ booking_lock[sale[d]] = d /\ sale[d] \notin paid
  BY DEF IInv, CommitCashPayment, RequestInv, SessionHeld, BookingHeld
<1>1. CashTypeOK' /\ OpeningsApart'
  <2>1. /\ balance' \in [CashSessions -> Int] /\ paid' \subseteq ManualSales
        /\ charged' \in [ManualSales -> [CashSessions -> Nat]]
    <3>1. \A b \in ManualSales, s \in CashSessions : charged[b][s] + 1 \in Nat
      BY <1>0 DEF CashTypeOK
    <3>2. [charged[sale[d]] EXCEPT ![cash[d]] = @ + 1] \in [CashSessions -> Nat]
      BY <1>0, <3>1 DEF CashTypeOK
    <3>3. QED
      BY <1>0, <3>2 DEF CashTypeOK, CommitCashPayment
  <2>2. QED
    BY <1>0, <2>1, EndTyped, EndKeepsApart DEF CashTypeOK, CommitCashPayment
<1>2. ASSUME NEW e \in Desks PROVE SessionHeld(e)' /\ BookingHeld(e)' /\ Opening(e)'
  <2>1. CASE e = d
    BY <1>0, <2>1, EndSparesOthers DEF SessionHeld, BookingHeld, Opening
  <2>2. CASE e # d
    BY <1>0, <2>2, EndSparesOthers
    DEF CommitCashPayment, RequestInv, SessionHeld, BookingHeld, Opening, CashTypeOK
  <2>3. QED
    BY <2>1, <2>2
<1>3. ClosedBooksBalance' /\ OneOpenSession'
  BY <1>0 DEF CommitCashPayment, CashTypeOK, ClosedBooksBalance, OneOpenSession
<1>4. ChargedOnce'
  <2>1. \A s \in CashSessions : charged[sale[d]][s] = 0
    BY <1>0 DEF ChargedOnce, CashTypeOK
  <2>2. \A b \in ManualSales, s \in CashSessions :
          charged'[b][s] = IF b = sale[d] /\ s = cash[d] THEN 1 ELSE charged[b][s]
    BY <1>0, <2>1 DEF CommitCashPayment, CashTypeOK
  <2>3. ASSUME NEW b \in ManualSales
        PROVE  /\ b \in paid' <=> \E s \in CashSessions : charged'[b][s] > 0
               /\ \A s \in CashSessions : charged'[b][s] <= 1
               /\ \A s, z \in CashSessions : charged'[b][s] > 0 /\ charged'[b][z] > 0 => s = z
    <3>1. CASE b = sale[d]
      BY <1>0, <2>1, <2>2, <3>1 DEF CommitCashPayment
    <3>2. CASE b # sale[d]
      <4>1. \A s \in CashSessions : charged'[b][s] = charged[b][s]
        BY <2>2, <3>2
      <4>2. b \in paid' <=> b \in paid
        BY <3>2 DEF CommitCashPayment
      <4>3. QED
        BY <1>0, <4>1, <4>2 DEF ChargedOnce
    <3>3. QED
      BY <3>1, <3>2
  <2>4. QED
    BY <2>3 DEF ChargedOnce
<1>5. QED
  BY <1>1, <1>2, <1>3, <1>4 DEF IInv, RequestInv

LEMMA CommitAdjustmentKeepsInv ==
  ASSUME IInv, NEW d \in Desks, CommitAdjustment(d)
  PROVE  IInv'
<1> USE DEF OpenOf, sessionVars
<1>0. /\ CashTypeOK /\ RequestInv /\ OpeningsApart /\ End(d) /\ at[d] = "adjusting"
      /\ ClosedBooksBalance /\ OneOpenSession /\ ChargedOnce
      /\ cash[d] \in CashSessions /\ session_lock[cash[d]] = d /\ cash_status[cash[d]] = "OPEN"
  BY DEF IInv, CommitAdjustment, RequestInv, SessionHeld
<1>1. CashTypeOK' /\ OpeningsApart'
  <2>1. balance' \in [CashSessions -> Int]
    BY <1>0 DEF CashTypeOK, CommitAdjustment
  <2>2. QED
    BY <1>0, <2>1, EndTyped, EndKeepsApart DEF CashTypeOK, CommitAdjustment
<1>2. ASSUME NEW e \in Desks PROVE SessionHeld(e)' /\ BookingHeld(e)' /\ Opening(e)'
  <2>1. CASE e = d
    BY <1>0, <2>1, EndSparesOthers DEF SessionHeld, BookingHeld, Opening
  <2>2. CASE e # d
    BY <1>0, <2>2, EndSparesOthers
    DEF CommitAdjustment, RequestInv, SessionHeld, BookingHeld, Opening, CashTypeOK
  <2>3. QED
    BY <2>1, <2>2
<1>3. ClosedBooksBalance' /\ OneOpenSession' /\ ChargedOnce'
  BY <1>0 DEF CommitAdjustment, CashTypeOK, ClosedBooksBalance, OneOpenSession, ChargedOnce
<1>4. QED
  BY <1>1, <1>2, <1>3 DEF IInv, RequestInv

\* What was summed is still the balance, for the session has been locked since.
LEMMA CommitCloseKeepsInv ==
  ASSUME IInv, NEW d \in Desks, CommitClose(d)
  PROVE  IInv'
<1> USE DEF OpenOf, movementVars
<1>0. /\ CashTypeOK /\ RequestInv /\ OpeningsApart /\ End(d) /\ at[d] = "summed"
      /\ ClosedBooksBalance /\ OneOpenSession /\ ChargedOnce
      /\ cash[d] \in CashSessions /\ session_lock[cash[d]] = d /\ cash_status[cash[d]] = "OPEN"
      /\ amount[d] = balance[cash[d]]
  BY DEF IInv, CommitClose, RequestInv, SessionHeld
<1>1. CashTypeOK' /\ OpeningsApart'
  <2>1. /\ cash_status' \in [CashSessions -> {"NONE", "OPEN", "CLOSED"}]
        /\ expected' \in [CashSessions -> Int]
        /\ \A s \in CashSessions : reviewed_by'[s] # Nobody => cash_status'[s] = "CLOSED"
    BY <1>0 DEF CashTypeOK, CommitClose
  <2>2. QED
    BY <1>0, <2>1, EndTyped, EndKeepsApart DEF CashTypeOK, CommitClose
<1>2. ASSUME NEW e \in Desks PROVE SessionHeld(e)' /\ BookingHeld(e)' /\ Opening(e)'
  <2>1. CASE e = d
    BY <1>0, <2>1, EndSparesOthers DEF SessionHeld, BookingHeld, Opening
  <2>2. CASE e # d
    BY <1>0, <2>2, EndSparesOthers
    DEF CommitClose, RequestInv, SessionHeld, BookingHeld, Opening, CashTypeOK
  <2>3. QED
    BY <2>1, <2>2
<1>3. ClosedBooksBalance' /\ OneOpenSession' /\ ChargedOnce'
  BY <1>0 DEF CommitClose, CashTypeOK, ClosedBooksBalance, OneOpenSession, ChargedOnce
<1>4. QED
  BY <1>1, <1>2, <1>3 DEF IInv, RequestInv

LEMMA CommitReviewKeepsInv ==
  ASSUME IInv, NEW d \in Desks, CommitReview(d)
  PROVE  IInv'
<1> USE DEF OpenOf, movementVars
<1>0. /\ CashTypeOK /\ RequestInv /\ OpeningsApart /\ End(d) /\ at[d] = "reviewing"
      /\ ClosedBooksBalance /\ OneOpenSession /\ ChargedOnce
      /\ cash[d] \in CashSessions /\ session_lock[cash[d]] = d /\ cash_status[cash[d]] = "CLOSED"
  BY DEF IInv, CommitReview, RequestInv, SessionHeld
<1>1. CashTypeOK' /\ OpeningsApart'
  BY <1>0, EndTyped, EndKeepsApart DEF CashTypeOK, CommitReview
<1>2. ASSUME NEW e \in Desks PROVE SessionHeld(e)' /\ BookingHeld(e)' /\ Opening(e)'
  <2>1. CASE e = d
    BY <1>0, <2>1, EndSparesOthers DEF SessionHeld, BookingHeld, Opening
  <2>2. CASE e # d
    BY <1>0, <2>2, EndSparesOthers
    DEF CommitReview, RequestInv, SessionHeld, BookingHeld, Opening, CashTypeOK
  <2>3. QED
    BY <2>1, <2>2
<1>3. ClosedBooksBalance' /\ OneOpenSession' /\ ChargedOnce'
  BY <1>0 DEF CommitReview, CashTypeOK, ClosedBooksBalance, OneOpenSession, ChargedOnce
<1>4. QED
  BY <1>1, <1>2, <1>3 DEF IInv, RequestInv

\* IInv is an invariant.
LEMMA Inductive == CashSpec => []IInv
<1>1. CashInit => IInv
  BY CashAssumption DEF CashInit, IInv, CashTypeOK, RequestInv, SessionHeld, BookingHeld, Opening,
    OpeningsApart, ClosedBooksBalance, OneOpenSession, OpenOf, ChargedOnce
<1>2. IInv /\ [CashNext]_cashVars => IInv'
  <2> SUFFICES ASSUME IInv, [CashNext]_cashVars PROVE IInv'
    OBVIOUS
  <2>1. CASE UNCHANGED cashVars
    <3>1. CashTypeOK' /\ RequestInv' /\ OpeningsApart'
      BY <2>1 DEF cashVars, sessionVars, movementVars, lockVars, requestVars, IInv, CashTypeOK,
        RequestInv, SessionHeld, BookingHeld, Opening, OpenOf, OpeningsApart
    <3>2. QED
      BY <2>1, <3>1, UnwrittenRows DEF cashVars, IInv
  <2>2. QED
    BY <2>1, BeginKeepsInv, RollBackKeepsInv, CommitOpenKeepsInv, CommitCashPaymentKeepsInv,
      CommitAdjustmentKeepsInv, CommitCloseKeepsInv, CommitReviewKeepsInv DEF CashNext, Commit
<1>3. QED
  BY <1>1, <1>2, PTL DEF CashSpec

-----------------------------------------------------------------------------
(* Who waits for whom *)

\* Who has a session's row has all that it needs.
Served(d) ==
  \A s \in CashSessions : session_lock[s] = d =>
    at[d] \in {"charged", "adjusting", "closing", "summed", "reviewing"}

LEMMA NextServed ==
  ASSUME IInv, [CashNext]_cashVars, \A e \in Desks : Served(e), NEW d \in Desks
  PROVE  Served(d)'
<1> USE CashAssumption
<1>0. CashTypeOK /\ Served(d) /\ Nobody # d
  BY DEF IInv
<1>1. ASSUME NEW e \in Desks, BeginRequest(e) PROVE Served(d)'
  <2>1. \/ UNCHANGED session_lock /\ at[e] = "idle"
        \/ /\ \E s \in CashSessions : session_lock' = [session_lock EXCEPT ![s] = e]
           /\ at'[e] \in {"charged", "adjusting", "closing", "summed", "reviewing"}
    BY <1>0, <1>1
    DEF BeginRequest, InsertSession, BeginClose, BeginReview, BeginCashPayment, BeginAdjustment,
        LockSession, Goto, lockVars, CashTypeOK
  <2>2. \A f \in Desks \ {e} : at'[f] = at[f]
    BY <1>0, <1>1
    DEF BeginRequest, InsertSession, BeginClose, BeginReview, BeginCashPayment, BeginAdjustment,
        Goto, CashTypeOK
  <2>3. \A s \in CashSessions : Served(e) /\ at[e] = "idle" => session_lock[s] # e
    BY DEF Served
  <2>4. QED
    BY <1>0, <2>1, <2>2, <2>3 DEF Served, CashTypeOK
<1>2. ASSUME NEW e \in Desks, NEW s \in CashSessions, ChargeSession(e, s) PROVE Served(d)'
  BY <1>0, <1>2 DEF ChargeSession, LockSession, Goto, Served, CashTypeOK
<1>3. ASSUME NEW e \in Desks, SumMovements(e) PROVE Served(d)'
  BY <1>0, <1>3 DEF SumMovements, Goto, lockVars, Served, CashTypeOK
<1>4. ASSUME NEW e \in Desks, Commit(e) \/ RollBackCash(e) PROVE Served(d)'
  <2>1. End(e)
    BY <1>4
    DEF Commit, CommitOpen, CommitCashPayment, CommitAdjustment, CommitClose, CommitReview,
        RollBackCash
  <2>2. QED
    BY <1>0, <2>1 DEF End, Goto, Served, CashTypeOK
<1>5. CASE UNCHANGED cashVars
  BY <1>0, <1>5 DEF cashVars, lockVars, requestVars, Served
<1>6. QED
  BY <1>1, <1>2, <1>3, <1>4, <1>5 DEF CashNext

-----------------------------------------------------------------------------
(* The theorems *)

\* Whoever a payment waits for waits for nobody.
THEOREM NobodyWaitsAtTheRegister == CashSpec => []NoCircleAtTheRegister
<1>1. CashInit => \A d \in Desks : Served(d)
  BY CashAssumption DEF CashInit, Served
<1>2. IInv /\ (\A d \in Desks : Served(d)) /\ [CashNext]_cashVars => (\A d \in Desks : Served(d))'
  BY NextServed
<1>3. (\A d \in Desks : Served(d)) => NoCircleAtTheRegister
  BY DEF Served, NoCircleAtTheRegister, AwaitedAt
<1>4. QED
  BY <1>1, <1>2, <1>3, Inductive, PTL DEF CashSpec

\* Every variable keeps its type, and nothing is reviewed before it is closed.
THEOREM CashTypeCorrect == CashSpec => []CashTypeOK
<1>1. IInv => CashTypeOK
  BY DEF IInv
<1>2. QED
  BY <1>1, Inductive, PTL

\* The amount expected at a closing is the balance of its movements for ever.
THEOREM ExpectedIsTheBalance == CashSpec => []ClosedBooksBalance
<1>1. IInv => ClosedBooksBalance
  BY DEF IInv
<1>2. QED
  BY <1>1, Inductive, PTL

\* Nobody has two sessions open.
THEOREM OneSessionEach == CashSpec => []OneOpenSession
<1>1. IInv => OneOpenSession
  BY DEF IInv
<1>2. QED
  BY <1>1, Inductive, PTL

\* A cash payment and its movement come together, once.
THEOREM CashIsChargedOnce == CashSpec => []ChargedOnce
<1>1. IInv => ChargedOnce
  BY DEF IInv
<1>2. QED
  BY <1>1, Inductive, PTL

\* A closing and its first review stand.
THEOREM ClosingsAndReviewsStand == CashSpec => ReviewStands
<1>1. IInv /\ [CashNext]_cashVars =>
        [\A s \in CashSessions : cash_status[s] = "CLOSED" =>
           /\ cash_status'[s] = "CLOSED" /\ expected'[s] = expected[s]
           /\ reviewed_by[s] # Nobody => reviewed_by'[s] = reviewed_by[s]]_cashVars
  <2> SUFFICES ASSUME IInv, CashNext, NEW s \in CashSessions, cash_status[s] = "CLOSED"
               PROVE  /\ cash_status'[s] = "CLOSED" /\ expected'[s] = expected[s]
                      /\ reviewed_by[s] # Nobody => reviewed_by'[s] = reviewed_by[s]
    OBVIOUS
  <2> USE DEF sessionVars
  <2>1. PICK d \in Desks : \/ BeginRequest(d)
                           \/ \E z \in CashSessions : ChargeSession(d, z)
                           \/ SumMovements(d)
                           \/ Commit(d)
                           \/ RollBackCash(d)
    BY DEF CashNext
  <2>2. CASE Commit(d)
    <3>1. /\ CashTypeOK /\ SessionHeld(d) /\ Opening(d)
      BY DEF IInv, RequestInv
    <3>2. QED
      BY <2>2, <3>1 DEF Commit, CommitOpen, CommitCashPayment, CommitAdjustment, CommitClose,
        CommitReview, SessionHeld, Opening, CashTypeOK
  <2>3. CASE ~Commit(d)
    <3>1. UNCHANGED sessionVars
      BY <2>1, <2>3 DEF BeginRequest, InsertSession, BeginClose, BeginReview, BeginCashPayment,
        BeginAdjustment, ChargeSession, SumMovements, RollBackCash
    <3>2. QED
      BY <3>1
  <2>4. QED
    BY <2>2, <2>3
<1>2. QED
  BY <1>1, Inductive, PTL DEF CashSpec, ReviewStands

-----------------------------------------------------------------------------
(* The abstract cash book. *)

\* A request commits what it was asked for.
Asked(d) ==
  /\ at[d] = "opening" => amount[d] \in OpeningAmounts
  /\ at[d] = "adjusting" => amount[d] \in Adjustments
  /\ at[d] = "charged" => amount[d] = Price
  /\ at[d] = "reviewing" => operator[d] \in Operators

BookInv == IInv /\ \A d \in Desks : Asked(d)

LEMMA NextAsked ==
  ASSUME BookInv, [CashNext]_cashVars, NEW e \in Desks
  PROVE  Asked(e)'
<1>0. CashTypeOK /\ Asked(e)
  BY DEF BookInv, IInv
<1>1. ASSUME NEW d \in Desks, BeginRequest(d) PROVE Asked(e)'
  BY <1>0, <1>1
  DEF BeginRequest, InsertSession, BeginClose, BeginReview, BeginCashPayment, BeginAdjustment,
      Goto, Asked, CashTypeOK
<1>2. ASSUME NEW d \in Desks, NEW s \in CashSessions, ChargeSession(d, s) PROVE Asked(e)'
  BY <1>0, <1>2 DEF ChargeSession, Goto, Asked, CashTypeOK
<1>3. ASSUME NEW d \in Desks, SumMovements(d) PROVE Asked(e)'
  BY <1>0, <1>3 DEF SumMovements, Goto, Asked, CashTypeOK
<1>4. ASSUME NEW d \in Desks, End(d) PROVE Asked(e)'
  BY <1>0, <1>4, EndSparesOthers DEF Asked
<1>5. ASSUME NEW d \in Desks, Commit(d) \/ RollBackCash(d) PROVE End(d)
  BY <1>5
  DEF Commit, CommitOpen, CommitCashPayment, CommitAdjustment, CommitClose, CommitReview,
      RollBackCash
<1>6. CASE UNCHANGED cashVars
  BY <1>0, <1>6 DEF cashVars, requestVars, Asked
<1>7. QED
  BY <1>1, <1>2, <1>3, <1>4, <1>5, <1>6 DEF CashNext

\* The mapping finds the session of a payment because there is one at most.
ChargeFound ==
  \A b \in ManualSales :
    /\ \A s \in CashSessions : charged[b][s] > 0 => ChargedIn(b) = s
    /\ b \notin paid => ChargedIn(b) = Nobody

LEMMA ChargeIsFound == ChargedOnce => ChargeFound
<1> SUFFICES ASSUME ChargedOnce, NEW b \in ManualSales
             PROVE  /\ \A s \in CashSessions : charged[b][s] > 0 => ChargedIn(b) = s
                    /\ b \notin paid => ChargedIn(b) = Nobody
  BY DEF ChargeFound
<1>1. ASSUME NEW s \in CashSessions, charged[b][s] > 0 PROVE ChargedIn(b) = s
  <2>1. ChargedIn(b) \in CashSessions /\ charged[b][ChargedIn(b)] > 0
    BY <1>1 DEF ChargedIn
  <2>2. QED
    BY <1>1, <2>1 DEF ChargedOnce
<1>2. b \notin paid => ChargedIn(b) = Nobody
  BY DEF ChargedOnce, ChargedIn
<1>3. QED
  BY <1>1, <1>2

LEMMA ChargeIsFoundNext == ChargedOnce' => ChargeFound'
BY ChargeIsFound, PTL

\* What does not charge a booking leaves it where it was charged.
LEMMA SameCharges ==
  ASSUME UNCHANGED charged
  PROVE  [b \in ManualSales |-> ChargedIn(b)]' = [b \in ManualSales |-> ChargedIn(b)]
BY DEF ChargedIn

\* A commit is the service it ends, run alone.
LEMMA CommitIsService ==
  ASSUME BookInv, ChargeFound, ChargeFound', NEW d \in Desks, Commit(d)
  PROVE  Book!Next
<1> USE DEF sessionVars, movementVars
<1>0. CashTypeOK /\ SessionHeld(d) /\ BookingHeld(d) /\ Opening(d) /\ Asked(d)
  BY DEF BookInv, IInv, RequestInv
<1>1. CASE CommitOpen(d)
  <2>1. PICK s \in CashSessions : s = cash[d] /\ cash_status[s] = "NONE"
    BY <1>0, <1>1 DEF CommitOpen, Opening
  <2>2. PICK o \in Operators : o = operator[d] /\ \A z \in CashSessions : ~OpenOf(o, z)
    BY <1>0, <1>1 DEF CommitOpen, Opening
  <2>3. PICK a \in OpeningAmounts : a = amount[d]
    BY <1>0, <1>1 DEF CommitOpen, Asked
  <2>4. Book!Open(s, o, a)
    BY <1>1, <2>1, <2>2, <2>3, SameCharges DEF CommitOpen, Book!Open, OpenOf
  <2>5. QED
    BY <2>4 DEF Book!Next
<1>2. CASE CommitCashPayment(d)
  <2>1. PICK s \in CashSessions : s = cash[d] /\ cash_status[s] = "OPEN"
    BY <1>0, <1>2 DEF CommitCashPayment, SessionHeld
  <2>2. PICK b \in ManualSales : b = sale[d] /\ b \notin paid
    BY <1>0, <1>2 DEF CommitCashPayment, BookingHeld
  <2>3. /\ charged' = [charged EXCEPT ![b][s] = @ + 1]
        /\ balance' = [balance EXCEPT ![s] = @ + Price]
        /\ UNCHANGED <<cash_status, opened_by, expected, reviewed_by>>
    BY <1>0, <1>2, <2>1, <2>2 DEF CommitCashPayment, Asked
  <2>4. ChargedIn(b) = Nobody
    BY <2>2 DEF ChargeFound
  <2>5. ChargedIn(b)' = s
    <3>1. charged'[b][s] > 0
      BY <1>0, <2>3 DEF CashTypeOK
    <3>2. QED
      BY <3>1 DEF ChargeFound
  <2>6. ASSUME NEW c \in ManualSales \ {b} PROVE ChargedIn(c)' = ChargedIn(c)
    <3>1. charged'[c] = charged[c]
      BY <1>0, <2>3 DEF CashTypeOK
    <3>2. QED
      BY <3>1 DEF ChargedIn
  <2>7. [c \in ManualSales |-> ChargedIn(c)]'
          = [[c \in ManualSales |-> ChargedIn(c)] EXCEPT ![b] = s]
    BY <2>5, <2>6
  <2>8. Book!Charge(s, b)
    BY <2>1, <2>3, <2>4, <2>7 DEF Book!Charge
  <2>9. QED
    BY <2>8 DEF Book!Next
<1>3. CASE CommitAdjustment(d)
  <2>1. PICK s \in CashSessions : s = cash[d] /\ cash_status[s] = "OPEN"
    BY <1>0, <1>3 DEF CommitAdjustment, SessionHeld
  <2>2. PICK a \in Adjustments : a = amount[d]
    BY <1>0, <1>3 DEF CommitAdjustment, Asked
  <2>3. Book!Adjust(s, a)
    BY <1>3, <2>1, <2>2, SameCharges DEF CommitAdjustment, Book!Adjust
  <2>4. QED
    BY <2>3 DEF Book!Next
<1>4. CASE CommitClose(d)
  <2>1. PICK s \in CashSessions :
          s = cash[d] /\ cash_status[s] = "OPEN" /\ amount[d] = balance[s]
    BY <1>0, <1>4 DEF CommitClose, SessionHeld
  <2>2. Book!Close(s)
    BY <1>4, <2>1, SameCharges DEF CommitClose, Book!Close
  <2>3. QED
    BY <2>2 DEF Book!Next
<1>5. CASE CommitReview(d)
  <2>1. PICK s \in CashSessions :
          s = cash[d] /\ cash_status[s] = "CLOSED" /\ reviewed_by[s] = Nobody
    BY <1>0, <1>5 DEF CommitReview, SessionHeld
  <2>2. PICK o \in Operators : o = operator[d]
    BY <1>0, <1>5 DEF CommitReview, Asked
  <2>3. Book!Review(s, o)
    BY <1>5, <2>1, <2>2, SameCharges DEF CommitReview, Book!Review
  <2>4. QED
    BY <2>3 DEF Book!Next
<1>6. QED
  BY <1>1, <1>2, <1>3, <1>4, <1>5 DEF Commit

\* However many desks serve them, the requests at the cash register come out as if each had
\* run alone.
THEOREM DesksKeepTheBook == CashSpec => ImplementsCashBook
<1>1. CashInit => Book!Init /\ \A d \in Desks : Asked(d)
  BY DEF CashInit, Book!Init, ChargedIn, Asked
<1>2. IInv' /\ BookInv /\ [CashNext]_cashVars => BookInv'
  BY NextAsked DEF BookInv
<1>3. ASSUME BookInv, ChargeFound, ChargeFound', [CashNext]_cashVars
      PROVE  [Book!Next]_Book!vars
  <2>1. ASSUME UNCHANGED <<sessionVars, movementVars>> PROVE UNCHANGED Book!vars
    BY <2>1, SameCharges DEF sessionVars, movementVars, Book!vars
  <2>2. ASSUME NEW d \in Desks, \/ BeginRequest(d)
                                \/ \E s \in CashSessions : ChargeSession(d, s)
                                \/ SumMovements(d)
                                \/ RollBackCash(d)
        PROVE  UNCHANGED <<sessionVars, movementVars>>
    BY <2>2
    DEF BeginRequest, InsertSession, BeginClose, BeginReview, BeginCashPayment, BeginAdjustment,
        ChargeSession, SumMovements, RollBackCash
  <2>3. CASE UNCHANGED cashVars
    BY <2>1, <2>3 DEF cashVars
  <2>4. QED
    BY <1>3, <2>1, <2>2, <2>3, CommitIsService DEF CashNext
<1>4. BookInv => ChargedOnce
  BY DEF BookInv, IInv
<1>5. CashInit /\ IInv => BookInv
  BY <1>1 DEF BookInv
<1>6. QED
  BY <1>1, <1>2, <1>3, <1>4, <1>5, Inductive, ChargeIsFound, ChargeIsFoundNext, PTL
  DEF CashSpec, ImplementsCashBook, Book!Spec
=============================================================================
