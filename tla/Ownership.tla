------------------------------ MODULE Ownership ------------------------------
(***************************************************************************)
(* Whose an online booking is: CustomerBooking, the code a guest may claim *)
(* a booking with, and the browser session that remembers the last one.    *)
(*                                                                         *)
(* A booking made by a customer is associated at once; a guest gets a code,*)
(* and whoever logs in next in that browser gets the booking.  Both tests  *)
(* (`no CustomerBooking yet') are followed by an insertion that other      *)
(* requests may precede; CustomerBooking.booking is unique, so the second  *)
(* insertion fails and, of a claim, the whole transaction.                 *)
(***************************************************************************)
CONSTANTS
  Browsers, Customers,
  Purchases,        \* online bookings there may ever be
  Guest, Internal,  \* the user of a session: nobody, or somebody of the staff
  NoOne             \* SQL NULL; no booking

ASSUME OwnershipAssumption ==
  /\ {Guest, Internal, NoOne} \cap Customers = {} /\ Guest # NoOne /\ Internal # NoOne
  /\ NoOne \notin Purchases

VARIABLES
  session,     \* the user of each browser's session
  cart,        \* its active_held_booking_id
  maker,       \* the user each booking was made by, NoOne before it is made
  owner,       \* CustomerBooking.customer
  code,        \* BookingClaimToken: its state
  claimed_by,  \* BookingClaimToken.claimed_by
  task         \* the association or the claim a browser's request is about to insert

browserVars == <<session, cart, task>>
claimVars == <<code, claimed_by>>
ownershipVars == <<browserVars, maker, owner, claimVars>>

Free == [kind |-> "none", booking |-> NoOne, customer |-> NoOne]
Associate(b, c) == [kind |-> "associate", booking |-> b, customer |-> c]
Claim(b, c) == [kind |-> "claim", booking |-> b, customer |-> c]

OwnershipInit ==
  /\ session = [s \in Browsers |-> Guest] /\ cart = [s \in Browsers |-> NoOne]
  /\ task = [s \in Browsers |-> Free]
  /\ maker = [b \in Purchases |-> NoOne] /\ owner = [b \in Purchases |-> NoOne]
  /\ code = [b \in Purchases |-> "none"] /\ claimed_by = [b \in Purchases |-> NoOne]

-----------------------------------------------------------------------------
\* What mis_viajes lists and customer_ticket_download serves in this browser.
MyTrips(s) == {b \in Purchases : session[s] \in Customers /\ owner[b] = session[s]}

\* Mutant: the callback reads the session's booking before login() renews the session.
CartAfter_BeforeLogin(s, c) == cart[s]

\* login() flushes a session that was somebody else's.
CartAfter(s, c) == IF session[s] \in {Guest, c} THEN cart[s] ELSE NoOne

\* create_public_booking: the association or the code; either may fail and is then forgotten.
BookOnline(s, b) ==
  /\ task[s] = Free /\ maker[b] = NoOne
  /\ maker' = [maker EXCEPT ![b] = session[s]] /\ cart' = [cart EXCEPT ![s] = b]
  /\ IF session[s] \in Customers THEN task' = [task EXCEPT ![s] = Associate(b, session[s])]
                                 ELSE UNCHANGED task
  /\ \/ session[s] = Guest /\ code' = [code EXCEPT ![b] = "open"]
     \/ UNCHANGED code
  /\ UNCHANGED <<session, owner, claimed_by>>

\* customer_register and customer_login want a session without a user, the callback of Google
\* any; the booking of the session is the customer's unless it has an owner.
LogInAndAssociate(s, c) ==
  LET b == CartAfter(s, c)
  IN  /\ session' = [session EXCEPT ![s] = c] /\ cart' = [cart EXCEPT ![s] = b]
      /\ task' = [task EXCEPT ![s] = IF b # NoOne /\ owner[b] = NoOne THEN Associate(b, c)
                                                                      ELSE Free]

LogInWithForm(s, c) ==
  /\ task[s] = Free /\ session[s] = Guest
  /\ LogInAndAssociate(s, c) /\ UNCHANGED <<maker, owner, claimVars>>

GoogleCallback(s, c) ==
  /\ task[s] = Free
  /\ LogInAndAssociate(s, c) /\ UNCHANGED <<maker, owner, claimVars>>

\* apple_callback associates nothing.
AppleCallback(s, c) ==
  /\ task[s] = Free
  /\ session' = [session EXCEPT ![s] = c] /\ cart' = [cart EXCEPT ![s] = CartAfter(s, c)]
  /\ UNCHANGED <<task, maker, owner, claimVars>>

PanelLogIn(s) ==
  /\ session[s] = Guest /\ session' = [session EXCEPT ![s] = Internal]
  /\ UNCHANGED <<cart, task, maker, owner, claimVars>>

\* customer_logout, panel_logout: logout() flushes the session.
LogOut(s) ==
  /\ session' = [session EXCEPT ![s] = Guest] /\ cart' = [cart EXCEPT ![s] = NoOne]
  /\ UNCHANGED <<task, maker, owner, claimVars>>

\* associate_booking_with_customer, after its test.
AssociateBooking(s) ==
  LET b == task[s].booking
  IN  /\ task[s].kind = "associate" /\ owner[b] = NoOne
      /\ owner' = [owner EXCEPT ![b] = task[s].customer]
      /\ task' = [task EXCEPT ![s] = Free]
      /\ UNCHANGED <<session, cart, maker, claimVars>>

\* claim_booking_with_token locks the token, then tests; the code may end while it is at it.
BeginClaim(s, b) ==
  /\ task[s] = Free /\ session[s] \in Customers
  /\ \A z \in Browsers : task[z].kind = "claim" => task[z].booking # b
  /\ code[b] = "open" /\ owner[b] = NoOne
  /\ task' = [task EXCEPT ![s] = Claim(b, session[s])]
  /\ UNCHANGED <<session, cart, maker, owner, claimVars>>

CommitClaim(s) ==
  LET b == task[s].booking
  IN  /\ task[s].kind = "claim" /\ owner[b] = NoOne
      /\ owner' = [owner EXCEPT ![b] = task[s].customer]
      /\ claimed_by' = [claimed_by EXCEPT ![b] = task[s].customer]
      /\ code' = [code EXCEPT ![b] = "used"]
      /\ task' = [task EXCEPT ![s] = Free]
      /\ UNCHANGED <<session, cart, maker>>

\* The insertion fails, on the constraint or otherwise, and the request answers all the same.
Fail(s) ==
  /\ task[s] # Free /\ task' = [task EXCEPT ![s] = Free]
  /\ UNCHANGED <<session, cart, maker, owner, claimVars>>

CodeLapses(b) ==
  /\ code[b] = "open" /\ code' = [code EXCEPT ![b] = "lapsed"]
  /\ UNCHANGED <<browserVars, maker, owner, claimed_by>>

-----------------------------------------------------------------------------
InBrowser(s) ==
  \/ \E b \in Purchases : BookOnline(s, b) \/ BeginClaim(s, b)
  \/ \E c \in Customers : LogInWithForm(s, c) \/ GoogleCallback(s, c) \/ AppleCallback(s, c)
  \/ PanelLogIn(s) \/ LogOut(s)
  \/ AssociateBooking(s) \/ CommitClaim(s) \/ Fail(s)

OwnershipNext == (\E s \in Browsers : InBrowser(s)) \/ (\E b \in Purchases : CodeLapses(b))

OwnershipSpec == OwnershipInit /\ [][OwnershipNext]_ownershipVars

-----------------------------------------------------------------------------
(* Properties. *)

OwnershipTypeOK ==
  /\ session \in [Browsers -> Customers \cup {Guest, Internal}]
  /\ cart \in [Browsers -> Purchases \cup {NoOne}]
  /\ maker \in [Purchases -> Customers \cup {Guest, Internal, NoOne}]
  /\ owner \in [Purchases -> Customers \cup {NoOne}]
  /\ code \in [Purchases -> {"none", "open", "lapsed", "used"}]
  /\ claimed_by \in [Purchases -> Customers \cup {NoOne}]
  /\ task \in [Browsers -> {Free} \cup [kind : {"associate", "claim"}, booking : Purchases,
                                       customer : Customers]]

\* A booking changes hands once, from nobody to a customer, whichever of the checkout, the
\* logins and the claims get to it at the same time; a claim that was used says who has it;
\* and one that a customer made becomes nobody else's, also when its association failed and
\* another customer logs in with the same browser.
OwnersStand ==
  [][\A b \in Purchases :
       /\ owner[b] # NoOne => owner'[b] = owner[b]
       /\ claimed_by'[b] # NoOne => owner'[b] = claimed_by'[b]
       /\ maker'[b] \in Customers => owner'[b] \in {maker'[b], NoOne}]_ownershipVars
=============================================================================
