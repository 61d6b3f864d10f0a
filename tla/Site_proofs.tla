----------------------------- MODULE Site_proofs -----------------------------
(***************************************************************************)
(* Theorems about the site around the reservations, for every value of the *)
(* constants: its accounts, whose a booking is, and the abuse counters;    *)
(* and about these and the panel side by side.                             *)
(***************************************************************************)
EXTENDS Panel, CashRegister_proofs, TripScheduling_proofs, Boarding_proofs, FiniteSetTheorems

-----------------------------------------------------------------------------
(* Accounts. *)

\* What an open invitation waits for is there.
InvitationsAwaitUsers ==
  \A e \in Addresses : invitation[e] \in Roles => \E u \in Users(e) : is_staff[u]

\* A callback between its two insertions holds a user who is not of the staff.
CallbacksHoldUsers ==
  \A q \in Requests : request[q].step = "created" =>
    request[q].how \in Callbacks /\ request[q].id \in Rows /\ ~is_staff[request[q].id]

\* The confirmation of a reset knows whether the user it loaded was active.
ResetsLoaded ==
  \A q \in Requests : request[q].step = "reset" => request[q].how \in {"on", "off"}

\* Only an update of staff that has counted holds rows: its user's, and those of administrators
\* who stay so until it ends; if it counted others, one is among them.
HoldsRows(q) ==
  IF request[q].step = "counted"
  THEN /\ request[q].rows \subseteq Rows /\ request[q].target \in request[q].rows
       /\ request[q].rows \ {request[q].target} \subseteq ActiveAdministrators
       /\ request[q].how = "others" => request[q].rows # {request[q].target}
  ELSE request[q].rows = {}

LocksHeld ==
  /\ \A q \in Requests : HoldsRows(q)
  /\ \A q \in Requests : \A p \in Requests \ {q} : request[q].rows \cap request[p].rows = {}

AccountsInv ==
  /\ AccountsTypeOK /\ InvitationsAwaitUsers /\ CallbacksHoldUsers /\ ResetsLoaded
  /\ LocksHeld /\ StaffApart

\* A request that is answered holds nothing.
LEMMA ReplyHoldsNothing ==
  ASSUME AccountsTypeOK, NEW q \in Requests, Reply(q)
  PROVE  /\ request'[q] = Idle /\ \A p \in Requests \ {q} : request'[p] = request[p]
         /\ request'[q].step = "idle" /\ request'[q].rows = {}
         /\ request' \in [Requests -> Progress]
BY AccountsAssumption DEF AccountsTypeOK, Progress, Reply, Idle, Ids, Provisioned

\* What a request remembers.
LEMMA RememberKeeps ==
  ASSUME AccountsTypeOK, NEW q \in Requests, NEW st \in {"checked", "created", "reset", "allowed"},
         NEW how \in Ways \cup Roles \cup {"none", "on", "off"},
         NEW e \in Addresses \cup {Nowhere}, NEW u \in Ids, Remember(q, st, how, e, u)
  PROVE  /\ request'[q].step = st /\ request'[q].how = how /\ request'[q].id = u
         /\ request'[q].rows = {}
         /\ \A p \in Requests \ {q} : request'[p] = request[p]
         /\ request' \in [Requests -> Progress]
BY AccountsAssumption DEF AccountsTypeOK, Progress, Remember, Ids, Provisioned

\* The locked administrators outlive what is written to a row nobody else has locked; a request
\* that goes on without rows frees its own.
LEMMA LocksOutlive ==
  ASSUME LocksHeld, NEW u, Rows \subseteq Rows',
         \A v \in Rows \ {u} : UNCHANGED <<is_active[v], role[v]>>,
         \A p \in Requests :
           \/ request'[p] = request[p] /\ u \notin request[p].rows
           \/ request'[p].step # "counted" /\ request'[p].rows = {}
  PROVE  LocksHeld'
<1>1. ASSUME NEW q \in Requests PROVE HoldsRows(q)'
  <2>1. CASE request'[q] = request[q] /\ u \notin request[q].rows
    <3>1. HoldsRows(q)
      BY DEF LocksHeld
    <3>2. \A v \in ActiveAdministrators \ {u} : v \in ActiveAdministrators'
      BY DEF ActiveAdministrators
    <3>3. QED
      BY <2>1, <3>1, <3>2 DEF HoldsRows
  <2>2. CASE request'[q].step # "counted" /\ request'[q].rows = {}
    BY <2>2 DEF HoldsRows
  <2>3. QED
    BY <2>1, <2>2
<1>2. \A q \in Requests : request'[q].rows \in {request[q].rows, {}}
  OBVIOUS
<1>3. QED
  BY <1>1, <1>2 DEF LocksHeld

\* A step that only changes what one request remembers, which holds no rows and no user.
LEMMA OnlyRemembered ==
  ASSUME AccountsInv, NEW q \in Requests, UNCHANGED <<userVars, reset_links, invitation>>,
         request'[q].step \notin {"created", "counted"}, request'[q].rows = {},
         request'[q].step = "reset" => request'[q].how \in {"on", "off"},
         \A p \in Requests \ {q} : request'[p] = request[p], request' \in [Requests -> Progress]
  PROVE  AccountsInv'
<1>1. /\ AccountsTypeOK' /\ InvitationsAwaitUsers' /\ CallbacksHoldUsers' /\ ResetsLoaded'
      /\ StaffApart'
  BY DEF AccountsInv, AccountsTypeOK, InvitationsAwaitUsers, CallbacksHoldUsers, ResetsLoaded,
     StaffApart, Users, Rows, userVars
<1>2. LocksHeld'
  <2>1. LocksHeld /\ 0 \notin Rows /\ Rows' = Rows /\ UNCHANGED <<is_active, role>>
    BY DEF AccountsInv, Rows, userVars
  <2>2. \A p \in Requests : 0 \notin request[p].rows
    BY <2>1 DEF LocksHeld, HoldsRows
  <2>3. QED
    BY <2>1, <2>2, LocksOutlive
<1>3. QED
  BY <1>1, <1>2 DEF AccountsInv

\* A new row is the only one that an insertion writes.
LEMMA AddUserWrites ==
  ASSUME AccountsTypeOK, NEW e \in Addresses \cup {Nowhere},
         NEW name \in {"address", "apple", "random"}, NEW staff \in BOOLEAN,
         NEW way \in Ways \cup {"none"}, NEW known \in BOOLEAN,
         AddUser(e, name, staff, way, known)
  PROVE  /\ created' = created + 1 /\ created' \in Ids /\ created' \notin Rows
         /\ Rows' = Rows \cup {created'} /\ Rows \subseteq Ids
         /\ address'[created'] = e /\ is_staff'[created'] = staff
         /\ profile'[created'] = way
         /\ \A u \in Ids \ {created'} :
              UNCHANGED <<address[u], is_staff[u], is_active[u], profile[u]>>
         /\ role' = role /\ reset_links' = reset_links
         /\ address' \in [Ids -> Addresses \cup {Nowhere}]
         /\ username' \in [Ids -> {"address", "apple", "random"}]
         /\ is_staff' \in [Ids -> BOOLEAN] /\ is_active' \in [Ids -> BOOLEAN]
         /\ usable_password' \in [Ids -> BOOLEAN] /\ profile' \in [Ids -> Ways \cup {"none"}]
<1>1. created + 1 \in Ids /\ created' = created + 1 /\ role' = role /\ reset_links' = reset_links
  BY DEF AddUser
<1>2. created' \notin Rows /\ Rows' = Rows \cup {created'} /\ Rows \subseteq Ids
  BY <1>1, AccountsAssumption DEF AccountsTypeOK, Rows, Ids
<1>3. /\ address' = [address EXCEPT ![created + 1] = e]
      /\ username' = [username EXCEPT ![created + 1] = name]
      /\ is_staff' = [is_staff EXCEPT ![created + 1] = staff]
      /\ is_active' = [is_active EXCEPT ![created + 1] = ~staff]
      /\ usable_password' = [usable_password EXCEPT ![created + 1] = known]
      /\ profile' = [profile EXCEPT ![created + 1] = way]
  BY DEF AddUser
<1>4. QED
  BY <1>1, <1>2, <1>3 DEF AccountsTypeOK

\* It makes nobody less of an administrator.
LEMMA AddingKeepsAdministrators ==
  ASSUME AccountsTypeOK, NEW e \in Addresses \cup {Nowhere},
         NEW name \in {"address", "apple", "random"}, NEW staff \in BOOLEAN,
         NEW way \in Ways \cup {"none"}, NEW known \in BOOLEAN,
         AddUser(e, name, staff, way, known)
  PROVE  ActiveAdministrators \subseteq ActiveAdministrators'
<1> DEFINE n == created'
<1>1. /\ n \notin Rows /\ Rows' = Rows \cup {n} /\ Rows \subseteq Ids /\ role' = role
      /\ \A u \in Ids \ {n} : UNCHANGED <<address[u], is_staff[u], is_active[u], profile[u]>>
  BY AddUserWrites
<1> HIDE DEF n
<1>2. QED
  BY <1>1 DEF ActiveAdministrators

\* An insertion keeps what is known of the rows there were: a user of the staff is not a
\* customer, open invitations and callbacks find theirs, locked administrators stay.
LEMMA AddedUserFits ==
  ASSUME AccountsInv, NEW e \in Addresses \cup {Nowhere},
         NEW name \in {"address", "apple", "random"}, NEW staff \in BOOLEAN,
         NEW way \in Ways \cup {"none"}, NEW known \in BOOLEAN,
         AddUser(e, name, staff, way, known), staff => way = "none",
         NEW q \in Requests, request'[q].step # "counted", request'[q].rows = {},
         \A p \in Requests \ {q} : request'[p] = request[p]
  PROVE  /\ StaffApart' /\ LocksHeld'
         /\ \A a \in Addresses :
              (\E u \in Users(a) : is_staff[u]) => (\E u \in Users(a) : is_staff[u])'
         /\ \A p \in Requests : request[p].step = "created" =>
              /\ request[p].how \in Callbacks /\ request[p].id \in Rows'
              /\ ~is_staff'[request[p].id]
<1> DEFINE n == created'
<1>1. /\ n \in Ids /\ n \notin Rows /\ Rows' = Rows \cup {n} /\ Rows \subseteq Ids
      /\ is_staff'[n] = staff /\ profile'[n] = way /\ role' = role
      /\ \A u \in Ids \ {n} : UNCHANGED <<address[u], is_staff[u], is_active[u], profile[u]>>
  BY AddUserWrites DEF AccountsInv
<1> HIDE DEF n
<1>2. \A u \in Rows : /\ u \in Rows' /\ u # n
                      /\ UNCHANGED <<address[u], is_staff[u], is_active[u], profile[u], role[u]>>
  BY <1>1
<1>3. StaffApart'
  BY <1>1, <1>2 DEF AccountsInv, StaffApart
<1>4. LocksHeld'
  <2>1. LocksHeld /\ \A p \in Requests : n \notin request[p].rows
    BY <1>1 DEF AccountsInv, LocksHeld, HoldsRows
  <2>2. QED
    BY <1>1, <1>2, <2>1, LocksOutlive
<1>5. QED
  BY <1>2, <1>3, <1>4 DEF Users, AccountsInv, CallbacksHoldUsers

\* What the users of a request do keeps the invariant.
LEMMA CustomersKeepInv ==
  ASSUME AccountsInv, NEW q \in Requests, ServeCustomer(q)
  PROVE  AccountsInv'
<1>0. /\ AccountsTypeOK /\ request[q] \in Progress /\ request[q].mail \in Addresses \cup {Nowhere}
      /\ Provisioned \in Ids /\ Rows \subseteq Ids
  BY AccountsAssumption DEF AccountsInv, AccountsTypeOK, Progress, Provisioned, Ids, Rows
<1>1. ASSUME NEW e \in Addresses, AskToJoin(q, e) PROVE AccountsInv'
  <2>1. /\ Remember(q, "checked", "none", e, Provisioned)
        /\ e \in Addresses \cup {Nowhere} /\ "none" \in Ways \cup Roles \cup {"none", "on", "off"}
    BY <1>1 DEF AskToJoin
  <2>2. /\ request'[q].step = "checked" /\ request'[q].rows = {}
        /\ \A p \in Requests \ {q} : request'[p] = request[p]
        /\ request' \in [Requests -> Progress]
    BY <1>0, <2>1, RememberKeeps
  <2>3. QED
    BY <1>1, <2>2, OnlyRemembered DEF AskToJoin
<1>2. CASE RegisterCustomer(q)
  <2> DEFINE name == IF Taken(request[q].mail, "address") THEN "random" ELSE "address"
  <2>1. /\ name \in {"address", "apple", "random"} /\ "password" \in Ways \cup {"none"}
        /\ AddUser(request[q].mail, name, FALSE, "password", TRUE) /\ Reply(q)
        /\ UNCHANGED invitation
    BY <1>2 DEF RegisterCustomer, Ways
  <2> HIDE DEF name
  <2>2. /\ request'[q].step = "idle" /\ request'[q].rows = {}
        /\ \A p \in Requests \ {q} : request'[p] = request[p]
        /\ request' \in [Requests -> Progress]
    BY <1>0, <2>1, ReplyHoldsNothing
  <2>3. AccountsTypeOK'
    BY <1>0, <2>1, <2>2, AddUserWrites DEF AccountsTypeOK
  <2>4. /\ StaffApart' /\ LocksHeld'
        /\ \A a \in Addresses :
             (\E u \in Users(a) : is_staff[u]) => (\E u \in Users(a) : is_staff[u])'
        /\ \A p \in Requests : request[p].step = "created" =>
             /\ request[p].how \in Callbacks /\ request[p].id \in Rows'
             /\ ~is_staff'[request[p].id]
    BY <1>0, <2>1, <2>2, AddedUserFits
  <2>5. InvitationsAwaitUsers' /\ CallbacksHoldUsers' /\ ResetsLoaded'
    BY <2>1, <2>2, <2>4 DEF AccountsInv, InvitationsAwaitUsers, CallbacksHoldUsers, ResetsLoaded
  <2>6. QED
    BY <2>3, <2>4, <2>5 DEF AccountsInv
<1>3. ASSUME NEW way \in Callbacks, CreateUser(q, way) PROVE AccountsInv'
  <2> DEFINE name == IF way = "apple" THEN "apple"
                     ELSE IF Taken(request[q].mail, "address") THEN "random" ELSE "address"
  <2>1. /\ name \in {"address", "apple", "random"}
        /\ AddUser(request[q].mail, name, FALSE, "none", FALSE)
        /\ Remember(q, "created", way, request[q].mail, created + 1)
        /\ UNCHANGED invitation
    BY <1>3 DEF CreateUser
  <2> HIDE DEF name
  <2>2. /\ created' = created + 1 /\ created' \in Ids /\ Rows' = Rows \cup {created'}
        /\ ~is_staff'[created']
    BY <1>0, <2>1, AddUserWrites
  <2>3. /\ request'[q].step = "created" /\ request'[q].how = way /\ request'[q].id = created'
        /\ request'[q].rows = {} /\ \A p \in Requests \ {q} : request'[p] = request[p]
        /\ request' \in [Requests -> Progress]
    BY <1>0, <2>1, <2>2, RememberKeeps DEF Ways
  <2>4. AccountsTypeOK'
    BY <1>0, <2>1, <2>3, AddUserWrites DEF AccountsTypeOK
  <2>5. /\ StaffApart' /\ LocksHeld'
        /\ \A a \in Addresses :
             (\E u \in Users(a) : is_staff[u]) => (\E u \in Users(a) : is_staff[u])'
        /\ \A p \in Requests : request[p].step = "created" =>
             /\ request[p].how \in Callbacks /\ request[p].id \in Rows'
             /\ ~is_staff'[request[p].id]
    BY <1>0, <2>1, <2>3, AddedUserFits
  <2>6. InvitationsAwaitUsers' /\ CallbacksHoldUsers' /\ ResetsLoaded'
    BY <2>1, <2>2, <2>3, <2>5
    DEF AccountsInv, InvitationsAwaitUsers, CallbacksHoldUsers, ResetsLoaded
  <2>7. QED
    BY <2>4, <2>5, <2>6 DEF AccountsInv
<1>4. CASE CreateCustomer(q)
  <2> DEFINE u == request[q].id
  <2>1. u \in Rows /\ ~is_staff[u] /\ request[q].how \in Callbacks
    BY <1>4 DEF CreateCustomer, AccountsInv, CallbacksHoldUsers, ResetsLoaded
  <2> HIDE DEF u
  <2>2. /\ request'[q].step = "idle" /\ request'[q].rows = {}
        /\ \A p \in Requests \ {q} : request'[p] = request[p]
        /\ request' \in [Requests -> Progress]
    BY <1>0, <1>4, ReplyHoldsNothing DEF CreateCustomer
  <2>3. /\ profile' = [profile EXCEPT ![u] = request[q].how]
        /\ UNCHANGED <<created, address, username, is_staff, is_active, usable_password, role,
                       reset_links, invitation>>
    BY <1>4 DEF CreateCustomer, u
  <2>4. AccountsTypeOK'
    BY <1>0, <2>1, <2>2, <2>3 DEF AccountsTypeOK, Ways
  <2>5. StaffApart'
    BY <2>1, <2>3 DEF AccountsInv, AccountsTypeOK, StaffApart, Rows
  <2>6. LocksHeld'
    <3>1. LocksHeld /\ 0 \notin Rows /\ Rows' = Rows
      BY <2>3 DEF AccountsInv, Rows
    <3>2. \A p \in Requests : 0 \notin request[p].rows
      BY <3>1 DEF LocksHeld, HoldsRows
    <3>3. QED
      BY <2>2, <2>3, <3>1, <3>2, LocksOutlive
  <2>7. QED
    BY <2>2, <2>3, <2>4, <2>5, <2>6
    DEF AccountsInv, InvitationsAwaitUsers, Users, Rows, CallbacksHoldUsers, ResetsLoaded
<1>5. ASSUME NEW u \in Rows, OpenReset(q, u) PROVE AccountsInv'
  <2> DEFINE loaded == IF is_active[u] THEN "on" ELSE "off"
  <2>1. /\ Remember(q, "reset", loaded, Nowhere, u) /\ u \in Ids
        /\ Nowhere \in Addresses \cup {Nowhere}
        /\ loaded \in Ways \cup Roles \cup {"none", "on", "off"}
    BY <1>0, <1>5 DEF OpenReset
  <2>2. /\ request'[q].step = "reset" /\ request'[q].how \in {"on", "off"}
        /\ request'[q].rows = {}
        /\ \A p \in Requests \ {q} : request'[p] = request[p]
        /\ request' \in [Requests -> Progress]
    BY <1>0, <2>1, RememberKeeps
  <2>3. QED
    BY <1>5, <2>2, OnlyRemembered DEF OpenReset
<1>6. CASE SaveReset(q)
  <2>1. PICK u \in Ids : u = request[q].id
    BY <1>0 DEF Progress
  <2>2. /\ usable_password' = [usable_password EXCEPT ![u] = TRUE]
        /\ is_active' = [is_active EXCEPT ![u] = request[q].how = "on"]
        /\ reset_links' = reset_links \ {u} /\ Reply(q) /\ RowsFree(q, {u})
        /\ UNCHANGED <<created, address, username, is_staff, role, profile, invitation>>
    BY <1>6, <2>1 DEF SaveReset
  <2>3. /\ request'[q].step = "idle" /\ request'[q].rows = {}
        /\ \A p \in Requests \ {q} : request'[p] = request[p]
        /\ request' \in [Requests -> Progress]
    BY <1>0, <2>2, ReplyHoldsNothing
  <2>4. AccountsTypeOK'
    BY <1>0, <2>2, <2>3 DEF AccountsTypeOK
  <2>5. LocksHeld'
    <3>1. LocksHeld /\ Rows' = Rows /\ \A p \in Requests \ {q} : u \notin request[p].rows
      BY <2>2 DEF AccountsInv, Rows, RowsFree
    <3>2. \A v \in Rows \ {u} : UNCHANGED <<is_active[v], role[v]>>
      BY <1>0, <2>2 DEF AccountsTypeOK
    <3>3. QED
      BY <2>3, <3>1, <3>2, LocksOutlive
  <2>6. QED
    BY <2>2, <2>3, <2>4, <2>5
    DEF AccountsInv, InvitationsAwaitUsers, Users, Rows, CallbacksHoldUsers, ResetsLoaded,
        StaffApart
<1>7. QED
  BY <1>1, <1>2, <1>3, <1>4, <1>5, <1>6 DEF ServeCustomer

\* What the administrators do keeps it.
LEMMA StaffKeepInv ==
  ASSUME AccountsInv, NEW q \in Requests, ServeStaff(q)
  PROVE  AccountsInv'
<1>0. /\ AccountsTypeOK /\ request[q] \in Progress /\ request[q].mail \in Addresses \cup {Nowhere}
      /\ Provisioned \in Ids /\ Rows \subseteq Ids
  BY AccountsAssumption DEF AccountsInv, AccountsTypeOK, Progress, Provisioned, Ids, Rows
<1>1. ASSUME NEW a \in Rows, NEW e \in Addresses, NEW r \in Roles, AskToInvite(q, a, e, r)
      PROVE  AccountsInv'
  <2>1. /\ Remember(q, "checked", r, e, Provisioned)
        /\ r \in Ways \cup Roles \cup {"none", "on", "off"} /\ e \in Addresses \cup {Nowhere}
    BY <1>1 DEF AskToInvite
  <2>2. /\ request'[q].step = "checked" /\ request'[q].rows = {}
        /\ \A p \in Requests \ {q} : request'[p] = request[p]
        /\ request' \in [Requests -> Progress]
    BY <1>0, <2>1, RememberKeeps
  <2>3. QED
    BY <1>1, <2>2, OnlyRemembered DEF AskToInvite
<1>2. ASSUME NEW a \in Rows, AskToManage(q, a)
      PROVE  AccountsInv'
  <2>1. /\ Remember(q, "allowed", "none", Nowhere, a) /\ a \in Ids
        /\ "none" \in Ways \cup Roles \cup {"none", "on", "off"}
        /\ Nowhere \in Addresses \cup {Nowhere}
    BY <1>0, <1>2 DEF AskToManage
  <2>2. /\ request'[q].step = "allowed" /\ request'[q].rows = {}
        /\ \A p \in Requests \ {q} : request'[p] = request[p]
        /\ request' \in [Requests -> Progress]
    BY <1>0, <2>1, RememberKeeps
  <2>3. QED
    BY <1>2, <2>2, OnlyRemembered DEF AskToManage
<1>3. CASE InviteStaff(q)
  <2>0. PICK e \in Addresses \cup {Nowhere} : e = request[q].mail
    BY <1>0
  <2>1. /\ AddUser(e, "address", TRUE, "none", FALSE) /\ Reply(q) /\ request[q].how \in Roles
        /\ invitation' = [invitation EXCEPT ![e] = request[q].how]
    BY <1>3, <2>0 DEF InviteStaff
  <2>2. /\ request'[q].step = "idle" /\ request'[q].rows = {}
        /\ \A p \in Requests \ {q} : request'[p] = request[p]
        /\ request' \in [Requests -> Progress]
    BY <1>0, <2>1, ReplyHoldsNothing
  <2>3. AccountsTypeOK'
    BY <1>0, <2>0, <2>1, <2>2, AddUserWrites DEF AccountsTypeOK
  <2>4. /\ StaffApart' /\ LocksHeld'
        /\ \A a \in Addresses :
             (\E u \in Users(a) : is_staff[u]) => (\E u \in Users(a) : is_staff[u])'
        /\ \A p \in Requests : request[p].step = "created" =>
             /\ request[p].how \in Callbacks /\ request[p].id \in Rows'
             /\ ~is_staff'[request[p].id]
    BY <2>0, <2>1, <2>2, AddedUserFits
  <2>5. InvitationsAwaitUsers'
    <3>1. created' \in Rows' /\ address'[created'] = e /\ is_staff'[created']
      BY <1>0, <2>0, <2>1, AddUserWrites
    <3>2. \A x \in Addresses \ {e} : invitation'[x] = invitation[x]
      BY <1>0, <2>1 DEF AccountsTypeOK
    <3>3. (\E u \in Users(e) : is_staff[u])'
      BY <3>1 DEF Users
    <3>4. QED
      BY <2>4, <3>2, <3>3 DEF AccountsInv, InvitationsAwaitUsers
  <2>6. CallbacksHoldUsers' /\ ResetsLoaded'
    BY <2>2, <2>4 DEF AccountsInv, CallbacksHoldUsers, ResetsLoaded
  <2>7. QED
    BY <2>3, <2>4, <2>5, <2>6 DEF AccountsInv
<1>4. ASSUME NEW u \in Rows, LockAdministrators(q, u) PROVE AccountsInv'
  <2>1. /\ request' = [request EXCEPT
             ![q].step = "counted", ![q].target = u, ![q].rows = Locks(u),
             ![q].how = IF ActiveAdministrators \subseteq {u} THEN "none" ELSE "others"]
        /\ RowsFree(q, Locks(u)) /\ UNCHANGED <<userVars, reset_links, invitation>>
    BY <1>4 DEF LockAdministrators
  <2>2. Locks(u) \subseteq Rows /\ u \in Locks(u) /\ Locks(u) \ {u} \subseteq ActiveAdministrators
    BY DEF Locks, ActiveAdministrators
  <2>3. /\ request'[q].step = "counted" /\ request'[q].target = u /\ request'[q].rows = Locks(u)
        /\ request'[q].how = (IF ActiveAdministrators \subseteq {u} THEN "none" ELSE "others")
        /\ \A p \in Requests \ {q} : request'[p] = request[p]
    BY <1>0, <2>1 DEF AccountsTypeOK, Progress
  <2>4. request' \in [Requests -> Progress]
    BY <1>0, <2>1, <2>2 DEF AccountsTypeOK, Progress
  <2>5. Rows' = Rows /\ ActiveAdministrators' = ActiveAdministrators
    BY <2>1 DEF Rows, ActiveAdministrators, userVars
  <2>6. LocksHeld'
    <3>1. HoldsRows(q)'
      BY <2>2, <2>3, <2>5 DEF HoldsRows, Locks
    <3>2. ASSUME NEW p \in Requests \ {q}
          PROVE  HoldsRows(p)' /\ request'[p].rows \cap request'[q].rows = {}
      BY <2>1, <2>3, <2>5 DEF HoldsRows, LocksHeld, AccountsInv, RowsFree
    <3>3. \A p \in Requests \ {q} : \A o \in Requests \ {p, q} :
            request'[p].rows \cap request'[o].rows = {}
      BY <2>3 DEF LocksHeld, AccountsInv
    <3>4. QED
      BY <3>1, <3>2, <3>3 DEF LocksHeld
  <2>7. /\ AccountsTypeOK' /\ InvitationsAwaitUsers' /\ CallbacksHoldUsers' /\ ResetsLoaded'
        /\ StaffApart'
    BY <2>1, <2>3, <2>4
    DEF AccountsInv, AccountsTypeOK, InvitationsAwaitUsers, CallbacksHoldUsers, ResetsLoaded,
        StaffApart, Users, Rows, userVars
  <2>8. QED
    BY <2>6, <2>7 DEF AccountsInv
<1>5. ASSUME NEW r \in Roles, NEW on \in BOOLEAN, UpdateStaff(q, r, on) PROVE AccountsInv'
  <2>1. PICK u \in Ids : u = request[q].target
    BY <1>0 DEF Progress
  <2>2. /\ role' = [role EXCEPT ![u] = r] /\ is_active' = [is_active EXCEPT ![u] = on] /\ Reply(q)
        /\ request[q].step = "counted"
        /\ UNCHANGED <<created, address, username, is_staff, usable_password, profile, reset_links,
                       invitation>>
    BY <1>5, <2>1 DEF UpdateStaff
  <2>3. /\ request'[q].step = "idle" /\ request'[q].rows = {}
        /\ \A p \in Requests \ {q} : request'[p] = request[p]
        /\ request' \in [Requests -> Progress]
    BY <1>0, <2>2, ReplyHoldsNothing
  <2>4. AccountsTypeOK'
    BY <1>0, <2>2, <2>3 DEF AccountsTypeOK
  <2>5. LocksHeld'
    <3>1. LocksHeld /\ Rows' = Rows /\ \A p \in Requests \ {q} : u \notin request[p].rows
      BY <2>1, <2>2 DEF AccountsInv, Rows, LocksHeld, HoldsRows
    <3>2. \A v \in Rows \ {u} : UNCHANGED <<is_active[v], role[v]>>
      BY <1>0, <2>2 DEF AccountsTypeOK
    <3>3. QED
      BY <2>3, <3>1, <3>2, LocksOutlive
  <2>6. QED
    BY <2>2, <2>3, <2>4, <2>5
    DEF AccountsInv, InvitationsAwaitUsers, Users, Rows, CallbacksHoldUsers, ResetsLoaded,
        StaffApart
<1>6. QED
  BY <1>1, <1>2, <1>3, <1>4, <1>5 DEF ServeStaff

\* An invitation that is accepted finds its one user, who is of the staff and whose row nobody
\* has locked.
LEMMA AcceptanceKeepsInv ==
  ASSUME AccountsInv, NEW e \in Addresses, AcceptInvitation(e)
  PROVE  AccountsInv'
<1>1. PICK u \in Rows : /\ Users(e) = {u} /\ Welcome(u, e)
                        /\ \A q \in Requests : u \notin request[q].rows
  BY DEF AcceptInvitation, Invited, Locks
<1>2. invitation[e] \in Roles /\ u \in Ids /\ Rows \subseteq Ids
  BY AccountsAssumption DEF AcceptInvitation, AccountsInv, AccountsTypeOK, Rows, Ids
<1>3. is_staff[u] /\ profile[u] = "none"
  BY <1>1, <1>2 DEF AccountsInv, InvitationsAwaitUsers, StaffApart
<1>4. /\ is_active' = [is_active EXCEPT ![u] = TRUE] /\ is_staff' = [is_staff EXCEPT ![u] = TRUE]
      /\ usable_password' = [usable_password EXCEPT ![u] = TRUE]
      /\ role' = [role EXCEPT ![u] = invitation[e]]
      /\ invitation' = [invitation EXCEPT ![e] = "closed"]
      /\ UNCHANGED <<created, address, username, profile, reset_links, request>>
  BY <1>1 DEF Welcome
<1>5. AccountsTypeOK'
  BY <1>2, <1>4 DEF AccountsInv, AccountsTypeOK
<1>6. is_staff' = is_staff
  BY <1>2, <1>3, <1>4 DEF AccountsInv, AccountsTypeOK
<1>7. InvitationsAwaitUsers'
  <2>1. \A x \in Addresses : invitation'[x] \in Roles => invitation'[x] = invitation[x]
    BY <1>4 DEF AccountsInv, AccountsTypeOK, Roles
  <2>2. QED
    BY <1>4, <1>6, <2>1 DEF AccountsInv, InvitationsAwaitUsers, Users, Rows
<1>8. CallbacksHoldUsers' /\ ResetsLoaded' /\ StaffApart'
  BY <1>4, <1>6 DEF AccountsInv, CallbacksHoldUsers, ResetsLoaded, StaffApart, Rows
<1>9. LocksHeld'
  <2>1. LocksHeld /\ Rows' = Rows
    BY <1>4 DEF AccountsInv, Rows
  <2>2. \A v \in Rows \ {u} : UNCHANGED <<is_active[v], role[v]>>
    BY <1>2, <1>4 DEF AccountsInv, AccountsTypeOK
  <2>3. QED
    BY <1>1, <1>4, <2>1, <2>2, LocksOutlive
<1>10. QED
  BY <1>5, <1>7, <1>8, <1>9 DEF AccountsInv

\* Every step keeps the invariant of the accounts.
LEMMA AccountsStep ==
  ASSUME AccountsInv, [AccountsNext]_accountVars
  PROVE  AccountsInv'
<1> USE DEF InvitationsAwaitUsers, CallbacksHoldUsers, ResetsLoaded, StaffApart, LocksHeld,
            HoldsRows, ActiveAdministrators, Rows, Users, userVars
<1>1. ASSUME NEW q \in Requests, ServeCustomer(q) \/ ServeStaff(q) PROVE AccountsInv'
  BY <1>1, CustomersKeepInv, StaffKeepInv
<1>2. ASSUME NEW q \in Requests, GiveUpRequest(q) PROVE AccountsInv'
  <2>1. Reply(q) /\ UNCHANGED <<userVars, reset_links, invitation>> /\ AccountsTypeOK
    BY <1>2 DEF GiveUpRequest, AccountsInv
  <2>2. QED
    BY <2>1, ReplyHoldsNothing, OnlyRemembered
<1>3. ASSUME NEW e \in Addresses, LogIn(e) \/ AskForReset(e) PROVE AccountsInv'
  <2>1. UNCHANGED <<userVars, invitation, request>>
    BY <1>3 DEF LogIn, AskForReset
  <2>2. PICK u \in Rows : reset_links' \subseteq reset_links \cup {u}
    BY <1>3 DEF LogIn, AskForReset
  <2>3. reset_links' \subseteq Ids
    BY <2>2, AccountsAssumption DEF AccountsInv, AccountsTypeOK, Ids
  <2>4. QED
    BY <2>1, <2>3 DEF AccountsInv, AccountsTypeOK
<1>4. ASSUME NEW e \in Addresses, InvitationExpires(e) PROVE AccountsInv'
  <2>1. \A x \in Addresses : invitation'[x] \in Roles => invitation'[x] = invitation[x]
    BY <1>4 DEF InvitationExpires, AccountsInv, AccountsTypeOK, Roles
  <2>2. QED
    BY <1>4, <2>1 DEF InvitationExpires, AccountsInv, AccountsTypeOK
<1>5. ASSUME NEW e \in Addresses, AcceptInvitation(e) PROVE AccountsInv'
  BY <1>5, AcceptanceKeepsInv
<1>6. CASE UNCHANGED accountVars
  BY <1>6 DEF accountVars, AccountsInv, AccountsTypeOK
<1>7. QED
  BY <1>1, <1>2, <1>3, <1>4, <1>5, <1>6 DEF AccountsNext, ByMail

LEMMA AccountsStart == AccountsInit => AccountsInv
<1> SUFFICES ASSUME AccountsInit PROVE AccountsInv
  OBVIOUS
<1>1. Provisioned \in Ids /\ Rows = {Provisioned} /\ created = Provisioned
  BY AccountsAssumption DEF AccountsInit, Provisioned, Rows, Ids
<1>2. Idle \in Progress
  BY <1>1 DEF Idle, Progress
<1>3. AccountsTypeOK
  BY <1>1, <1>2 DEF AccountsInit, AccountsTypeOK, Roles
<1>4. InvitationsAwaitUsers /\ StaffApart
  BY <1>1 DEF AccountsInit, InvitationsAwaitUsers, StaffApart, Roles
<1>5. CallbacksHoldUsers /\ ResetsLoaded /\ LocksHeld
  BY DEF AccountsInit, CallbacksHoldUsers, ResetsLoaded, LocksHeld, HoldsRows, Idle
<1>6. QED
  BY <1>3, <1>4, <1>5 DEF AccountsInv

\* The invariant of the accounts, which the three theorems below rest on.
LEMMA AccountsInvariant == AccountsSpec => []AccountsInv
BY AccountsStart, AccountsStep, PTL DEF AccountsSpec

\* The columns of the users, the invitations and the requests keep to their domains.
THEOREM AccountsTyped == AccountsSpec => []AccountsTypeOK
<1>1. AccountsInv => AccountsTypeOK
  BY DEF AccountsInv
<1>2. QED
  BY <1>1, AccountsInvariant, PTL

\* Whatever requests cross, the staff and the customers are different users.
THEOREM StaffStaysApart == AccountsSpec => []StaffApart
<1>1. AccountsInv => StaffApart
  BY DEF AccountsInv
<1>2. QED
  BY <1>1, AccountsInvariant, PTL

\* The ways in which the last active administrator goes.
LastGoes ==
  \A u \in Rows : ActiveAdministrators = {u} /\ ActiveAdministrators' = {} =>
    \/ \E e \in Addresses :
         address[u] = e /\ invitation[e] = "Vendedor" /\ invitation'[e] = "closed"
    \/ \E q \in Requests : /\ request[q].step = "reset" /\ request[q].id = u
                           /\ request[q].how = "off" /\ request'[q] = Idle

\* An update of staff that takes the last administrator has counted another, whose row it holds.
LEMMA UpdatesKeepAdministrator ==
  ASSUME AccountsInv, NEW q \in Requests, NEW r \in Roles, NEW on \in BOOLEAN,
         UpdateStaff(q, r, on)
  PROVE  ActiveAdministrators # {} => ActiveAdministrators' # {}
<1>1. PICK u \in Rows : u = request[q].target
  BY DEF AccountsInv, LocksHeld, HoldsRows, UpdateStaff
<1>2. /\ role' = [role EXCEPT ![u] = r] /\ is_active' = [is_active EXCEPT ![u] = on]
      /\ request[q].step = "counted" /\ UNCHANGED created
      /\ u \in ActiveAdministrators /\ ~(on /\ r = "Administrador") => request[q].how = "others"
  BY <1>1 DEF UpdateStaff
<1>3. /\ \A v \in ActiveAdministrators \ {u} : v \in ActiveAdministrators'
      /\ on /\ r = "Administrador" => u \in ActiveAdministrators'
  BY <1>1, <1>2, AccountsAssumption
  DEF AccountsInv, AccountsTypeOK, ActiveAdministrators, Rows, Ids
<1>4. request[q].how = "others" => \E v \in ActiveAdministrators : v # u
  BY <1>1, <1>2 DEF AccountsInv, LocksHeld, HoldsRows
<1>5. QED
  BY <1>2, <1>3, <1>4

\* An acceptance takes the last administrator only as a Vendedor.
LEMMA AcceptancesAreSeen ==
  ASSUME AccountsInv, NEW e \in Addresses, AcceptInvitation(e)
  PROVE  LastGoes
<1>1. PICK u \in Rows : address[u] = e /\ Welcome(u, e)
  BY DEF AcceptInvitation, Invited, Users
<1>2. /\ is_active' = [is_active EXCEPT ![u] = TRUE]
      /\ role' = [role EXCEPT ![u] = invitation[e]] /\ invitation[e] \in Roles
      /\ invitation' = [invitation EXCEPT ![e] = "closed"] /\ Rows' = Rows
  BY <1>1 DEF Welcome, AcceptInvitation, Rows
<1>3. /\ \A v \in ActiveAdministrators \ {u} : v \in ActiveAdministrators'
      /\ invitation[e] = "Administrador" => u \in ActiveAdministrators'
      /\ invitation'[e] = "closed"
  <2>1. u \in Ids /\ Rows \subseteq Ids /\ invitation'[e] = "closed"
    BY <1>1, <1>2, AccountsAssumption DEF AccountsInv, AccountsTypeOK, Rows, Ids
  <2>2. /\ \A v \in Rows \ {u} : is_active'[v] = is_active[v] /\ role'[v] = role[v]
        /\ is_active'[u] = TRUE /\ role'[u] = invitation[e]
    BY <1>2, <2>1 DEF AccountsInv, AccountsTypeOK
  <2>3. QED
    BY <1>1, <1>2, <2>1, <2>2 DEF ActiveAdministrators
<1>4. QED
  BY <1>1, <1>2, <1>3 DEF LastGoes, Roles

\* A reset takes the last administrator only by what it loaded.
LEMMA ResetsAreSeen ==
  ASSUME AccountsInv, NEW q \in Requests, SaveReset(q)
  PROVE  LastGoes
<1>1. PICK u \in Ids : u = request[q].id
  BY DEF AccountsInv, AccountsTypeOK, Progress
<1>2. /\ is_active' = [is_active EXCEPT ![u] = request[q].how = "on"] /\ Reply(q)
      /\ request[q].step = "reset" /\ UNCHANGED role /\ Rows' = Rows
  BY <1>1 DEF SaveReset, Rows
<1>3. request'[q] = Idle
  BY <1>2, ReplyHoldsNothing DEF AccountsInv
<1>4. request[q].how \in {"on", "off"}
  BY <1>2 DEF AccountsInv, ResetsLoaded
<1>5. /\ \A v \in ActiveAdministrators \ {u} : v \in ActiveAdministrators'
      /\ u \in ActiveAdministrators /\ request[q].how = "on" => u \in ActiveAdministrators'
  <2>1. u \in Ids /\ Rows \subseteq Ids
    BY <1>1, AccountsAssumption DEF AccountsInv, AccountsTypeOK, Rows, Ids
  <2>2. /\ \A v \in Rows \ {u} : is_active'[v] = is_active[v] /\ role'[v] = role[v]
        /\ request[q].how = "on" => is_active'[u] = TRUE
        /\ role'[u] = role[u]
    BY <1>2, <2>1 DEF AccountsInv, AccountsTypeOK
  <2>3. QED
    BY <1>2, <2>1, <2>2 DEF ActiveAdministrators
<1>6. QED
  BY <1>1, <1>2, <1>3, <1>4, <1>5 DEF LastGoes

\* The last active administrator goes only by an acceptance or by a reset's stale save: no two
\* updates of staff, nor one and an acceptance, leave the panel without.
THEOREM AdministratorIsKept == AccountsSpec => AdministratorKept
<1>1. ASSUME AccountsInv, AccountsNext PROVE LastGoes
  <2> SUFFICES ASSUME ActiveAdministrators # {}, ActiveAdministrators' = {} PROVE LastGoes
    BY DEF LastGoes
  <2>0. AccountsInv /\ AccountsTypeOK /\
        \A q \in Requests : request[q].mail \in Addresses \cup {Nowhere}
    BY <1>1 DEF AccountsInv, AccountsTypeOK, Progress
  <2>1. ASSUME NEW q \in Requests, ServeCustomer(q) PROVE LastGoes
    <3>1. ASSUME NEW e \in Addresses \cup {Nowhere}, NEW name \in {"address", "apple", "random"},
                 NEW way \in Ways \cup {"none"}, NEW known \in BOOLEAN,
                 AddUser(e, name, FALSE, way, known)
          PROVE  FALSE
      BY <2>0, <3>1, AddingKeepsAdministrators
    <3>2. ~RegisterCustomer(q) /\ \A way \in Callbacks : ~CreateUser(q, way)
      BY <2>0, <3>1 DEF RegisterCustomer, CreateUser, Ways
    <3>3. UNCHANGED <<created, is_active, role>> => FALSE
      BY DEF ActiveAdministrators, Rows
    <3>4. SaveReset(q)
      BY <2>1, <3>2, <3>3
      DEF ServeCustomer, AskToJoin, CreateCustomer, OpenReset, userVars
    <3>5. QED
      BY <2>0, <3>4, ResetsAreSeen
  <2>2. ASSUME NEW q \in Requests, ServeStaff(q) PROVE LastGoes
    <3>1. ~InviteStaff(q)
      <4> SUFFICES ASSUME InviteStaff(q) PROVE FALSE
        OBVIOUS
      <4>1. PICK e \in Addresses \cup {Nowhere} : e = request[q].mail
        BY <2>0
      <4>2. AddUser(e, "address", TRUE, "none", FALSE)
        BY <4>1 DEF InviteStaff
      <4>3. QED
        BY <2>0, <4>2, AddingKeepsAdministrators
    <3>2. ~\E r \in Roles, on \in BOOLEAN : UpdateStaff(q, r, on)
      BY <2>0, UpdatesKeepAdministrator
    <3>3. QED
      BY <2>2, <3>1, <3>2
      DEF ServeStaff, AskToInvite, AskToManage, LockAdministrators, userVars,
          ActiveAdministrators, Rows
  <2>3. ASSUME NEW q \in Requests, GiveUpRequest(q) PROVE LastGoes
    BY <2>3 DEF GiveUpRequest, userVars, ActiveAdministrators, Rows
  <2>4. ASSUME NEW e \in Addresses, ByMail(e) PROVE LastGoes
    BY <2>0, <2>4, AcceptancesAreSeen
    DEF ByMail, LogIn, AskForReset, InvitationExpires, userVars, ActiveAdministrators, Rows
  <2>5. QED
    BY <1>1, <2>1, <2>2, <2>3, <2>4 DEF AccountsNext
<1>2. AccountsInv /\ [AccountsNext]_accountVars => [LastGoes]_accountVars
  BY <1>1
<1>3. QED
  BY <1>2, AccountsInvariant, PTL DEF AccountsSpec, AdministratorKept, LastGoes

-----------------------------------------------------------------------------
(* Whose an online booking is. *)

\* What is known of one booking: nothing before it is made; whoever used its code has it; a
\* customer's own booking has no code and is its customer's or nobody's.
BookingOwned(b) ==
  /\ maker[b] = NoOne =>
       /\ owner[b] = NoOne /\ claimed_by[b] = NoOne /\ code[b] = "none"
       /\ \A s \in Browsers : cart[s] # b /\ task[s].booking # b
  /\ claimed_by[b] # NoOne => owner[b] = claimed_by[b]
  /\ maker[b] \in Customers => owner[b] \in {maker[b], NoOne} /\ code[b] = "none"

\* What is known of one browser: it remembers a customer's booking only for that customer,
\* and inserts it only for that customer.
BrowserOwns(s) ==
  /\ cart[s] \in Purchases /\ maker[cart[s]] \in Customers => session[s] = maker[cart[s]]
  /\ task[s] # Free /\ maker[task[s].booking] \in Customers =>
       task[s].kind = "associate" /\ task[s].customer = maker[task[s].booking]

OwnershipInv ==
  /\ OwnershipTypeOK
  /\ \A b \in Purchases : BookingOwned(b)
  /\ \A s \in Browsers : BrowserOwns(s)

\* A login forgets the booking of somebody else.
LEMMA LogInKeepsInv ==
  ASSUME OwnershipInv, NEW s \in Browsers, NEW c \in Customers,
         session' = [session EXCEPT ![s] = c], cart' = [cart EXCEPT ![s] = CartAfter(s, c)],
         task' = [task EXCEPT ![s] = Free] \/
           /\ CartAfter(s, c) \in Purchases
           /\ task' = [task EXCEPT ![s] = Associate(CartAfter(s, c), c)],
         UNCHANGED <<maker, owner, claimVars>>
  PROVE  OwnershipInv'
<1> DEFINE b == CartAfter(s, c)
<1>1. b \in Purchases \cup {NoOne} /\ (b # NoOne => b = cart[s] /\ session[s] \in {Guest, c})
  BY DEF CartAfter, OwnershipInv, OwnershipTypeOK
<1>2. b \in Purchases => maker[b] # NoOne /\ (maker[b] \in Customers => maker[b] = c)
  BY <1>1, OwnershipAssumption DEF OwnershipInv, BookingOwned, BrowserOwns
<1> HIDE DEF b
<1>3. /\ session' = [session EXCEPT ![s] = c] /\ cart' = [cart EXCEPT ![s] = b]
      /\ task' = [task EXCEPT ![s] = Free] \/
           (b \in Purchases /\ task' = [task EXCEPT ![s] = Associate(b, c)])
  BY DEF b
<1>4. OwnershipTypeOK'
  BY <1>1, <1>3 DEF OwnershipInv, OwnershipTypeOK, Associate, claimVars
<1>5. ASSUME NEW z \in Browsers PROVE BrowserOwns(z)'
  <2>1. CASE z # s
    BY <1>3, <2>1 DEF OwnershipInv, OwnershipTypeOK, BrowserOwns
  <2>2. CASE z = s
    BY <1>2, <1>3, <2>2 DEF OwnershipInv, OwnershipTypeOK, BrowserOwns, Associate
  <2>3. QED
    BY <2>1, <2>2
<1>6. ASSUME NEW d \in Purchases PROVE BookingOwned(d)'
  <2>1. maker[d] = NoOne => b # d
    BY <1>2
  <2>2. \A z \in Browsers : /\ cart'[z] = cart[z] \/ cart'[z] = b
                            /\ task'[z] = task[z] \/ task'[z].booking \in {b, NoOne}
    BY <1>3 DEF OwnershipInv, OwnershipTypeOK, Associate, Free
  <2>3. QED
    BY <2>1, <2>2, OwnershipAssumption DEF OwnershipInv, BookingOwned, claimVars
<1>7. QED
  BY <1>4, <1>5, <1>6 DEF OwnershipInv

\* A booking that is made belongs to whoever is in the session.
LEMMA BookOnlineKeepsInv ==
  ASSUME OwnershipInv, NEW s \in Browsers, NEW b \in Purchases, BookOnline(s, b)
  PROVE  OwnershipInv'
<1>1. /\ task[s] = Free /\ maker[b] = NoOne
      /\ maker' = [maker EXCEPT ![b] = session[s]] /\ cart' = [cart EXCEPT ![s] = b]
      /\ \/ session[s] \in Customers /\ task' = [task EXCEPT ![s] = Associate(b, session[s])]
         \/ session[s] \notin Customers /\ task' = task
      /\ \/ session[s] = Guest /\ code' = [code EXCEPT ![b] = "open"]
         \/ code' = code
      /\ UNCHANGED <<session, owner, claimed_by>>
  BY DEF BookOnline
<1>2. /\ owner[b] = NoOne /\ claimed_by[b] = NoOne /\ code[b] = "none"
      /\ \A z \in Browsers : cart[z] # b /\ task[z].booking # b
  BY <1>1 DEF OwnershipInv, BookingOwned
<1>3. session[s] \in Customers \cup {Guest, Internal} /\ session[s] # NoOne
  BY OwnershipAssumption DEF OwnershipInv, OwnershipTypeOK
<1>4. OwnershipTypeOK'
  BY <1>1, <1>3 DEF OwnershipInv, OwnershipTypeOK, Associate
<1>5. ASSUME NEW z \in Browsers PROVE BrowserOwns(z)'
  BY <1>1, <1>2, OwnershipAssumption
  DEF OwnershipInv, OwnershipTypeOK, BrowserOwns, Associate
<1>6. ASSUME NEW d \in Purchases PROVE BookingOwned(d)'
  <2>1. CASE d = b
    BY <1>1, <1>2, <1>3, <2>1, OwnershipAssumption
    DEF OwnershipInv, OwnershipTypeOK, BookingOwned
  <2>2. CASE d # b
    <3>1. \A z \in Browsers : /\ cart'[z] = cart[z] \/ cart'[z] = b
                              /\ task'[z] = task[z] \/ task'[z].booking = b
      BY <1>1 DEF OwnershipInv, OwnershipTypeOK, Associate
    <3>2. UNCHANGED <<maker[d], owner[d], claimed_by[d], code[d]>>
      BY <1>1, <2>2 DEF OwnershipInv, OwnershipTypeOK
    <3>3. QED
      BY <2>2, <3>1, <3>2 DEF OwnershipInv, BookingOwned
  <2>3. QED
    BY <2>1, <2>2
<1>7. QED
  BY <1>4, <1>5, <1>6 DEF OwnershipInv

\* Every step keeps the invariant of the owners.
LEMMA OwnershipStep ==
  ASSUME OwnershipInv, [OwnershipNext]_ownershipVars
  PROVE  OwnershipInv'
<1> USE OwnershipAssumption DEF OwnershipInv, claimVars
<1>1. ASSUME NEW s \in Browsers, NEW b \in Purchases, BookOnline(s, b) PROVE OwnershipInv'
  BY <1>1, BookOnlineKeepsInv
<1>2. ASSUME NEW s \in Browsers, NEW b \in Purchases, BeginClaim(s, b) PROVE OwnershipInv'
  <2>1. /\ code[b] = "open" /\ session[s] \in Customers
        /\ task' = [task EXCEPT ![s] = Claim(b, session[s])]
        /\ UNCHANGED <<session, cart, maker, owner, code, claimed_by>>
    BY <1>2 DEF BeginClaim
  <2>2. maker[b] # NoOne /\ maker[b] \notin Customers
    BY <2>1 DEF BookingOwned
  <2>3. QED
    BY <2>1, <2>2 DEF OwnershipTypeOK, BookingOwned, BrowserOwns, Claim
<1>3. ASSUME NEW s \in Browsers, NEW c \in Customers,
             LogInWithForm(s, c) \/ GoogleCallback(s, c) \/ AppleCallback(s, c)
      PROVE  OwnershipInv'
  <2>1. CartAfter(s, c) \in Purchases \cup {NoOne}
    BY DEF CartAfter, OwnershipTypeOK
  <2>2. /\ session' = [session EXCEPT ![s] = c] /\ cart' = [cart EXCEPT ![s] = CartAfter(s, c)]
        /\ \/ task' = [task EXCEPT ![s] = Free]
           \/ /\ CartAfter(s, c) \in Purchases
              /\ task' = [task EXCEPT ![s] = Associate(CartAfter(s, c), c)]
        /\ UNCHANGED <<maker, owner, claimVars>>
    <3>1. CASE LogInWithForm(s, c) \/ GoogleCallback(s, c)
      BY <2>1, <3>1 DEF LogInWithForm, GoogleCallback, LogInAndAssociate
    <3>2. CASE AppleCallback(s, c)
      BY <3>2 DEF AppleCallback, OwnershipTypeOK
    <3>3. QED
      BY <1>3, <3>1, <3>2
  <2>3. QED
    BY <2>2, LogInKeepsInv
<1>4. ASSUME NEW s \in Browsers, PanelLogIn(s) \/ LogOut(s) PROVE OwnershipInv'
  BY <1>4 DEF PanelLogIn, LogOut, OwnershipTypeOK, BookingOwned, BrowserOwns
<1>5. ASSUME NEW s \in Browsers, AssociateBooking(s) \/ CommitClaim(s) PROVE OwnershipInv'
  <2> DEFINE b == task[s].booking
             c == task[s].customer
  <2>1. /\ owner[b] = NoOne /\ owner' = [owner EXCEPT ![b] = c]
        /\ \/ UNCHANGED <<code, claimed_by>>
           \/ /\ task[s].kind = "claim" /\ code' = [code EXCEPT ![b] = "used"]
              /\ claimed_by' = [claimed_by EXCEPT ![b] = c]
        /\ task' = [task EXCEPT ![s] = Free] /\ UNCHANGED <<session, cart, maker>>
        /\ task[s].kind \in {"associate", "claim"}
    BY <1>5 DEF AssociateBooking, CommitClaim
  <2>2. task[s] # Free /\ b \in Purchases /\ c \in Customers
    BY <2>1 DEF OwnershipTypeOK, Free
  <2>3. /\ maker[b] # NoOne
        /\ maker[b] \in Customers => task[s].kind = "associate" /\ c = maker[b]
        /\ claimed_by[b] # NoOne => owner[b] = claimed_by[b]
    BY <2>2 DEF BookingOwned, BrowserOwns
  <2> HIDE DEF b, c
  <2>4. OwnershipTypeOK'
    BY <2>1, <2>2 DEF OwnershipTypeOK
  <2>5. \A z \in Browsers : BrowserOwns(z)'
    BY <2>1 DEF OwnershipTypeOK, BrowserOwns
  <2>6. ASSUME NEW d \in Purchases PROVE BookingOwned(d)'
    <3>1. \A z \in Browsers : cart'[z] = cart[z]
            /\ (task'[z] = task[z] \/ task'[z].booking = NoOne)
      BY <2>1 DEF OwnershipTypeOK, Free
    <3>2. CASE d = b
      BY <2>1, <2>2, <2>3, <3>2 DEF OwnershipTypeOK, BookingOwned
    <3>3. CASE d # b
      BY <2>1, <3>1, <3>3 DEF OwnershipTypeOK, BookingOwned
    <3>4. QED
      BY <3>2, <3>3
  <2>7. QED
    BY <2>4, <2>5, <2>6
<1>6. ASSUME NEW s \in Browsers, Fail(s) PROVE OwnershipInv'
  BY <1>6 DEF Fail, Free, OwnershipTypeOK, BookingOwned, BrowserOwns
<1>7. ASSUME NEW b \in Purchases, CodeLapses(b) PROVE OwnershipInv'
  BY <1>7 DEF CodeLapses, browserVars, OwnershipTypeOK, BookingOwned, BrowserOwns
<1>8. CASE UNCHANGED ownershipVars
  BY <1>8 DEF ownershipVars, browserVars, OwnershipTypeOK, BookingOwned, BrowserOwns
<1>9. QED
  BY <1>1, <1>2, <1>3, <1>4, <1>5, <1>6, <1>7, <1>8 DEF OwnershipNext, InBrowser

\* The invariant of the owners holds in every state.
LEMMA OwnershipInvariant == OwnershipSpec => []OwnershipInv
<1>1. OwnershipInit => OwnershipInv
  BY OwnershipAssumption
  DEF OwnershipInit, OwnershipInv, OwnershipTypeOK, BookingOwned, BrowserOwns, Free
<1>2. QED
  BY <1>1, OwnershipStep, PTL DEF OwnershipSpec

\* Sessions, bookings, codes and pending insertions keep to their domains.
THEOREM OwnershipTyped == OwnershipSpec => []OwnershipTypeOK
<1>1. OwnershipInv => OwnershipTypeOK
  BY DEF OwnershipInv
<1>2. QED
  BY <1>1, OwnershipInvariant, PTL

\* A booking changes hands once, and never into those of a customer who did not make it when
\* another one did.
THEOREM OwnersAlwaysStand == OwnershipSpec => OwnersStand
<1> DEFINE Stand == \A b \in Purchases :
             /\ owner[b] # NoOne => owner'[b] = owner[b]
             /\ claimed_by'[b] # NoOne => owner'[b] = claimed_by'[b]
             /\ maker'[b] \in Customers => owner'[b] \in {maker'[b], NoOne}
<1>1. ASSUME OwnershipInv, [OwnershipNext]_ownershipVars PROVE Stand
  <2>1. OwnershipInv'
    BY <1>1, OwnershipStep
  <2>2. ASSUME NEW b \in Purchases, owner[b] # NoOne PROVE owner'[b] = owner[b]
    BY <1>1, <2>2
    DEF OwnershipNext, InBrowser, BookOnline, BeginClaim, LogInWithForm, GoogleCallback,
        AppleCallback, LogInAndAssociate, PanelLogIn, LogOut, AssociateBooking, CommitClaim, Fail,
        CodeLapses, OwnershipInv, OwnershipTypeOK, claimVars, browserVars, ownershipVars
  <2>3. QED
    BY <2>1, <2>2 DEF OwnershipInv, BookingOwned
<1>2. OwnershipInv /\ [OwnershipNext]_ownershipVars => [Stand]_ownershipVars
  BY <1>1
<1>3. QED
  BY <1>2, OwnershipInvariant, PTL DEF OwnershipSpec, OwnersStand

-----------------------------------------------------------------------------
(* The abuse counters. *)

\* A window starts less than its length ago.
LEMMA WindowStart ==
  ASSUME NEW t \in Ticks
  PROVE  StartOf(t) \in Ticks /\ t < StartOf(t) + WindowLength
<1>1. t \in Nat /\ WindowLength \in Nat /\ WindowLength > 0 /\ t <= LastTick /\ LastTick \in Nat
  BY AbuseAssumption DEF Ticks
<1>2. t % WindowLength \in Nat /\ t % WindowLength < WindowLength /\ t % WindowLength <= t
  BY <1>1
<1>3. QED
  BY <1>1, <1>2 DEF StartOf, Ticks

\* A call that is served came a short while ago, in the window it counts in.
CallsAreRecent ==
  \A c \in Calls : step[c] # "idle" =>
    window[c] = StartOf(since[c]) /\ since[c] <= tick /\ tick <= since[c] + MaxDelay

\* Who read a count to add to it holds the row, and the count is still that one.
CountsAreHeld ==
  \A c \in Calls : step[c] = "found" =>
    held_by[window[c]] = c /\ seen[c] = counter[window[c]] /\ seen[c] > 0

\* As long as a call may still count in a window, its row says what was granted.
CountersTell ==
  \A w \in Ticks : w + Retention >= tick => granted[w] = counter[w]

AbuseInv == AbuseTypeOK /\ WithinLimit /\ CallsAreRecent /\ CountsAreHeld /\ CountersTell

\* The window of a call that is served is not old enough to be pruned.
LEMMA WindowIsKept ==
  ASSUME AbuseInv, NEW c \in Calls, step[c] # "idle"
  PROVE  window[c] \in Ticks /\ window[c] + Retention >= tick
<1>1. /\ since[c] \in Ticks /\ window[c] = StartOf(since[c]) /\ tick <= since[c] + MaxDelay
      /\ window[c] \in Ticks
  BY DEF AbuseInv, AbuseTypeOK, CallsAreRecent
<1>2. since[c] < window[c] + WindowLength
  BY <1>1, WindowStart
<1>3. QED
  BY <1>1, <1>2, AbuseAssumption DEF AbuseInv, AbuseTypeOK, Ticks

\* A call that ends frees its row and no other.
LEMMA AnswerFrees ==
  ASSUME AbuseInv, NEW c \in Calls, Answer(c)
  PROVE  /\ step'[c] = "idle" /\ step' \in [Calls -> {"idle", "looking", "absent", "found"}]
         /\ \A d \in Calls \ {c} : step'[d] = step[d]
         /\ held_by' \in [Ticks -> Calls \cup {NoCall}]
         /\ \A w \in Ticks : held_by[w] # c => held_by'[w] = held_by[w]
         /\ UNCHANGED <<tick, window, since, attempt, seen>>
BY DEF AbuseInv, AbuseTypeOK, Answer, Unlock

\* A call that is granted adds one to a count that nobody else may write.
LEMMA GrantKeepsInv ==
  ASSUME AbuseInv, NEW c \in Calls, CreateRow(c) \/ Increment(c)
  PROVE  AbuseInv'
<1> DEFINE w == window[c]
           n == counter[w] + 1
<1>1. w \in Ticks /\ w + Retention >= tick
  BY WindowIsKept DEF CreateRow, Increment
<1>2. granted[w] = counter[w] /\ counter[w] \in 0 .. Limit
  BY <1>1 DEF AbuseInv, AbuseTypeOK, CountersTell
<1>3. /\ n <= Limit /\ n \in 0 .. Limit /\ n > 0 /\ Answer(c)
      /\ counter' = [counter EXCEPT ![w] = n] /\ granted' = [granted EXCEPT ![w] = n]
  <2>1. counter[w] < Limit
    BY <1>2, AbuseAssumption DEF CreateRow, Increment, AbuseInv, CountsAreHeld
  <2>2. Answer(c) /\ counter' = [counter EXCEPT ![w] = n]
    <3>1. CASE CreateRow(c)
      <4>1. n = 1
        BY <3>1 DEF CreateRow
      <4>2. QED
        BY <3>1, <4>1 DEF CreateRow, Count
    <3>2. CASE Increment(c)
      <4>1. n = seen[c] + 1
        BY <3>2 DEF Increment, AbuseInv, CountsAreHeld
      <4>2. QED
        BY <3>2, <4>1 DEF Increment, Count
    <3>3. QED
      BY <3>1, <3>2
  <2>3. granted' = [granted EXCEPT ![w] = n]
    BY <1>2 DEF CreateRow, Increment, Grant
  <2>4. QED
    BY <1>2, <2>1, <2>2, <2>3, AbuseAssumption
<1>4. \A d \in Calls \ {c} : step[d] = "found" => window[d] # w
  <2>1. CASE CreateRow(c)
    BY <2>1 DEF CreateRow, AbuseInv, CountsAreHeld, AbuseTypeOK
  <2>2. CASE Increment(c)
    BY <2>2 DEF Increment, AbuseInv, CountsAreHeld
  <2>3. QED
    BY <2>1, <2>2
<1> HIDE DEF w, n
<1>5. AbuseTypeOK'
  BY <1>1, <1>3, AnswerFrees, AbuseAssumption DEF AbuseInv, AbuseTypeOK
<1>6. WithinLimit' /\ CountersTell'
  BY <1>1, <1>3, AnswerFrees DEF AbuseInv, AbuseTypeOK, WithinLimit, CountersTell
<1>7. CallsAreRecent'
  BY <1>3, AnswerFrees DEF AbuseInv, CallsAreRecent
<1>8. CountsAreHeld'
  BY <1>1, <1>3, <1>4, AnswerFrees DEF AbuseInv, AbuseTypeOK, CountsAreHeld
<1>9. QED
  BY <1>5, <1>6, <1>7, <1>8 DEF AbuseInv

\* Every step keeps the invariant of the counters.
LEMMA AbuseStep ==
  ASSUME AbuseInv, [AbuseNext]_abuseVars
  PROVE  AbuseInv'
<1> USE DEF AbuseInv, AbuseTypeOK, WithinLimit, CallsAreRecent, CountsAreHeld, CountersTell,
            callVars
<1>1. ASSUME NEW c \in Calls, Consume(c) PROVE AbuseInv'
  <2>1. StartOf(tick) \in Ticks
    BY WindowStart
  <2>2. AbuseTypeOK' /\ WithinLimit' /\ CountersTell'
    BY <1>1, <2>1 DEF Consume
  <2>3. CallsAreRecent'
    <3>1. tick <= tick /\ tick <= tick + MaxDelay
      BY AbuseAssumption DEF Ticks
    <3>2. /\ since'[c] = tick /\ window'[c] = StartOf(tick) /\ tick' = tick
          /\ \A d \in Calls \ {c} : UNCHANGED <<step[d], since[d], window[d]>>
      BY <1>1 DEF Consume
    <3>3. QED
      BY <3>1, <3>2 DEF StartOf
  <2>4. CountsAreHeld'
    BY <1>1 DEF Consume
  <2>5. QED
    BY <2>2, <2>3, <2>4
<1>2. ASSUME NEW c \in Calls, LockRow(c) PROVE AbuseInv'
  BY <1>2, AbuseAssumption DEF LockRow
<1>3. ASSUME NEW c \in Calls, FindNoRow(c) PROVE AbuseInv'
  BY <1>3 DEF FindNoRow
<1>4. ASSUME NEW c \in Calls, CreateRow(c) \/ Increment(c) PROVE AbuseInv'
  BY <1>4, GrantKeepsInv
<1>5. ASSUME NEW c \in Calls, Collide(c) \/ Deny(c) PROVE AbuseInv'
  <2>1. CASE UNCHANGED <<counter, granted>> /\ Answer(c)
    BY <2>1, AnswerFrees
  <2>2. CASE ~Answer(c)
    BY <1>5, <2>2 DEF Collide, Deny
  <2>3. QED
    BY <1>5, <2>1, <2>2 DEF Collide, Deny
<1>6. ASSUME NEW w \in Ticks, Prune(w) PROVE AbuseInv'
  <2>1. /\ counter' = [counter EXCEPT ![w] = 0] /\ held_by[w] = NoCall
        /\ ~(w + Retention >= tick) /\ UNCHANGED <<tick, held_by, granted, callVars>>
    BY <1>6, AbuseAssumption DEF Prune, Ticks
  <2>2. AbuseTypeOK' /\ WithinLimit' /\ CallsAreRecent' /\ CountersTell'
    BY <2>1, AbuseAssumption
  <2>3. CountsAreHeld'
    BY <2>1, AbuseAssumption
  <2>4. QED
    BY <2>2, <2>3
<1>7. CASE TickAbuse
  BY <1>7, AbuseAssumption DEF TickAbuse, Ticks
<1>8. CASE UNCHANGED abuseVars
  BY <1>8 DEF abuseVars
<1>9. QED
  BY <1>1, <1>2, <1>3, <1>4, <1>5, <1>6, <1>7, <1>8 DEF AbuseNext, Serve

\* The invariant of the counters, which the two theorems below are parts of.
LEMMA AbuseInvariant == AbuseSpec => []AbuseInv
<1>1. AbuseInit => AbuseInv
  BY AbuseAssumption
  DEF AbuseInit, AbuseInv, AbuseTypeOK, WithinLimit, CallsAreRecent, CountsAreHeld, CountersTell,
      Ticks
<1>2. QED
  BY <1>1, AbuseStep, PTL DEF AbuseSpec

\* Counters, locks and calls keep to their domains: a count never passes its limit.
THEOREM AbuseTyped == AbuseSpec => []AbuseTypeOK
<1>1. AbuseInv => AbuseTypeOK
  BY DEF AbuseInv
<1>2. QED
  BY <1>1, AbuseInvariant, PTL

\* A window grants no more than its limit, as long as counters outlive their windows.
THEOREM LimitIsKept == AbuseSpec => []WithinLimit
<1>1. AbuseInv => WithinLimit
  BY DEF AbuseInv
<1>2. QED
  BY <1>1, AbuseInvariant, PTL

-----------------------------------------------------------------------------
(* The site and the panel side by side. *)

\* A behaviour of the site and the panel is one of each of their modules: what holds of a
\* module alone holds of it among the others.
THEOREM PartsBehave ==
  PanelSpec =>
    CashSpec /\ TripSpec /\ BoardingSpec /\ AccountsSpec /\ OwnershipSpec /\ AbuseSpec
<1> USE DEF panelVars, siteVars
<1>1. PanelInit =>
        CashInit /\ TripInit /\ BoardingInit /\ AccountsInit /\ OwnershipInit /\ AbuseInit
  BY DEF PanelInit
<1>2. [PanelNext]_<<part, panelVars, siteVars>> =>
        /\ [CashNext]_cashVars /\ [TripNext]_schedulingVars /\ [BoardingNext]_boardingVars
        /\ [AccountsNext]_accountVars /\ [OwnershipNext]_ownershipVars /\ [AbuseNext]_abuseVars
  BY DEF PanelNext
<1>3. QED
  BY <1>1, <1>2, PTL
  DEF PanelSpec, CashSpec, TripSpec, BoardingSpec, AccountsSpec, OwnershipSpec, AbuseSpec

\* The rows of the site and the panel stay in the domains of their columns, and keep what
\* they hold of one another.
THEOREM PanelTypeCorrect == PanelSpec => []PanelTypeOK
BY PartsBehave, CashTypeCorrect, TripTypeCorrect, BoardingTypeCorrect, AccountsTyped,
   OwnershipTyped, AbuseTyped, PTL
DEF PanelTypeOK
=============================================================================
