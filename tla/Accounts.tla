------------------------------- MODULE Accounts -------------------------------
(***************************************************************************)
(* Who has an account: customers who register with a password or come with *)
(* Google or Apple (customers/), and the staff an administrator invites    *)
(* and manages (panel/staff_services.py).                                  *)
(*                                                                         *)
(* All of them are rows of Django's User, whose e-mail is not unique: only *)
(* User.username, Customer.email and StaffInvitation.normalized_email are. *)
(* A request checks first and inserts later, with other requests between:  *)
(* at READ COMMITTED nothing locks a row that is not there yet, so what    *)
(* decides is the constraint at the insertion.  register_customer and the  *)
(* staff services are transactions; the callbacks of Google and Apple are  *)
(* not, and leave a user without a customer when they stop halfway.        *)
(***************************************************************************)
EXTENDS Integers, FiniteSets

CONSTANTS
  Addresses,   \* normalized e-mail addresses; each also stands for its Google or Apple subject
  Requests,    \* requests served at once
  MaxUsers,    \* bound: User rows; a request that may add one waits until one is to spare
  Nowhere      \* not an address

ASSUME AccountsAssumption == MaxUsers \in Nat \ {0} /\ Nowhere \notin Addresses

VARIABLES
  created,                                  \* the User rows are 1 .. created, by primary key
  address, username,                        \* User.email; what the username is made of
  is_staff, is_active, usable_password,     \* columns of User
  role,                                     \* its group
  profile,                                  \* how its Customer signed up, "none" without one
  reset_links,                              \* users with a link to reset their password that works
  invitation,                               \* StaffInvitation: its role while it is open
  request                                   \* what each request has done so far

userVars == <<created, address, username, is_staff, is_active, usable_password, role, profile>>
accountVars == <<userVars, reset_links, invitation, request>>

Ids == 1 .. MaxUsers
Rows == 1 .. created
Roles == {"Administrador", "Vendedor"}
Callbacks == {"google", "apple"}
Ways == {"password"} \cup Callbacks

\* The account provisioned outside the panel, the one StaffProfile that is_owner.
Provisioned == 1

Idle == [step |-> "idle", how |-> "none", mail |-> Nowhere, id |-> Provisioned,
         target |-> Provisioned, rows |-> {}]

AccountsInit ==
  /\ created = 1 /\ address = [u \in Ids |-> Nowhere]
  /\ username = [u \in Ids |-> "address"]
  /\ is_staff = [u \in Ids |-> u = Provisioned] /\ is_active = [u \in Ids |-> u = Provisioned]
  /\ usable_password = [u \in Ids |-> u = Provisioned]
  /\ role = [u \in Ids |-> IF u = Provisioned THEN "Administrador" ELSE "none"]
  /\ profile = [u \in Ids |-> "none"]
  /\ reset_links = {}
  /\ invitation = [e \in Addresses |-> "none"]
  /\ request = [q \in Requests |-> Idle]

-----------------------------------------------------------------------------
Users(e) == {u \in Rows : address[u] = e}
HasCustomer(e) == \E u \in Users(e) : profile[u] # "none"
Taken(e, name) == \E u \in Users(e) : username[u] = name

\* User.objects.filter(email__iexact=e).first(): by primary key.
IsFirst(u, e) == u \in Users(e) /\ \A v \in Users(e) : u <= v

\* can_manage_staff, can_create_administrator (of the user as the request loaded it), of somebody
\* who can log in: with a password, or with the session of a customer of Google or Apple.
MayManage(a) ==
  /\ a \in Rows /\ is_active[a] /\ role[a] = "Administrador"
  /\ usable_password[a] \/ profile[a] \in Callbacks
Grants(a) == IF a = Provisioned THEN Roles ELSE {"Vendedor"}

Reply(q) == request' = [request EXCEPT ![q] = Idle]
Remember(q, step, how, e, u) ==
  request' = [request EXCEPT ![q] = [step |-> step, how |-> how, mail |-> e, id |-> u,
                                     target |-> Provisioned, rows |-> {}]]

RowToSpare == created + Cardinality({p \in Requests : request[p].step = "checked"}) < MaxUsers

\* No other request has these users' rows locked.
RowsFree(q, users) == \A p \in Requests \ {q} : request[p].rows \cap users = {}

AddUser(e, name, staff, way, known) ==
  LET u == created + 1
  IN  /\ u \in Ids /\ created' = u
      /\ address' = [address EXCEPT ![u] = e]
      /\ username' = [username EXCEPT ![u] = name]
      /\ is_staff' = [is_staff EXCEPT ![u] = staff]
      /\ is_active' = [is_active EXCEPT ![u] = ~staff]
      /\ usable_password' = [usable_password EXCEPT ![u] = known]
      /\ profile' = [profile EXCEPT ![u] = way]
      /\ UNCHANGED <<role, reset_links>>

-----------------------------------------------------------------------------
(* Customers. *)

\* The test register_customer and the two callbacks begin with; which of them it was shows when
\* it inserts.
AskToJoin(q, e) ==
  /\ request[q] = Idle /\ RowToSpare /\ Users(e) = {}
  /\ Remember(q, "checked", "none", e, Provisioned)
  /\ UNCHANGED <<userVars, reset_links, invitation>>

\* register_customer inserts the user and the customer in one transaction.
RegisterCustomer(q) ==
  LET e == request[q].mail
  IN  /\ request[q].step = "checked" /\ request[q].how = "none"
      /\ ~HasCustomer(e)
      /\ AddUser(e, IF Taken(e, "address") THEN "random" ELSE "address", FALSE, "password", TRUE)
      /\ Reply(q)
      /\ UNCHANGED invitation

\* google_callback and apple_callback: create_user is committed on its own.
CreateUser(q, way) ==
  LET e == request[q].mail
      name == IF way = "apple" THEN "apple"
              ELSE IF Taken(e, "address") THEN "random" ELSE "address"
  IN  /\ request[q].step = "checked" /\ request[q].how = "none"
      /\ way = "apple" => ~Taken(e, "apple")
      /\ AddUser(e, name, FALSE, "none", FALSE)
      /\ Remember(q, "created", way, e, created + 1)
      /\ UNCHANGED invitation

\* Customer.objects.create, unless another request was first with the address.
CreateCustomer(q) ==
  /\ request[q].step = "created" /\ ~HasCustomer(request[q].mail)
  /\ profile' = [profile EXCEPT ![request[q].id] = request[q].how]
  /\ Reply(q)
  /\ UNCHANGED <<created, address, username, is_staff, is_active, usable_password, role,
                 reset_links, invitation>>

\* customer_login, or a callback that finds its subject: the login ends the reset links.
LogIn(e) ==
  /\ \E u \in Users(e) :
       /\ is_active[u] /\ ~is_staff[u] /\ profile[u] # "none"
       /\ profile[u] \in Callbacks \/ (IsFirst(u, e) /\ usable_password[u])
       /\ reset_links' = reset_links \ {u}
  /\ UNCHANGED <<userVars, invitation, request>>

AskForReset(e) ==
  /\ \E u \in Users(e) :
       profile[u] # "none" /\ ~is_staff[u] /\ is_active[u] /\ reset_links' = reset_links \cup {u}
  /\ UNCHANGED <<userVars, invitation, request>>

\* The confirmation of a reset loads the user, whose link may outlive its activity, ...
OpenReset(q, u) ==
  /\ request[q] = Idle /\ u \in reset_links
  /\ Remember(q, "reset", IF is_active[u] THEN "on" ELSE "off", Nowhere, u)
  /\ UNCHANGED <<userVars, reset_links, invitation>>

\* ... and saves every column of it, is_active as it was loaded.  A customer who came with Google
\* or Apple gets a password this way.
SaveReset(q) ==
  LET u == request[q].id
  IN  /\ request[q].step = "reset" /\ RowsFree(q, {u})
      /\ usable_password' = [usable_password EXCEPT ![u] = TRUE]
      /\ is_active' = [is_active EXCEPT ![u] = request[q].how = "on"]
      /\ reset_links' = reset_links \ {u}
      /\ Reply(q)
      /\ UNCHANGED <<created, address, username, is_staff, role, profile, invitation>>

-----------------------------------------------------------------------------
(* Staff. *)

\* The tests of invite_staff; the role is that of the invitation.
AskToInvite(q, a, e, r) ==
  /\ request[q] = Idle /\ RowToSpare
  /\ MayManage(a) /\ r \in Grants(a) /\ Users(e) = {}
  /\ Remember(q, "checked", r, e, Provisioned)
  /\ UNCHANGED <<userVars, reset_links, invitation>>

InviteStaff(q) ==
  LET e == request[q].mail
  IN  /\ request[q].step = "checked" /\ request[q].how \in Roles
      /\ invitation[e] = "none" /\ ~Taken(e, "address")
      /\ AddUser(e, "address", TRUE, "none", FALSE)
      /\ invitation' = [invitation EXCEPT ![e] = request[q].how]
      /\ Reply(q)

InvitationExpires(e) ==
  /\ invitation[e] \in Roles /\ invitation' = [invitation EXCEPT ![e] = "closed"]
  /\ UNCHANGED <<userVars, reset_links, request>>

Welcome(u, e) ==
  /\ is_active' = [is_active EXCEPT ![u] = TRUE] /\ is_staff' = [is_staff EXCEPT ![u] = TRUE]
  /\ usable_password' = [usable_password EXCEPT ![u] = TRUE]
  /\ role' = [role EXCEPT ![u] = invitation[e]]
  /\ invitation' = [invitation EXCEPT ![e] = "closed"]
  /\ UNCHANGED <<created, address, username, profile, reset_links, request>>

\* Mutant: .filter(email).first() in place of .get(email).
Invited_First(u, e) == IsFirst(u, e)

\* .get(email) fails when two users have the address.
Invited(u, e) == Users(e) = {u}

ActiveAdministrators == {v \in Rows : is_active[v] /\ role[v] = "Administrador"}

\* Mutant: the user alone is locked.
Locks_Target(u) == {u}

\* _lock_active_administrators, then the user who is changed.
Locks(u) == ActiveAdministrators \cup {u}

\* accept_invitation holds the invitation's row and the user's, and the administrators' to make
\* another.  It sets the invited role, whatever update_staff has made of the user meanwhile.
AcceptInvitation(e) ==
  /\ invitation[e] \in Roles
  /\ \E u \in Rows :
       /\ Invited(u, e) /\ Welcome(u, e)
       /\ \A q \in Requests : request[q].rows \cap
            (IF invitation[e] = "Administrador" THEN Locks(u) ELSE {u}) = {}

\* can_manage_staff is asked before any row is locked.
AskToManage(q, a) ==
  /\ request[q] = Idle /\ MayManage(a)
  /\ Remember(q, "allowed", "none", Nowhere, a)
  /\ UNCHANGED <<userVars, reset_links, invitation>>

\* update_staff of any user, a customer's too: it waits for the rows it locks, and counts the
\* other administrators.
LockAdministrators(q, u) ==
  /\ request[q].step = "allowed" /\ RowsFree(q, Locks(u))
  /\ request' = [request EXCEPT
       ![q].step = "counted", ![q].target = u, ![q].rows = Locks(u),
       ![q].how = IF ActiveAdministrators \subseteq {u} THEN "none" ELSE "others"]
  /\ UNCHANGED <<userVars, reset_links, invitation>>

\* Then it tests and writes: an asker does not remove itself, the last administrator stays, and
\* the role is one the asker may give or the user's own.  Its end releases the rows.
UpdateStaff(q, r, on) ==
  LET a == request[q].id
      u == request[q].target
  IN  /\ request[q].step = "counted"
      /\ r \in Grants(a) \cup {role[u]}
      /\ u = a => on /\ r \in {"Administrador", role[u]}
      /\ u \in ActiveAdministrators /\ ~(on /\ r = "Administrador") => request[q].how = "others"
      /\ role' = [role EXCEPT ![u] = r] /\ is_active' = [is_active EXCEPT ![u] = on]
      /\ Reply(q)
      /\ UNCHANGED <<created, address, username, is_staff, usable_password, profile, reset_links,
                     invitation>>

\* A check or a constraint fails, or the process dies: a transaction rolls back, but the user
\* a callback has created stays.
GiveUpRequest(q) ==
  request[q] # Idle /\ Reply(q) /\ UNCHANGED <<userVars, reset_links, invitation>>

-----------------------------------------------------------------------------
ServeCustomer(q) ==
  \/ \E e \in Addresses : AskToJoin(q, e)
  \/ RegisterCustomer(q) \/ CreateCustomer(q)
  \/ \E way \in Callbacks : CreateUser(q, way)
  \/ \E u \in Rows : OpenReset(q, u)
  \/ SaveReset(q)

ServeStaff(q) ==
  \/ \E a \in Rows, e \in Addresses, r \in Roles : AskToInvite(q, a, e, r)
  \/ InviteStaff(q)
  \/ \E a \in Rows : AskToManage(q, a)
  \/ \E u \in Rows : LockAdministrators(q, u)
  \/ \E r \in Roles, on \in BOOLEAN : UpdateStaff(q, r, on)

ByMail(e) == LogIn(e) \/ AskForReset(e) \/ InvitationExpires(e) \/ AcceptInvitation(e)

AccountsNext ==
  \/ \E q \in Requests : ServeCustomer(q) \/ ServeStaff(q) \/ GiveUpRequest(q)
  \/ \E e \in Addresses : ByMail(e)

AccountsSpec == AccountsInit /\ [][AccountsNext]_accountVars

-----------------------------------------------------------------------------
(* Properties. *)

Progress ==
  [step : {"idle", "checked", "created", "reset", "allowed", "counted"},
   how : Ways \cup Roles \cup {"none", "on", "off", "others"},
   mail : Addresses \cup {Nowhere}, id : Ids, target : Ids, rows : SUBSET Ids]

AccountsTypeOK ==
  /\ created \in Ids
  /\ address \in [Ids -> Addresses \cup {Nowhere}]
  /\ username \in [Ids -> {"address", "apple", "random"}]
  /\ is_staff \in [Ids -> BOOLEAN] /\ is_active \in [Ids -> BOOLEAN]
  /\ usable_password \in [Ids -> BOOLEAN]
  /\ role \in [Ids -> Roles \cup {"none"}] /\ profile \in [Ids -> Ways \cup {"none"}]
  /\ reset_links \subseteq Ids
  /\ invitation \in [Addresses -> Roles \cup {"none", "closed"}]
  /\ request \in [Requests -> Progress]

\* Whatever registrations, invitations and callbacks cross, nobody is of the staff (is_staff) and
\* a customer with the same user (customers/services.py:53: `estrictamente separado del panel
\* (is_staff=False, is_superuser=False)'), although an invitation and a callback of Apple may
\* give one address a user each.  A role is another matter: update_staff takes the id of any
\* user and gives one to a customer's too, which the panel's own list never offers.
StaffApart == \A u \in Rows : is_staff[u] => profile[u] = "none"

\* The last active administrator goes (staff_services.py:92: `No se puede dejar el panel sin un
\* Administrador activo') only where nobody counts: when one who was made administrator before
\* accepting an invitation as Vendedor accepts it, and when the confirmation of a reset saves a
\* user it loaded inactive.  No two updates of staff, nor an update and an acceptance, do it.
AdministratorKept ==
  [][\A u \in Rows : ActiveAdministrators = {u} /\ ActiveAdministrators' = {} =>
       \/ \E e \in Addresses :
            address[u] = e /\ invitation[e] = "Vendedor" /\ invitation'[e] = "closed"
       \/ \E q \in Requests : /\ request[q].step = "reset" /\ request[q].id = u
                              /\ request[q].how = "off" /\ request'[q] = Idle]_accountVars
=============================================================================
