------------------------------- MODULE Panel -------------------------------
(***************************************************************************)
(* Modules that share no row, side by side: the panel's three, the         *)
(* accounts, whose a booking is and the abuse counters.  No service of one *)
(* reads what another writes, so their interleavings show nothing that one *)
(* of them does not show alone: a behaviour follows one, its part.         *)
(***************************************************************************)
EXTENDS CashRegister, TripScheduling, Boarding, Accounts, Ownership, AbuseCounters

VARIABLE part

panelVars == <<cashVars, schedulingVars, boardingVars>>
siteVars == <<accountVars, ownershipVars, abuseVars>>

PanelInit ==
  /\ CashInit /\ TripInit /\ BoardingInit /\ AccountsInit /\ OwnershipInit /\ AbuseInit
  /\ part \in {"cash", "trips", "doors", "accounts", "owners", "abuse"}

PanelNext ==
  /\ UNCHANGED part
  /\ \/ part = "cash" /\ CashNext /\ UNCHANGED <<schedulingVars, boardingVars, siteVars>>
     \/ part = "trips" /\ TripNext /\ UNCHANGED <<cashVars, boardingVars, siteVars>>
     \/ part = "doors" /\ BoardingNext /\ UNCHANGED <<cashVars, schedulingVars, siteVars>>
     \/ part = "accounts" /\ AccountsNext /\ UNCHANGED <<panelVars, ownershipVars, abuseVars>>
     \/ part = "owners" /\ OwnershipNext /\ UNCHANGED <<panelVars, accountVars, abuseVars>>
     \/ part = "abuse" /\ AbuseNext /\ UNCHANGED <<panelVars, accountVars, ownershipVars>>

PanelSpec == PanelInit /\ [][PanelNext]_<<part, panelVars, siteVars>>

\* The type invariant of every module here, each with what its rows keep of one another.
PanelTypeOK ==
  /\ CashTypeOK /\ TripTypeOK /\ BoardingTypeOK
  /\ AccountsTypeOK /\ OwnershipTypeOK /\ AbuseTypeOK
=============================================================================
