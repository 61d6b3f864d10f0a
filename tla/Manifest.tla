------------------------------ MODULE Manifest ------------------------------
(***************************************************************************)
(* What the doors of a trip promise, without requests, locks or records:   *)
(* who a ticket was boarded by, if it is aboard; nobody boards with a void *)
(* ticket or twice; and who boarded whom and took it back stays written.   *)
(***************************************************************************)
CONSTANTS Tickets, Staff,
  Nobody  \* not of the staff

VARIABLES
  aboard,  \* who boarded a ticket that is aboard
  void,    \* the tickets that were voided
  log      \* the boardings that were taken back: ticket, who boarded it, who took it back

vars == <<aboard, void, log>>

Init == aboard = [k \in Tickets |-> Nobody] /\ void = {} /\ log = {}

Board(k) ==
  /\ k \notin void /\ aboard[k] = Nobody /\ aboard'[k] \in Staff
  /\ aboard' = [aboard EXCEPT ![k] = aboard'[k]]
  /\ UNCHANGED <<void, log>>

TakeBack(k, p) ==
  /\ aboard[k] # Nobody
  /\ aboard' = [aboard EXCEPT ![k] = Nobody]
  /\ log' = log \cup {<<k, aboard[k], p>>}
  /\ UNCHANGED void

Void(k) == void' = void \cup {k} /\ UNCHANGED <<aboard, log>>

Next ==
  \E k \in Tickets : Void(k) \/ Board(k) \/ \E p \in Staff : TakeBack(k, p)

Spec == Init /\ [][Next]_vars
=============================================================================
