------------------------ MODULE Notifications_proofs ------------------------
(***************************************************************************)
(* What the outbox guarantees for any rows, processes and failures.        *)
(***************************************************************************)
EXTENDS Notifications, FiniteSetTheorems, TLAPS

\* The processes that may still get an e-mail of row n accepted.
Senders(n) == {p \in Processes : pc[p] = "sending" /\ row[p] = n}
Sending(n) == Cardinality(Senders(n))

\* The e-mails of a row that a lease accounts for: one for each that ran out, and one
\* more while a lease is live or the row is SENT.
Allowance(n) ==
  IF lease_until[n] = "live" \/ status[n] = "SENT" THEN 1 + lapses[n] ELSE lapses[n]

Budget == \A n \in Rows : accepted[n] + Sending(n) <= Allowance(n)

\* What the place of a process says about its row.
RunInv ==
  \A p \in Processes :
    /\ pc[p] # "idle" => attempts[row[p]] >= 1
    /\ pc[p] = "accepted" => accepted[row[p]] >= 1

IInv == TypeOK /\ SentIsTrue /\ RunInv /\ Budget

-----------------------------------------------------------------------------
(* Counting senders *)

\* One process more or less is one more or less to count.
LEMMA OneMore ==
  ASSUME NEW S \in SUBSET Processes, NEW p \in Processes
  PROVE  /\ Cardinality(S) \in Nat
         /\ Cardinality(S \cup {p}) = IF p \in S THEN Cardinality(S) ELSE Cardinality(S) + 1
         /\ Cardinality(S \ {p}) = IF p \in S THEN Cardinality(S) - 1 ELSE Cardinality(S)
<1>1. IsFiniteSet(S)
  BY FS_Subset, BoundsAssumption
<1>2. QED
  BY <1>1, FS_CardinalityType, FS_AddElement, FS_RemoveElement

\* A process that claims becomes a sender of its row, and of no other.
LEMMA ClaimAddsSender ==
  ASSUME TypeOK, NEW p \in Processes, NEW n \in Rows, pc[p] = "idle", Claim(p, n),
         NEW m \in Rows
  PROVE  /\ Sending(m) \in Nat
         /\ Sending(m)' = IF m = n THEN Sending(m) + 1 ELSE Sending(m)
<1>1. Senders(m) \in SUBSET Processes /\ p \notin Senders(m)
  BY DEF Senders
<1>2. CASE m = n
  <2>1. Senders(m)' = Senders(m) \cup {p}
    BY <1>2 DEF TypeOK, Claim, Senders
  <2>2. QED
    BY <1>1, <1>2, <2>1, OneMore DEF Sending
<1>3. CASE m # n
  <2>1. Senders(m)' = Senders(m)
    BY <1>3 DEF TypeOK, Claim, Senders
  <2>2. QED
    BY <1>1, <1>3, <2>1, OneMore DEF Sending
<1>4. QED
  BY <1>2, <1>3

\* A process that stops sending leaves the senders of its row.
LEMMA StopRemovesSender ==
  ASSUME TypeOK, NEW p \in Processes, NEW m \in Rows,
         \/ pc' = [pc EXCEPT ![p] = "accepted"] /\ row' = row
         \/ Finish(p)
  PROVE  /\ Sending(m) \in Nat
         /\ Sending(m)' = IF p \in Senders(m) THEN Sending(m) - 1 ELSE Sending(m)
<1>1. Senders(m) \in SUBSET Processes /\ Senders(m)' = Senders(m) \ {p}
  BY DEF TypeOK, Finish, Senders
<1>2. Sending(m)' = Cardinality(Senders(m) \ {p})
  BY <1>1 DEF Sending
<1>3. QED
  BY <1>1, <1>2, OneMore DEF Sending

-----------------------------------------------------------------------------
(* The steps *)

\* A claim takes a row to which no live lease and no SENT has given the extra message.
LEMMA ClaimKeepsInv ==
  ASSUME IInv, NEW p \in Processes, NEW n \in Rows, pc[p] = "idle", Claim(p, n),
         todo' \in [Processes -> SUBSET Rows]
  PROVE  IInv'
<1> USE DEF countVars, faultVars, MayClaim, Status
<1>0. TypeOK /\ SentIsTrue /\ RunInv /\ Budget
  BY DEF IInv
<1>1. TypeOK'
  BY <1>0 DEF TypeOK, Claim
<1>2. SentIsTrue'
  BY <1>0 DEF TypeOK, SentIsTrue, Claim
<1>3. RunInv'
  BY <1>0 DEF TypeOK, RunInv, Claim
<1>4. Budget'
  <2> SUFFICES ASSUME NEW m \in Rows
               PROVE  (accepted[m] + Sending(m) <= Allowance(m))'
    BY DEF Budget
  <2>1. accepted[m] + Sending(m) <= Allowance(m)
    BY <1>0 DEF Budget
  <2>2. Sending(m) \in Nat /\ Sending(m)' = IF m = n THEN Sending(m) + 1 ELSE Sending(m)
    BY <1>0, ClaimAddsSender
  <2>3. CASE m = n
    <3>1. /\ accepted[m] \in Nat /\ lapses[m] \in Nat
          /\ accepted'[m] = accepted[m] /\ lapses'[m] = lapses[m]
          /\ Allowance(m) = lapses[m] /\ Allowance(m)' = 1 + lapses[m]
      BY <1>0, <2>3 DEF TypeOK, Claim, Allowance
    <3>2. QED
      BY <2>1, <2>2, <2>3, <3>1
  <2>4. CASE m # n
    <3>1. accepted'[m] = accepted[m] /\ Allowance(m)' = Allowance(m)
      BY <1>0, <2>4 DEF TypeOK, Claim, Allowance
    <3>2. QED
      BY <2>1, <2>2, <2>4, <3>1
  <2>5. QED
    BY <2>3, <2>4
<1>5. QED
  BY <1>1, <1>2, <1>3, <1>4 DEF IInv

\* A step that stops a sender makes room for one message, which an accepted e-mail
\* uses up and a failure gives back with the lease.
LEMMA SenderKeepsInv ==
  ASSUME IInv, NEW p \in Processes, Send(p) \/ SendFailed(p) \/ Crash(p)
  PROVE  IInv'
<1> USE DEF rowVars, countVars, faultVars, Status, Finish
<1>0. TypeOK /\ SentIsTrue /\ RunInv /\ Budget
  BY DEF IInv
<1>a. \A m \in Rows : /\ accepted[m] + Sending(m) <= Allowance(m)
                      /\ accepted[m] \in Nat /\ lapses[m] \in Nat
  BY <1>0 DEF Budget, TypeOK
<1>1. ASSUME MailAccepted(p) PROVE IInv'
  <2>1. TypeOK' /\ SentIsTrue' /\ RunInv'
    BY <1>0, <1>1 DEF TypeOK, SentIsTrue, RunInv, MailAccepted
  <2>2. ASSUME NEW m \in Rows PROVE (accepted[m] + Sending(m) <= Allowance(m))'
    <3>1. /\ Sending(m) \in Nat
          /\ Sending(m)' = IF p \in Senders(m) THEN Sending(m) - 1 ELSE Sending(m)
      BY <1>0, <1>1, StopRemovesSender DEF MailAccepted
    <3>2. Allowance(m)' = Allowance(m) /\ Allowance(m) \in Nat
      BY <1>a, <1>1 DEF MailAccepted, Allowance
    <3>3. p \in Senders(m) => accepted'[m] = accepted[m] + 1
      BY <1>0, <1>1 DEF MailAccepted, Senders, TypeOK
    <3>4. p \notin Senders(m) => accepted'[m] = accepted[m]
      BY <1>0, <1>1 DEF MailAccepted, Senders, TypeOK
    <3>5. QED
      BY <1>a, <3>1, <3>2, <3>3, <3>4
  <2>3. QED
    BY <2>1, <2>2 DEF IInv, Budget
<1>2. ASSUME RecordSent(p) PROVE IInv'
  <2>1. TypeOK'
    <3>1. CASE status[row[p]] = "SENT"
      BY <1>0, <1>2, <3>1 DEF TypeOK, RecordSent
    <3>2. CASE status[row[p]] # "SENT"
      BY <1>0, <1>2, <3>2 DEF TypeOK, RecordSent
    <3>3. QED
      BY <3>1, <3>2
  <2>2. SentIsTrue' /\ RunInv'
    BY <1>0, <1>2 DEF TypeOK, SentIsTrue, RunInv, RecordSent
  <2>3. ASSUME NEW m \in Rows PROVE (accepted[m] + Sending(m) <= Allowance(m))'
    <3>1. /\ Sending(m) \in Nat
          /\ Sending(m)' = IF p \in Senders(m) THEN Sending(m) - 1 ELSE Sending(m)
      BY <1>0, <1>2, StopRemovesSender DEF RecordSent
    <3>2. /\ accepted'[m] = accepted[m] /\ Allowance(m) \in Nat /\ Allowance(m)' \in Nat
          /\ Allowance(m)' >= Allowance(m)
      BY <1>0, <1>2 DEF RecordSent, Allowance, TypeOK
    <3>3. QED
      BY <1>a, <3>1, <3>2
  <2>4. QED
    BY <2>1, <2>2, <2>3 DEF IInv, Budget
<1>3. ASSUME SendFailed(p) PROVE IInv'
  <2>1. TypeOK' /\ SentIsTrue' /\ RunInv'
    BY <1>0, <1>3 DEF TypeOK, SentIsTrue, RunInv, SendFailed
  <2>2. ASSUME NEW m \in Rows PROVE (accepted[m] + Sending(m) <= Allowance(m))'
    <3>1. /\ accepted'[m] = accepted[m]
          /\ Sending(m) \in Nat
          /\ Sending(m)' = IF p \in Senders(m) THEN Sending(m) - 1 ELSE Sending(m)
      BY <1>0, <1>3, StopRemovesSender DEF SendFailed
    <3>2. CASE m = row[p]
      <4>1. p \in Senders(m) /\ Allowance(m)' = lapses[m]
        BY <1>0, <1>3, <3>2 DEF SendFailed, Senders, Allowance, TypeOK
      <4>2. Allowance(m) \in Nat /\ Allowance(m) <= 1 + lapses[m]
        BY <1>a DEF Allowance
      <4>3. QED
        BY <1>a, <3>1, <4>1, <4>2
    <3>3. CASE m # row[p]
      <4>1. Allowance(m)' = Allowance(m) /\ Allowance(m) \in Nat
        BY <1>a, <1>3, <3>3 DEF SendFailed, Allowance, TypeOK
      <4>2. QED
        BY <1>a, <3>1, <4>1
    <3>4. QED
      BY <3>2, <3>3
  <2>3. QED
    BY <2>1, <2>2 DEF IInv, Budget
<1>4. ASSUME Crash(p) PROVE IInv'
  <2>1. TypeOK' /\ SentIsTrue' /\ RunInv'
    BY <1>0, <1>4 DEF TypeOK, SentIsTrue, RunInv, Crash
  <2>2. ASSUME NEW m \in Rows PROVE (accepted[m] + Sending(m) <= Allowance(m))'
    <3>1. /\ Sending(m) \in Nat
          /\ Sending(m)' = IF p \in Senders(m) THEN Sending(m) - 1 ELSE Sending(m)
      BY <1>0, <1>4, StopRemovesSender DEF Crash
    <3>2. accepted'[m] = accepted[m] /\ Allowance(m)' = Allowance(m) /\ Allowance(m) \in Nat
      BY <1>a, <1>4 DEF Crash, Allowance
    <3>3. QED
      BY <1>a, <3>1, <3>2
  <2>3. QED
    BY <2>1, <2>2 DEF IInv, Budget
<1>5. QED
  BY <1>1, <1>2, <1>3, <1>4 DEF Send

\* A lease that lapses turns the message it allowed into one for a lapse.
LEMMA TimeKeepsInv ==
  ASSUME IInv, NEW n \in Rows, Schedule(n) \/ Pass(n)
  PROVE  IInv'
<1> USE DEF rowVars, runVars, countVars, faultVars, Status
<1>0. TypeOK /\ SentIsTrue /\ RunInv /\ Budget
  BY DEF IInv
<1>1. TypeOK' /\ SentIsTrue' /\ RunInv'
  <2>1. TypeOK'
    <3>1. CASE Schedule(n)
      BY <1>0, <3>1 DEF TypeOK, Schedule
    <3>2. CASE LeaseLapses(n)
      BY <1>0, <3>2 DEF TypeOK, LeaseLapses
    <3>3. CASE DelayEnds(n)
      BY <1>0, <3>3 DEF TypeOK, DelayEnds
    <3>4. QED
      BY <3>1, <3>2, <3>3 DEF Pass
  <2>2. SentIsTrue' /\ RunInv'
    BY <1>0 DEF TypeOK, SentIsTrue, RunInv, Schedule, Pass, LeaseLapses, DelayEnds
  <2>3. QED
    BY <2>1, <2>2
<1>2. ASSUME NEW m \in Rows PROVE (accepted[m] + Sending(m) <= Allowance(m))'
  <2>1. accepted[m] + Sending(m) <= Allowance(m)
    BY <1>0 DEF Budget
  <2>2. Sending(m)' = Sending(m) /\ accepted'[m] = accepted[m]
    BY DEF Schedule, Pass, LeaseLapses, DelayEnds, Sending, Senders
  <2>3. Allowance(m)' = Allowance(m)
    BY <1>0 DEF TypeOK, Schedule, Pass, LeaseLapses, DelayEnds, Allowance
  <2>4. QED
    BY <2>1, <2>2, <2>3
<1>3. QED
  BY <1>1, <1>2 DEF IInv, Budget

\* IInv is an invariant.
LEMMA Inductive == Spec => []IInv
<1>1. Init => IInv
  <2> SUFFICES ASSUME Init PROVE IInv
    OBVIOUS
  <2>1. TypeOK /\ SentIsTrue /\ RunInv
    BY DEF Init, TypeOK, SentIsTrue, RunInv, Status
  <2>2. \A n \in Rows : Senders(n) = {} /\ accepted[n] = 0 /\ Allowance(n) = 0
    BY DEF Init, Senders, Allowance
  <2>3. QED
    BY <2>1, <2>2, FS_EmptySet DEF IInv, Budget, Sending
<1>2. IInv /\ [Next]_vars => IInv'
  <2> SUFFICES ASSUME IInv, [Next]_vars PROVE IInv'
    OBVIOUS
  <2>1. ASSUME NEW n \in Rows, Schedule(n) \/ Pass(n) PROVE IInv'
    BY <2>1, TimeKeepsInv
  <2>2. ASSUME NEW p \in Processes, UNCHANGED <<rowVars, pc, row, countVars, faultVars>>,
               todo' \in [Processes -> SUBSET Rows]
        PROVE  IInv'
    <3>1. TypeOK' /\ SentIsTrue' /\ RunInv'
      BY <2>2 DEF IInv, TypeOK, SentIsTrue, RunInv, rowVars, countVars, faultVars, Status
    <3>2. \A m \in Rows : Sending(m)' = Sending(m) /\ Allowance(m)' = Allowance(m)
      BY <2>2 DEF Sending, Senders, Allowance, rowVars, countVars
    <3>3. QED
      BY <2>2, <3>1, <3>2 DEF IInv, Budget, countVars
  <2>3. ASSUME NEW p \in Workers, Select(p) \/ StopRun(p) PROVE IInv'
    <3>1. todo' \in [Processes -> SUBSET Rows]
      BY <2>3 DEF IInv, TypeOK, Select, StopRun, Candidates
    <3>2. QED
      BY <2>2, <2>3, <3>1 DEF Select, StopRun, Processes
  <2>4. ASSUME NEW p \in Workers, NEW n \in Rows, Work(p, n) PROVE IInv'
    <3>1. todo' \in [Processes -> SUBSET Rows]
      BY <2>4 DEF IInv, TypeOK, Work
    <3>2. QED
      BY <2>2, <2>4, <3>1, ClaimKeepsInv DEF Work, Processes
  <2>5. ASSUME NEW p \in Panel, NEW n \in Rows, Retry(p, n) PROVE IInv'
    <3>1. todo' \in [Processes -> SUBSET Rows]
      BY <2>5 DEF IInv, TypeOK, Retry
    <3>2. QED
      BY <2>5, <3>1, ClaimKeepsInv DEF Retry, Processes
  <2>6. ASSUME NEW p \in Processes, Send(p) \/ SendFailed(p) \/ Crash(p) PROVE IInv'
    BY <2>6, SenderKeepsInv
  <2>7. CASE UNCHANGED vars
    BY <2>7 DEF vars, rowVars, runVars, countVars, faultVars, IInv, TypeOK, SentIsTrue, RunInv,
      Budget, Sending, Senders, Allowance
  <2>8. QED
    BY <2>1, <2>3, <2>4, <2>5, <2>6, <2>7 DEF Next, Run
<1>3. QED
  BY <1>1, <1>2, PTL DEF Spec

-----------------------------------------------------------------------------
(* The theorems *)

\* Every variable keeps its type, and a lease belongs to PROCESSING.
THEOREM TypeCorrect == Spec => []TypeOK
<1>1. IInv => TypeOK
  BY DEF IInv
<1>2. QED
  BY <1>1, Inductive, PTL

\* SENT is only written about a message that was taken.
THEOREM SentSpeaksTrue == Spec => []SentIsTrue
<1>1. IInv => SentIsTrue
  BY DEF IInv
<1>2. QED
  BY <1>1, Inductive, PTL

\* A row nobody has tried yet is neither delayed nor out of attempts.
Untried(n) == status[n] \in {"NONE", "PENDING"} => attempts[n] = 0 /\ ~delayed[n]

\* Only a claim counts an attempt, and only a failure delays, and neither leaves it untried.
LEMMA NextUntried ==
  ASSUME IInv, [Next]_vars, NEW n \in Rows, Untried(n)
  PROVE  Untried(n)'
<1>0. TypeOK
  BY DEF IInv
<1>1. ASSUME NEW p \in Processes, NEW m \in Rows, Claim(p, m) PROVE Untried(n)'
  BY <1>0, <1>1 DEF Claim, Untried, TypeOK
<1>2. ASSUME NEW m \in Rows, Schedule(m) \/ Pass(m) PROVE Untried(n)'
  BY <1>0, <1>2 DEF Schedule, Pass, LeaseLapses, DelayEnds, Untried, TypeOK
<1>3. ASSUME NEW p \in Processes, Send(p) \/ SendFailed(p) \/ Crash(p) PROVE Untried(n)'
  BY <1>0, <1>3 DEF Send, MailAccepted, RecordSent, SendFailed, Crash, rowVars, Untried, TypeOK
<1>4. UNCHANGED rowVars => Untried(n)'
  BY DEF rowVars, Untried
<1>5. QED
  BY <1>1, <1>2, <1>3, <1>4 DEF Next, Run, Select, StopRun, Work, Retry, Processes, vars

\* Until it is sent or given up, a message is selected next, or delayed, or leased.
THEOREM NoMessageIsForgotten == Spec => []NothingForgotten
<1>1. Init => \A n \in Rows : Untried(n)
  BY DEF Init, Untried
<1>2. IInv /\ [Next]_vars /\ (\A n \in Rows : Untried(n)) => (\A n \in Rows : Untried(n))'
  BY NextUntried
<1>3. IInv /\ (\A n \in Rows : Untried(n)) => NothingForgotten
  BY BoundsAssumption DEF IInv, TypeOK, Status, Untried, NothingForgotten, Candidates
<1>4. QED
  BY <1>1, <1>2, <1>3, Inductive, PTL DEF Spec

\* One message, and at most one more for every lease that ran out.
THEOREM RepeatsArePaidFor == Spec => []OneMailPerLease
<1>1. IInv => OneMailPerLease
  <2> SUFFICES ASSUME IInv, NEW n \in Rows PROVE accepted[n] <= 1 + lapses[n]
    BY DEF OneMailPerLease
  <2>1. /\ accepted[n] + Sending(n) <= Allowance(n)
        /\ accepted[n] \in Nat /\ lapses[n] \in Nat
    BY DEF IInv, Budget, TypeOK
  <2>2. Sending(n) \in Nat
    BY FS_Subset, FS_CardinalityType, BoundsAssumption DEF Sending, Senders
  <2>3. Allowance(n) \in Nat /\ Allowance(n) <= 1 + lapses[n]
    BY <2>1 DEF Allowance
  <2>4. QED
    BY <2>1, <2>2, <2>3
<1>2. QED
  BY <1>1, Inductive, PTL
=============================================================================
