---------------------------- MODULE AbuseCounters ----------------------------
(***************************************************************************)
(* core/abuse.py: how often one client may call one endpoint in a window   *)
(* of time, counted in a row of the database, and the maintenance that     *)
(* deletes old rows.  There is no row to lock at the first call.           *)
(***************************************************************************)
EXTENDS Integers

CONSTANTS
  Calls,         \* requests served at once, of one client for one endpoint
  Limit,         \* ABUSE_..._LIMIT
  WindowLength,  \* ABUSE_..._WINDOW_SECONDS
  Retention,     \* ABUSE_COUNTER_RETENTION_SECONDS
  MaxDelay,      \* bound: how long a call may take
  LastTick,      \* bound: the clock stops there
  NoCall

\* production_preflight asks for positive numbers only; that a counter outlives its window is
\* true of the default settings.
ASSUME AbuseAssumption ==
  /\ Limit \in Nat \ {0} /\ WindowLength \in Nat \ {0} /\ MaxDelay \in Nat
  /\ Retention \in Nat /\ LastTick \in Nat
  /\ Retention >= WindowLength + MaxDelay
  /\ NoCall \notin Calls

VARIABLES
  tick,      \* the clock
  counter,   \* AbuseCounter.count of each window, by its start; 0 without a row
  held_by,   \* who has the row locked
  granted,   \* calls that were allowed in each window
  step, window, since, attempt,  \* of each call; the window its time falls in, and when it came
  seen                           \* the count it has read

callVars == <<step, window, since, attempt, seen>>
abuseVars == <<tick, counter, held_by, granted, callVars>>

Ticks == 0 .. LastTick
StartOf(t) == t - (t % WindowLength)

AbuseInit ==
  /\ tick = 0
  /\ counter = [w \in Ticks |-> 0] /\ granted = [w \in Ticks |-> 0]
  /\ held_by = [w \in Ticks |-> NoCall]
  /\ step = [c \in Calls |-> "idle"] /\ window = [c \in Calls |-> 0]
  /\ since = [c \in Calls |-> 0] /\ attempt = [c \in Calls |-> 1]
  /\ seen = [c \in Calls |-> 0]

-----------------------------------------------------------------------------
Unlock(c) == held_by' = [w \in Ticks |-> IF held_by[w] = c THEN NoCall ELSE held_by[w]]
Answer(c) ==
  /\ step' = [step EXCEPT ![c] = "idle"] /\ Unlock(c)
  /\ UNCHANGED <<tick, window, since, attempt, seen>>
Count(c, n) == counter' = [counter EXCEPT ![window[c]] = n]
Grant(c) == granted' = [granted EXCEPT ![window[c]] = @ + 1]

\* consume reads the clock once.
Consume(c) ==
  /\ step[c] = "idle"
  /\ step' = [step EXCEPT ![c] = "looking"]
  /\ window' = [window EXCEPT ![c] = StartOf(tick)]
  /\ since' = [since EXCEPT ![c] = tick] /\ attempt' = [attempt EXCEPT ![c] = 1]
  /\ UNCHANGED <<tick, counter, held_by, granted, seen>>

\* Mutant: .filter().first() without select_for_update().
LockRow_NoLock(c) ==
  /\ step[c] = "looking" /\ counter[window[c]] > 0
  /\ step' = [step EXCEPT ![c] = "found"] /\ seen' = [seen EXCEPT ![c] = counter[window[c]]]
  /\ UNCHANGED <<tick, counter, granted, held_by, window, since, attempt>>

LockRow(c) ==
  /\ step[c] = "looking" /\ counter[window[c]] > 0 /\ held_by[window[c]] = NoCall
  /\ held_by' = [held_by EXCEPT ![window[c]] = c]
  /\ step' = [step EXCEPT ![c] = "found"] /\ seen' = [seen EXCEPT ![c] = counter[window[c]]]
  /\ UNCHANGED <<tick, counter, granted, window, since, attempt>>

FindNoRow(c) ==
  /\ step[c] = "looking" /\ counter[window[c]] = 0
  /\ step' = [step EXCEPT ![c] = "absent"]
  /\ UNCHANGED <<tick, counter, granted, held_by, window, since, attempt, seen>>

CreateRow(c) ==
  step[c] = "absent" /\ counter[window[c]] = 0 /\ Count(c, 1) /\ Grant(c) /\ Answer(c)

\* core_abuse_counter_window_unique: another call was first; once, the whole is tried again.
Collide(c) ==
  /\ step[c] = "absent" /\ counter[window[c]] > 0
  /\ \/ /\ attempt[c] = 1 /\ attempt' = [attempt EXCEPT ![c] = 2]
        /\ step' = [step EXCEPT ![c] = "looking"]
        /\ UNCHANGED <<tick, held_by, window, since, seen>>
     \/ attempt[c] = 2 /\ Answer(c)
  /\ UNCHANGED <<counter, granted>>

Increment(c) ==
  /\ step[c] = "found" /\ seen[c] < Limit
  /\ Count(c, seen[c] + 1) /\ Grant(c) /\ Answer(c)

\* The limit is reached, or the call fails and its transaction rolls back.
Deny(c) == step[c] # "idle" /\ Answer(c) /\ UNCHANGED <<counter, granted>>

\* prune, a row at a time.
Prune(w) ==
  /\ counter[w] > 0 /\ held_by[w] = NoCall /\ w < tick - Retention
  /\ counter' = [counter EXCEPT ![w] = 0]
  /\ UNCHANGED <<tick, held_by, granted, callVars>>

TickAbuse ==
  /\ tick < LastTick /\ \A c \in Calls : step[c] # "idle" => tick < since[c] + MaxDelay
  /\ tick' = tick + 1
  /\ UNCHANGED <<counter, held_by, granted, callVars>>

-----------------------------------------------------------------------------
Serve(c) ==
  \/ Consume(c) \/ LockRow(c) \/ FindNoRow(c) \/ CreateRow(c) \/ Collide(c)
  \/ Increment(c) \/ Deny(c)

AbuseNext == (\E c \in Calls : Serve(c)) \/ (\E w \in Ticks : Prune(w)) \/ TickAbuse

AbuseSpec == AbuseInit /\ [][AbuseNext]_abuseVars

-----------------------------------------------------------------------------
(* Properties. *)

AbuseTypeOK ==
  /\ tick \in Ticks
  /\ counter \in [Ticks -> 0 .. Limit] /\ granted \in [Ticks -> Nat]
  /\ held_by \in [Ticks -> Calls \cup {NoCall}]
  /\ step \in [Calls -> {"idle", "looking", "absent", "found"}]
  /\ window \in [Calls -> Ticks] /\ since \in [Calls -> Ticks] /\ attempt \in [Calls -> {1, 2}]
  /\ seen \in [Calls -> 0 .. Limit]

\* No window grants more calls than its limit, however the first calls cross, the counts are
\* read and written, and old rows are deleted.
WithinLimit == \A w \in Ticks : granted[w] <= Limit
=============================================================================
