-------------------------------- MODULE Ids --------------------------------
(***************************************************************************)
(* The identifiers of every row: uuid7 of app/core/ids.py, called by the   *)
(* tasks of one process.  A task reads the clock first and passes the time *)
(* on, in create_user_with_identity to two calls with a database round     *)
(* trip between them.  An id is modelled by the fields it is compared by   *)
(* before its random tail: the millisecond and the counter.                *)
(***************************************************************************)
EXTENDS Integers, FiniteSets

CONSTANTS
  Tasks,        \* asyncio tasks (or threads) of the process
  Millis,       \* milliseconds the clock can show
  CounterMax,   \* _COUNTER_MAX
  Seeds,        \* values of secrets.randbits(8)
  MaxIds        \* bound: how many ids are made

ASSUME IdsAssumption ==
  /\ Millis \subseteq Nat
  /\ CounterMax \in Nat
  /\ Seeds \subseteq 0..CounterMax
  /\ MaxIds \in Nat

VARIABLES
  clock,          \* what clock.now() answers
  at,             \* the reading a task holds; -1 when it holds none
  _last_ms, _last_counter,   \* the module's state
  made,           \* how many ids were made
  ids             \* the ids, with n: the how-manieth each one is

vars == <<clock, at, _last_ms, _last_counter, made, ids>>

Init ==
  /\ clock \in Millis
  /\ at = [t \in Tasks |-> -1]
  /\ _last_ms = -1
  /\ _last_counter = 0
  /\ made = 0
  /\ ids = {}

\* Time passes, or the wall clock is set, forward or back.
Tick ==
  /\ clock' \in Millis
  /\ UNCHANGED <<at, _last_ms, _last_counter, made, ids>>

ReadClock(t) ==
  /\ at[t] = -1
  /\ at' = [at EXCEPT ![t] = clock]
  /\ UNCHANGED <<clock, _last_ms, _last_counter, made, ids>>

\* Mutant: a counter that rolls over.
NextCounter_RollsOver(ms) ==
  IF ms = _last_ms THEN {(_last_counter + 1) % (CounterMax + 1)} ELSE Seeds

\* _next_counter: what it may return, which is also what it stores.
NextCounter(ms) ==
  IF ms = _last_ms
  THEN {IF _last_counter < CounterMax THEN _last_counter + 1 ELSE _last_counter}
  ELSE Seeds

\* uuid7(at), one step because of the lock; the caller may keep its reading.
uuid7(t) ==
  /\ at[t] # -1
  /\ made < MaxIds
  /\ \E c \in NextCounter(at[t]) :
       /\ _last_counter' = c
       /\ ids' = ids \cup {[n |-> made, ms |-> at[t], counter |-> c]}
  /\ _last_ms' = at[t]
  /\ made' = made + 1
  /\ at' \in {at, [at EXCEPT ![t] = -1]}
  /\ UNCHANGED clock

Next == Tick \/ \E t \in Tasks : ReadClock(t) \/ uuid7(t)

Spec == Init /\ [][Next]_vars

-----------------------------------------------------------------------------

Id == [n : Nat, ms : Millis, counter : 0..CounterMax]

\* The values the variables range over.
TypeOK ==
  /\ clock \in Millis
  /\ at \in [Tasks -> Millis \cup {-1}]
  /\ _last_ms \in Millis \cup {-1}
  /\ _last_counter \in 0..CounterMax
  /\ made \in Nat
  /\ ids \subseteq Id

\* b sorts after a whatever their random tails are, or the counter was at its
\* end, where only the tails decide.
Increasing(a, b) ==
  \/ a.ms < b.ms
  \/ a.ms = b.ms /\ (a.counter < b.counter \/ b.counter = CounterMax)

\* No id made from a on has an earlier time than one made before it there.
TimeAdvances(a, upTo) ==
  \A c, d \in upTo : a.n <= c.n /\ c.n <= d.n => c.ms <= d.ms

\* "ORDER BY id is chronological" (ids.py:12-14), within a millisecond and
\* across several, for all ids that are made while no reading of the clock is
\* older than the one before it; of two ids made one after the other in one
\* millisecond this says that the second never sorts first, what rolling over
\* would break (ids.py:73-75).
SortedWhileTimeAdvances ==
  \A a, b \in ids :
    a.n < b.n /\ TimeAdvances(a, {c \in ids : c.n <= b.n}) => Increasing(a, b)

\* "Ids generated in the same millisecond by this process are strictly
\* increasing until the counter saturates" (ids.py:71-73).
SameMillisecondIncreases ==
  \A a, b \in ids : a.n < b.n /\ a.ms = b.ms => Increasing(a, b)

\* What the module's state says of the ids made so far: it is that of the last
\* id, and is behind none since time last went back.
LastIsTheLatest ==
  /\ \A a \in ids : a.n < made
  /\ made > 0 => \E l \in ids :
       l.n + 1 = made /\ l.ms = _last_ms /\ l.counter = _last_counter
  /\ \A a \in ids : TimeAdvances(a, ids) =>
       a.ms < _last_ms \/ (a.ms = _last_ms /\ a.counter <= _last_counter)
SortedInv == TypeOK /\ LastIsTheLatest /\ SortedWhileTimeAdvances
=============================================================================
