----------------------------- MODULE Ids_proofs -----------------------------
(***************************************************************************)
(* Theorems about uuid7 for every clock, counter width and set of tasks.   *)
(***************************************************************************)
EXTENDS Ids, TLAPS

\* A millisecond is a natural number (ids.py, unix_ts_ms).
LEMMA MillisAreNumbers == \A m \in Millis : m \in Nat /\ m \in Int
  BY IdsAssumption

\* Every step keeps the variables in their types.
LEMMA TypeStep == TypeOK /\ [Next]_vars => TypeOK'
<1> SUFFICES ASSUME TypeOK, [Next]_vars PROVE TypeOK'
  OBVIOUS
<1> USE IdsAssumption DEF TypeOK
<1>1. CASE Tick
  BY <1>1 DEF Tick
<1>2. ASSUME NEW t \in Tasks, ReadClock(t) PROVE TypeOK'
  BY <1>2 DEF ReadClock
<1>3. ASSUME NEW t \in Tasks, uuid7(t) PROVE TypeOK'
  <2>1. PICK c \in NextCounter(at[t]) :
          /\ _last_counter' = c
          /\ ids' = ids \cup {[n |-> made, ms |-> at[t], counter |-> c]}
    BY <1>3 DEF uuid7
  <2>2. c \in 0..CounterMax
    BY <2>1 DEF NextCounter
  <2>3. at[t] \in Millis
    BY <1>3 DEF uuid7
  <2>4. [n |-> made, ms |-> at[t], counter |-> c] \in Id
    BY <2>2, <2>3 DEF Id
  <2> QED
    BY <1>3, <2>1, <2>2, <2>3, <2>4 DEF uuid7
<1>4. CASE UNCHANGED vars
  BY <1>4 DEF vars
<1> QED
  BY <1>1, <1>2, <1>3, <1>4 DEF Next

\* The module's state stays that of the last id, and no id sorts before one
\* that was made earlier unless a reading of the clock went back in between.
LEMMA SortedStep == SortedInv /\ [Next]_vars => SortedInv'
<1> SUFFICES ASSUME SortedInv, [Next]_vars PROVE SortedInv'
  OBVIOUS
<1>1. TypeOK'
  BY TypeStep DEF SortedInv
<1>2. CASE UNCHANGED <<_last_ms, _last_counter, made, ids>>
  BY <1>1, <1>2 DEF SortedInv, LastIsTheLatest, SortedWhileTimeAdvances, TimeAdvances, Increasing
<1>3. ASSUME NEW t \in Tasks, uuid7(t) PROVE SortedInv'
  <2> USE IdsAssumption DEF SortedInv
  <2> DEFINE id(c) == [n |-> made, ms |-> at[t], counter |-> c]
  <2>1. PICK c \in NextCounter(at[t]) : _last_counter' = c /\ ids' = ids \cup {id(c)}
    BY <1>3 DEF uuid7
  <2>2. /\ c \in 0..CounterMax
        /\ at[t] = _last_ms => _last_counter < c \/ (c = CounterMax /\ _last_counter <= c)
    BY <2>1 DEF NextCounter, TypeOK
  <2>3. made' = made + 1 /\ _last_ms' = at[t] /\ at[t] \in Millis
    BY <1>3 DEF uuid7, TypeOK
  <2>4. \A a \in ids : a.ms \in Nat /\ a.counter \in 0..CounterMax /\ a.n \in Nat /\ a.n < made
    BY MillisAreNumbers DEF TypeOK, Id, LastIsTheLatest
  <2>5. /\ at[t] \in Nat /\ c \in Nat /\ made \in Nat /\ _last_counter \in Nat
        /\ _last_ms \in Int
    BY <2>2, <2>3, MillisAreNumbers DEF TypeOK
  <2>6. \A a \in ids : TimeAdvances(a, ids') => TimeAdvances(a, ids) /\ _last_ms <= at[t]
    <3> SUFFICES ASSUME NEW a \in ids, TimeAdvances(a, ids')
                 PROVE  TimeAdvances(a, ids) /\ _last_ms <= at[t]
      OBVIOUS
    <3>1. TimeAdvances(a, ids)
      BY <2>1 DEF TimeAdvances
    <3>2. PICK l \in ids : l.n + 1 = made /\ l.ms = _last_ms
      BY <2>4, <2>5 DEF LastIsTheLatest
    <3>3. a.n <= l.n /\ l.n <= id(c).n
      BY <2>4, <2>5, <3>2
    <3>4. l.ms <= id(c).ms
      BY <2>1, <3>3 DEF TimeAdvances
    <3> QED
      BY <3>1, <3>2, <3>4
  <2>7. \A a \in ids : TimeAdvances(a, ids') =>
          /\ a.ms < at[t] \/ (a.ms = at[t] /\ a.counter <= c)
          /\ Increasing(a, id(c))
    <3> SUFFICES ASSUME NEW a \in ids, TimeAdvances(a, ids')
                 PROVE  /\ a.ms < at[t] \/ (a.ms = at[t] /\ a.counter <= c)
                        /\ Increasing(a, id(c))
      OBVIOUS
    <3>1. /\ a.ms < _last_ms \/ (a.ms = _last_ms /\ a.counter <= _last_counter)
          /\ _last_ms <= at[t]
      BY <2>6 DEF LastIsTheLatest
    <3>2. a.ms < at[t] \/ (a.ms = at[t] /\ (a.counter < c \/ c = CounterMax))
      BY <2>2, <2>4, <2>5, <3>1
    <3> QED
      BY <2>2, <2>4, <2>5, <3>2 DEF Increasing
  <2>8. LastIsTheLatest'
    <3>1. \A a \in ids' : a.n < made'
      BY <2>1, <2>3, <2>4, <2>5
    <3>2. id(c) \in ids' /\ id(c).n + 1 = made' /\ id(c).ms = at[t] /\ id(c).counter = c
      BY <2>1, <2>3
    <3>3. \A a \in ids' : TimeAdvances(a, ids') =>
            a.ms < at[t] \/ (a.ms = at[t] /\ a.counter <= c)
      BY <2>1, <2>5, <2>7
    <3> QED
      BY <2>1, <2>3, <3>1, <3>2, <3>3 DEF LastIsTheLatest, TimeAdvances
  <2>9. ASSUME NEW a \in ids', NEW b \in ids', a.n < b.n,
               TimeAdvances(a, {x \in ids' : x.n <= b.n})
        PROVE  Increasing(a, b)
    <3>1. CASE b \in ids
      <4>1. {x \in ids' : x.n <= b.n} = {x \in ids : x.n <= b.n}
        BY <2>1, <2>4, <2>5, <3>1
      <4>2. a \in ids
        BY <2>1, <2>4, <2>5, <2>9, <3>1
      <4> QED
        BY <2>9, <3>1, <4>1, <4>2 DEF SortedWhileTimeAdvances
    <3>2. CASE b = id(c)
      <4>1. {x \in ids' : x.n <= b.n} = ids' /\ a \in ids
        BY <2>1, <2>4, <2>5, <2>9, <3>2
      <4> QED
        BY <2>7, <2>9, <3>2, <4>1
    <3> QED
      BY <2>1, <3>1, <3>2
  <2>10. SortedWhileTimeAdvances'
    BY <2>9 DEF SortedWhileTimeAdvances, TimeAdvances, Increasing
  <2> QED
    BY <1>1, <2>8, <2>10
<1> QED
  BY <1>2, <1>3 DEF Next, Tick, ReadClock, vars

\* The module's two variables are those of the last id, and behind no id since
\* time last went back, whatever the tasks and the clock do.
THEOREM SortedInvariant == Spec => []SortedInv
<1>1. Init => SortedInv
  BY IdsAssumption DEF Init, SortedInv, TypeOK, LastIsTheLatest, SortedWhileTimeAdvances
<1> QED
  BY <1>1, SortedStep, PTL DEF Spec

\* Whatever the tasks and the clock do, ids sort in the order they were made
\* in for as long as no reading of the clock is older than the one before it
\* (ids.py:12-14, 73-75).
THEOREM Sorted == Spec => []SortedWhileTimeAdvances
<1>1. SortedInv => SortedWhileTimeAdvances
  BY DEF SortedInv
<1> QED
  BY <1>1, SortedInvariant, PTL
=============================================================================
