------------------------ MODULE AgentRuntime_proofs ------------------------
(***************************************************************************)
(* Theorems about AgentRuntime for every set of processes and runs, every  *)
(* attempt limit and every price list.                                     *)
(***************************************************************************)
EXTENDS AgentRuntime, RunStates_proofs

-----------------------------------------------------------------------------
(* Type correctness.  It needs the control invariant: only a process that  *)
(* drives a run writes one.                                                *)

\* A process inside a turn drives a run and is writing one of its states.
InTurn(p) == pc[p] \notin {"down", "boot", "sweep", "idle"}

\* A process in a turn drives a run and is writing one of its states.
LEMMA InTurnLocals ==
  ASSUME TypeOK, Control, NEW p \in Procs, InTurn(p)
  PROVE  /\ run[p] \in Runs
         /\ goal[p] \in RunState
         /\ row[run[p]] \in Row
         /\ answer[p] \in Answers \cup {"none"}
         /\ attempt[p] \in Nat
  BY DEF TypeOK, Control, InTurn

\* Leaving a run the way every terminal write does gives a row again.
LEMMA FinishedType ==
  ASSUME NEW old \in Row, NEW s \in RunState,
         NEW f \in Errors \cup {"none", "context_error", "orphaned"}
  PROVE  Finished(old, s, f) \in Row
<1>1. old.done + 1 \in Nat /\ old.cost \in Nat
  BY DEF Row
<1> QED
  BY <1>1 DEF Finished, Row

\* The row a pending write would leave (_set_state, _terminate) is a row.
LEMMA WrittenType ==
  ASSUME TypeOK, Control, NEW p \in Procs, pc[p] = "write"
  PROVE  Written(p) \in Row
<1>1. /\ row[run[p]] \in Row
      /\ goal[p] \in RunState
      /\ answer[p] \in Answers \cup {"none"}
      /\ answer[p] = "ok" => goal[p] = "responding"
  BY InTurnLocals DEF InTurn, Control
<1>2. CASE goal[p] \in TERMINAL_STATES
  <2>1. answer[p] # "ok"
    BY <1>1, <1>2 DEF TERMINAL_STATES
  <2>2. (IF answer[p] = "none" THEN "context_error" ELSE answer[p])
          \in Errors \cup {"none", "context_error", "orphaned"}
    BY <1>1, <2>1 DEF Answers
  <2> QED
    BY <1>1, <1>2, <2>2, FinishedType DEF Written
<1>3. CASE goal[p] \notin TERMINAL_STATES
  BY <1>1, <1>3 DEF Written, Row
<1> QED
  BY <1>2, <1>3

\* Every step of the code keeps the variables in their types.
LEMMA TypeStep == TypeOK /\ Control /\ [Next]_vars => TypeOK'
<1> SUFFICES ASSUME TypeOK, Control, Next PROVE TypeOK'
  BY DEF TypeOK, vars, database, turn, sweep
<1> USE RuntimeAssumption
<1>1. ASSUME NEW p \in Procs, Boot(p) \/ BootUnchecked(p) \/ SweepSelect(p)
      PROVE  TypeOK'
  BY <1>1 DEF TypeOK, Boot, BootUnchecked, SweepSelect, Goto, database, turn, sweep
<1>2. ASSUME NEW p \in Procs, NEW r \in Runs, SweepUpdate(p, r)
      PROVE  TypeOK'
  BY <1>2 DEF TypeOK, SweepUpdate, database, turn
<1>3. ASSUME NEW p \in Procs, SweepCommit(p)
      PROVE  TypeOK'
  <2>1. row' \in [Runs -> Row]
    BY <1>3, FinishedType DEF TypeOK, SweepCommit, RunState
  <2> QED
    BY <1>3, <2>1 DEF TypeOK, SweepCommit, Goto, turn
<1>4. ASSUME NEW p \in Procs, Down(p), UNCHANGED <<database, stale, shown>>
      PROVE  TypeOK'
  BY <1>4 DEF TypeOK, Down, Forget, database
<1>5. ASSUME NEW p \in Procs, Raise(p), UNCHANGED <<database, stale, shown>>
      PROVE  TypeOK'
  <2>1. CASE goal[p] = "context_building"
    BY <1>5, <2>1 DEF TypeOK, Raise, database, sweep, RunState
  <2> QED
    BY <1>4, <1>5, <2>1 DEF Raise
<1>6. ASSUME NEW p \in Procs, NEW r \in Runs, BeginTurn(p, r)
      PROVE  TypeOK'
  <2>1. Received \in Row
    BY DEF Received, Absent, Row, RunState
  <2> QED
    BY <1>6, <2>1 DEF TypeOK, BeginTurn, Goto, sweep, RunState
<1>7. ASSUME NEW p \in Procs, ReadRun(p) \/ BuildContext(p) \/ Sleep(p)
      PROVE  TypeOK'
  BY <1>7 DEF TypeOK, ReadRun, BuildContext, Sleep, Goto, database, turn, sweep, RunState
<1>8. ASSUME NEW p \in Procs, WriteState(p) \/ WriteFailure(p)
      PROVE  TypeOK'
  <2>1. Written(p) \in Row
    BY <1>8, WrittenType DEF WriteState, WriteFailure, Goto
  <2>2. AfterWrite(goal[p]) \in {"build", "model", "sleep"}
    BY DEF AfterWrite
  <2> QED
    BY <1>8, <2>1, <2>2 DEF TypeOK, WriteState, WriteFailure, Goto, turn, sweep
<1>9. ASSUME NEW p \in Procs, CommitReply(p)
      PROVE  TypeOK'
  <2>1. Written(p) \in Row
    BY <1>9, WrittenType DEF CommitReply, Goto
  <2>2. Finished(Written(p), "complete", Written(p).failure) \in Row
    BY <2>1, FinishedType DEF Row, RunState
  <2>3. row' \in [Runs -> Row]
    BY <1>9, <2>2 DEF TypeOK, CommitReply
  <2>4. reply' \in [Runs -> Nat]
    <3>1. run[p] \in Runs
      BY <1>9, InTurnLocals DEF InTurn, CommitReply, Goto
    <3> QED
      BY <1>9, <3>1 DEF TypeOK, CommitReply
  <2> QED
    BY <1>9, <2>3, <2>4 DEF TypeOK, CommitReply, Goto, turn, sweep
<1>10. ASSUME NEW p \in Procs, NEW a \in Answers, CallModel(p, a)
       PROVE  TypeOK'
  BY <1>10 DEF TypeOK, CallModel, Goto, database, sweep
<1>11. ASSUME NEW p \in Procs, RecordCall(p)
       PROVE  TypeOK'
  <2>1. PICK c \in IF answer[p] = "ok" THEN Costs ELSE {0} :
          /\ Goto(p, "record", "read")
          /\ calls' = [calls EXCEPT ![run[p]] =
               @ \cup {CallRecord(p, c)}]
          /\ row'   = [row EXCEPT ![run[p]].cost = @ + c]
          /\ goal'  = [goal EXCEPT ![p] = NextGoal(p)]
          /\ UNCHANGED <<reply, stale, shown, run, attempt, answer, sweep>>
    BY <1>11 DEF RecordCall
  <2>2. c \in Nat
    BY <2>1
  <2>3. answer[p] \in Answers
    BY <2>1 DEF Control, Goto
  <2>4. NextGoal(p) \in RunState
    BY DEF NextGoal, RunState
  <2>5. CallRecord(p, c) \in Call
    BY <2>2, <2>3 DEF TypeOK, Call, CallRecord
  <2>6. row' \in [Runs -> Row]
    <3>1. run[p] \in Runs /\ row[run[p]] \in Row
      BY <2>1, InTurnLocals DEF InTurn, Goto
    <3>2. [row[run[p]] EXCEPT !.cost = @ + c] \in Row
      BY <2>2, <3>1 DEF Row
    <3>3. row' = [row EXCEPT ![run[p]] = [row[run[p]] EXCEPT !.cost = @ + c]]
      BY <2>1
    <3> QED
      BY <3>1, <3>2, <3>3 DEF TypeOK
  <2> QED
    BY <2>1, <2>4, <2>5, <2>6 DEF TypeOK, Goto, sweep
<1>12. ASSUME NEW p \in Procs, Return(p)
       PROVE  TypeOK'
  BY <1>12 DEF TypeOK, Return, Forget, Goto, database, sweep
<1>13. ASSUME NEW r \in Runs, Age(r)
       PROVE  TypeOK'
  BY <1>13 DEF TypeOK, Age, database, turn, sweep
<1> QED
  BY <1>1, <1>2, <1>3, <1>4, <1>5, <1>6, <1>7, <1>8, <1>9, <1>10, <1>11, <1>12, <1>13
     DEF Next, SweepStep, TurnStep, SweepAbort, ReadRefused, WriteRefused, DbError, Stop

-----------------------------------------------------------------------------
(* The control invariant.                                                  *)

\* Every step keeps the locals of a turn in accord with its control point.
LEMMA ControlStep == TypeOK /\ Control /\ [Next]_vars => Control'
<1> SUFFICES ASSUME TypeOK, Control, Next PROVE Control'
  BY DEF Control, vars, database, turn, sweep
<1> USE RuntimeAssumption
<1>1. ASSUME NEW p \in Procs, Boot(p) \/ BootUnchecked(p) \/ SweepSelect(p) \/ SweepCommit(p)
      PROVE  Control'
  BY <1>1 DEF TypeOK, Control, Boot, BootUnchecked, SweepSelect, SweepCommit, Goto, turn
<1>2. ASSUME NEW p \in Procs, NEW r \in Runs, SweepUpdate(p, r)
      PROVE  Control'
  BY <1>2 DEF Control, SweepUpdate, turn
<1>3. ASSUME NEW p \in Procs, Down(p)
      PROVE  Control'
  BY <1>3 DEF TypeOK, Control, Down, Forget
<1>4. ASSUME NEW p \in Procs, pc[p] \in {"read", "write", "build"}, Raise(p)
      PROVE  Control'
  <2>1. CASE goal[p] = "context_building"
    <3>1. answer[p] # "ok"
      BY <1>4, <2>1 DEF Control
    <3> QED
      BY <1>4, <2>1, <3>1 DEF TypeOK, Control, Raise, RunState
  <2> QED
    BY <1>3, <1>4, <2>1 DEF Raise
<1>5. ASSUME NEW p \in Procs, NEW r \in Runs, BeginTurn(p, r)
      PROVE  Control'
  BY <1>5 DEF TypeOK, Control, BeginTurn, Goto, RunState
<1>6. ASSUME NEW p \in Procs, ReadRun(p)
      PROVE  Control'
  BY <1>6 DEF TypeOK, Control, ReadRun, Goto, turn
<1>7. ASSUME NEW p \in Procs, WriteState(p)
      PROVE  Control'
  BY <1>7 DEF TypeOK, Control, WriteState, AfterWrite, Goto, turn,
              OBSERVABILITY_STATES, RunState, TERMINAL_STATES
<1>8. ASSUME NEW p \in Procs, WriteFailure(p) \/ CommitReply(p)
      PROVE  Control'
  BY <1>8 DEF TypeOK, Control, WriteFailure, CommitReply, Goto, turn
<1>9. ASSUME NEW p \in Procs, BuildContext(p) \/ Sleep(p)
      PROVE  Control'
  BY <1>9 DEF TypeOK, Control, BuildContext, Sleep, Goto, RunState
<1>10. ASSUME NEW p \in Procs, NEW a \in Answers, CallModel(p, a)
       PROVE  Control'
  BY <1>10 DEF TypeOK, Control, CallModel, Goto
<1>11. ASSUME NEW p \in Procs, RecordCall(p)
       PROVE  Control'
  <2>1. NextGoal(p) \in {"responding", "model_retry_wait", "timed_out", "failed"}
    BY DEF NextGoal
  <2>2. answer[p] = "ok" => NextGoal(p) = "responding"
    BY DEF NextGoal
  <2> QED
    BY <1>11, <2>1, <2>2 DEF TypeOK, Control, RecordCall, Goto, RunState
<1>12. ASSUME NEW p \in Procs, Return(p)
       PROVE  Control'
  BY <1>12 DEF TypeOK, Control, Return, Forget, Goto
<1>13. ASSUME NEW r \in Runs, Age(r)
       PROVE  Control'
  BY <1>13 DEF Control, Age, turn
<1> QED
  BY <1>1, <1>2, <1>3, <1>4, <1>5, <1>6, <1>7, <1>8, <1>9, <1>10, <1>11, <1>12, <1>13
     DEF Next, SweepStep, TurnStep, SweepAbort, ReadRefused, WriteRefused, DbError, Stop

\* An empty database with every process down satisfies the base invariant.
LEMMA InitBase == Init => BaseInv
<1> SUFFICES ASSUME Init PROVE BaseInv
  OBVIOUS
<1> USE RuntimeAssumption
<1>1. TypeOK
  BY DEF Init, TypeOK, Absent, Row
<1>2. Control /\ Driving
  BY DEF Init, Control, Driving
<1>3. Settled
  BY DEF Init, Settled, CheckHolds, Terminal, Exists, Absent, RunState, TERMINAL_STATES
<1>4. OwnerWasToldTheTruth
  BY DEF Init, OwnerWasToldTheTruth
<1> QED
  BY <1>1, <1>2, <1>3, <1>4 DEF BaseInv

\* Every variable of the model keeps to its type: rows, calls and control
\* points are the ones the code can produce, for any number of processes.
THEOREM TypeCorrect == Spec => []TypeOK
<1>1. Init => TypeOK /\ Control
  BY InitBase DEF BaseInv
<1>2. TypeOK /\ Control /\ [Next]_vars => (TypeOK /\ Control)'
  BY TypeStep, ControlStep
<1> QED
  BY <1>1, <1>2, PTL DEF Spec

-----------------------------------------------------------------------------
(* What a step does to the rows.                                           *)

\* The fields of the row a turn is about to write.
LEMMA WrittenFields ==
  ASSUME TypeOK, Control, NEW p \in Procs, pc[p] = "write"
  PROVE  /\ Written(p).state = goal[p]
         /\ goal[p] \in TERMINAL_STATES => Written(p).done > 0
         /\ goal[p] \notin TERMINAL_STATES =>
              /\ Written(p).done = row[run[p]].done
              /\ Written(p).failure = row[run[p]].failure
<1>1. row[run[p]] \in Row /\ row[run[p]].done \in Nat
  BY InTurnLocals DEF InTurn, Row
<1>2. CASE goal[p] \in TERMINAL_STATES
  BY <1>1, <1>2 DEF Written, Finished
<1>3. CASE goal[p] \notin TERMINAL_STATES
  BY <1>1, <1>3 DEF Written, Row
<1> QED
  BY <1>2, <1>3

\* A sweep's row is closed, whatever it was; no other row is touched.
LEMMA SweptFields ==
  ASSUME TypeOK, NEW p \in Procs, SweepCommit(p), NEW r \in Runs
  PROVE  /\ r \in held[p] =>
              row'[r].state = "failed" /\ row'[r].done > 0 /\ row'[r].failure = "orphaned"
         /\ r \notin held[p] => row'[r] = row[r]
<1>1. row[r].done \in Nat
  BY DEF TypeOK, Row
<1> QED
  BY <1>1 DEF SweepCommit, Finished

\* Recording a call changes nothing of a row but its cost.
LEMMA RecordedFields ==
  ASSUME TypeOK, Control, NEW p \in Procs, RecordCall(p), NEW r \in Runs
  PROVE  /\ row'[r].state = row[r].state
         /\ row'[r].done = row[r].done
         /\ row'[r].failure = row[r].failure
         /\ r # run[p] => row'[r] = row[r]
<1>1. run[p] \in Runs
  BY InTurnLocals DEF InTurn, RecordCall, Goto
<1> QED
  BY <1>1 DEF TypeOK, Row, RecordCall

\* The replies of commit boundary C.
LEMMA CommittedFields ==
  ASSUME TypeOK, Control, NEW p \in Procs, CommitReply(p)
  PROVE  /\ run[p] \in Runs
         /\ row[run[p]].done = 0
         /\ row'[run[p]].state = "complete"
         /\ row'[run[p]].done > 0
         /\ row'[run[p]].failure = row[run[p]].failure
         /\ \A r \in Runs \ {run[p]} : row'[r] = row[r]
<1>1. run[p] \in Runs /\ row[run[p]].done \in Nat
  BY InTurnLocals DEF InTurn, CommitReply, Goto, Row
<1>2. pc[p] = "write" /\ goal[p] = "responding" /\ goal[p] \notin TERMINAL_STATES
  BY DEF CommitReply, Goto, TERMINAL_STATES
<1>3. /\ Written(p).state = "responding"
      /\ Written(p).done = row[run[p]].done
      /\ Written(p).failure = row[run[p]].failure
  BY <1>2, WrittenFields
<1>4. row[run[p]].done = 0
  BY <1>1, <1>3 DEF CommitReply, CheckHolds, TERMINAL_STATES
<1>5. row' = [row EXCEPT ![run[p]] =
                Finished(Written(p), "complete", Written(p).failure)]
  BY DEF CommitReply
<1> QED
  BY <1>1, <1>3, <1>4, <1>5 DEF TypeOK, Finished

\* The row of a plain write, whose CHECK the database has evaluated.
LEMMA PlainWriteFields ==
  ASSUME TypeOK, Control, NEW p \in Procs, WriteState(p) \/ WriteFailure(p)
  PROVE  /\ run[p] \in Runs
         /\ row' = [row EXCEPT ![run[p]] = Written(p)]
         /\ row'[run[p]] = Written(p)
         /\ \A r \in Runs \ {run[p]} : row'[r] = row[r]
         /\ Written(p).state = goal[p]
         /\ goal[p] \in RunState \ {"received", "complete"}
         /\ CheckHolds(Written(p))
<1>1. pc[p] = "write"
  BY DEF WriteState, WriteFailure, Goto
<1>2. run[p] \in Runs /\ goal[p] \in RunState \ {"received", "complete"}
  BY <1>1, InTurnLocals DEF InTurn, Control
<1> QED
  BY <1>1, <1>2, WrittenFields DEF WriteState, WriteFailure, TypeOK

\* A run never disappears, and a closed run is never opened again: the CHECK
\* refuses the blind update that would do it.
LEMMA RowKept ==
  ASSUME BaseInv, Next, NEW r \in Runs
  PROVE  /\ Exists(r) => Exists(r)'
         /\ Terminal(r) => Terminal(r)'
<1> USE DEF BaseInv, Exists, Terminal
<1>1. ASSUME UNCHANGED row
      PROVE  (Exists(r) => Exists(r)') /\ (Terminal(r) => Terminal(r)')
  BY <1>1
<1>2. ASSUME NEW p \in Procs, SweepCommit(p)
      PROVE  (Exists(r) => Exists(r)') /\ (Terminal(r) => Terminal(r)')
  BY <1>2, SweptFields DEF RunState, TERMINAL_STATES
<1>3. ASSUME NEW p \in Procs, NEW n \in Runs, BeginTurn(p, n)
      PROVE  (Exists(r) => Exists(r)') /\ (Terminal(r) => Terminal(r)')
  BY <1>3 DEF BeginTurn, Received, Absent, TypeOK, RunState, TERMINAL_STATES
<1>4. ASSUME NEW p \in Procs, WriteState(p) \/ WriteFailure(p)
      PROVE  (Exists(r) => Exists(r)') /\ (Terminal(r) => Terminal(r)')
  <2>1. r # run[p] => row'[r] = row[r]
    BY <1>4, PlainWriteFields
  <2>2. row'[run[p]].state = goal[p] /\ goal[p] \in RunState
    BY <1>4, PlainWriteFields
  <2>3. Terminal(run[p]) => goal[p] \in TERMINAL_STATES
    <3>1. SUFFICES ASSUME Terminal(run[p]), goal[p] \notin TERMINAL_STATES PROVE FALSE
      OBVIOUS
    <3>2. run[p] \in Runs /\ pc[p] = "write" /\ CheckHolds(Written(p))
      BY <1>4, PlainWriteFields DEF WriteState, WriteFailure, Goto
    <3>3. Written(p).state = goal[p] /\ Written(p).done = row[run[p]].done
      BY <3>1, <3>2, WrittenFields
    <3> QED
      BY <3>1, <3>2, <3>3 DEF Settled, CheckHolds
  <2> QED
    BY <2>1, <2>2, <2>3
<1>5. ASSUME NEW p \in Procs, CommitReply(p)
      PROVE  (Exists(r) => Exists(r)') /\ (Terminal(r) => Terminal(r)')
  BY <1>5, CommittedFields DEF RunState, TERMINAL_STATES
<1>6. ASSUME NEW p \in Procs, RecordCall(p)
      PROVE  (Exists(r) => Exists(r)') /\ (Terminal(r) => Terminal(r)')
  BY <1>6, RecordedFields
<1> QED
  BY <1>1, <1>2, <1>3, <1>4, <1>5, <1>6
     DEF Next, SweepStep, TurnStep, Boot, BootUnchecked, SweepSelect, SweepUpdate,
         SweepAbort, ReadRun, ReadRefused, WriteRefused, BuildContext, CallModel,
         Sleep, Return, DbError, Stop, Age, database

-----------------------------------------------------------------------------
(* One driver per run, and no reply before its commit.                     *)

\* No two processes ever drive one run, and the driver commits its reply at most
\* once before it returns (runtime.py, handle_user_message).
LEMMA DrivingStep == BaseInv /\ Next => Driving'
<1> SUFFICES ASSUME BaseInv, Next PROVE Driving'
  OBVIOUS
<1> USE RuntimeAssumption DEF BaseInv
<1>0. \A r \in Runs : (Exists(r) => Exists(r)') /\ (Terminal(r) => Terminal(r)')
  BY RowKept
<1>1. ASSUME NEW p \in Procs,
             pc[p] # "return", pc'[p] # "return",
             \A q \in Procs \ {p} : pc'[q] = pc[q],
             UNCHANGED <<run, reply, shown>>,
             \A q \in Procs \ {p} : goal'[q] = goal[q]
      PROVE  Driving'
  BY <1>0, <1>1 DEF Driving
<1>2. ASSUME NEW p \in Procs, Boot(p) \/ BootUnchecked(p) \/ SweepSelect(p)
      PROVE  Driving'
  BY <1>1, <1>2 DEF TypeOK, Boot, BootUnchecked, SweepSelect, Goto, turn, database
<1>3. ASSUME NEW p \in Procs, (\E r \in Runs : SweepUpdate(p, r)) \/ SweepCommit(p)
      PROVE  Driving'
  BY <1>1, <1>3 DEF TypeOK, SweepUpdate, SweepCommit, Goto, turn, database
<1>4. ASSUME NEW p \in Procs, Down(p), UNCHANGED <<reply, shown>>
      PROVE  Driving'
  BY <1>0, <1>4 DEF TypeOK, Driving, Down, Forget
<1>5. ASSUME NEW p \in Procs, pc[p] \in {"read", "write", "build"}, Raise(p),
             UNCHANGED <<reply, shown>>
      PROVE  Driving'
  <2>1. CASE goal[p] = "context_building"
    BY <1>1, <1>5, <2>1 DEF TypeOK, Raise
  <2> QED
    BY <1>4, <1>5, <2>1 DEF Raise
<1>6. ASSUME NEW p \in Procs, NEW r \in Runs, BeginTurn(p, r)
      PROVE  Driving'
  <2>1. ~Exists(r) /\ reply[r] = 0 /\ shown[r] = "nothing"
    BY <1>6 DEF BeginTurn, Settled, Exists, Absent, RunState
  <2>2. \A q \in Procs : run[q] # r
    BY <2>1 DEF Driving
  <2>3. Exists(r)'
    BY <1>6 DEF BeginTurn, TypeOK, Exists, Received, Absent, RunState
  <2>4. /\ run'[p] = r /\ pc'[p] = "read" /\ UNCHANGED <<reply, shown>>
        /\ \A q \in Procs \ {p} : run'[q] = run[q] /\ pc'[q] = pc[q] /\ goal'[q] = goal[q]
    BY <1>6 DEF BeginTurn, TypeOK, Goto
  <2> QED
    BY <1>0, <2>1, <2>2, <2>3, <2>4 DEF Driving
<1>7. ASSUME NEW p \in Procs, ReadRun(p) \/ BuildContext(p) \/ Sleep(p)
      PROVE  Driving'
  BY <1>1, <1>7 DEF TypeOK, ReadRun, BuildContext, Sleep, Goto, turn, database
<1>8. ASSUME NEW p \in Procs, WriteState(p)
      PROVE  Driving'
  BY <1>1, <1>8 DEF TypeOK, WriteState, AfterWrite, Goto, turn
<1>9. ASSUME NEW p \in Procs, WriteFailure(p)
      PROVE  Driving'
  <2>1. run[p] \in Runs /\ Terminal(run[p])' /\ goal[p] # "responding" /\ pc[p] # "return"
    BY <1>9, PlainWriteFields DEF WriteFailure, Terminal, Goto, turn, TERMINAL_STATES
  <2>2. /\ pc'[p] = "return" /\ UNCHANGED <<reply, shown, run, goal>>
        /\ \A q \in Procs \ {p} : pc'[q] = pc[q]
    BY <1>9 DEF TypeOK, WriteFailure, Goto, turn
  <2> QED
    BY <1>0, <2>1, <2>2 DEF Driving
<1>10. ASSUME NEW p \in Procs, CommitReply(p)
       PROVE  Driving'
  <2>1. run[p] \in Runs /\ Terminal(run[p])'
    BY <1>10, CommittedFields DEF CommitReply, Terminal, turn, TERMINAL_STATES
  <2>2. /\ pc'[p] = "return" /\ pc[p] = "write" /\ goal[p] = "responding"
        /\ UNCHANGED <<shown, run, goal>>
        /\ \A q \in Procs \ {p} : pc'[q] = pc[q]
        /\ reply' = [reply EXCEPT ![run[p]] = @ + 1]
    BY <1>10 DEF TypeOK, CommitReply, Goto, turn
  <2>3. reply'[run[p]] = 1
    BY <2>1, <2>2 DEF TypeOK, Driving
  <2>4. \A q \in Procs \ {p} : run[q] \in Runs => reply'[run[q]] = reply[run[q]]
    BY <2>1, <2>2 DEF TypeOK, Driving
  <2> QED
    BY <1>0, <2>1, <2>2, <2>3, <2>4 DEF Driving
<1>11. ASSUME NEW p \in Procs, NEW a \in Answers, CallModel(p, a)
       PROVE  Driving'
  BY <1>1, <1>11 DEF TypeOK, CallModel, Goto, database
<1>12. ASSUME NEW p \in Procs, RecordCall(p)
       PROVE  Driving'
  BY <1>1, <1>12 DEF TypeOK, RecordCall, Goto
<1>13. ASSUME NEW p \in Procs, Return(p)
       PROVE  Driving'
  <2>1. /\ run'[p] = NoRun
        /\ UNCHANGED reply
        /\ \A q \in Procs \ {p} : run'[q] = run[q] /\ pc'[q] = pc[q] /\ goal'[q] = goal[q]
        /\ \A r \in Runs : r # run[p] => shown'[r] = shown[r]
    BY <1>13 DEF TypeOK, Return, Forget, Goto, database
  <2> QED
    BY <1>0, <2>1 DEF Driving
<1>14. ASSUME NEW r \in Runs, Age(r)
       PROVE  Driving'
  BY <1>0, <1>14 DEF Driving, Age, database, turn
<1> QED
  BY <1>2, <1>3, <1>4, <1>5, <1>6, <1>7, <1>8, <1>9, <1>10, <1>11, <1>12, <1>13, <1>14
     DEF Next, SweepStep, TurnStep, SweepAbort, ReadRefused, WriteRefused, DbError, Stop,
         database

-----------------------------------------------------------------------------
(* What the database rules out, whoever writes.                            *)

\* The part of Settled about one run.
SettledRun(r) ==
  /\ CheckHolds(row[r])
  /\ reply[r] <= 1
  /\ reply[r] = 1 => Terminal(r)
  /\ row[r].state = "complete" => reply[r] = 1 /\ row[r].failure = "none"
  /\ ~Exists(r) => row[r] = Absent /\ reply[r] = 0 /\ shown[r] = "nothing"
  /\ row[r].failure # "none" => Terminal(r)
  /\ \A p \in Procs : r \in work[p] \cup held[p] => Exists(r)

\* Whoever writes, a row satisfies the CHECK, a run has at most one reply, and
\* a run with a reply is closed.
LEMMA SettledStep == BaseInv /\ Next => Settled'
<1> SUFFICES ASSUME BaseInv, Next, NEW r \in Runs PROVE SettledRun(r)'
  BY DEF Settled, SettledRun
<1> USE RuntimeAssumption DEF BaseInv
<1>0. /\ Exists(r) => Exists(r)'
      /\ Terminal(r) => Terminal(r)'
      /\ SettledRun(r)
  BY RowKept DEF Settled, SettledRun
<1>1. ASSUME UNCHANGED <<row, reply, shown>>,
             \A q \in Procs : work'[q] \subseteq work[q] \cup {n \in Runs : Exists(n)},
             \A q \in Procs : held'[q] \subseteq held[q] \cup work[q]
      PROVE  SettledRun(r)'
  BY <1>0, <1>1 DEF SettledRun, CheckHolds, Exists, Terminal
<1>2. ASSUME UNCHANGED <<row, reply, shown, work, held>>
      PROVE  SettledRun(r)'
  BY <1>1, <1>2
<1>3. ASSUME NEW p \in Procs, SweepSelect(p)
      PROVE  SettledRun(r)'
  <2>1. \A q \in Procs : work'[q] \subseteq work[q] \cup {n \in Runs : Exists(n)}
    BY <1>3 DEF SweepSelect, TypeOK, Open, Exists, OBSERVABILITY_STATES
  <2> QED
    BY <1>1, <1>3, <2>1 DEF SweepSelect, database
<1>4. ASSUME NEW p \in Procs, NEW n \in Runs, SweepUpdate(p, n)
      PROVE  SettledRun(r)'
  BY <1>1, <1>4 DEF SweepUpdate, TypeOK, database
<1>5. ASSUME NEW p \in Procs, SweepCommit(p)
      PROVE  SettledRun(r)'
  <2>1. /\ UNCHANGED <<reply, shown>>
        /\ \A q \in Procs : work'[q] \subseteq work[q] /\ held'[q] \subseteq held[q]
    BY <1>5 DEF SweepCommit, TypeOK
  <2>2. CASE r \notin held[p]
    <3>1. row'[r] = row[r]
      BY <1>5, <2>2, SweptFields
    <3> QED
      BY <1>0, <2>1, <3>1 DEF SettledRun, CheckHolds, Exists, Terminal
  <2>3. CASE r \in held[p]
    <3>1. row'[r].state = "failed" /\ row'[r].done > 0
      BY <1>5, <2>3, SweptFields
    <3> QED
      BY <1>0, <2>1, <3>1 DEF SettledRun, CheckHolds, Exists, Terminal, RunState, TERMINAL_STATES
  <2> QED
    BY <2>2, <2>3
<1>6. ASSUME NEW p \in Procs, Down(p), UNCHANGED <<database, shown>>
      PROVE  SettledRun(r)'
  BY <1>1, <1>6 DEF Down, TypeOK, database
<1>7. ASSUME NEW p \in Procs, Raise(p), UNCHANGED <<database, shown>>
      PROVE  SettledRun(r)'
  BY <1>2, <1>6, <1>7 DEF Raise, database, sweep
<1>8. ASSUME NEW p \in Procs, NEW n \in Runs, BeginTurn(p, n)
      PROVE  SettledRun(r)'
  <2>1. r # n => row'[r] = row[r]
    BY <1>8 DEF BeginTurn, TypeOK
  <2>2. row'[n] = Received /\ ~Exists(n)
    BY <1>8 DEF BeginTurn, TypeOK, Exists, Absent, RunState
  <2>3. UNCHANGED <<reply, shown, work, held>>
    BY <1>8 DEF BeginTurn, sweep
  <2>4. Received.state = "received" /\ Received.done = 0 /\ Received.failure = "none"
    BY DEF Received, Absent
  <2>5. CASE r = n
    <3>1. reply[r] = 0
      BY <1>0, <2>2, <2>5 DEF SettledRun
    <3> QED
      BY <1>0, <2>2, <2>3, <2>4, <2>5, <3>1
         DEF SettledRun, CheckHolds, Exists, Terminal, RunState, TERMINAL_STATES
  <2> QED
    BY <1>0, <2>1, <2>3, <2>5 DEF SettledRun, CheckHolds, Exists, Terminal
<1>9. ASSUME NEW p \in Procs, WriteState(p) \/ WriteFailure(p)
      PROVE  SettledRun(r)'
  <2>1. UNCHANGED <<reply, shown, work, held>>
    BY <1>9 DEF WriteState, WriteFailure, sweep
  <2>2. /\ run[p] \in Runs
        /\ row'[run[p]] = Written(p)
        /\ r # run[p] => row'[r] = row[r]
        /\ Written(p).state = goal[p]
        /\ goal[p] \in RunState \ {"received", "complete"}
        /\ CheckHolds(Written(p))
    BY <1>9, PlainWriteFields
  <2>3. goal[p] \notin TERMINAL_STATES => Written(p).failure = row[run[p]].failure
    BY <1>9, WrittenFields DEF WriteState, WriteFailure, Goto
  <2>4. CASE r = run[p]
    <3>1. reply[r] = 0
      BY <1>9, <2>2, <2>4 DEF Driving, WriteState, WriteFailure, Goto
    <3> QED
      BY <1>0, <2>1, <2>2, <2>3, <2>4, <3>1 DEF SettledRun, CheckHolds, Exists, Terminal
  <2> QED
    BY <1>0, <2>1, <2>2, <2>4 DEF SettledRun, CheckHolds, Exists, Terminal
<1>10. ASSUME NEW p \in Procs, CommitReply(p)
       PROVE  SettledRun(r)'
  <2>1. UNCHANGED <<shown, work, held>> /\ reply' = [reply EXCEPT ![run[p]] = @ + 1]
    BY <1>10 DEF CommitReply, sweep
  <2>2. /\ run[p] \in Runs
        /\ row[run[p]].done = 0
        /\ row'[run[p]].state = "complete"
        /\ row'[run[p]].done > 0
        /\ row'[run[p]].failure = row[run[p]].failure
        /\ r # run[p] => row'[r] = row[r]
    BY <1>10, CommittedFields
  <2>3. CASE r = run[p]
    <3>1. reply[r] = 0
      BY <1>10, <2>2, <2>3 DEF Driving, CommitReply, Goto
    <3>2. reply'[r] = 1
      BY <2>1, <2>2, <2>3, <3>1 DEF TypeOK
    <3>3. row[r].failure = "none"
      BY <1>0, <2>2, <2>3 DEF SettledRun, CheckHolds, Terminal
    <3> QED
      BY <1>0, <2>1, <2>2, <2>3, <3>2, <3>3
         DEF SettledRun, CheckHolds, Exists, Terminal, RunState, TERMINAL_STATES
  <2>4. CASE r # run[p]
    <3>1. reply'[r] = reply[r]
      BY <2>1, <2>4 DEF TypeOK
    <3> QED
      BY <1>0, <2>1, <2>2, <2>4, <3>1 DEF SettledRun, CheckHolds, Exists, Terminal
  <2> QED
    BY <2>3, <2>4
<1>11. ASSUME NEW p \in Procs, RecordCall(p)
       PROVE  SettledRun(r)'
  <2>1. UNCHANGED <<reply, shown, work, held>>
    BY <1>11 DEF RecordCall, sweep
  <2>2. /\ row'[r].state = row[r].state
        /\ row'[r].done = row[r].done
        /\ row'[r].failure = row[r].failure
        /\ r # run[p] => row'[r] = row[r]
    BY <1>11, RecordedFields
  <2>3. Exists(r) \/ r # run[p]
    BY <1>11 DEF Driving
  <2> QED
    BY <1>0, <2>1, <2>2, <2>3 DEF SettledRun, CheckHolds, Exists, Terminal
<1>12. ASSUME NEW p \in Procs, Return(p)
       PROVE  SettledRun(r)'
  <2>1. UNCHANGED <<row, reply, work, held>>
    BY <1>12 DEF Return, database, sweep
  <2>2. shown'[r] = shown[r] \/ Exists(r)
    BY <1>12 DEF Return, Driving, TypeOK
  <2> QED
    BY <1>0, <2>1, <2>2 DEF SettledRun, CheckHolds, Exists, Terminal
<1>13. ASSUME NEW p \in Procs,
              Boot(p) \/ BootUnchecked(p) \/ ReadRun(p) \/ BuildContext(p) \/ Sleep(p)
                \/ \E a \in Answers : CallModel(p, a)
       PROVE  SettledRun(r)'
  BY <1>2, <1>13
     DEF Boot, BootUnchecked, ReadRun, BuildContext, Sleep, CallModel, database, sweep
<1>14. ASSUME NEW n \in Runs, Age(n)
       PROVE  SettledRun(r)'
  BY <1>2, <1>14 DEF Age, database, sweep
<1> QED
  BY <1>3, <1>4, <1>5, <1>6, <1>7, <1>8, <1>9, <1>10, <1>11, <1>12, <1>13, <1>14
     DEF Next, SweepStep, TurnStep, SweepAbort, ReadRefused, WriteRefused, DbError, Stop

-----------------------------------------------------------------------------
(* What the owner was told.                                                *)

ToldRun(r) ==
  /\ shown[r] = "reply" => reply[r] = 1
  /\ shown[r] = "failure" => Terminal(r) /\ row[r].state # "complete" /\ reply[r] = 0

\* Which rows a step changes: the ones a committing sweep holds, a new one, or
\* the one the stepping process drives.
LEMMA RowFrame ==
  ASSUME BaseInv, Next, NEW r \in Runs, row'[r] # row[r]
  PROVE  \/ \E p \in Procs : SweepCommit(p) /\ r \in held[p]
         \/ ~Exists(r)
         \/ \E p \in Procs :
              run[p] = r /\ pc[p] \in {"write", "record"} /\ pc'[p] # pc[p]
<1> USE DEF BaseInv
<1>1. ASSUME UNCHANGED row PROVE FALSE
  BY <1>1
<1>2. ASSUME NEW p \in Procs, SweepCommit(p)
      PROVE  r \in held[p]
  BY <1>2, SweptFields
<1>3. ASSUME NEW p \in Procs, NEW n \in Runs, BeginTurn(p, n)
      PROVE  ~Exists(r)
  BY <1>3 DEF BeginTurn, TypeOK, Exists, Absent, RunState
<1>4. ASSUME NEW p \in Procs, WriteState(p) \/ WriteFailure(p)
      PROVE  run[p] = r /\ pc[p] \in {"write", "record"} /\ pc'[p] # pc[p]
  <2>1. run[p] = r
    BY <1>4, PlainWriteFields
  <2>2. CASE WriteState(p)
    BY <2>1, <2>2 DEF WriteState, AfterWrite, Goto, TypeOK
  <2>3. CASE WriteFailure(p)
    BY <2>1, <2>3 DEF WriteFailure, Goto, TypeOK
  <2> QED
    BY <1>4, <2>2, <2>3
<1>5. ASSUME NEW p \in Procs, CommitReply(p)
      PROVE  run[p] = r /\ pc[p] \in {"write", "record"} /\ pc'[p] # pc[p]
  BY <1>5, CommittedFields DEF CommitReply, Goto, TypeOK
<1>6. ASSUME NEW p \in Procs, RecordCall(p)
      PROVE  run[p] = r /\ pc[p] \in {"write", "record"} /\ pc'[p] # pc[p]
  BY <1>6, RecordedFields DEF RecordCall, Goto, TypeOK
<1> QED
  BY <1>1, <1>2, <1>3, <1>4, <1>5, <1>6
     DEF Next, SweepStep, TurnStep, Boot, BootUnchecked, SweepSelect, SweepUpdate,
         SweepAbort, ReadRun, ReadRefused, WriteRefused, BuildContext, CallModel,
         Sleep, Return, DbError, Stop, Age, database

\* Only boundary C writes a reply, and only to the run its process drives.
LEMMA ReplyFrame ==
  ASSUME BaseInv, Next, NEW r \in Runs, reply'[r] # reply[r]
  PROVE  \E p \in Procs : CommitReply(p) /\ run[p] = r
<1>1. ASSUME NEW p \in Procs, CommitReply(p)
      PROVE  run[p] = r
  BY <1>1 DEF CommitReply, BaseInv, TypeOK
<1> QED
  BY <1>1
     DEF Next, SweepStep, TurnStep, Boot, BootUnchecked, SweepSelect, SweepUpdate, SweepCommit,
         SweepAbort, BeginTurn, ReadRun, ReadRefused, WriteRefused, WriteState, WriteFailure,
         BuildContext, CallModel, RecordCall, Sleep, Return, DbError, Stop, Age, database

\* Only the return of its turn shows a run's outcome.
LEMMA ShownFrame ==
  ASSUME BaseInv, Next, NEW r \in Runs, shown'[r] # shown[r]
  PROVE  \E p \in Procs : Return(p) /\ run[p] = r
<1>1. ASSUME NEW p \in Procs, Return(p)
      PROVE  run[p] = r
  BY <1>1 DEF Return, BaseInv, TypeOK
<1> QED
  BY <1>1
     DEF Next, SweepStep, TurnStep, Boot, BootUnchecked, SweepSelect, SweepUpdate, SweepCommit,
         SweepAbort, BeginTurn, ReadRun, ReadRefused, WriteRefused, WriteState, WriteFailure,
         CommitReply, BuildContext, CallModel, RecordCall, Sleep, DbError, Stop, Age, database

\* Nothing that was told to the owner is ever undone in the database.
LEMMA ToldStep == BaseInv /\ Next => OwnerWasToldTheTruth'
<1> SUFFICES ASSUME BaseInv, Next, NEW r \in Runs PROVE ToldRun(r)'
  BY DEF OwnerWasToldTheTruth, ToldRun
<1> USE DEF BaseInv
<1>1. ToldRun(r)
  BY DEF OwnerWasToldTheTruth, ToldRun
<1>2. CASE shown'[r] # shown[r]
  <2>1. PICK p \in Procs : Return(p) /\ run[p] = r
    BY <1>2, ShownFrame
  <2>2. /\ pc[p] = "return"
        /\ UNCHANGED <<row, reply>>
        /\ shown'[r] = IF goal[p] = "responding" THEN "reply" ELSE "failure"
    BY <2>1 DEF Return, Goto, TypeOK, database
  <2>3. Terminal(r) /\ (IF goal[p] = "responding" THEN reply[r] = 1 ELSE reply[r] = 0)
    BY <2>1, <2>2 DEF Driving
  <2>4. row[r].state = "complete" => reply[r] = 1
    BY DEF Settled
  <2> QED
    BY <2>2, <2>3, <2>4 DEF ToldRun, Terminal
<1>3. CASE shown'[r] = shown[r] /\ shown[r] # "nothing"
  <2>1. Exists(r) /\ \A p \in Procs : run[p] # r
    BY <1>3 DEF Driving, Settled
  <2>2. reply'[r] = reply[r]
    BY <2>1, ReplyFrame
  <2>3. \/ row'[r] = row[r]
        \/ row'[r].state = "failed"
    BY <2>1, RowFrame, SweptFields
  <2> QED
    BY <1>1, <1>3, <2>2, <2>3 DEF ToldRun, Terminal, TERMINAL_STATES
<1>4. CASE shown'[r] = shown[r] /\ shown[r] = "nothing"
  BY <1>4 DEF ToldRun
<1> QED
  BY <1>2, <1>3, <1>4

\* The base invariant speaks of the variables only.
LEMMA BaseStutter == BaseInv /\ UNCHANGED vars => BaseInv'
  BY DEF BaseInv, TypeOK, Control, Driving, Settled, OwnerWasToldTheTruth, vars, database,
         turn, sweep, CheckHolds, Exists, Terminal

\* The inductive invariant of every deployment, sweeps of live turns included.
THEOREM BaseInvariant == Spec => []BaseInv
<1>1. BaseInv /\ [Next]_vars => BaseInv'
  BY BaseStutter, TypeStep, ControlStep, DrivingStep, SettledStep, ToldStep DEF BaseInv
<1> QED
  BY InitBase, <1>1, PTL DEF Spec

\* For any number of processes, sweeps and crashes, and however long turns
\* take: a printed reply is stored, and a printed failure belongs to a closed
\* run without a reply (cli.py render, runtime.py commit boundary C).
THEOREM OwnerToldTruth == Spec => []OwnerWasToldTheTruth
  BY BaseInvariant, PTL DEF BaseInv

-----------------------------------------------------------------------------
(* Turns that never outlast the cutoff: sweeps and turns stay apart.       *)

\* A process takes up a run only by opening it.
LEMMA RunFrame ==
  ASSUME BaseInv, Next, NEW p \in Procs
  PROVE  \/ run'[p] = run[p] \/ run'[p] = NoRun
         \/ \E n \in Runs : BeginTurn(p, n)
<1> USE DEF BaseInv
<1>1. ASSUME UNCHANGED run PROVE run'[p] = run[p]
  BY <1>1
<1>2. ASSUME NEW q \in Procs, Forget(q) PROVE run'[p] = run[p] \/ run'[p] = NoRun
  BY <1>2 DEF Forget, TypeOK
<1>3. ASSUME NEW q \in Procs, NEW n \in Runs, BeginTurn(q, n), q # p
      PROVE  run'[p] = run[p]
  BY <1>3 DEF BeginTurn, TypeOK
<1>4. ASSUME NEW q \in Procs, Raise(q)
      PROVE  run'[p] = run[p] \/ run'[p] = NoRun
  BY <1>2, <1>4 DEF Raise, Down
<1> QED
  BY <1>1, <1>2, <1>3, <1>4
     DEF Next, SweepStep, TurnStep, Boot, BootUnchecked, SweepSelect, SweepUpdate,
         SweepCommit, SweepAbort, ReadRun, ReadRefused, WriteRefused, WriteState,
         WriteFailure, CommitReply, BuildContext, CallModel, RecordCall, Sleep, Return,
         DbError, Stop, Age, Down, turn

\* The part of Apart about one process.
ApartProc(q) ==
  /\ work[q] \subseteq stale /\ held[q] \subseteq stale
  /\ run[q] \in Runs /\ pc[q] # "return" => Open(run[q])
  /\ pc[q] = "write" => CanMove(row[run[q]].state, goal[q])

\* A run the sweep may hold has a row.
LEMMA LeftAloneExists == ASSUME NEW r, LeftAlone(r) PROVE Exists(r)
  BY DEF LeftAlone, Exists, Open, OBSERVABILITY_STATES, RunState

\* Without long turns a run behind the cutoff has no driver, no reply, and is
\* open or closed by a sweep, whatever steps next.
LEMMA StaleStep ==
  ASSUME ~LongTurns, ApartInv, Next, NEW r \in stale'
  PROVE  LeftAlone(r)'
<1> USE DEF ApartInv
<1>1. CASE r \notin stale
  <2>1. PICK n \in Runs : Age(n)
    BY <1>1 DEF Next, SweepStep, TurnStep, Boot, BootUnchecked, SweepSelect, SweepUpdate,
         SweepCommit, SweepAbort, BeginTurn, ReadRun, ReadRefused, WriteRefused, WriteState,
         WriteFailure, CommitReply, BuildContext, CallModel, RecordCall, Sleep, Return, DbError,
         Stop
  <2>2. /\ r = n /\ r \in Runs /\ Open(r)
        /\ \A p \in Procs : run[p] # r
        /\ UNCHANGED <<row, reply, run>>
    BY <1>1, <2>1 DEF Age, database, turn
  <2>3. reply[r] \in Nat /\ reply[r] <= 1 /\ reply[r] # 1
    BY <2>2 DEF BaseInv, TypeOK, Settled, Open, Terminal, OBSERVABILITY_STATES
  <2> QED
    BY <2>2, <2>3 DEF LeftAlone, Open
<1>2. CASE r \in stale
  <2>1. LeftAlone(r) /\ r \in Runs
    BY <1>2 DEF BaseInv, TypeOK
  <2>2. (Open(r) \/ (row[r].state = "failed" /\ row[r].failure = "orphaned"))'
    <3>1. \A p \in Procs : run[p] # r
      BY <2>1 DEF LeftAlone
    <3>2. \/ row'[r] = row[r]
          \/ row'[r].state = "failed" /\ row'[r].failure = "orphaned"
      BY <2>1, <3>1, LeftAloneExists, RowFrame, SweptFields DEF BaseInv
    <3> QED
      BY <2>1, <3>2 DEF LeftAlone, Open
  <2>3. reply'[r] = 0
    BY <2>1, ReplyFrame DEF LeftAlone
  <2>4. ASSUME NEW p \in Procs, run'[p] = r PROVE FALSE
    <3>1. run[p] # r
      BY <2>1 DEF LeftAlone
    <3>2. run'[p] # NoRun
      BY <2>1, <2>4, RuntimeAssumption
    <3>3. PICK n \in Runs : BeginTurn(p, n)
      BY <2>4, <3>1, <3>2, RunFrame
    <3>4. n = r /\ ~Exists(n)
      BY <2>4, <3>3 DEF BeginTurn, BaseInv, TypeOK, Exists, Absent, RunState
    <3> QED
      BY <2>1, <3>4, LeftAloneExists
  <2> QED
    BY <2>2, <2>3, <2>4 DEF LeftAlone
<1> QED
  BY <1>1, <1>2

\* A process whose own control point a step leaves alone keeps its part.
LEMMA ApartOther ==
  ASSUME ApartInv, Next, NEW q \in Procs, stale \subseteq stale',
         pc'[q] = pc[q], run'[q] = run[q], goal'[q] = goal[q],
         work'[q] \subseteq work[q], held'[q] \subseteq work[q] \cup held[q]
  PROVE  ApartProc(q)'
<1> USE DEF ApartInv
<1>1. pc[q] = "write" => run[q] \in Runs
  BY DEF BaseInv, Control
<1>2. ASSUME run[q] \in Runs PROVE row'[run[q]] = row[run[q]]
  <2>1. SUFFICES ASSUME row'[run[q]] # row[run[q]] PROVE FALSE
    OBVIOUS
  <2>2. Exists(run[q])
    BY <1>2 DEF BaseInv, Driving
  <2>3. \A p \in Procs : run[q] \notin held[p]
    BY DEF Apart, LeftAlone
  <2>4. PICK p \in Procs : run[p] = run[q] /\ pc'[p] # pc[p]
    BY <1>2, <2>1, <2>2, <2>3, RowFrame
  <2> QED
    BY <1>2, <2>4 DEF BaseInv, Driving
<1> QED
  BY <1>1, <1>2 DEF Apart, ApartProc, Open

\* What a turn read is still there when it writes, and what a sweep selected
\* is still without a driver when it updates.
LEMMA ApartProcStep ==
  ASSUME ApartInv, Next, NEW q \in Procs
  PROVE  ApartProc(q)'
<1> USE RuntimeAssumption DEF ApartInv
<1>0. ApartProc(q)
  BY DEF Apart, ApartProc
<1>1. ASSUME NEW p \in Procs, Boot(p) \/ BootUnchecked(p)
      PROVE  ApartProc(q)'
  <2>1. UNCHANGED <<row, stale, run, goal, work, held>> /\ run[p] = NoRun
    BY <1>1 DEF Boot, BootUnchecked, Goto, database, turn, sweep, BaseInv, Control
  <2>2. q # p => pc'[q] = pc[q]
    BY <1>1 DEF Boot, BootUnchecked, Goto, BaseInv, TypeOK
  <2>3. pc'[p] # "write"
    BY <1>1 DEF Boot, BootUnchecked, Goto, BaseInv, TypeOK
  <2> QED
    BY <1>0, <2>1, <2>2, <2>3 DEF ApartProc, Open
<1>2. ASSUME NEW p \in Procs, SweepSelect(p)
      PROVE  ApartProc(q)'
  <2>1. CASE q # p
    BY <1>2, <2>1, ApartOther DEF SweepSelect, Goto, turn, BaseInv, TypeOK
  <2>2. CASE q = p
    BY <1>0, <1>2, <2>2 DEF SweepSelect, Goto, turn, BaseInv, TypeOK, Control, ApartProc
  <2> QED
    BY <2>1, <2>2
<1>3. ASSUME NEW p \in Procs, NEW r \in Runs, SweepUpdate(p, r)
      PROVE  ApartProc(q)'
  BY <1>3, ApartOther DEF SweepUpdate, turn, BaseInv, TypeOK
<1>4. ASSUME NEW p \in Procs, SweepCommit(p)
      PROVE  ApartProc(q)'
  <2>1. CASE q # p
    BY <1>4, <2>1, ApartOther DEF SweepCommit, Goto, turn, BaseInv, TypeOK
  <2>2. CASE q = p
    BY <1>0, <1>4, <2>2 DEF SweepCommit, Goto, turn, BaseInv, TypeOK, Control, ApartProc
  <2> QED
    BY <2>1, <2>2
<1>5. ASSUME NEW p \in Procs, Down(p), UNCHANGED stale
      PROVE  ApartProc(q)'
  <2>1. CASE q # p
    BY <1>5, <2>1, ApartOther DEF Down, Forget, BaseInv, TypeOK
  <2>2. CASE q = p
    BY <1>5, <2>2 DEF Down, Forget, BaseInv, TypeOK, ApartProc
  <2> QED
    BY <2>1, <2>2
<1>6. ASSUME NEW p \in Procs, pc[p] \in {"read", "write", "build"}, Raise(p),
             UNCHANGED <<row, stale>>
      PROVE  ApartProc(q)'
  <2>1. CASE goal[p] # "context_building"
    BY <1>5, <1>6, <2>1 DEF Raise
  <2>2. CASE goal[p] = "context_building" /\ q # p
    BY <1>6, <2>2, ApartOther DEF Raise, sweep, BaseInv, TypeOK
  <2>3. CASE goal[p] = "context_building" /\ q = p
    BY <1>0, <1>6, <2>3 DEF Raise, sweep, BaseInv, TypeOK, ApartProc, Open
  <2> QED
    BY <2>1, <2>2, <2>3
<1>7. ASSUME NEW p \in Procs, NEW r \in Runs, BeginTurn(p, r)
      PROVE  ApartProc(q)'
  <2>1. CASE q # p
    BY <1>7, <2>1, ApartOther DEF BeginTurn, Goto, sweep, BaseInv, TypeOK
  <2>2. CASE q = p
    <3>1. run'[p] = r /\ pc'[p] = "read" /\ row'[r] = Received /\ UNCHANGED <<stale, work, held>>
      BY <1>7 DEF BeginTurn, Goto, sweep, BaseInv, TypeOK
    <3>2. Received.state = "received"
      BY DEF Received, Absent
    <3> QED
      BY <1>0, <2>2, <3>1, <3>2
         DEF ApartProc, Open, OBSERVABILITY_STATES, RunState, TERMINAL_STATES
  <2> QED
    BY <2>1, <2>2
<1>8. ASSUME NEW p \in Procs, ReadRun(p)
      PROVE  ApartProc(q)'
  <2>1. CASE q # p
    BY <1>8, <2>1, ApartOther DEF ReadRun, Goto, turn, sweep, BaseInv, TypeOK
  <2>2. CASE q = p
    BY <1>0, <1>8, <2>2
       DEF ReadRun, Goto, database, turn, sweep, BaseInv, TypeOK, ApartProc, Open
  <2> QED
    BY <2>1, <2>2
<1>9. ASSUME NEW p \in Procs, WriteState(p)
      PROVE  ApartProc(q)'
  <2>1. CASE q # p
    BY <1>9, <2>1, ApartOther DEF WriteState, Goto, turn, sweep, BaseInv, TypeOK
  <2>2. CASE q = p
    <3>1. row'[run[p]].state = goal[p] /\ goal[p] \in OBSERVABILITY_STATES
      BY <1>9, PlainWriteFields DEF WriteState, BaseInv
    <3>2. pc'[p] \in {"build", "model", "sleep"} /\ UNCHANGED <<stale, run, goal, work, held>>
      BY <1>9 DEF WriteState, AfterWrite, Goto, turn, sweep, BaseInv, TypeOK
    <3> QED
      BY <1>0, <2>2, <3>1, <3>2 DEF ApartProc, Open
  <2> QED
    BY <2>1, <2>2
<1>10. ASSUME NEW p \in Procs, WriteFailure(p) \/ CommitReply(p)
       PROVE  ApartProc(q)'
  <2>1. CASE q # p
    BY <1>10, <2>1, ApartOther DEF WriteFailure, CommitReply, Goto, turn, sweep, BaseInv, TypeOK
  <2>2. CASE q = p
    BY <1>0, <1>10, <2>2
       DEF WriteFailure, CommitReply, Goto, turn, sweep, BaseInv, TypeOK, ApartProc
  <2> QED
    BY <2>1, <2>2
<1>11. ASSUME NEW p \in Procs,
              BuildContext(p) \/ Sleep(p) \/ \E a \in Answers : CallModel(p, a)
       PROVE  ApartProc(q)'
  <2>1. CASE q # p
    BY <1>11, <2>1, ApartOther DEF BuildContext, Sleep, CallModel, Goto, sweep, BaseInv, TypeOK
  <2>2. CASE q = p
    BY <1>0, <1>11, <2>2
       DEF BuildContext, Sleep, CallModel, Goto, database, sweep, BaseInv, TypeOK, ApartProc, Open
  <2> QED
    BY <2>1, <2>2
<1>12. ASSUME NEW p \in Procs, RecordCall(p)
       PROVE  ApartProc(q)'
  <2>1. CASE q # p
    BY <1>12, <2>1, ApartOther DEF RecordCall, Goto, sweep, BaseInv, TypeOK
  <2>2. CASE q = p
    <3>1. run[p] \in Runs
      BY <1>12, InTurnLocals DEF InTurn, RecordCall, Goto, BaseInv
    <3>2. row'[run[p]].state = row[run[p]].state
      BY <1>12, <3>1, RecordedFields DEF BaseInv
    <3>3. pc[p] = "record" /\ pc'[p] = "read" /\ UNCHANGED <<stale, run, work, held>>
      BY <1>12 DEF RecordCall, Goto, sweep, BaseInv, TypeOK
    <3> QED
      BY <1>0, <2>2, <3>2, <3>3 DEF ApartProc, Open
  <2> QED
    BY <2>1, <2>2
<1>13. ASSUME NEW p \in Procs, Return(p)
       PROVE  ApartProc(q)'
  <2>1. CASE q # p
    BY <1>13, <2>1, ApartOther DEF Return, Forget, Goto, sweep, BaseInv, TypeOK
  <2>2. CASE q = p
    BY <1>0, <1>13, <2>2 DEF Return, Forget, Goto, sweep, BaseInv, TypeOK, ApartProc
  <2> QED
    BY <2>1, <2>2
<1>14. ASSUME NEW r \in Runs, Age(r)
       PROVE  ApartProc(q)'
  BY <1>14, ApartOther DEF Age, turn, sweep
<1> QED
  BY <1>1, <1>2, <1>3, <1>4, <1>5, <1>6, <1>7, <1>8, <1>9, <1>10, <1>11, <1>12, <1>13, <1>14
     DEF Next, SweepStep, TurnStep, SweepAbort, ReadRefused, WriteRefused, DbError, Stop,
         database

\* A reply is committed together with COMPLETE, and COMPLETE is never replaced.
LEMMA AnswerStep == ApartInv /\ Next => AnswerIsExplained'
<1> SUFFICES ASSUME ApartInv, Next, NEW r \in Runs, reply'[r] > 0
             PROVE  reply'[r] = 1 /\ row'[r].state = "complete"
  BY DEF AnswerIsExplained
<1> USE DEF ApartInv
<1>1. CASE reply'[r] # reply[r]
  <2>1. PICK p \in Procs : CommitReply(p) /\ run[p] = r
    BY <1>1, ReplyFrame
  <2>2. row'[r].state = "complete"
    BY <2>1, CommittedFields DEF BaseInv
  <2>3. Settled'
    BY SettledStep
  <2> QED
    BY <2>2, <2>3 DEF Settled
<1>2. CASE reply'[r] = reply[r]
  <2>1. reply[r] = 1 /\ row[r].state = "complete"
    BY <1>2 DEF AnswerIsExplained
  <2>2. Exists(r) /\ ~Open(r) /\ \A p \in Procs : r \notin held[p]
    BY <2>1 DEF Exists, Open, OBSERVABILITY_STATES, RunState, TERMINAL_STATES, Apart, LeftAlone
  <2>3. row'[r] = row[r]
    BY <2>2, RowFrame DEF Apart
  <2> QED
    BY <1>2, <2>1, <2>3
<1> QED
  BY <1>1, <1>2

\* Rows are held and selected in a sweep only.
LEMMA SweepingStep == ApartInv /\ Next => Sweeping'
<1> SUFFICES ASSUME ApartInv, Next, NEW q \in Procs, pc'[q] # "sweep"
             PROVE  work'[q] = {} /\ held'[q] = {}
  BY DEF Sweeping
<1> USE DEF ApartInv, BaseInv, TypeOK
<1>1. ASSUME NEW p \in Procs, Down(p)
      PROVE  work'[q] = {} /\ held'[q] = {}
  <2>1. pc'[p] = "down" /\ work'[p] = {} /\ held'[p] = {}
        /\ \A o \in Procs \ {p} : pc'[o] = pc[o] /\ work'[o] = work[o] /\ held'[o] = held[o]
    BY <1>1 DEF Down
  <2> QED
    BY <2>1 DEF Sweeping
<1>2. ASSUME NEW p \in Procs, Raise(p), pc[p] # "sweep"
      PROVE  work'[q] = {} /\ held'[q] = {}
  BY <1>1, <1>2 DEF Raise, sweep, Sweeping
<1>3. ASSUME NEW p \in Procs, SweepCommit(p)
      PROVE  work'[q] = {} /\ held'[q] = {}
  BY <1>3 DEF SweepCommit, Goto, Sweeping
<1>4. ASSUME NEW p \in Procs, SweepSelect(p) \/ \E r \in Runs : SweepUpdate(p, r)
      PROVE  work'[q] = {} /\ held'[q] = {}
  BY <1>4 DEF SweepSelect, SweepUpdate, Goto, Sweeping
<1>5. ASSUME UNCHANGED sweep, pc[q] # "sweep"
      PROVE  work'[q] = {} /\ held'[q] = {}
  BY <1>5 DEF sweep, Sweeping
<1>6. ASSUME NEW p \in Procs,
             \/ Boot(p) \/ BootUnchecked(p) \/ \E n \in Runs : BeginTurn(p, n)
             \/ ReadRun(p) \/ WriteState(p) \/ WriteFailure(p) \/ CommitReply(p)
             \/ BuildContext(p) \/ RecordCall(p) \/ Sleep(p) \/ Return(p)
             \/ \E a \in Answers : CallModel(p, a)
      PROVE  work'[q] = {} /\ held'[q] = {}
  <2>1. pc[p] # "sweep" /\ pc' = [pc EXCEPT ![p] = pc'[p]] /\ UNCHANGED sweep
    BY <1>6 DEF Boot, BootUnchecked, BeginTurn, ReadRun, WriteState, WriteFailure,
       CommitReply, BuildContext, RecordCall, Sleep, Return, CallModel, Goto
  <2>2. pc[q] # "sweep"
    BY <2>1
  <2> QED
    BY <1>5, <2>1, <2>2
<1>7. ASSUME NEW n \in Runs, Age(n)
      PROVE  work'[q] = {} /\ held'[q] = {}
  BY <1>5, <1>7 DEF Age
<1> QED
  BY <1>1, <1>2, <1>3, <1>4, <1>6, <1>7
     DEF Next, SweepStep, TurnStep, SweepAbort, ReadRefused, WriteRefused, DbError, Stop

\* One process sweeps only while it has no turn, so its sweep meets none,
\* however long its turns were.
LEMMA SweptStep ==
  ASSUME \A p, q \in Procs : p = q, ApartInv, Next, Sweeping',
         NEW q \in Procs, NEW r \in work'[q] \cup held'[q]
  PROVE  LeftAlone(r)'
<1> USE DEF ApartInv, BaseInv, TypeOK
<1>1. pc'[q] = "sweep"
  BY DEF Sweeping
<1>2. CASE SweepSelect(q)
  <2>1. /\ r \in Runs /\ Open(r) /\ run[q] = NoRun
        /\ UNCHANGED <<row, reply, run>>
    BY <1>2 DEF SweepSelect, Goto, Sweeping, Control, database, turn
  <2>2. reply[r] \in Nat /\ reply[r] <= 1 /\ reply[r] # 1
    BY <2>1 DEF Settled, Open, Terminal, OBSERVABILITY_STATES
  <2>3. \A p \in Procs : run[p] # r
    BY <2>1, RuntimeAssumption
  <2> QED
    BY <2>1, <2>2, <2>3 DEF LeftAlone, Open
<1>3. ASSUME ~SweepSelect(q)
      PROVE  r \in work[q] \cup held[q] /\ UNCHANGED <<row, reply, run>>
  <2>1. ASSUME NEW p \in Procs, Down(p) PROVE FALSE
    <3>1. p = q
      OBVIOUS
    <3> QED
      BY <1>1, <2>1, <3>1 DEF Down
  <2>2. ASSUME NEW p \in Procs, Raise(p), pc[p] # "sweep" PROVE FALSE
    <3>1. p = q
      OBVIOUS
    <3> QED
      BY <1>1, <2>1, <2>2, <3>1 DEF Raise
  <2>3. ASSUME NEW p \in Procs,
               \/ Boot(p) \/ BootUnchecked(p) \/ SweepCommit(p)
               \/ \E n \in Runs : BeginTurn(p, n)
               \/ ReadRun(p) \/ WriteState(p) \/ WriteFailure(p) \/ CommitReply(p)
               \/ BuildContext(p) \/ RecordCall(p) \/ Sleep(p) \/ Return(p)
               \/ \E a \in Answers : CallModel(p, a)
        PROVE  FALSE
    <3>1. p = q
      OBVIOUS
    <3>2. pc'[q] # "sweep"
      BY <2>3, <3>1 DEF Boot, BootUnchecked, SweepCommit, BeginTurn, ReadRun, WriteState,
         AfterWrite, WriteFailure, CommitReply, BuildContext, RecordCall, Sleep, Return,
         CallModel, Goto
    <3> QED
      BY <1>1, <3>2
  <2>4. ASSUME NEW p \in Procs, NEW n \in Runs, SweepUpdate(p, n)
        PROVE  r \in work[q] \cup held[q] /\ UNCHANGED <<row, reply, run>>
    BY <2>4 DEF SweepUpdate, database, turn
  <2>5. ASSUME NEW n \in Runs, Age(n)
        PROVE  r \in work[q] \cup held[q] /\ UNCHANGED <<row, reply, run>>
    BY <2>5 DEF Age, database, turn, sweep
  <2>6. ASSUME NEW p \in Procs, SweepSelect(p) PROVE FALSE
    <3>1. p = q
      OBVIOUS
    <3> QED
      BY <1>3, <2>6, <3>1
  <2> QED
    BY <2>1, <2>2, <2>3, <2>4, <2>5, <2>6
       DEF Next, SweepStep, TurnStep, SweepAbort, ReadRefused, WriteRefused, DbError, Stop
<1>4. ASSUME ~SweepSelect(q) PROVE LeftAlone(r)'
  BY <1>3, <1>4 DEF Apart, LeftAlone, Open
<1> QED
  BY <1>2, <1>4

\* A sweep cannot meet a live turn if no live turn outlasts orphan_run_after_s,
\* and neither if there is only one process.
NeverMeet == ~LongTurns \/ \A p, q \in Procs : p = q

\* What a sweep holds is left alone: the inductive invariant of either
\* deployment.
THEOREM ApartInvariant == NeverMeet /\ Spec => []ApartInv
<1> SUFFICES ASSUME NeverMeet PROVE Spec => []ApartInv
  OBVIOUS
<1>1. Init => ApartInv
  <2> SUFFICES ASSUME Init
               PROVE  /\ Sweeping /\ Apart /\ AnswerIsExplained
                      /\ \A r \in stale : LeftAlone(r)
    BY InitBase DEF ApartInv
  <2> QED
    BY RuntimeAssumption DEF Init, Sweeping, Apart, AnswerIsExplained
<1>2. ApartInv /\ Next => ApartInv'
  <2> SUFFICES ASSUME ApartInv, Next PROVE ApartInv'
    OBVIOUS
  <2>1. BaseInv'
    BY TypeStep, ControlStep, DrivingStep, SettledStep, ToldStep DEF BaseInv, ApartInv
  <2>2. ~LongTurns => \A r \in stale' : LeftAlone(r)'
    BY StaleStep
  <2>3. \A q \in Procs : ApartProc(q)'
    BY ApartProcStep
  <2>4. Sweeping'
    BY SweepingStep
  <2>5. \A q \in Procs : \A r \in work'[q] \cup held'[q] : LeftAlone(r)'
    <3>1. CASE ~LongTurns
      BY <2>2, <2>3, <3>1 DEF ApartProc
    <3>2. CASE \A p, q \in Procs : p = q
      BY <2>4, <3>2, SweptStep
    <3> QED
      BY <3>1, <3>2 DEF NeverMeet
  <2>6. Apart'
    BY <2>3, <2>5 DEF Apart, ApartProc
  <2> QED
    BY <2>1, <2>2, <2>4, <2>6, AnswerStep DEF ApartInv
<1>3. ApartInv /\ UNCHANGED vars => ApartInv'
  <2> SUFFICES ASSUME ApartInv, UNCHANGED vars PROVE ApartInv'
    OBVIOUS
  <2>1. BaseInv'
    BY BaseStutter DEF ApartInv
  <2> QED
    BY <2>1 DEF ApartInv, Sweeping, Apart, LeftAlone, AnswerIsExplained, Exists, Open, vars,
       database, turn, sweep
<1> QED
  BY <1>1, <1>2, <1>3, PTL DEF Spec

\* When no live turn outlasts the cutoff, for any number of processes, and
\* however long turns are when there is one process, a stored reply always
\* belongs to a run in COMPLETE (runtime.py:37-39).
THEOREM AnswersExplained == NeverMeet /\ Spec => []AnswerIsExplained
  BY ApartInvariant, PTL DEF ApartInv

\* Under the same condition the CHECK of agent_runs never fires
\* (repository.py:71-74).
THEOREM CheckIsSilent == NeverMeet /\ Spec => []CheckNeverFires
<1>1. ApartInv => CheckNeverFires
  <2> SUFFICES ASSUME ApartInv, NEW p \in Procs, pc[p] = "write"
               PROVE  CheckHolds(Written(p))
    BY DEF CheckNeverFires
  <2>1. run[p] \in Runs /\ goal[p] \in RunState /\ row[run[p]].done \in Nat
    BY InTurnLocals DEF ApartInv, BaseInv, InTurn, Row
  <2>2. Open(run[p])
    BY <2>1 DEF ApartInv, Apart
  <2>3. row[run[p]].done = 0
    BY <2>1, <2>2 DEF ApartInv, BaseInv, Settled, CheckHolds, Open, OBSERVABILITY_STATES
  <2> QED
    BY <2>3, WrittenFields DEF ApartInv, BaseInv, CheckHolds
<1> QED
  BY <1>1, ApartInvariant, PTL

\* The whole row a sweep leaves behind.
LEMMA SweptRow ==
  ASSUME TypeOK, NEW p \in Procs, SweepCommit(p), NEW r \in held[p], r \in Runs
  PROVE  row'[r] = Finished(row[r], "failed", "orphaned")
BY DEF SweepCommit

\* The whole row a call leaves behind.
LEMMA RecordedRow ==
  ASSUME TypeOK, Control, NEW p \in Procs, RecordCall(p)
  PROVE  /\ run[p] \in Runs
         /\ \E c \in Nat : row'[run[p]] = [row[run[p]] EXCEPT !.cost = @ + c]
<1>1. run[p] \in Runs
  BY InTurnLocals DEF InTurn, RecordCall, Goto
<1>2. PICK c \in IF answer[p] = "ok" THEN Costs ELSE {0} :
        row' = [row EXCEPT ![run[p]].cost = @ + c]
  BY DEF RecordCall
<1>3. c \in Nat
  BY <1>2, RuntimeAssumption
<1> QED
  BY <1>1, <1>2, <1>3 DEF TypeOK

LegalRow(old, new) ==
  \/ new = old
  \/ Moves(old, new)
  \/ Charges(old, new)
  \/ ClosesAgain(old, new)

\* Under the same condition a committed change of a row is a legal edge, the
\* cost of a call on an open run, or another sweep's repeated close of an
\* orphan (repository.py:5-10).
THEOREM EdgesAreLegal == NeverMeet /\ Spec => OnlyLegalEdges
<1>1. ASSUME ApartInv, Next, NEW r \in Runs, row'[r] # row[r]
      PROVE  LegalRow(row[r], row'[r])
  <2> USE DEF ApartInv, BaseInv
  <2>0. row[r] \in Row /\ row[r].done \in Nat /\ row[r].cost \in Nat
    BY <1>1 DEF TypeOK, Row
  <2>1. ASSUME NEW p \in Procs, SweepCommit(p)
        PROVE  LegalRow(row[r], row'[r])
    <3>1. r \in held[p]
      BY <1>1, <2>1, SweptFields
    <3>2. row'[r] = Finished(row[r], "failed", "orphaned")
      BY <1>1, <2>1, <3>1, SweptRow
    <3>3. LeftAlone(r)
      BY <1>1, <3>1 DEF Apart
    <3>4. CASE Open(r)
      <4>1. Edge(row[r].state, "failed")
        BY <3>4, LiveCanFail DEF Open, OBSERVABILITY_STATES, Edge
      <4> QED
        BY <3>2, <4>1 DEF LegalRow, Moves, Finished, TERMINAL_STATES
    <3>5. CASE row[r].state = "failed" /\ row[r].failure = "orphaned"
      BY <2>0, <3>2, <3>5 DEF LegalRow, ClosesAgain, Finished, Row
    <3> QED
      BY <3>3, <3>4, <3>5 DEF LeftAlone
  <2>2. ASSUME NEW p \in Procs, NEW n \in Runs, BeginTurn(p, n)
        PROVE  LegalRow(row[r], row'[r])
    <3>1. row[r] = Absent /\ row'[r] = Received
      BY <1>1, <2>2 DEF BeginTurn, TypeOK
    <3> QED
      BY <3>1 DEF Received, Absent, LegalRow, Moves, Edge, TERMINAL_STATES
  <2>3. ASSUME NEW p \in Procs, WriteState(p) \/ WriteFailure(p)
        PROVE  LegalRow(row[r], row'[r])
    <3>1. r = run[p] /\ row'[r] = Written(p) /\ Written(p).state = goal[p]
      BY <1>1, <2>3, PlainWriteFields
    <3>2. pc[p] = "write" /\ goal[p] # "responding"
      BY <2>3 DEF WriteState, WriteFailure, Goto, TERMINAL_STATES
    <3>3. Exists(r) /\ CanMove(row[r].state, goal[p])
      <4>1. Exists(run[p]) /\ CanMove(row[run[p]].state, goal[p])
        BY <1>1, <3>1, <3>2 DEF Driving, Apart
      <4> QED
        BY <3>1, <4>1
    <3>4. Edge(row[r].state, goal[p])
      BY <3>2, <3>3 DEF Edge, Exists
    <3>5. CASE goal[p] \in TERMINAL_STATES
      <4>1. Written(p).done = row[r].done + 1 /\ Written(p).cost = row[r].cost
        BY <3>1, <3>5 DEF Written, Finished
      <4> QED
        BY <3>1, <3>4, <3>5, <4>1 DEF LegalRow, Moves
    <3>6. CASE goal[p] \notin TERMINAL_STATES
      <4>1. Written(p) = [row[r] EXCEPT !.state = goal[p]]
        BY <3>1, <3>6 DEF Written
      <4>2. /\ Written(p).done = row[r].done
            /\ Written(p).failure = row[r].failure
            /\ Written(p).cost = row[r].cost
        BY <2>0, <4>1 DEF Row
      <4> QED
        BY <3>1, <3>4, <3>6, <4>2 DEF LegalRow, Moves
    <3> QED
      BY <3>5, <3>6
  <2>4. ASSUME NEW p \in Procs, CommitReply(p)
        PROVE  LegalRow(row[r], row'[r])
    <3>1. r = run[p] /\ row'[r].state = "complete"
      BY <1>1, <2>4, CommittedFields
    <3>2. pc[p] = "write" /\ goal[p] = "responding"
      BY <2>4 DEF CommitReply, Goto
    <3>3. Exists(r) /\ CanMove(row[r].state, "responding")
      <4>1. Exists(run[p]) /\ CanMove(row[run[p]].state, goal[p])
        BY <1>1, <3>1, <3>2 DEF Driving, Apart
      <4> QED
        BY <3>1, <3>2, <4>1
    <3>4. Edge(row[r].state, "complete")
      BY <3>3, RespondingFromModelCalling DEF Exists, Edge
    <3>5. Written(p) = [row[r] EXCEPT !.state = "responding"]
      BY <3>1, <3>2 DEF Written, TERMINAL_STATES
    <3>6. Written(p).done = row[r].done /\ Written(p).cost = row[r].cost
      BY <2>0, <3>5 DEF Row
    <3>7. row'[r] = Finished(Written(p), "complete", Written(p).failure)
      BY <1>1, <2>4, <3>1 DEF CommitReply, TypeOK
    <3>8. row'[r].done = row[r].done + 1 /\ row'[r].cost = row[r].cost
      BY <3>6, <3>7 DEF Finished
    <3> QED
      BY <3>1, <3>4, <3>8 DEF LegalRow, Moves, TERMINAL_STATES
  <2>5. ASSUME NEW p \in Procs, RecordCall(p)
        PROVE  LegalRow(row[r], row'[r])
    <3>1. r = run[p]
      BY <1>1, <2>5, RecordedFields
    <3>2. PICK c \in Nat : row'[r] = [row[r] EXCEPT !.cost = @ + c]
      BY <1>1, <2>5, <3>1, RecordedRow
    <3>3. c # 0
      BY <1>1, <2>0, <3>2 DEF Row
    <3>4. row'[r].cost = row[r].cost + c
      BY <2>0, <3>2 DEF Row
    <3>5. Open(r)
      BY <1>1, <2>5, <3>1 DEF Apart, RecordCall, Goto
    <3> QED
      BY <2>0, <3>2, <3>3, <3>4, <3>5 DEF LegalRow, Charges, Open
  <2>6. row' # row
    BY <1>1
  <2> QED
    BY <1>1, <2>1, <2>2, <2>3, <2>4, <2>5, <2>6
       DEF Next, SweepStep, TurnStep, Boot, BootUnchecked, SweepSelect, SweepUpdate,
           SweepAbort, ReadRun, ReadRefused, WriteRefused, BuildContext, CallModel,
           Sleep, Return, DbError, Stop, Age, database
<1>2. ApartInv /\ [Next]_vars =>
        [\A r \in Runs :
           \/ row'[r] = row[r]
           \/ Moves(row[r], row'[r])
           \/ Charges(row[r], row'[r])
           \/ ClosesAgain(row[r], row'[r])]_vars
  BY <1>1 DEF LegalRow
<1> QED
  BY <1>2, ApartInvariant, PTL DEF OnlyLegalEdges, Spec

-----------------------------------------------------------------------------
(* The turn implements its abstract specification.                         *)

StatusOf(state) ==
  IF state = "absent" THEN "none"
  ELSE IF state \in OBSERVABILITY_STATES THEN "open"
  ELSE IF state = "complete" THEN "answered" ELSE "closed"

\* The abstract status is a function of the state column.
LEMMA StatusIs == \A r \in Runs : Status(r) = StatusOf(row[r].state)
  BY DEF Status, StatusOf, Open

\* Which abstract status each state of a run stands for.
LEMMA StatusValues ==
  /\ StatusOf("absent") = "none" /\ StatusOf("received") = "open"
  /\ StatusOf("complete") = "answered"
  /\ StatusOf("failed") = "closed" /\ StatusOf("timed_out") = "closed"
  /\ \A s \in OBSERVABILITY_STATES : StatusOf(s) = "open"
  BY DEF StatusOf, OBSERVABILITY_STATES, RunState, TERMINAL_STATES

\* Every step of the runtime is a step of the abstract turn or leaves it alone.
LEMMA RefinementStep == ApartInv /\ [Next]_vars => [Promise!Next]_(Promise!vars)
<1> SUFFICES ASSUME ApartInv, [Next]_vars
             PROVE  Promise!Next \/ UNCHANGED Promise!vars
  OBVIOUS
<1> USE DEF ApartInv, BaseInv
<1> DEFINE st == [r \in Runs |-> Status(r)]
<1>0. /\ st = [r \in Runs |-> StatusOf(row[r].state)]
      /\ st' = [r \in Runs |-> StatusOf(row'[r].state)]
  BY StatusIs, StatusIs' DEF Status, StatusOf, Open
<1> HIDE DEF st
<1>1. ASSUME UNCHANGED <<reply, shown>>, \A r \in Runs : row'[r].state = row[r].state
      PROVE  UNCHANGED Promise!vars
  BY <1>0, <1>1 DEF Promise!vars, st
<1>2. ASSUME UNCHANGED <<row, reply, shown>>
      PROVE  UNCHANGED Promise!vars
  BY <1>1, <1>2
<1>3. ASSUME NEW p \in Procs, SweepCommit(p)
      PROVE  Promise!Next
  <2> DEFINE S == {r \in held[p] : Open(r)}
  <2>1. S \in SUBSET Runs /\ UNCHANGED <<reply, shown>>
    BY <1>3 DEF SweepCommit, TypeOK
  <2>2. \A r \in S : st[r] = "open"
    BY <1>0, <2>1, StatusValues DEF Open
  <2>3. ASSUME NEW r \in Runs
        PROVE  StatusOf(row'[r].state) = IF r \in S THEN "closed" ELSE st[r]
    <3>1. CASE r \notin held[p]
      <4>1. row'[r] = row[r]
        BY <1>3, <3>1, SweptFields
      <4> QED
        BY <1>0, <3>1, <4>1
    <3>2. CASE r \in held[p]
      <4>1. row'[r].state = "failed" /\ (Open(r) \/ row[r].state = "failed")
        BY <1>3, <3>2, SweptFields DEF Apart, LeftAlone
      <4> QED
        BY <1>0, <3>2, <4>1, StatusValues
    <3> QED
      BY <3>1, <3>2
  <2>4. st' = [r \in Runs |-> IF r \in S THEN "closed" ELSE st[r]]
    BY <1>0, <2>3
  <2>5. Promise!Close(S)
    BY <2>1, <2>2, <2>4 DEF Promise!Close, st
  <2> QED
    BY <2>1, <2>5 DEF Promise!Next
<1>4. ASSUME NEW p \in Procs, NEW n \in Runs, BeginTurn(p, n)
      PROVE  Promise!Next
  <2>1. row[n].state = "absent" /\ row' = [row EXCEPT ![n] = Received]
    BY <1>4 DEF BeginTurn, Absent
  <2>2. Received.state = "received"
    BY DEF Received, Absent
  <2>3. st[n] = "none" /\ st' = [st EXCEPT ![n] = "open"]
    BY <1>0, <2>1, <2>2, StatusValues DEF TypeOK
  <2>4. Promise!Open(n)
    BY <1>4, <2>3 DEF Promise!Open, BeginTurn, st
  <2> QED
    BY <2>4 DEF Promise!Next
<1>5. ASSUME NEW p \in Procs, WriteState(p)
      PROVE  UNCHANGED Promise!vars
  <2>1. /\ run[p] \in Runs
        /\ row'[run[p]].state \in OBSERVABILITY_STATES
        /\ row[run[p]].state \in OBSERVABILITY_STATES
        /\ \A r \in Runs \ {run[p]} : row'[r] = row[r]
    BY <1>5, PlainWriteFields DEF WriteState, Goto, Apart, Open
  <2>2. st' = st /\ UNCHANGED <<reply, shown>>
    BY <1>0, <1>5, <2>1, StatusValues DEF WriteState
  <2> QED
    BY <2>2 DEF Promise!vars, st
<1>6. ASSUME NEW p \in Procs, WriteFailure(p)
      PROVE  Promise!Next
  <2>1. /\ run[p] \in Runs
        /\ row'[run[p]].state \in {"failed", "timed_out"}
        /\ row[run[p]].state \in OBSERVABILITY_STATES
        /\ \A r \in Runs \ {run[p]} : row'[r] = row[r]
    BY <1>6, PlainWriteFields DEF WriteFailure, Goto, Apart, Open, TERMINAL_STATES
  <2>2. /\ st[run[p]] = "open"
        /\ st' = [r \in Runs |-> IF r \in {run[p]} THEN "closed" ELSE st[r]]
    BY <1>0, <2>1, StatusValues
  <2>3. Promise!Close({run[p]})
    BY <1>6, <2>2 DEF Promise!Close, WriteFailure, st
  <2>4. {run[p]} \in SUBSET Runs
    BY <2>1
  <2> QED
    BY <2>3, <2>4 DEF Promise!Next
<1>7. ASSUME NEW p \in Procs, CommitReply(p)
      PROVE  Promise!Next
  <2>1. /\ run[p] \in Runs
        /\ row'[run[p]].state = "complete"
        /\ row[run[p]].state \in OBSERVABILITY_STATES
        /\ \A r \in Runs \ {run[p]} : row'[r] = row[r]
    BY <1>7, CommittedFields DEF CommitReply, Goto, Apart, Open
  <2>2. st[run[p]] = "open" /\ st' = [st EXCEPT ![run[p]] = "answered"]
    BY <1>0, <2>1, StatusValues
  <2>3. Promise!Answer(run[p])
    BY <1>7, <2>2 DEF Promise!Answer, CommitReply, st
  <2> QED
    BY <2>1, <2>3 DEF Promise!Next
<1>8. ASSUME NEW p \in Procs, RecordCall(p)
      PROVE  UNCHANGED Promise!vars
  BY <1>1, <1>8, RecordedFields DEF RecordCall
<1>9. ASSUME NEW p \in Procs, Return(p)
      PROVE  Promise!Next
  <2>1. /\ run[p] \in Runs /\ pc[p] = "return"
        /\ goal[p] \in TERMINAL_STATES \cup {"responding"}
    BY <1>9, InTurnLocals DEF InTurn, Return, Goto, Control
  <2>2. /\ Terminal(run[p]) /\ shown[run[p]] = "nothing"
        /\ IF goal[p] = "responding" THEN reply[run[p]] = 1 ELSE reply[run[p]] = 0
    BY <2>1 DEF Driving
  <2>3. goal[p] = "responding" <=> row[run[p]].state = "complete"
    BY <2>1, <2>2 DEF AnswerIsExplained, Settled
  <2>4. IF goal[p] = "responding" THEN st[run[p]] = "answered" ELSE st[run[p]] = "closed"
    BY <1>0, <2>1, <2>2, <2>3, StatusValues DEF Terminal, TERMINAL_STATES
  <2>5. /\ UNCHANGED <<row, reply>>
        /\ shown' = [shown EXCEPT ![run[p]] =
                       IF goal[p] = "responding" THEN "reply" ELSE "failure"]
    BY <1>9 DEF Return, database
  <2>6. st' = st
    BY <1>0, <2>5
  <2>7. Promise!Tell(run[p])
    BY <2>2, <2>4, <2>5, <2>6 DEF Promise!Tell, st
  <2> QED
    BY <2>1, <2>7 DEF Promise!Next
<1> QED
  BY <1>2, <1>3, <1>4, <1>5, <1>6, <1>7, <1>8, <1>9
     DEF Next, SweepStep, TurnStep, Boot, BootUnchecked, SweepSelect, SweepUpdate,
         SweepAbort, ReadRun, ReadRefused, WriteRefused, BuildContext, CallModel,
         Sleep, DbError, Stop, Age, database, vars

\* Under the same condition the runtime, its rows and the sweep implement the
\* abstract turn, whatever crashes and fails (runtime.py:35-46,
\* agent_state.py:43-51).
THEOREM RuntimeImplementsTurns == NeverMeet /\ Spec => ImplementsTurns
<1>1. Init => Promise!Init
  <2> SUFFICES ASSUME Init PROVE Promise!Init
    OBVIOUS
  <2>1. \A r \in Runs : Status(r) = "none"
    BY StatusIs, StatusValues DEF Init, Absent
  <2> QED
    BY <2>1 DEF Init, Promise!Init
<1> QED
  BY <1>1, RefinementStep, ApartInvariant, PTL DEF Spec, ImplementsTurns, Promise!Spec
=============================================================================
