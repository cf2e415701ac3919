------------------------- MODULE AgentTrace_proofs --------------------------
(***************************************************************************)
(* The trace of a turn (its llm_calls rows) explains its outcome, for any  *)
(* number of processes, any sweep and any crash: no condition on how long  *)
(* a turn lives.                                                           *)
(***************************************************************************)
EXTENDS AgentRuntime_proofs, Induction_proofs

-----------------------------------------------------------------------------
(* The inductive invariant.                                                *)

\* The calls of r are numbered 1..n, and all but the last one asked for a
\* retry.  Unlike CallsAreDense it does not count: n is a parameter.
Numbered(r, n) ==
  /\ \A c \in calls[r] : c.step \in 1..n
  /\ \A k \in 1..n : \E c \in calls[r] : c.step = k
  /\ \A c, d \in calls[r] : c.step = d.step => c = d
  /\ \A c \in calls[r] : c.step < n => c.answer \in Retryable

\* The last of the n calls of r ended with answer a.
EndsWith(r, n, a) == \E c \in calls[r] : c.step = n /\ c.answer = a

\* How far the calls of a run have come at each point of its turn.
TracedTurn(p, r) ==
  /\ attempt[p] \in 0..MaxAttempts
  /\ attempt[p] = 0 <=> answer[p] = "none"
  /\ pc[p] # "return" => row[r].state # "complete" /\ row[r].failure \notin Errors
  /\ pc[p] = "record" =>
       /\ Numbered(r, attempt[p] - 1)
       /\ \A c \in calls[r] : c.answer \in Retryable
  /\ pc[p] # "record" =>
       /\ Numbered(r, attempt[p])
       /\ attempt[p] > 0 => EndsWith(r, attempt[p], answer[p])
  /\ goal[p] = "context_building" => answer[p] = "none"
  /\ goal[p] \in {"model_calling", "model_retry_wait"} /\ pc[p] # "record" =>
       attempt[p] < MaxAttempts /\ answer[p] \in Retryable \cup {"none"}
  /\ goal[p] = "responding" => answer[p] = "ok"
  /\ goal[p] \in TERMINAL_STATES =>
       /\ answer[p] \in Errors \cup {"none"}
       /\ answer[p] \in Retryable => attempt[p] = MaxAttempts
       /\ goal[p] = "timed_out" <=> answer[p] = Timeout

\* What the n calls of a run say of its row, when its turn is over.
Explained(r, n) ==
  /\ ~Exists(r) => n = 0
  /\ row[r].state = "complete" => EndsWith(r, n, "ok")
  /\ row[r].failure \in Errors =>
       /\ EndsWith(r, n, row[r].failure)
       /\ row[r].failure \in Retryable => n = MaxAttempts
  /\ row[r].state = "timed_out" <=> row[r].failure = Timeout

TracedRun(r) == \E n \in 0..MaxAttempts : Numbered(r, n) /\ Explained(r, n)

TraceInv ==
  /\ BaseInv
  /\ \A p \in Procs, r \in Runs : run[p] = r => TracedTurn(p, r)
  /\ \A r \in Runs : TracedRun(r)

-----------------------------------------------------------------------------
(* What a step does to the calls.                                          *)

\* Only a turn records calls, and only of the run it drives.
LEMMA CallsFrame ==
  ASSUME BaseInv, Next, NEW r \in Runs, calls'[r] # calls[r]
  PROVE  \E p \in Procs : RecordCall(p) /\ run[p] = r
<1>1. ASSUME NEW p \in Procs, RecordCall(p)
      PROVE  run[p] = r
  BY <1>1 DEF RecordCall, BaseInv, TypeOK
<1> QED
  BY <1>1
     DEF Next, SweepStep, TurnStep, Boot, BootUnchecked, SweepSelect, SweepUpdate, SweepCommit,
         SweepAbort, BeginTurn, ReadRun, ReadRefused, WriteRefused, WriteState, WriteFailure,
         CommitReply, BuildContext, CallModel, Sleep, Return, DbError, Stop, Age, database

\* Numbering and last answer speak of the calls only.
LEMMA NumberedFrame ==
  ASSUME NEW r \in Runs, NEW n, calls'[r] = calls[r], Numbered(r, n)
  PROVE  Numbered(r, n)'
  BY DEF Numbered

\* So does the answer of the last call.
LEMMA EndsWithFrame ==
  ASSUME NEW r \in Runs, NEW n, NEW a, calls'[r] = calls[r], EndsWith(r, n, a)
  PROVE  EndsWith(r, n, a)'
  BY DEF EndsWith

\* A turn that does not move keeps its part of the trace, whoever else moves.
LEMMA TracedUnmoved ==
  ASSUME TraceInv, Next, NEW q \in Procs, NEW r \in Runs, run[q] = r,
         pc'[q] = pc[q], run'[q] = run[q], goal'[q] = goal[q],
         attempt'[q] = attempt[q], answer'[q] = answer[q]
  PROVE  TracedTurn(q, r)'
<1> USE DEF TraceInv, BaseInv
<1>0. TracedTurn(q, r) /\ Exists(r) /\ \A p \in Procs \ {q} : run[p] # r
  BY DEF Driving
<1>1. calls'[r] = calls[r]
  <2> SUFFICES ASSUME calls'[r] # calls[r] PROVE FALSE
    OBVIOUS
  <2>1. PICK p \in Procs : RecordCall(p) /\ run[p] = r
    BY CallsFrame
  <2>2. p = q
    BY <1>0, <2>1
  <2> QED
    BY <2>1, <2>2 DEF RecordCall, Goto, TypeOK
<1>2. \/ row'[r] = row[r]
      \/ row'[r].state = "failed" /\ row'[r].failure = "orphaned"
  BY <1>0, RowFrame, SweptFields
<1>3. pc'[q] # "return" => row'[r].state # "complete" /\ row'[r].failure \notin Errors
  BY <1>0, <1>2 DEF TracedTurn, Errors, Retryable, Fatal, Timeout
<1> QED
  BY <1>0, <1>1, <1>3 DEF TracedTurn, Numbered, EndsWith

-----------------------------------------------------------------------------
(* One turn: every step of the process that drives a run keeps its trace.  *)

\* A call that starts finds all earlier calls of its run retryable.
LEMMA EarlierRetryable ==
  ASSUME TypeOK, NEW r \in Runs, NEW n \in Nat, NEW a \in Retryable \cup {"none"},
         Numbered(r, n), n = 0 <=> a = "none", n > 0 => EndsWith(r, n, a)
  PROVE  \A c \in calls[r] : c.answer \in Retryable
<1> SUFFICES ASSUME NEW c \in calls[r] PROVE c.answer \in Retryable
  OBVIOUS
<1>1. c.step \in 1..n
  BY DEF Numbered
<1>2. CASE c.step < n
  BY <1>2 DEF Numbered
<1>3. CASE c.step = n
  <2>1. n > 0 /\ a \in Retryable
    BY <1>1
  <2>2. PICK d \in calls[r] : d.step = n /\ d.answer = a
    BY <2>1 DEF EndsWith
  <2>3. c = d
    BY <1>3, <2>2 DEF Numbered
  <2> QED
    BY <2>1, <2>2, <2>3
<1> QED
  BY <1>1, <1>2, <1>3

\* The call that is recorded takes the next number.
LEMMA NumberedNext ==
  ASSUME NEW r \in Runs, NEW n \in Nat, NEW c, c.step = n + 1,
         Numbered(r, n), \A d \in calls[r] : d.answer \in Retryable,
         calls'[r] = calls[r] \cup {c}
  PROVE  Numbered(r, n + 1)' /\ EndsWith(r, n + 1, c.answer)'
<1>1. \A d \in calls[r] : d.step \in 1..n /\ d.step # n + 1
  BY DEF Numbered
<1>2. \A d \in calls'[r] : d.step \in 1..(n + 1)
  BY <1>1
<1>3. \A k \in 1..(n + 1) : \E d \in calls'[r] : d.step = k
  <2> SUFFICES ASSUME NEW k \in 1..(n + 1) PROVE \E d \in calls'[r] : d.step = k
    OBVIOUS
  <2>1. CASE k = n + 1
    BY <2>1
  <2>2. CASE k \in 1..n
    BY <2>2 DEF Numbered
  <2> QED
    BY <2>1, <2>2
<1>4. \A d, e \in calls'[r] : d.step = e.step => d = e
  BY <1>1 DEF Numbered
<1>5. \A d \in calls'[r] : d.step < n + 1 => d.answer \in Retryable
  BY <1>1
<1> QED
  BY <1>2, <1>3, <1>4, <1>5 DEF Numbered, EndsWith

\* What RecordCall inserts, and where the turn goes with it.
LEMMA RecordedCall ==
  ASSUME TraceInv, NEW p \in Procs, RecordCall(p), NEW r \in Runs, run[p] = r
  PROVE  /\ attempt[p] \in 1..MaxAttempts /\ answer[p] \in Answers
         /\ pc'[p] = "read" /\ UNCHANGED <<run, attempt, answer>>
         /\ Numbered(r, attempt[p])' /\ EndsWith(r, attempt[p], answer[p])'
         /\ row'[r].state = row[r].state /\ row'[r].failure = row[r].failure
         /\ row[r].state # "complete" /\ row[r].failure \notin Errors
         /\ goal'[p] = NextGoal(p)
<1> USE DEF TraceInv, BaseInv
<1>1. pc[p] = "record" /\ TracedTurn(p, r)
  BY DEF RecordCall, Goto
<1>2. attempt[p] \in 1..MaxAttempts /\ answer[p] \in Answers /\ answer[p] # "none"
  BY <1>1, RuntimeAssumption DEF TracedTurn, Control, Answers, Errors, Retryable, Fatal, Timeout
<1>3. \E c : calls' = [calls EXCEPT ![run[p]] = @ \cup {CallRecord(p, c)}]
  BY DEF RecordCall
<1>4. PICK n \in Nat, d \in calls'[r] :
        /\ attempt[p] = n + 1 /\ d.step = n + 1 /\ d.answer = answer[p]
        /\ calls'[r] = calls[r] \cup {d}
  <2>1. PICK c : calls' = [calls EXCEPT ![run[p]] = @ \cup {CallRecord(p, c)}]
    BY <1>3
  <2>2. calls'[r] = calls[r] \cup {CallRecord(p, c)}
    BY <2>1 DEF TypeOK
  <2>3. CallRecord(p, c).step = attempt[p] /\ CallRecord(p, c).answer = answer[p]
    BY DEF CallRecord
  <2>4. attempt[p] - 1 \in Nat /\ attempt[p] = attempt[p] - 1 + 1
    BY <1>2, RuntimeAssumption
  <2> QED
    BY <2>2, <2>3, <2>4
<1>5. Numbered(r, n) /\ \A c \in calls[r] : c.answer \in Retryable
  BY <1>1, <1>4 DEF TracedTurn
<1>6. Numbered(r, n + 1)' /\ EndsWith(r, n + 1, d.answer)'
  BY <1>4, <1>5, NumberedNext
<1>7. UNCHANGED <<attempt, answer>>
  BY DEF RecordCall
<1>8. Numbered(r, attempt[p])'
  BY <1>4, <1>6, <1>7
<1>9. EndsWith(r, attempt[p], answer[p])'
  BY <1>4, <1>6, <1>7 DEF EndsWith
<1>10. pc'[p] = "read" /\ UNCHANGED <<run, attempt, answer>> /\ goal'[p] = NextGoal(p)
  BY DEF RecordCall, Goto, TypeOK
<1> QED
  BY <1>1, <1>2, <1>8, <1>9, <1>10, RecordedFields DEF TracedTurn

\* Every step keeps the trace of every turn in accord with where the turn is.
LEMMA TracedTurnStep ==
  ASSUME TraceInv, Next, NEW q \in Procs, NEW r \in Runs, run'[q] = r
  PROVE  TracedTurn(q, r)'
<1> USE DEF TraceInv, BaseInv
<1> USE RuntimeAssumption
<1>1. ASSUME NEW p \in Procs, q # p, UNCHANGED <<run, goal, attempt, answer>>,
             pc' = [pc EXCEPT ![p] = pc'[p]]
      PROVE  TracedTurn(q, r)'
  BY <1>1, TracedUnmoved DEF TypeOK
<1>2. ASSUME NEW p \in Procs, UNCHANGED turn,
             pc[p] \in {"down", "boot", "sweep", "idle"}, pc' = [pc EXCEPT ![p] = pc'[p]]
      PROVE  TracedTurn(q, r)'
  <2>1. run[p] = NoRun
    BY <1>2 DEF Control
  <2> QED
    BY <1>1, <1>2, <2>1 DEF turn
<1>3. ASSUME NEW p \in Procs,
             Boot(p) \/ BootUnchecked(p) \/ SweepSelect(p) \/ SweepCommit(p)
      PROVE  TracedTurn(q, r)'
  BY <1>2, <1>3 DEF Boot, BootUnchecked, SweepSelect, SweepCommit, Goto, turn, TypeOK
<1>4. ASSUME NEW p \in Procs, NEW n \in Runs, SweepUpdate(p, n)
      PROVE  TracedTurn(q, r)'
  BY <1>4, TracedUnmoved DEF SweepUpdate, turn
<1>5. ASSUME NEW p \in Procs, Down(p) \/ Return(p)
      PROVE  TracedTurn(q, r)'
  <2>1. q # p
    BY <1>5 DEF Down, Return, Forget, TypeOK
  <2> QED
    BY <1>5, <2>1, TracedUnmoved DEF Down, Return, Forget, Goto, TypeOK
<1>6. ASSUME NEW p \in Procs, pc[p] \in {"read", "write", "build"}, Raise(p),
             UNCHANGED <<database, stale, shown>>
      PROVE  TracedTurn(q, r)'
  <2>1. CASE goal[p] # "context_building"
    BY <1>5, <1>6, <2>1 DEF Raise
  <2>2. CASE goal[p] = "context_building" /\ q # p
    BY <1>6, <2>2, TracedUnmoved DEF Raise, TypeOK
  <2>3. CASE goal[p] = "context_building" /\ q = p
    <3>1. TracedTurn(p, r) /\ run[p] = r
      BY <1>6, <2>3 DEF Raise
    <3>2. /\ pc'[p] = "read" /\ goal'[p] = "failed"
          /\ UNCHANGED <<row, calls, run, attempt, answer>>
      BY <1>6, <2>3 DEF Raise, TypeOK, database
    <3> QED
      BY <1>6, <2>3, <3>1, <3>2
         DEF TracedTurn, Numbered, EndsWith, TERMINAL_STATES, Retryable, Timeout
  <2> QED
    BY <2>1, <2>2, <2>3
<1>7. ASSUME NEW p \in Procs, NEW n \in Runs, BeginTurn(p, n)
      PROVE  TracedTurn(q, r)'
  <2>1. CASE q # p
    BY <1>7, <2>1, TracedUnmoved DEF BeginTurn, Goto, TypeOK
  <2>2. CASE q = p
    <3>1. /\ n = r /\ row[r] = Absent /\ row'[r] = Received
          /\ pc'[p] = "read" /\ goal'[p] = "context_building"
          /\ attempt'[p] = 0 /\ answer'[p] = "none" /\ calls' = calls
      BY <1>7, <2>2 DEF BeginTurn, Goto, TypeOK, Control
    <3>2. ~Exists(r)
      BY <3>1 DEF Exists, Absent, RunState
    <3>3. Numbered(r, 0)
      BY <3>2 DEF TracedRun, Explained
    <3> QED
      BY <2>2, <3>1, <3>3
         DEF TracedTurn, Numbered, EndsWith, TERMINAL_STATES, Received, Absent,
             Errors, Retryable, Fatal, Timeout
  <2> QED
    BY <2>1, <2>2
<1>8. ASSUME NEW p \in Procs, q = p, run'[p] = run[p],
             pc[p] # "record", pc'[p] \notin {"record", "return"}, calls' = calls,
             row'[r].state # "complete", row'[r].failure \notin Errors,
             UNCHANGED <<run, attempt, answer>>,
             \/ goal'[p] = goal[p]
             \/ goal'[p] = "model_calling" /\ goal[p] \in {"context_building", "model_retry_wait"}
      PROVE  TracedTurn(q, r)'
  BY <1>8 DEF TracedTurn, Numbered, EndsWith, TERMINAL_STATES
<1>9. ASSUME NEW p \in Procs, ReadRun(p) \/ BuildContext(p) \/ Sleep(p)
      PROVE  TracedTurn(q, r)'
  <2>1. CASE q # p
    BY <1>9, <2>1, TracedUnmoved DEF ReadRun, BuildContext, Sleep, Goto, turn, TypeOK
  <2>2. CASE q = p
    <3>1. TracedTurn(p, r) /\ UNCHANGED <<row, calls, run, attempt, answer>>
      BY <1>9, <2>2 DEF ReadRun, BuildContext, Sleep, turn, database
    <3>2. /\ pc[p] \in {"read", "build", "sleep"}
          /\ pc'[p] \in {"write", "read"}
          /\ \/ goal'[p] = goal[p]
             \/ /\ goal'[p] = "model_calling"
                /\ goal[p] \in {"context_building", "model_retry_wait"}
      BY <1>9 DEF ReadRun, BuildContext, Sleep, turn, Goto, TypeOK, Control
    <3> QED
      BY <1>8, <2>2, <3>1, <3>2 DEF TracedTurn
  <2> QED
    BY <2>1, <2>2
<1>10. ASSUME NEW p \in Procs, WriteState(p)
       PROVE  TracedTurn(q, r)'
  <2>1. CASE q # p
    BY <1>10, <2>1, TracedUnmoved DEF WriteState, Goto, turn, TypeOK
  <2>2. CASE q = p
    <3>1. /\ TracedTurn(p, r) /\ run[p] = r
          /\ UNCHANGED <<calls, run, goal, attempt, answer>>
      BY <1>10, <2>2 DEF WriteState, turn
    <3>2. pc[p] = "write" /\ pc'[p] \in {"build", "model", "sleep"}
      BY <1>10 DEF WriteState, AfterWrite, Goto, TypeOK
    <3>3. goal[p] \notin TERMINAL_STATES
      BY <1>10 DEF WriteState, OBSERVABILITY_STATES
    <3>4. row'[r].state # "complete" /\ row'[r].failure = row[r].failure
      BY <1>10, <3>1, <3>2, <3>3, PlainWriteFields, WrittenFields
    <3> QED
      BY <1>8, <2>2, <3>1, <3>2, <3>4 DEF TracedTurn
  <2> QED
    BY <2>1, <2>2
<1>11. ASSUME NEW p \in Procs, WriteFailure(p) \/ CommitReply(p)
       PROVE  TracedTurn(q, r)'
  <2>1. CASE q # p
    BY <1>11, <2>1, TracedUnmoved DEF WriteFailure, CommitReply, Goto, turn, TypeOK
  <2>2. CASE q = p
    <3>1. /\ TracedTurn(p, r) /\ run[p] = r
          /\ UNCHANGED <<calls, run, goal, attempt, answer>>
          /\ pc[p] = "write" /\ pc'[p] = "return"
      BY <1>11, <2>2 DEF WriteFailure, CommitReply, turn, Goto, TypeOK
    <3>2. goal[p] \in TERMINAL_STATES \cup {"responding"}
      BY <1>11 DEF WriteFailure, CommitReply
    <3> QED
      BY <2>2, <3>1, <3>2 DEF TracedTurn, Numbered, EndsWith, TERMINAL_STATES
  <2> QED
    BY <2>1, <2>2
<1>12. ASSUME NEW p \in Procs, NEW a \in Answers, CallModel(p, a)
       PROVE  TracedTurn(q, r)'
  <2>1. CASE q # p
    BY <1>12, <2>1, TracedUnmoved DEF CallModel, Goto, TypeOK
  <2>2. CASE q = p
    <3>1. /\ TracedTurn(p, r) /\ run[p] = r
          /\ pc[p] = "model" /\ goal[p] = "model_calling" /\ pc'[p] = "record"
          /\ attempt'[p] = attempt[p] + 1 /\ answer'[p] = a
          /\ UNCHANGED <<row, calls, run, goal>>
      BY <1>12, <2>2 DEF CallModel, Goto, TypeOK, Control, database
    <3>2. /\ attempt[p] \in Nat /\ attempt[p] < MaxAttempts
          /\ answer[p] \in Retryable \cup {"none"}
          /\ attempt[p] = 0 <=> answer[p] = "none"
          /\ Numbered(r, attempt[p])
          /\ attempt[p] > 0 => EndsWith(r, attempt[p], answer[p])
      BY <3>1 DEF TracedTurn
    <3>3. \A c \in calls[r] : c.answer \in Retryable
      BY <3>2, EarlierRetryable
    <3>4. /\ attempt'[p] \in 0..MaxAttempts /\ attempt'[p] - 1 = attempt[p]
          /\ attempt'[p] # 0 /\ answer'[p] # "none"
      BY <3>1, <3>2 DEF Answers, Errors, Retryable, Fatal, Timeout
    <3> QED
      BY <2>2, <3>1, <3>2, <3>3, <3>4 DEF TracedTurn, Numbered, TERMINAL_STATES
  <2> QED
    BY <2>1, <2>2
<1>13. ASSUME NEW p \in Procs, RecordCall(p)
       PROVE  TracedTurn(q, r)'
  <2>1. CASE q # p
    BY <1>13, <2>1, TracedUnmoved DEF RecordCall, Goto, TypeOK
  <2>2. CASE q = p
    <3>1. run[p] = r
      BY <1>13, <2>2, RecordedCall DEF RecordCall
    <3>2. /\ attempt[p] \in 1..MaxAttempts /\ answer[p] \in Answers
          /\ pc'[p] = "read" /\ UNCHANGED <<attempt, answer>>
          /\ Numbered(r, attempt[p])' /\ EndsWith(r, attempt[p], answer[p])'
          /\ row'[r].state # "complete" /\ row'[r].failure \notin Errors
          /\ goal'[p] = NextGoal(p)
      BY <1>13, <3>1, RecordedCall
    <3>3. answer[p] # "none"
      BY <3>2 DEF Answers, Errors, Retryable, Fatal, Timeout
    <3>4. CASE answer[p] = "ok"
      BY <2>2, <3>2, <3>3, <3>4 DEF TracedTurn, NextGoal, TERMINAL_STATES
    <3>5. CASE answer[p] # "ok" /\ WillRetry(p)
      <4>1. answer[p] \in Retryable /\ attempt[p] < MaxAttempts
        BY <3>5 DEF WillRetry
      <4> QED
        BY <2>2, <3>2, <3>3, <3>5, <4>1 DEF TracedTurn, NextGoal, TERMINAL_STATES
    <3>6. CASE answer[p] # "ok" /\ ~WillRetry(p)
      <4>1. answer[p] \in Errors /\ (answer[p] \in Retryable => attempt[p] = MaxAttempts)
        BY <3>2, <3>6 DEF WillRetry, Answers
      <4> QED
        BY <2>2, <3>2, <3>3, <3>6, <4>1 DEF TracedTurn, NextGoal, TERMINAL_STATES
    <3> QED
      BY <3>4, <3>5, <3>6
  <2> QED
    BY <2>1, <2>2
<1>14. ASSUME NEW n \in Runs, Age(n)
       PROVE  TracedTurn(q, r)'
  BY <1>14, TracedUnmoved DEF Age, turn
<1> QED
  BY <1>3, <1>4, <1>5, <1>6, <1>7, <1>9, <1>10, <1>11, <1>12, <1>13, <1>14
     DEF Next, SweepStep, TurnStep, SweepAbort, ReadRefused, WriteRefused, DbError, Stop

-----------------------------------------------------------------------------
(* One run: what its calls say of its row stays, and is there when it is    *)
(* closed.                                                                 *)

\* A row and calls that a step leaves alone stay explained.
LEMMA TracedRunFrame ==
  ASSUME TraceInv, NEW r \in Runs, row'[r] = row[r], calls'[r] = calls[r]
  PROVE  TracedRun(r)'
<1>1. PICK n \in 0..MaxAttempts : Numbered(r, n) /\ Explained(r, n)
  BY DEF TraceInv, TracedRun
<1>2. Numbered(r, n)' /\ Explained(r, n)'
  BY <1>1 DEF Numbered, Explained, EndsWith, Exists
<1> QED
  BY <1>2 DEF TracedRun

\* Every write of a row agrees with the calls of its run.
LEMMA TracedRunStep ==
  ASSUME TraceInv, Next, NEW r \in Runs
  PROVE  TracedRun(r)'
<1> USE DEF TraceInv, BaseInv
<1> USE RuntimeAssumption
<1>0. Exists(r) => Exists(r)'
  BY RowKept
<1>1. CASE row'[r] = row[r] /\ calls'[r] = calls[r]
  BY <1>1, TracedRunFrame
<1>2. ASSUME NEW p \in Procs, SweepCommit(p)
      PROVE  TracedRun(r)'
  <2>1. calls'[r] = calls[r]
    BY <1>2 DEF SweepCommit
  <2>2. CASE r \notin held[p]
    BY <1>2, <2>1, <2>2, TracedRunFrame, SweptFields
  <2>3. CASE r \in held[p]
    <3>1. PICK n \in 0..MaxAttempts : Numbered(r, n)
      BY DEF TracedRun
    <3>2. row'[r].state = "failed" /\ row'[r].failure = "orphaned" /\ Exists(r)'
      BY <1>2, <2>3, SweptFields DEF Exists, RunState
    <3>3. Explained(r, n)'
      BY <3>2 DEF Explained, Errors, Retryable, Fatal, Timeout
    <3>4. Numbered(r, n)'
      BY <2>1, <3>1, NumberedFrame
    <3> QED
      BY <3>3, <3>4 DEF TracedRun
  <2> QED
    BY <2>2, <2>3
<1>3. ASSUME NEW p \in Procs, NEW m \in Runs, BeginTurn(p, m)
      PROVE  TracedRun(r)'
  <2>1. calls'[r] = calls[r]
    BY <1>3 DEF BeginTurn
  <2>2. CASE m # r
    BY <1>3, <2>1, <2>2, TracedRunFrame DEF BeginTurn, TypeOK
  <2>3. CASE m = r
    <3>1. row[r] = Absent /\ row'[r] = Received
      BY <1>3, <2>3 DEF BeginTurn, TypeOK
    <3>2. Numbered(r, 0)
      BY <3>1 DEF TracedRun, Explained, Exists, Absent, RunState
    <3>3. Numbered(r, 0)'
      BY <2>1, <3>2, NumberedFrame
    <3>4. Explained(r, 0)'
      BY <3>1 DEF Explained, Received, Absent, Errors, Retryable, Fatal, Timeout
    <3> QED
      BY <3>3, <3>4 DEF TracedRun
  <2> QED
    BY <2>2, <2>3
<1>4. ASSUME NEW p \in Procs, run[p] = r, WriteState(p)
      PROVE  TracedRun(r)'
  <2>1. PICK n \in 0..MaxAttempts : Numbered(r, n)
    BY DEF TracedRun
  <2>2. calls'[r] = calls[r] /\ pc[p] = "write" /\ goal[p] \notin TERMINAL_STATES
    BY <1>4 DEF WriteState, Goto, OBSERVABILITY_STATES
  <2>3. /\ Written(p).done = row[r].done /\ Written(p).failure = row[r].failure
        /\ Written(p).state = goal[p] /\ CheckHolds(Written(p)) /\ row'[r] = Written(p)
        /\ goal[p] \in RunState
    BY <1>4, <2>2, WrittenFields, PlainWriteFields
  <2>4. row[r].failure = "none"
    BY <2>2, <2>3 DEF CheckHolds, Settled, Terminal
  <2>5. Explained(r, n)'
    BY <2>2, <2>3, <2>4
       DEF Explained, Exists, TERMINAL_STATES, Errors, Retryable, Fatal, Timeout
  <2>6. Numbered(r, n)'
    BY <2>1, <2>2, NumberedFrame
  <2> QED
    BY <2>5, <2>6 DEF TracedRun
<1>5. ASSUME NEW p \in Procs, run[p] = r, WriteFailure(p)
      PROVE  TracedRun(r)'
  <2>1. /\ calls'[r] = calls[r] /\ pc[p] = "write" /\ goal[p] \in TERMINAL_STATES
        /\ TracedTurn(p, r)
    BY <1>5 DEF WriteFailure, Goto
  <2>2. /\ row'[r] = Written(p) /\ Written(p).state = goal[p]
        /\ goal[p] \in RunState \ {"received", "complete"}
    BY <1>5, PlainWriteFields
  <2>3. Written(p).failure = IF answer[p] = "none" THEN "context_error" ELSE answer[p]
    BY <2>1 DEF Written, Finished
  <2>4. PICK n \in 0..MaxAttempts, a \in {answer[p]} : n = attempt[p] /\ a = answer[p]
    BY <2>1 DEF TracedTurn
  <2>5. /\ Numbered(r, n)
        /\ n > 0 => EndsWith(r, n, a)
        /\ n = 0 <=> a = "none"
        /\ a \in Retryable => n = MaxAttempts
        /\ goal[p] = "timed_out" <=> a = Timeout
    BY <2>1, <2>4 DEF TracedTurn
  <2>6. Numbered(r, n)'
    BY <2>1, <2>5, NumberedFrame
  <2>7. n > 0 => EndsWith(r, n, a)'
    BY <2>1, <2>5 DEF EndsWith
  <2>8. /\ row'[r].state = goal[p]
        /\ row'[r].failure = IF a = "none" THEN "context_error" ELSE a
        /\ Exists(r)'
    BY <2>2, <2>3, <2>4 DEF Exists
  <2>9. Explained(r, n)'
    <3>1. CASE a = "none"
      BY <2>2, <2>5, <2>8, <3>1 DEF Explained, Errors, Retryable, Fatal, Timeout
    <3>2. CASE a # "none"
      <4>1. EndsWith(r, n, row[r].failure)'
        BY <2>5, <2>7, <2>8, <3>2 DEF EndsWith
      <4> QED
        BY <2>2, <2>5, <2>8, <3>2, <4>1 DEF Explained
    <3> QED
      BY <3>1, <3>2
  <2> QED
    BY <2>6, <2>9 DEF TracedRun
<1>6. ASSUME NEW p \in Procs, run[p] = r, CommitReply(p)
      PROVE  TracedRun(r)'
  <2>1. /\ calls'[r] = calls[r] /\ pc[p] = "write" /\ goal[p] = "responding"
        /\ TracedTurn(p, r)
    BY <1>6 DEF CommitReply, Goto
  <2>2. /\ row[r].done = 0 /\ row'[r].state = "complete"
        /\ row'[r].failure = row[r].failure
    BY <1>6, CommittedFields
  <2>3. row[r].failure = "none"
    BY <2>2 DEF CheckHolds, Settled, Terminal
  <2>4. PICK n \in 0..MaxAttempts : n = attempt[p]
    BY <2>1 DEF TracedTurn
  <2>5. Numbered(r, n) /\ EndsWith(r, n, "ok")
    BY <2>1, <2>4 DEF TracedTurn
  <2>6. Numbered(r, n)' /\ EndsWith(r, n, "ok")'
    BY <2>1, <2>5, NumberedFrame, EndsWithFrame
  <2>7. Explained(r, n)'
    BY <2>2, <2>3, <2>6
       DEF Explained, Exists, RunState, Errors, Retryable, Fatal, Timeout
  <2> QED
    BY <2>6, <2>7 DEF TracedRun
<1>7. ASSUME NEW p \in Procs, run[p] = r, RecordCall(p)
      PROVE  TracedRun(r)'
  <2>1. /\ attempt[p] \in 1..MaxAttempts /\ UNCHANGED attempt
        /\ Numbered(r, attempt[p])'
        /\ row'[r].state = row[r].state /\ row'[r].failure = row[r].failure
        /\ row[r].state # "complete" /\ row[r].failure \notin Errors
    BY <1>7, RecordedCall
  <2>2. PICK n \in 0..MaxAttempts : n = attempt[p]
    BY <2>1
  <2>3. Numbered(r, n)'
    BY <2>1, <2>2
  <2>4. Exists(r)'
    BY <1>0, <1>7 DEF Driving
  <2>5. row[r].state = "timed_out" <=> row[r].failure = Timeout
    BY DEF TracedRun, Explained
  <2>6. Explained(r, n)'
    BY <2>1, <2>4, <2>5 DEF Explained
  <2> QED
    BY <2>3, <2>6 DEF TracedRun
<1>8. ASSUME NEW p \in Procs, run[p] # r,
             WriteState(p) \/ WriteFailure(p) \/ CommitReply(p) \/ RecordCall(p)
      PROVE  row'[r] = row[r] /\ calls'[r] = calls[r]
  <2>1. row'[r] = row[r]
    BY <1>8, PlainWriteFields, CommittedFields, RecordedFields
  <2>2. calls'[r] = calls[r]
    BY <1>8 DEF WriteState, WriteFailure, CommitReply, RecordCall, TypeOK
  <2> QED
    BY <2>1, <2>2
<1> QED
  BY <1>1, <1>2, <1>3, <1>4, <1>5, <1>6, <1>7, <1>8
     DEF Next, SweepStep, TurnStep, Boot, BootUnchecked, SweepSelect, SweepUpdate,
         SweepAbort, ReadRun, ReadRefused, WriteRefused, BuildContext, CallModel,
         Sleep, Return, DbError, Stop, Age, database

\* The inductive invariant of the trace, in every deployment.
THEOREM TraceInvariant == Spec => []TraceInv
<1>1. Init => TraceInv
  <2> SUFFICES ASSUME Init PROVE TraceInv
    OBVIOUS
  <2> USE RuntimeAssumption
  <2>1. BaseInv
    BY InitBase
  <2>2. \A p \in Procs, r \in Runs : run[p] # r
    BY DEF Init
  <2>3. ASSUME NEW r \in Runs PROVE TracedRun(r)
    <3>1. Numbered(r, 0)
      BY DEF Init, Numbered
    <3>2. Explained(r, 0)
      BY DEF Init, Explained, Absent, Errors, Retryable, Fatal, Timeout
    <3> QED
      BY <3>1, <3>2 DEF TracedRun
  <2> QED
    BY <2>1, <2>2, <2>3 DEF TraceInv
<1>2. TraceInv /\ Next => TraceInv'
  <2> SUFFICES ASSUME TraceInv, Next PROVE TraceInv'
    OBVIOUS
  <2>1. BaseInv'
    BY TypeStep, ControlStep, DrivingStep, SettledStep, ToldStep DEF BaseInv, TraceInv
  <2>2. \A p \in Procs, r \in Runs : run'[p] = r => TracedTurn(p, r)'
    BY TracedTurnStep
  <2>3. \A r \in Runs : TracedRun(r)'
    BY TracedRunStep
  <2> QED
    BY <2>1, <2>2, <2>3 DEF TraceInv
<1>3. TraceInv /\ UNCHANGED vars => TraceInv'
  <2> SUFFICES ASSUME TraceInv, UNCHANGED vars PROVE TraceInv'
    OBVIOUS
  <2>1. BaseInv'
    BY BaseStutter DEF TraceInv
  <2>2. \A r \in Runs : TracedRun(r)'
    BY TracedRunFrame DEF vars, database
  <2>3. ASSUME NEW p \in Procs, NEW r \in Runs, run'[p] = r PROVE TracedTurn(p, r)'
    BY <2>3 DEF TraceInv, TracedTurn, Numbered, EndsWith, vars, database, turn
  <2> QED
    BY <2>1, <2>2, <2>3 DEF TraceInv
<1> QED
  BY <1>1, <1>2, <1>3, PTL DEF Spec

-----------------------------------------------------------------------------
(* What the invariant says.                                                *)

\* Calls numbered 1..n are n calls, and the one numbered n is the last.
LEMMA NumberedCount ==
  ASSUME NEW r \in Runs, NEW n \in Nat, Numbered(r, n)
  PROVE  Cardinality(calls[r]) = n /\ {c.step : c \in calls[r]} = 1..n
<1> DEFINE f == [k \in 1..n |-> CHOOSE c \in calls[r] : c.step = k]
<1>1. \A k \in 1..n : f[k] \in calls[r] /\ f[k].step = k
  BY DEF Numbered
<1>2. f \in [1..n -> calls[r]]
  BY <1>1
<1>3. \A c \in calls[r] : c.step \in 1..n /\ f[c.step] = c
  BY <1>1 DEF Numbered
<1> HIDE DEF f
<1>4. f \in Bijection(1..n, calls[r])
  <2>1. f \in Injection(1..n, calls[r])
    BY <1>1, <1>2 DEF Injection, IsInjective
  <2>2. f \in Surjection(1..n, calls[r])
    BY <1>2, <1>3 DEF Surjection
  <2> QED
    BY <2>1, <2>2 DEF Bijection
<1>5. Cardinality(calls[r]) = n
  BY <1>4, FS_CountingElements DEF ExistsBijection
<1>6. {c.step : c \in calls[r]} = 1..n
  BY DEF Numbered
<1> QED
  BY <1>5, <1>6

\* The call EndsWith speaks of is the last one.
LEMMA EndsWithLast ==
  ASSUME NEW r \in Runs, NEW n \in Nat, NEW a, Numbered(r, n), EndsWith(r, n, a)
  PROVE  \E c \in calls[r] : LastCall(r, c) /\ c.step = n /\ c.answer = a
  BY DEF Numbered, EndsWith, LastCall

\* The attempts of a run are numbered 1, 2, 3 ... up to llm_max_attempts at
\* most, and only the last may be a success or a fatal error, in every
\* deployment (runtime.py _call_with_retries, _record_call).
THEOREM CallsDense == Spec => []CallsAreDense
<1>1. TraceInv => CallsAreDense
  <2> SUFFICES ASSUME TraceInv, NEW r \in Runs
               PROVE  LET n == Cardinality(calls[r]) IN
                      /\ n <= MaxAttempts
                      /\ {c.step : c \in calls[r]} = 1..n
                      /\ \A c \in calls[r] : c.step < n => c.answer \in Retryable
    BY DEF CallsAreDense
  <2>1. PICK n \in 0..MaxAttempts : Numbered(r, n)
    BY DEF TraceInv, TracedRun
  <2>2. Cardinality(calls[r]) = n /\ {c.step : c \in calls[r]} = 1..n
    BY <2>1, NumberedCount
  <2> QED
    BY <2>1, <2>2, RuntimeAssumption DEF Numbered
<1> QED
  BY <1>1, TraceInvariant, PTL

\* A run in COMPLETE has one reply and a successful last call, in every
\* deployment, sweeps of live turns included (runtime.py:35-39).
THEOREM CompleteExplained == Spec => []CompleteIsExplained
<1>1. TraceInv => CompleteIsExplained
  <2> SUFFICES ASSUME TraceInv, NEW r \in Runs, row[r].state = "complete"
               PROVE  /\ reply[r] = 1 /\ row[r].failure = "none"
                      /\ \E c \in calls[r] : LastCall(r, c) /\ c.answer = "ok"
    BY DEF CompleteIsExplained
  <2>1. reply[r] = 1 /\ row[r].failure = "none"
    BY DEF TraceInv, BaseInv, Settled
  <2>2. PICK n \in 0..MaxAttempts : Numbered(r, n) /\ EndsWith(r, n, "ok")
    BY DEF TraceInv, TracedRun, Explained
  <2> QED
    BY <2>1, <2>2, EndsWithLast
<1> QED
  BY <1>1, TraceInvariant, PTL

\* A run closed by a model error names the error of its last call and was not
\* given up early; TIMED_OUT is exactly the timeout (runtime.py _drive).
THEOREM FailureExplained == Spec => []FailureIsExplained
<1>1. TraceInv => FailureIsExplained
  <2> SUFFICES ASSUME TraceInv, NEW r \in Runs
               PROVE  /\ row[r].failure \in Errors =>
                           \E c \in calls[r] :
                             /\ LastCall(r, c)
                             /\ c.answer = row[r].failure
                             /\ c.answer \in Retryable => c.step = MaxAttempts
                      /\ row[r].state = "timed_out" <=> row[r].failure = Timeout
    BY DEF FailureIsExplained
  <2>1. PICK n \in 0..MaxAttempts : Numbered(r, n) /\ Explained(r, n)
    BY DEF TraceInv, TracedRun
  <2>2. ASSUME row[r].failure \in Errors
        PROVE  \E c \in calls[r] :
                 /\ LastCall(r, c)
                 /\ c.answer = row[r].failure
                 /\ c.answer \in Retryable => c.step = MaxAttempts
    <3>1. /\ EndsWith(r, n, row[r].failure)
          /\ row[r].failure \in Retryable => n = MaxAttempts
      BY <2>1, <2>2 DEF Explained
    <3>2. \E c \in calls[r] : LastCall(r, c) /\ c.step = n /\ c.answer = row[r].failure
      BY <2>1, <3>1 DEF Numbered, EndsWith, LastCall
    <3> QED
      BY <3>1, <3>2
  <2> QED
    BY <2>1, <2>2 DEF Explained
<1> QED
  BY <1>1, TraceInvariant, PTL

-----------------------------------------------------------------------------
(* The cost of a run.  The sum is recursive; Induction_proofs has what the *)
(* next call adds to it.                                                   *)

CostOfRun(r) == IsFiniteSet(calls[r]) /\ row[r].cost = TotalCost(calls[r])

CostInv == \A r \in Runs : CostOfRun(r)

\* A write of a row by anything but RecordCall keeps its cost.
LEMMA CostFrame ==
  ASSUME TraceInv, Next, NEW r \in Runs,
         \A p \in Procs : RecordCall(p) => run[p] # r
  PROVE  row'[r].cost = row[r].cost /\ calls'[r] = calls[r]
<1> USE DEF TraceInv, BaseInv
<1>1. calls'[r] = calls[r]
  BY CallsFrame
<1>2. row[r] \in Row
  BY DEF TypeOK
<1>3. ASSUME NEW p \in Procs, SweepCommit(p)
      PROVE  row'[r].cost = row[r].cost
  BY <1>3 DEF SweepCommit, Finished
<1>4. ASSUME NEW p \in Procs, NEW n \in Runs, BeginTurn(p, n)
      PROVE  row'[r].cost = row[r].cost
  BY <1>4 DEF BeginTurn, TypeOK, Received, Absent
<1>5. ASSUME NEW p \in Procs, run[p] = r, pc[p] = "write"
      PROVE  Written(p).cost = row[r].cost
  BY <1>2, <1>5 DEF Written, Finished, Row
<1>6. ASSUME NEW p \in Procs, WriteState(p) \/ WriteFailure(p)
      PROVE  row'[r].cost = row[r].cost
  BY <1>5, <1>6, PlainWriteFields DEF WriteState, WriteFailure, Goto
<1>7. ASSUME NEW p \in Procs, CommitReply(p)
      PROVE  row'[r].cost = row[r].cost
  <2>1. pc[p] = "write" /\ run[p] \in Runs
    BY <1>7, CommittedFields DEF CommitReply, Goto
  <2>2. CASE run[p] # r
    BY <1>7, <2>2, CommittedFields
  <2>3. CASE run[p] = r
    <3>1. row'[r] = Finished(Written(p), "complete", Written(p).failure)
      BY <1>7, <2>3 DEF CommitReply, TypeOK
    <3> QED
      BY <1>5, <2>1, <2>3, <3>1 DEF Finished
  <2> QED
    BY <2>2, <2>3
<1>8. ASSUME NEW p \in Procs, RecordCall(p)
      PROVE  row'[r].cost = row[r].cost
  BY <1>8, RecordedFields
<1>9. ASSUME UNCHANGED row PROVE row'[r].cost = row[r].cost
  BY <1>9
<1>10. row'[r].cost = row[r].cost
  BY <1>3, <1>4, <1>6, <1>7, <1>8, <1>9
     DEF Next, SweepStep, TurnStep, Boot, BootUnchecked, SweepSelect, SweepUpdate,
         SweepAbort, ReadRun, ReadRefused, WriteRefused, BuildContext, CallModel,
         Sleep, Return, DbError, Stop, Age, database
<1> QED
  BY <1>1, <1>10

\* The recorded call is a new one, and its cost is added with it.
LEMMA CostRecorded ==
  ASSUME TraceInv, NEW p \in Procs, RecordCall(p), NEW r \in Runs, run[p] = r,
         CostOfRun(r)
  PROVE  CostOfRun(r)'
<1> USE DEF TraceInv, BaseInv
<1> USE RuntimeAssumption
<1>1. PICK c \in IF answer[p] = "ok" THEN Costs ELSE {0} :
        /\ calls' = [calls EXCEPT ![run[p]] = @ \cup {CallRecord(p, c)}]
        /\ row'   = [row EXCEPT ![run[p]].cost = @ + c]
  BY DEF RecordCall
<1>2. PICK d : d = CallRecord(p, c)
  OBVIOUS
<1>3. c \in Nat /\ d.cost = c /\ d.step = attempt[p]
  BY <1>1, <1>2 DEF CallRecord
<1>4. calls'[r] = calls[r] \cup {d} /\ row'[r].cost = row[r].cost + c
  BY <1>1, <1>2 DEF TypeOK, Row
<1>5. pc[p] = "record" /\ TracedTurn(p, r)
  BY DEF RecordCall, Goto
<1>6. d \notin calls[r]
  <2>1. attempt[p] \in Nat /\ \A e \in calls[r] : e.step \in 1..(attempt[p] - 1)
    BY <1>5 DEF TracedTurn, Numbered
  <2> QED
    BY <1>3, <2>1
<1>7. \A e \in calls[r] \cup {d} : e.cost \in Nat
  BY <1>3 DEF TypeOK, Call
<1>8. PICK old \in SUBSET Call : old = calls[r]
  BY DEF TypeOK
<1>9. IsFiniteSet(old) /\ row[r].cost = TotalCost(old)
  BY <1>8 DEF CostOfRun
<1>10. IsFiniteSet(old \cup {d}) /\ TotalCost(old \cup {d}) = TotalCost(old) + d.cost
  BY <1>6, <1>7, <1>8, <1>9, TotalAdd
<1>11. IsFiniteSet(calls'[r]) /\ row'[r].cost = TotalCost(calls'[r])
  BY <1>3, <1>4, <1>8, <1>9, <1>10
<1> QED
  BY <1>11 DEF CostOfRun

\* total_cost_micros is the sum over the run's llm_calls in every deployment:
\* when a run is swept while its turn is alive, when a turn crashes between
\* two calls, and when it is closed before its call was recorded
\* (runtime.py _record_call, repository.py record_llm_call).
THEOREM CostRolledUp == Spec => []CostIsRolledUp
<1>1. Init => CostInv
  <2> SUFFICES ASSUME Init, NEW r \in Runs PROVE CostOfRun(r)
    BY DEF CostInv
  <2>1. calls[r] = {} /\ row[r].cost = 0
    BY DEF Init, Absent
  <2>2. IsFiniteSet(calls[r])
    BY <2>1, FS_EmptySet
  <2>3. TotalCost(calls[r]) = 0
    BY <2>1, TotalEmpty
  <2> QED
    BY <2>1, <2>2, <2>3 DEF CostOfRun
<1>2. TraceInv /\ CostInv /\ Next => CostInv'
  <2> SUFFICES ASSUME TraceInv, CostInv, Next, NEW r \in Runs PROVE CostOfRun(r)'
    BY DEF CostInv
  <2>1. CASE \E p \in Procs : RecordCall(p) /\ run[p] = r
    BY <2>1, CostRecorded DEF CostInv
  <2>2. CASE ~ \E p \in Procs : RecordCall(p) /\ run[p] = r
    <3>1. row'[r].cost = row[r].cost /\ calls'[r] = calls[r]
      BY <2>2, CostFrame
    <3> QED
      BY <3>1 DEF CostInv, CostOfRun
  <2> QED
    BY <2>1, <2>2
<1>3. CostInv /\ UNCHANGED vars => CostInv'
  BY DEF CostInv, CostOfRun, vars, database
<1>4. CostInv => CostIsRolledUp
  BY DEF CostInv, CostOfRun, CostIsRolledUp, TotalCost
<1> QED
  BY <1>1, <1>2, <1>3, <1>4, TraceInvariant, PTL DEF Spec
=============================================================================
