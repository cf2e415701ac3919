---------------------------- MODULE AgentRuntime ----------------------------
(***************************************************************************)
(* One user message in, one persisted answer out: the turn that            *)
(* app/agent/runtime.py drives, the rows app/agent/repository.py writes    *)
(* for it and the boot-time sweep of app/agent/reaper.py, for any number   *)
(* of processes that share one database.                                   *)
(*                                                                         *)
(* The grain is one database statement or one call that leaves the         *)
(* process.  A transaction that reads a run and then updates it by primary *)
(* key is two steps (ReadRun, then a write): PostgreSQL runs it at READ    *)
(* COMMITTED, so another transaction may commit in between, and the update *)
(* overwrites whatever row it then finds.  An update waits while a sweep   *)
(* holds the row.                                                          *)
(***************************************************************************)
EXTENDS RunStates, Integers, FiniteSets, FiniteSetsExt

CONSTANTS
  Procs,        \* processes: CLI sessions and API servers on one database
  Runs,         \* identities of agent_runs rows
  NoRun,        \* "this process drives no run"
  MaxAttempts,  \* settings.llm_max_attempts
  Costs,        \* prices a successful call may be recorded with, in micros
  LongTurns     \* may a live turn outlast settings.orphan_run_after_s?

ASSUME RuntimeAssumption ==
  /\ NoRun \notin Runs
  /\ MaxAttempts \in Nat \ {0}
  /\ Costs \subseteq Nat
  /\ 0 \in Costs            \* a model without a rate is stored as 0
  /\ LongTurns \in BOOLEAN

VARIABLES
  \* The database.
  row,      \* row[r]: the agent_runs row of run r
  calls,    \* calls[r]: the llm_calls rows of run r
  reply,    \* reply[r]: how many assistant messages carry run_id = r
  stale,    \* open runs with started_at older than the sweep's cutoff
  \* What the owner has seen of each run.
  shown,
  \* The processes.
  pc,       \* what the process does next
  run,      \* the run it drives
  goal,     \* the state it is writing, or wrote last, in that run
  attempt,  \* the loop variable of _call_with_retries
  answer,   \* how the last model call of the turn ended
  work,     \* rows its sweep selected and has not updated yet
  held      \* rows its uncommitted sweep updated, and so has locked

database == <<row, calls, reply>>
turn     == <<run, goal, attempt, answer>>
sweep    == <<work, held>>
vars     == <<database, stale, shown, pc, turn, sweep>>

Timeout   == "LLMTimeout"
Retryable == {Timeout, "LLMUnavailable"}       \* and LLMRateLimited
Fatal     == {"LLMAuthError"}                  \* and every other LLMError
Errors    == Retryable \cup Fatal
Answers   == {"ok"} \cup Errors

Absent   == [state |-> "absent", done |-> 0, failure |-> "none", cost |-> 0]
Received == [Absent EXCEPT !.state = "received"]

Exists(r)   == row[r].state \in RunState
Open(r)     == row[r].state \in OBSERVABILITY_STATES
Terminal(r) == row[r].state \in TERMINAL_STATES
Locked(r)   == \E q \in Procs : r \in held[q]

\* Mutant: a table without the CHECK.
CheckHolds_Always(new) == TRUE

\* CHECK terminal_iff_completed, for the row an update would leave behind.
CheckHolds(new) == (new.state \in TERMINAL_STATES) <=> (new.done > 0)

\* transition() writes a terminal state together with completed_at, whose
\* value is abstracted to the number of times it was assigned (0 is NULL).
Finished(old, state, failure) ==
  [state |-> state, done |-> old.done + 1, failure |-> failure, cost |-> old.cost]

Init ==
  /\ row     = [r \in Runs |-> Absent]
  /\ calls   = [r \in Runs |-> {}]
  /\ reply   = [r \in Runs |-> 0]
  /\ stale   = {}
  /\ shown   = [r \in Runs |-> "nothing"]
  /\ pc      = [p \in Procs |-> "down"]
  /\ run     = [p \in Procs |-> NoRun]
  /\ goal    = [p \in Procs |-> "none"]
  /\ attempt = [p \in Procs |-> 0]
  /\ answer  = [p \in Procs |-> "none"]
  /\ work    = [p \in Procs |-> {}]
  /\ held    = [p \in Procs |-> {}]

Goto(p, from, to) == pc[p] = from /\ pc' = [pc EXCEPT ![p] = to]

\* The process leaves the turn: its locals are gone.
Forget(p) ==
  /\ run'     = [run EXCEPT ![p] = NoRun]
  /\ goal'    = [goal EXCEPT ![p] = "none"]
  /\ attempt' = [attempt EXCEPT ![p] = 0]
  /\ answer'  = [answer EXCEPT ![p] = "none"]

\* Nothing above handle_user_message or startup catches an exception that
\* keeps the process alive: it ends, and its open transaction rolls back.
Down(p) ==
  /\ pc'   = [pc EXCEPT ![p] = "down"]
  /\ Forget(p)
  /\ work' = [work EXCEPT ![p] = {}]
  /\ held' = [held EXCEPT ![p] = {}]

\* Mutant: an error is reported as a failed turn without closing the run.
Raise_Reports(p) ==
  /\ pc' = [pc EXCEPT ![p] = "return"]
  /\ UNCHANGED <<turn, sweep>>

\* Only _build runs under `except Exception`: there an error turns into
\* _terminate(FAILED, "context_error").  Elsewhere it escapes the turn.
Raise(p) ==
  IF goal[p] = "context_building"
  THEN /\ goal' = [goal EXCEPT ![p] = "failed"]
       /\ pc'   = [pc EXCEPT ![p] = "read"]
       /\ UNCHANGED <<run, attempt, answer, sweep>>
  ELSE Down(p)

-----------------------------------------------------------------------------
(* Boot: Container.startup, then sweep_orphaned_runs in one transaction.   *)

Boot(p) ==
  /\ Goto(p, "down", "boot")
  /\ UNCHANGED <<database, stale, shown, turn, sweep>>

\* `chat --no-check-db` skips startup, and with it the sweep.
BootUnchecked(p) ==
  /\ Goto(p, "down", "idle")
  /\ UNCHANGED <<database, stale, shown, turn, sweep>>

\* Mutants: a select without the cutoff, one that knows a single state, and
\* one FOR UPDATE whose rows are then closed through a second session.
SweepSelect_NoCutoff(p) ==
  /\ Goto(p, "boot", "sweep")
  /\ work' = [work EXCEPT ![p] = {r \in Runs : Open(r)}]
  /\ UNCHANGED <<database, stale, shown, turn, held>>
SweepSelect_OneState(p) ==
  /\ Goto(p, "boot", "sweep")
  /\ work' = [work EXCEPT ![p] = {r \in stale : row[r].state = "model_calling"}]
  /\ UNCHANGED <<database, stale, shown, turn, held>>
SweepSelect_SecondSession(p) ==
  /\ Goto(p, "boot", "sweep")
  /\ \A r \in stale : Open(r) => ~Locked(r)
  /\ work' = [work EXCEPT ![p] = {r \in stale : Open(r)}]
  /\ held' = [held EXCEPT ![p] = {r \in stale : Open(r)}]
  /\ UNCHANGED <<database, stale, shown, turn>>

\* find_orphaned_runs: a plain SELECT, which locks nothing.
SweepSelect(p) ==
  /\ Goto(p, "boot", "sweep")
  /\ work' = [work EXCEPT ![p] = {r \in stale : Open(r)}]
  /\ UNCHANGED <<database, stale, shown, turn, held>>

\* One transition(run, FAILED) of the loop; the SELECT has no ORDER BY.  The
\* edge was checked on the selected copy, and every open state has it.
SweepUpdate(p, r) ==
  /\ pc[p] = "sweep"
  /\ r \in work[p]
  /\ ~Locked(r)
  /\ work' = [work EXCEPT ![p] = @ \ {r}]
  /\ held' = [held EXCEPT ![p] = @ \cup {r}]
  /\ UNCHANGED <<database, stale, shown, pc, turn>>

\* The commit makes the updates visible.  They name the row by its id only,
\* so they replace the state the row has by now, whatever it is.
SweepCommit(p) ==
  /\ Goto(p, "sweep", "idle")
  /\ work[p] = {}
  /\ row'  = [r \in Runs |-> IF r \in held[p]
                             THEN Finished(row[r], "failed", "orphaned")
                             ELSE row[r]]
  /\ held' = [held EXCEPT ![p] = {}]
  /\ UNCHANGED <<calls, reply, stale, shown, turn, work>>

\* Sweeps that wait for rows of each other in a cycle: PostgreSQL aborts one,
\* and startup fails with it.
Deadlocked(p) ==
  \E S \in SUBSET Procs :
    /\ p \in S
    /\ \A q \in S : \E o \in S \ {q} : held[o] \cap work[q] # {}

SweepAbort(p) ==
  /\ pc[p] = "sweep"
  /\ Deadlocked(p)
  /\ Down(p)
  /\ UNCHANGED <<database, stale, shown>>

-----------------------------------------------------------------------------
(* A turn: handle_user_message.                                            *)

\* Commit boundary A (_begin_turn): the owner's message and the run.
BeginTurn(p, r) ==
  /\ Goto(p, "idle", "read")
  /\ row[r] = Absent
  /\ row'  = [row EXCEPT ![r] = Received]
  /\ run'  = [run EXCEPT ![p] = r]
  /\ goal' = [goal EXCEPT ![p] = "context_building"]
  /\ UNCHANGED <<calls, reply, stale, shown, attempt, answer, sweep>>

\* get_run and assert_transition, the first half of _set_state, _terminate
\* and commit boundary C.
ReadRun(p) ==
  /\ Goto(p, "read", "write")
  /\ CanMove(row[run[p]].state, goal[p])
  /\ UNCHANGED <<database, stale, shown, turn, sweep>>

\* IllegalTransitionError: the run was closed under the turn.
ReadRefused(p) ==
  /\ pc[p] = "read"
  /\ ~CanMove(row[run[p]].state, goal[p])
  /\ Raise(p)
  /\ UNCHANGED <<database, stale, shown>>

\* Mutant: closing without completed_at.
Written_NoCompletedAt(p) == [row[run[p]] EXCEPT !.state = goal[p]]

\* The row as the first UPDATE of the pending write would leave it.  Closing
\* writes the failure: the model's error, or "context_error" when there was
\* no model call.
Written(p) ==
  LET old == row[run[p]] IN
  IF goal[p] \in TERMINAL_STATES
  THEN Finished(old, goal[p],
                IF answer[p] = "none" THEN "context_error" ELSE answer[p])
  ELSE [old EXCEPT !.state = goal[p]]

AfterWrite(state) ==
  IF state = "context_building" THEN "build"
  ELSE IF state = "model_calling" THEN "model" ELSE "sleep"

\* _set_state's UPDATE and commit, and where the turn goes next.
WriteState(p) ==
  /\ goal[p] \in OBSERVABILITY_STATES \ {"responding"}
  /\ Goto(p, "write", AfterWrite(goal[p]))
  /\ ~Locked(run[p])
  /\ CheckHolds(Written(p))
  /\ row' = [row EXCEPT ![run[p]] = Written(p)]
  /\ UNCHANGED <<calls, reply, stale, shown, turn, sweep>>

\* _terminate's UPDATE and commit.
WriteFailure(p) ==
  /\ goal[p] \in TERMINAL_STATES
  /\ Goto(p, "write", "return")
  /\ ~Locked(run[p])
  /\ CheckHolds(Written(p))
  /\ row' = [row EXCEPT ![run[p]] = Written(p)]
  /\ UNCHANGED <<calls, reply, stale, shown, turn, sweep>>

\* Mutant: boundary C as two transactions, the reply with the first.
CommitReply_InTwo(p) ==
  /\ pc[p] = "write" /\ goal[p] = "responding" /\ ~Locked(run[p])
  /\ IF row[run[p]].state = "responding"
     THEN /\ row' = [row EXCEPT ![run[p]] = Finished(@, "complete", "none")]
          /\ pc'  = [pc EXCEPT ![p] = "return"]
          /\ UNCHANGED reply
     ELSE /\ row'   = [row EXCEPT ![run[p]].state = "responding"]
          /\ reply' = [reply EXCEPT ![run[p]] = @ + 1]
          /\ UNCHANGED pc
  /\ UNCHANGED <<calls, stale, shown, turn, sweep>>

\* Commit boundary C.  The RESPONDING flush is checked by the database and
\* locks the row, so the assistant message, COMPLETE and the commit follow as
\* one step that nothing comes between.
CommitReply(p) ==
  /\ goal[p] = "responding"
  /\ Goto(p, "write", "return")
  /\ ~Locked(run[p])
  /\ CheckHolds(Written(p))
  /\ row'   = [row EXCEPT ![run[p]] =
                 Finished(Written(p), "complete", Written(p).failure)]
  /\ reply' = [reply EXCEPT ![run[p]] = @ + 1]
  /\ UNCHANGED <<calls, stale, shown, turn, sweep>>

\* IntegrityError: the update would leave "completed but still running".
WriteRefused(p) ==
  /\ pc[p] = "write"
  /\ ~Locked(run[p])
  /\ ~CheckHolds(Written(p))
  /\ Raise(p)
  /\ UNCHANGED <<database, stale, shown>>

\* The rest of _build: the two SELECTs and build_context.
BuildContext(p) ==
  /\ Goto(p, "build", "read")
  /\ goal' = [goal EXCEPT ![p] = "model_calling"]
  /\ UNCHANGED <<database, stale, shown, run, attempt, answer, sweep>>

\* Mutant: the attempt is not counted.
CallModel_NoCount(p, a) ==
  /\ Goto(p, "model", "record")
  /\ answer'  = [answer EXCEPT ![p] = a]
  /\ UNCHANGED <<database, stale, shown, run, goal, attempt, sweep>>

\* complete(): no transaction is open while the provider is called.
CallModel(p, a) ==
  /\ Goto(p, "model", "record")
  /\ attempt' = [attempt EXCEPT ![p] = @ + 1]
  /\ answer'  = [answer EXCEPT ![p] = a]
  /\ UNCHANGED <<database, stale, shown, run, goal, sweep>>

\* Mutants: one attempt too many, one too few.
WillRetry_OneMore(p) == answer[p] \in Retryable /\ attempt[p] <= MaxAttempts
WillRetry_OneLess(p) == answer[p] \in Retryable /\ attempt[p] + 1 < MaxAttempts

WillRetry(p) == answer[p] \in Retryable /\ attempt[p] < MaxAttempts

\* Mutant: the error's kind is written where the state belongs.
NextGoal_KindAsState(p) ==
  IF answer[p] = "ok" THEN "responding"
  ELSE IF WillRetry(p) THEN "model_retry_wait" ELSE answer[p]

\* What _call_with_retries and _drive make of the recorded answer.
NextGoal(p) ==
  IF answer[p] = "ok" THEN "responding"
  ELSE IF WillRetry(p) THEN "model_retry_wait"
  ELSE IF answer[p] = Timeout THEN "timed_out" ELSE "failed"

\* record_llm_call's row; a call without a price costs 0.
CallRecord(p, c) == [step |-> attempt[p], answer |-> answer[p], cost |-> c]

\* Mutant: the cost is added to the run only while it is open.
RecordCall_OpenOnly(p) ==
  \E c \in IF answer[p] = "ok" THEN Costs ELSE {0} :
    /\ Goto(p, "record", "read")
    /\ c > 0 => ~Locked(run[p])
    /\ calls' = [calls EXCEPT ![run[p]] = @ \cup {CallRecord(p, c)}]
    /\ row'   = [row EXCEPT ![run[p]].cost = IF Open(run[p]) THEN @ + c ELSE @]
    /\ goal'  = [goal EXCEPT ![p] = NextGoal(p)]
    /\ UNCHANGED <<reply, stale, shown, run, attempt, answer, sweep>>

\* _record_call inserts the attempt whatever state the run is in, and touches
\* the run's row only to add a cost.  No other process writes that column, so
\* reading it and writing the sum is one step.
RecordCall(p) ==
  \E c \in IF answer[p] = "ok" THEN Costs ELSE {0} :
    /\ Goto(p, "record", "read")
    /\ c > 0 => ~Locked(run[p])
    /\ calls' = [calls EXCEPT ![run[p]] = @ \cup {CallRecord(p, c)}]
    /\ row'   = [row EXCEPT ![run[p]].cost = @ + c]
    /\ goal'  = [goal EXCEPT ![p] = NextGoal(p)]
    /\ UNCHANGED <<reply, stale, shown, run, attempt, answer, sweep>>

\* The backoff, of whatever length the provider asked for.
Sleep(p) ==
  /\ Goto(p, "sleep", "read")
  /\ goal' = [goal EXCEPT ![p] = "model_calling"]
  /\ UNCHANGED <<database, stale, shown, run, attempt, answer, sweep>>

\* handle_user_message returns and the CLI prints render(result).
Return(p) ==
  /\ Goto(p, "return", "idle")
  /\ shown' = [shown EXCEPT ![run[p]] =
                 IF goal[p] = "responding" THEN "reply" ELSE "failure"]
  /\ Forget(p)
  /\ UNCHANGED <<database, stale, sweep>>

-----------------------------------------------------------------------------
(* The environment.                                                        *)

\* A statement of the turn fails, build_context raises, or a commit succeeds
\* whose acknowledgement is lost (then pc has moved on to "build").
DbError(p) ==
  /\ pc[p] \in {"read", "write", "build"}
  /\ Raise(p)
  /\ UNCHANGED <<database, stale, shown>>

\* The process ends at any point: /quit, a kill, a power cut, or an exception
\* no handler of the turn or of startup catches.
Stop(p) ==
  /\ pc[p] # "down"
  /\ Down(p)
  /\ UNCHANGED <<database, stale, shown>>

\* Time passes and an open run crosses the cutoff.  Without LongTurns only
\* a run whose process has left it may get that old.  (Nothing reads the age
\* of a closed run.)
Age(r) ==
  /\ Open(r)
  /\ r \notin stale
  /\ LongTurns \/ \A p \in Procs : run[p] # r
  /\ stale' = stale \cup {r}
  /\ UNCHANGED <<database, shown, pc, turn, sweep>>

SweepStep(p) ==
  \/ SweepSelect(p) \/ SweepCommit(p) \/ SweepAbort(p)
  \/ \E r \in Runs : SweepUpdate(p, r)

TurnStep(p) ==
  \/ ReadRun(p) \/ ReadRefused(p)
  \/ WriteState(p) \/ WriteFailure(p) \/ CommitReply(p) \/ WriteRefused(p)
  \/ BuildContext(p) \/ RecordCall(p) \/ Sleep(p) \/ Return(p)
  \/ \E a \in Answers : CallModel(p, a)

Next ==
  \/ \E p \in Procs :
       \/ Boot(p) \/ BootUnchecked(p) \/ SweepStep(p)
       \/ \E r \in Runs : BeginTurn(p, r)
       \/ TurnStep(p) \/ DbError(p) \/ Stop(p)
  \/ \E r \in Runs : Age(r)

Spec == Init /\ [][Next]_vars

\* A process always finishes a sweep or a turn it is in: the provider call
\* has a deadline (llm_timeout_s), the backoff ends, the database answers.
\* An update that waits for a row lock is served in queue order, so it is not
\* overtaken for ever (strong fairness).  Booting, starting a turn, stopping
\* and failing are never forced; time always passes.
Fairness ==
  /\ \A p \in Procs : SF_vars(SweepStep(p)) /\ SF_vars(TurnStep(p))
  /\ \A r \in Runs : WF_vars(Age(r))

FairSpec == Spec /\ Fairness

-----------------------------------------------------------------------------
(* Properties of every deployment.                                         *)

Row  == [state : RunState \cup {"absent"}, done : Nat,
         failure : Errors \cup {"none", "context_error", "orphaned"},
         cost : Nat]
Call == [step : Nat, answer : Answers, cost : Nat]

\* The values the variables range over.
TypeOK ==
  /\ row \in [Runs -> Row]
  /\ calls \in [Runs -> SUBSET Call]
  /\ reply \in [Runs -> Nat]
  /\ stale \subseteq Runs
  /\ shown \in [Runs -> {"nothing", "reply", "failure"}]
  /\ pc \in [Procs -> {"down", "boot", "sweep", "idle", "read", "write",
                       "build", "model", "record", "sleep", "return"}]
  /\ run \in [Procs -> Runs \cup {NoRun}]
  /\ goal \in [Procs -> RunState \cup {"none"}]
  /\ attempt \in [Procs -> Nat]
  /\ answer \in [Procs -> Answers \cup {"none"}]
  /\ work \in [Procs -> SUBSET Runs]
  /\ held \in [Procs -> SUBSET Runs]

LastCall(r, c) == c \in calls[r] /\ \A d \in calls[r] : d.step <= c.step

\* A run in COMPLETE has its one reply, no failure column set, and a
\* successful last call: the trace of a completed turn explains its answer,
\* whatever crashed, and even when another process sweeps the run meanwhile.
CompleteIsExplained ==
  \A r \in Runs : row[r].state = "complete" =>
    /\ reply[r] = 1
    /\ row[r].failure = "none"
    /\ \E c \in calls[r] : LastCall(r, c) /\ c.answer = "ok"

\* A run closed by a model error names the error of its last call, and was not
\* given up early: the error is not retryable or the attempts are used up.
\* TIMED_OUT is exactly the run whose last call timed out.
FailureIsExplained ==
  \A r \in Runs :
    /\ row[r].failure \in Errors =>
         \E c \in calls[r] :
           /\ LastCall(r, c)
           /\ c.answer = row[r].failure
           /\ c.answer \in Retryable => c.step = MaxAttempts
    /\ row[r].state = "timed_out" <=>
         row[r].failure = Timeout

\* llm_calls: the attempts of a run are numbered 1, 2, 3 ... without gap or
\* repetition and never exceed llm_max_attempts, whatever was lost on the way;
\* only the last one may be a success or an error that is not retryable.
CallsAreDense ==
  \A r \in Runs :
    LET n == Cardinality(calls[r]) IN
    /\ n <= MaxAttempts
    /\ {c.step : c \in calls[r]} = 1..n
    /\ \A c \in calls[r] : c.step < n => c.answer \in Retryable

\* total_cost_micros is the sum over the run's llm_calls, also when one of the
\* two transactions of a turn was lost or the run was closed before the call
\* was recorded.
CostIsRolledUp ==
  \A r \in Runs : row[r].cost = MapThenSumSet(LAMBDA c : c.cost, calls[r])

\* What the owner was told is durable: a printed reply is stored, and a
\* printed "no answer ... nothing was saved beyond your message" (cli.py,
\* render) belongs to a closed run that has no reply.
OwnerWasToldTheTruth ==
  \A r \in Runs :
    /\ shown[r] = "reply" => reply[r] = 1
    /\ shown[r] = "failure" => Terminal(r) /\ row[r].state # "complete" /\ reply[r] = 0

-----------------------------------------------------------------------------
(* Properties of a deployment in which no sweep meets a live turn: one     *)
(* process, or turns that never outlast the cutoff.                        *)

\* "There is no interleaving that produces an answer the trace cannot explain"
\* (runtime.py:37-39): a stored reply belongs to a run in COMPLETE.
AnswerIsExplained ==
  \A r \in Runs : reply[r] > 0 => reply[r] = 1 /\ row[r].state = "complete"

\* CHECK terminal_iff_completed "never has to fire" (repository.py:71-74): no
\* write in flight is going to meet a row that was closed after it was read.
CheckNeverFires ==
  \A p \in Procs : pc[p] = "write" => CheckHolds(Written(p))

\* One commit moves a run's state along an edge: a transition of the table,
\* its creation, or the two edges commit boundary C takes at once.
Edge(from, to) ==
  \/ from = "absent" /\ to = "received"
  \/ from \in RunState /\ CanMove(from, to) /\ to # "responding"
  \/ from = "model_calling" /\ to = "complete"

\* What one commit may do to the whole row of a run.
Moves(old, new) ==
  /\ Edge(old.state, new.state)
  /\ new.cost = old.cost
  /\ IF new.state \in TERMINAL_STATES
     THEN new.done = old.done + 1
     ELSE new.done = old.done /\ new.failure = old.failure

Charges(old, new) ==
  /\ old.state \in OBSERVABILITY_STATES
  /\ new.cost > old.cost
  /\ new = [old EXCEPT !.cost = new.cost]

ClosesAgain(old, new) ==
  /\ old.failure = "orphaned"
  /\ new = [old EXCEPT !.done = @ + 1]

\* "An illegal state never reaches the database" (repository.py:5-10), of
\* whole rows: a committed change of a row is an edge of TRANSITIONS that sets
\* completed_at exactly when it closes the run, or the cost of a call while
\* the run is open.  A closed row stays as it is but for one
\* case: another sweep may close an orphan again, as FAILED and orphaned, and
\* move its completed_at (see ClosedOnce).
OnlyLegalEdges ==
  [][\A r \in Runs :
       \/ row'[r] = row[r]
       \/ Moves(row[r], row'[r])
       \/ Charges(row[r], row'[r])
       \/ ClosesAgain(row[r], row'[r])]_vars

\* "A run in one of these states will never change again ... and completed_at
\* is set exactly when one is entered" (agent_state.py:43-44): no run is given
\* a completed_at twice.
ClosedOnce == \A r \in Runs : row[r].done <= 1

Status(r) ==
  IF row[r].state = "absent" THEN "none"
  ELSE IF Open(r) THEN "open"
  ELSE IF row[r].state = "complete" THEN "answered" ELSE "closed"

Promise == INSTANCE Turns WITH
  status <- [r \in Runs |-> Status(r)], replies <- reply, told <- shown

\* The turn implements its abstract specification: the reply and COMPLETE
\* land in one step, a settled run never changes, and the owner is told the
\* outcome the database has (runtime.py:35-46, agent_state.py:43-51).  Settled
\* is meant of the outcome; for completed_at see ClosedOnce.
ImplementsTurns == Promise!Spec

-----------------------------------------------------------------------------
(* The inductive invariants of the proofs.                                 *)

\* What a process's control point says of its locals.
Control ==
  \A p \in Procs :
    IF pc[p] \in {"down", "boot", "sweep", "idle"}
    THEN run[p] = NoRun /\ goal[p] = "none" /\ attempt[p] = 0 /\ answer[p] = "none"
    ELSE /\ run[p] \in Runs
         /\ goal[p] \in RunState \ {"received", "complete"}
         /\ pc[p] = "build"  => goal[p] = "context_building"
         /\ pc[p] \in {"model", "record"} => goal[p] = "model_calling"
         /\ pc[p] = "record" => answer[p] \in Answers
         /\ pc[p] = "sleep"  => goal[p] = "model_retry_wait"
         /\ pc[p] = "return" => goal[p] \in TERMINAL_STATES \cup {"responding"}
         /\ answer[p] = "ok" => pc[p] = "record" \/ goal[p] = "responding"

\* A run is driven by one process, and has no reply before that process
\* returns from it with one.
Driving ==
  \A p \in Procs : run[p] \in Runs =>
    /\ \A q \in Procs \ {p} : run[q] # run[p]
    /\ Exists(run[p])
    /\ shown[run[p]] = "nothing"
    /\ IF pc[p] = "return" /\ goal[p] = "responding"
       THEN reply[run[p]] = 1
       ELSE reply[run[p]] = 0
    /\ pc[p] = "return" => Terminal(run[p])

\* What the database rules out, whoever writes.
Settled ==
  \A r \in Runs :
    /\ CheckHolds(row[r])
    /\ reply[r] <= 1
    /\ reply[r] = 1 => Terminal(r)
    /\ row[r].state = "complete" => reply[r] = 1 /\ row[r].failure = "none"
    /\ ~Exists(r) => row[r] = Absent /\ reply[r] = 0 /\ shown[r] = "nothing"
    /\ row[r].failure # "none" => Terminal(r)
    /\ \A p \in Procs : r \in work[p] \cup held[p] => Exists(r)

\* A process has rows to update and rows it has updated only in its sweep.
Sweeping == \A p \in Procs : pc[p] # "sweep" => work[p] = {} /\ held[p] = {}

\* A run no turn works on, without a reply, that a sweep may close; or one
\* that a sweep, and nothing else, has closed.
LeftAlone(r) ==
  /\ Open(r) \/ (row[r].state = "failed" /\ row[r].failure = "orphaned")
  /\ reply[r] = 0
  /\ \A p \in Procs : run[p] # r

\* A sweep only ever holds runs whose process has left them; so what a turn
\* has read is still there when it writes.
Apart ==
  /\ \A p \in Procs : work[p] \subseteq stale /\ held[p] \subseteq stale
  /\ \A p \in Procs : \A r \in work[p] \cup held[p] : LeftAlone(r)
  /\ \A p \in Procs : run[p] \in Runs /\ pc[p] # "return" => Open(run[p])
  /\ \A p \in Procs : pc[p] = "write" => CanMove(row[run[p]].state, goal[p])

BaseInv == TypeOK /\ Control /\ Driving /\ Settled /\ OwnerWasToldTheTruth

\* Inductive when live turns never outlast the cutoff, and when there is one
\* process: no sweep meets a live turn, and every reply is explained.
ApartInv ==
  /\ BaseInv /\ Sweeping /\ Apart /\ AnswerIsExplained
  /\ ~LongTurns => \A r \in stale : LeftAlone(r)

-----------------------------------------------------------------------------
(* Liveness, under FairSpec.                                               *)

\* A turn always ends: the process returns to its prompt or goes down.
TurnEnds == \A p \in Procs : run[p] # NoRun ~> run[p] = NoRun

\* A sweep always ends, also when two sweeps block each other: one of them is
\* aborted and the other goes on.
SweepEnds == \A p \in Procs : pc[p] = "sweep" ~> pc[p] # "sweep"

\* No run stays open for ever if boots with a sweep keep happening: what a
\* crash strands is closed by some later sweep.
OrphansAreClosed ==
  []<><<\E p \in Procs : SweepCommit(p)>>_vars
    => \A r \in Runs : Open(r) ~> Terminal(r)
=============================================================================
