# A TLA+ model of the Personal AI Operations Bot

The bot takes one message of its owner, stores it, sends the recent
conversation to a language model, stores the answer and prints it.  It is a
Python asyncio program over PostgreSQL (SQLAlchemy 2).  A CLI (`aiops chat`)
drives turns; an API server shares the database and runs the same boot checks.
Paths below are relative to `src/personal-ops-bot/`; file names without a
directory are the ones of section 1.

Contents: 1 the system, 2 its hard behaviours, 3 the modules, 4 the runs, 5
bounds, 6 fairness, 7 the proofs, 8 where the code and its documents disagree,
9 what is not modelled, 10 the plan, 11 running it.

## 1. The system

| component | code | state it keeps | operations |
|---|---|---|---|
| run state machine | `app/core/agent_state.py` | none (a table of edges) | `assert_transition`, `is_terminal` |
| agent runtime | `app/agent/runtime.py`, `app/cli.py` | the locals of one turn | `handle_user_message`: begin, build, call with retries, record, respond, terminate |
| run repository | `app/agent/repository.py`, `app/db/models/{agent_run,llm_call}.py` | `agent_runs`, `llm_calls` | `create_run`, `transition`, `record_llm_call`, `find_orphaned_runs` |
| reaper | `app/agent/reaper.py`, `app/bootstrap.py` | an open transaction | `sweep_orphaned_runs` at boot |
| conversations | `app/domains/conversations/`, `app/db/models/conversation.py` | `conversations`, `messages` | resume, start, close, append, history, count |
| context builder | `app/agent/context_builder.py` | none (pure) | `build_context`, `digest_request` |
| ids and clock | `app/core/ids.py`, `app/core/clock.py` | last millisecond and counter | `uuid7`, `now` |
| boot and environment guard | `app/bootstrap.py`, `app/db/guard.py`, `alembic/` | the stamp in `system_settings` | `startup`, `evaluate_stamp`, migrations |
| CLI session and owner | `app/cli.py`, `app/db/models/user.py` | `users`, `identities`, the session's conversation | `_session`, `ensure_local_owner` |
| provider adapters | `app/providers/llm/` | none | `complete`, the mapping of failures to the error taxonomy |
| pricing | `app/providers/llm/pricing.py` | none (pure) | `estimate_cost_micros` |
| log redaction | `app/observability/logging.py` | context variables | processors |
| settings, API, engine | `app/config/`, `app/main.py`, `app/api/`, `app/db/engine.py` | none of their own | construction, health |

**How they interact.**  The runtime is the only driver.  One turn is a row of
small transactions with calls to the provider between them:

1. *commit boundary A*: the user message (through the conversations' service)
   and the run in RECEIVED, in one transaction;
2. CONTEXT_BUILDING, then history and count in a session of their own;
3. MODEL_CALLING; up to `llm_max_attempts` calls, each followed by a
   transaction that records it and adds its cost to the run, and between two
   calls MODEL_RETRY_WAIT, a sleep, and MODEL_CALLING again;
4. *commit boundary C*: RESPONDING, the assistant message and COMPLETE in one
   transaction, or one transaction that closes the run as FAILED or TIMED_OUT.

The sweep is the only other writer of a run.  It runs when a process boots:
one transaction selects the open runs older than `orphan_run_after_s` and
closes them.  Before the sweep a boot compares the database's environment stamp
with its own; alembic makes the same comparison before a migration.  The first
session creates the owner that every row belongs to.  Processes share nothing
but the database; within one, the only shared state is the counter behind
`uuid7`.

**What makes each part correct.**  For the state machine, that its edges lead
to an end and never out of one.  For the runtime, that the trace (`agent_runs`
and `llm_calls`) explains what is stored and what the owner was told, whatever
is lost on the way, and that a turn ends.  For the sweep, that it closes what a
crash strands and nothing else.  For conversations, that a message is stored
and answered once, that a history is in order, is that of the right
conversation and ends on what is to be answered.  For ids, that their order is
the order of creation.  For the guard, that no process writes to a database of
another environment.  For adapters and pricing, that what is retried, charged
and told fits what the provider did, whichever provider it is.

## 2. What is hard here

* *Read, decide, write.*  Transactions run at READ COMMITTED and lock nothing
  when they read.  `transition` checks an edge on the row it read and updates
  by primary key; `append_message` compares `last_message_at` in the same way;
  the sweep updates rows it selected earlier.
* *Crashes.*  A turn is at least seven transactions.  The process can stop, or a
  commit's acknowledgement can be lost, between any two of them.
* *Partial failure.*  `except Exception` surrounds only the building of the
  context; an error anywhere else leaves the run as it was and ends the
  session.
* *Sweeps* that wait for each other's rows, that close what another one has
  closed, or that meet a live turn.
* *Clocks.*  Order is (`sent_at`, `id`), read from the process's wall clock
  some statements before the row is committed.
* *Redelivery.*  The schema and the service are written for channels that
  deliver a message again.
* *Look, then act.*  The guard looks at the stamp once, at boot or before a
  migration, and acts on it later, while other operators migrate up and down;
  `ensure_local_owner` looks before it inserts.  The first rests on a lock that
  nobody asked for, the second on a UNIQUE constraint.
* *Many kinds of failure.*  Two SDKs with overlapping exception classes, some of
  which no clause catches, hints that are seconds, dates or missing, counts that
  are unknown.

`PROJECT.json` lists these as hazards, each with its line and its properties.

## 3. The modules

| module | models | extends |
|---|---|---|
| `RunStates` | the states and edges of `agent_state.py` | |
| `AgentRuntime` | turn, repository and sweep, for any number of processes | `RunStates` |
| `Turns` | abstract: what a turn promises the owner | |
| `Conversations` | sessions, appends, history and count, for any number of processes | |
| `Transcript` | abstract: a conversation as an append-only sequence of questions and answers | |
| `Ids` | `uuid7` for the tasks of one process | |
| `Boot` | stamp, guard, migrations and the owner, for any number of processes and environments | |
| `ModelCalls` | a turn's calls: request and digest, adapters, retries and backoff, prices, what is printed | |
| `Attempts` | abstract: when a turn asks the model again | |
| `MCAgentRuntime`, `MCConversations`, `MCIds`, `MCBoot`, `MCModelCalls` | the constants for TLC | the module they are named after |
| `AgentRuntime_proofs`, `Conversations_proofs`, `Ids_proofs`, `Boot_proofs`, `ModelCalls_proofs`, `RunStates_proofs` | the theorems | the module they are named after |
| `AgentTrace_proofs` | the theorems about `llm_calls` and the cost of a run | `AgentRuntime_proofs`, `Induction_proofs` |
| `Induction_proofs` | induction over sets, and what it says of a sum and of a joined text | |

`AgentRuntime` instantiates `Turns` with a mapping (`Promise`) from rows to
outcomes, and `Conversations` instantiates `Transcript` (`Log`) with each
conversation's messages in history order.  `ModelCalls` instantiates `Attempts`
(`Promise`) with the calls as they truly were on the wire, not as an adapter
classified them, and with `leaky`, whether the session's adapter lets exceptions
of its HTTP library through: Gemini's does.

`AgentRuntime` and `ModelCalls` are two views of a turn: the first has its
transactions, crashes and sweeps and takes any error of the taxonomy as the
outcome of a call; the second has one process, takes each transaction as one
step, and derives that error from what happened on the wire.

### AgentRuntime

*State.*  `row[r]` is the `agent_runs` row: its state, its failure, its cost,
and `done`, the number of times `completed_at` was assigned (0 is NULL).
`calls[r]` are its `llm_calls` rows, `reply[r]` the number of assistant
messages with its id, `stale` the runs older than the cutoff, `shown[r]` what
the owner saw.  Of a process: `pc`, the `run` it drives, the state it is about
to write (`goal`), the loop variable `attempt`, how the last call ended
(`answer`), and of its sweep the rows it has still to update (`work`) and those
it has updated and so locked (`held`).

*Actions.*

| action | code |
|---|---|
| `Boot`, `BootUnchecked` | `Container.startup`; `chat --no-check-db` |
| `SweepSelect`, `SweepUpdate`, `SweepCommit`, `SweepAbort` | `find_orphaned_runs` and the loop of `sweep_orphaned_runs`; the abort is PostgreSQL's, of a deadlock |
| `BeginTurn` | `_begin_turn`, commit boundary A |
| `ReadRun`, `ReadRefused` | `get_run` and `assert_transition` on what it found |
| `WriteState`, `WriteFailure`, `CommitReply`, `WriteRefused` | the flush and commit that follow, and the CHECK that rejects them |
| `BuildContext` | `_build` after its transition, with its `except Exception` |
| `CallModel`, `RecordCall`, `Sleep` | one round of `_call_with_retries` and `_record_call` |
| `Return` | the `TurnResult`, and `render` |
| `DbError`, `Stop` | a statement or a commit that fails; the end of the process |
| `Age` | a run passes the cutoff |

The grain is a database statement or a call that leaves the process.  The read
of a run and its update are two steps, because another transaction may commit
in between; so are the sweep's select and each of its updates.  Commit boundary
C is one step after its read: the flush of RESPONDING locks the row, and nothing
outside the transaction sees any of it before the commit.  The INSERT of an
`llm_calls` row takes only a key-share lock of its run, so it does not wait for
a sweep; the UPDATE of the cost does, and is issued only when the cost is
positive.  A commit whose acknowledgement is lost is the write followed by
`DbError` or `Stop`.

### Conversations

*State.*  A message has a place (`sent`) in the order (`sent_at`, `id`), taken
when its clock was read and its id made; what matters of both is this order
alone.  `last[c]` is `last_message_at` as such a place, 0 for NULL.  `turn` of
a message is the place of the user message its turn began with.  Of a process:
the session's conversation `conv`, the message being appended (`when`, `key`),
the comparison made (`bump`), the turn's user message (`trigger`), and what
was read for the model (`seen`, `total`).

*Actions.*  `Resume` and `StartNew` (`resume_or_start`, `--new`, `/new`);
`Close` (no caller in this repository, so at any time); `StampMessage` and
`StampReply` (the beginning of `append_message` for either role), `Look` (its
SELECT and comparison), and `InsertMessage`, `RefuseMessage` or `InsertReply`
(flush and commit); `ReadHistory` and `CountMessages` (two statements with two
snapshots); `GiveUp` (a turn that ends without a reply) and `Stop`.

A clock that is not set back hands out the least place that is left; one that
may be hands out any.  The model leaves runs and retries to `AgentRuntime`.

### Ids

`clock` is what `now()` answers, `at[t]` the reading a task holds: in
`create_user_with_identity` it is used for two ids with a round trip between
them.  `uuid7` is one step because of its lock.  An id is its millisecond and
counter; the 62 random bits decide only where the counter has reached its end.

### Boot

*State.*  Of the database: `revision` (0 base, 1 with `system_settings`, 2 with
the core tables), `stamp`, `owners` (users with the identity `("cli",
"local")`), and `writes`, which stands for the rows of the core tables: whose
they are, and what process wrote them.  Of a process: `pc`, what it was started
for (`job`), its `app_env`, what `read_stamp` gave it (`found`), its owner's id.
`passed` is a ghost: this process's guard accepted the stamp that the database
has now.

*Actions.*

| action | code |
|---|---|
| `Start` | `chat` with or without `--check-db`, the API's lifespan, an alembic run |
| `FindTable`, `FindNoTable`, `AcceptStamp`, `RefuseStamp` | `read_stamp`'s two statements and `evaluate_stamp`, at boot and in `alembic/env.py` |
| `Migrate` (`Upgrade`, `Downgrade`, `NothingToDo`), `MigrateAbort` | `_run_migrations` and the commit; 0001 and 0002 in both directions |
| `Sweep` | `sweep_orphaned_runs`, after the guard |
| `FindOwner`, `InsertOwner`, `LoseOwner` | `ensure_local_owner` |
| `OpenSession`, `Say`, `SayFails`, `NoTables` | the first commit of a session, its later writes, and statements that meet no table or no row to refer to |
| `Stop` | the end of a process, or a statement that fails |

The two statements of `read_stamp` are two steps.  On alembic's connection they
begin the transaction that the migration runs in (SQLAlchemy 2 begins one by
itself), so the SELECT's lock on `system_settings` is kept until the commit and
holds off a `DROP TABLE` (`KeepsTable`).  The guard of a boot releases it at
once.  A migration's statements and its commit are one step: its locks let
nobody see a part of them.  Where two migrations would collide on DDL, one
waits or fails, which is a step later or `Stop`.  A downgrade waits for
transactions that have read `identities` (`InSession`).

### ModelCalls

*State.*  `provider`, the adapter in use; of the turn its `attempt`, its `rows`
(each `llm_calls` row with the outcome on the wire it records, a ghost), its
pauses (`slept`) and what the owner has been `told`; `sent`, the requests of all
turns with their digests, and `turns`, their number.

*Actions.*  `Start` (`build_container` and `build_llm_provider`, with a key or without), `BeginTurn`
(`_build`), then for an outcome that `\E` picks: `Answer`, `Fail` (recorded, and
then a wait or a reason printed) or `Escape` (an exception that is no
`LLMError` ends the session in a `Traceback`); `Retry` (the pause, of `Backoff`), `Stop`.

An outcome is a message with its text, model and usage, or a failure: a
timeout, a lost connection, or a status, with a `retry-after` if it is 429.
`Raised` gives the SDK's classes of a failure (from the package's class
hierarchy, external) and `AnthropicClauses` and `GeminiClauses` the adapters'
clauses in their order; `Caught` takes the first that fits.  Prices are exact
integers over `Unit` tokens, rounded half to even.  A text is a short sequence
of tokens, the separator possibly among them, so that `DigestsIdentify` can
look for two transcripts with one payload.

## 4. The runs

| run | shows |
|---|---|
| `shared_database` | Three processes, a sweep may meet a live turn: the trace stays consistent (`CompleteIsExplained`, `FailureIsExplained`, `CallsAreDense`, `CostIsRolledUp`), the owner is told the truth (`OwnerWasToldTheTruth`), every turn ends (`TurnEnds`), and no run stays open for ever if boots with a sweep keep happening (`OrphansAreClosed`). |
| `short_turns` | Live turns do not outlast the cutoff: every stored reply is explained (`AnswerIsExplained`), the CHECK is silent (`CheckNeverFires`), a row as a whole only changes by a legal edge, a call's cost, or a second close of an orphan (`OnlyLegalEdges`), `Turns` is implemented, and two sweeps over the same two runs end in whatever order they lock them (`SweepEnds`).  `ApartInv` is the inductive invariant of the proof. |
| `one_session` | One process, two conversations, a window of two and up to five messages: `last_message_at`, the choice of the conversation, the history, its end and the dropped count are right (also after turns that failed), and `Transcript` is implemented. |
| `shared_conversation` | Two processes in one conversation and redelivered messages: each is stored and answered once (`AnsweredOnce`), and no answer precedes its question (`ReplyFollowsItsMessage`).  A turn that reads while the other commits never counts a negative number of dropped messages nor more than it was not shown (`DroppedIsBounded`), and is not shown its own question only if a whole window stands behind it (`TriggerIsShown`). |
| `ids_sorted` | Two tasks, a clock that may be set back: ids sort in the order they were made in for as long as no reading goes back, at and beyond saturation too. |
| `boot` | Two processes in two environments boot, migrate up and down, talk and stop over one database: rows of a process that checked the database it writes to match its stamp (`GuardedRowsMatch`; a database created since is another one), there is one owner (`OneOwner`), a stamp is dropped only with all data (`StampIsForLife`), a migration let in by a stamp meets that stamp (`MigratesItsOwn`), and a boot or migration ends (`BootEnds`). |
| `model_calls` | Each provider with every kind of outcome: the owner reads the truth (`ToldTheTruth`), no pause is shorter than asked (`NeverTooSoon`), costs are fair (`CostsAreFair`), digests tell requests apart (`DigestsIdentify`), and `Attempts` is implemented. |
| `reply_overwritten`, `closed_twice`, `last_goes_back`, `ids_clock_set_back`, `gemini_escapes` | Each finds one statement of the documents that the code does not keep (section 8). |

Deadlock is checked in every run: a process that is down can always boot.

Each property of a passing run has a mutant, a definition of the module with a
plausible bug in it (marked "Mutant" in a comment above it), under which TLC
finds the property violated.

## 5. Bounds

* *Processes and runs*: `shared_database` has three processes on one run, so
  that two sweeps can meet one live turn; `short_turns` has two on two runs, for
  two sweeps that lock in opposite order and for a turn that follows another.
  A process drives one run at a time.
* *Attempts* (`MaxAttempts`): two in `shared_database`, which has a retried call
  and a last one; one in `short_turns`, whose properties do not count attempts;
  three in `model_calls`, for pauses that double.
* *Costs*: free, and one price.
* *Conversations and positions*: one or two conversations, and four or five
  places, which bound how many messages can be appended.  With a window of two
  and five places the window is passed, and two turns and a half fit.  When all
  places are handed out no message can be stamped, and sessions only end and
  begin.
* *Channels*: one or two with one message id, so that redelivery and a
  collision of keys both happen.
* *Ids*: three milliseconds, a counter of two bits seeded with one, five ids:
  enough to leave a millisecond, return to it and saturate it.  `MaxIds` is the
  only bound in a guard of that module.
* *Boot*: two processes, which are the races (two first sessions, two migrations,
  a migration and a boot), two environments and two user ids, so that a database
  can be dropped and created again with another owner.  A user id is free again
  when nothing refers to it; no counter is bounded.
* *Model calls*: every status a clause or a class names and one that none does
  (409), hints of zero, of seconds and none, one price whose sums are halves of
  `Unit` both above even and above odd numbers, unknown counts, a model
  without a rate, three histories that read alike, and two turns (`MaxTurns`),
  so that two requests can be compared.
* *The clock of conversations* is set back in no run (`ClockSteps` is FALSE in
  all of them); the theorems about `last_message_at`, dropped counts and
  hidden questions cover that case.

The proofs are for every value of these constants.

## 6. Fairness

`FairSpec` of `AgentRuntime` assumes, of each process, strong fairness of its
sweep's steps and of its turn's steps, and weak fairness of `Age`.  Calls have
timeouts (`llm_timeout_s`, the driver's), backoffs are finite sleeps, and
PostgreSQL serves the queue of a row's lock: a statement that can proceed again
and again does proceed.  Strong fairness is needed because another sweep may take and
release the lock any number of times; a queue gives more than that.  `Age` is
the passing of time.  Nothing is assumed of boots, new turns, stops or errors.
`OrphansAreClosed` takes "boots with a sweep keep happening" as its premise,
because nothing in the code makes them happen.

`FairSpec` of `Boot` assumes strong fairness of each process's boot steps, and
nothing of starts, talk and stops.  They wait for PostgreSQL's locks only, which
are served in the order of a queue, and deadlocks are detected.  `ModelCalls` needs
no fairness: it states no liveness property, `TurnEnds` of `AgentRuntime` does.

## 7. The proofs

All are checked by TLAPS, with no step left out, for every value of the
constants that the modules' assumptions allow.  Every invariant and every
action property of a passing run, and each of the three refinements, is a
theorem.  The inductive invariants were checked by TLC first; those that only
the proofs need are defined with them, and no run lists them (but `ApartInv`).

*AgentRuntime.*  Control points and outcomes depend on each other, so no
property is inductive alone.  `BaseInv` puts together what a control point says
of the locals (`Control`), that a run is driven by one process, which has not
stored its reply (`Driving`), and what the database excludes whoever writes
(`Settled`); it is inductive without any condition (`BaseInvariant`), and gives
`TypeCorrect` and `OwnerToldTruth`.

The next claims need that a sweep cannot meet a live turn (`NeverMeet`): no
live turn outlasts the cutoff (`~LongTurns`), however many processes there are,
or there is one process, however long its turns are.  `ApartInv` adds `Apart`:
what a sweep has selected or updated is `LeftAlone`, it has no driver and no
reply, and if it is closed it was closed as an orphan, so what a turn has read is still so when it writes.  The two deployments
have it for different reasons.  With short turns every run behind the cutoff is
left alone (`StaleStep`); one process sweeps only while it has no turn, and
keeps nothing of a sweep that is over (`Sweeping`, `SweptStep`).  From
`ApartInvariant` follow `AnswersExplained`, `CheckIsSilent`, `EdgesAreLegal` and
`RuntimeImplementsTurns`, the refinement, for which every action is shown to be
a step of `Turns` or a stutter.  `EdgesAreLegal` is about whole rows: what a sweep
writes rests on `LeftAlone` (`SweptRow`), what a call adds on its run being open
(`RecordedRow`).  It leaves one change of a closed row, the second close of an
orphan, which `closed_twice` shows.  The refinement maps states and not
`completed_at`: settled means settled for the owner.  The second case says that the bot as it is
delivered, one CLI on its database, keeps what `runtime.py:35-46` says of it
even with turns of any length; the run `reply_overwritten` needs its second
process.

*The trace of a turn* (`AgentTrace_proofs`), without any condition.  `TraceInv`
ties `attempt` to the rows of `calls`.  `TracedTurn` says at each control point
how many calls there are, that they are numbered from 1 without a gap
(`Numbered`), how the last one ended and what may follow from it; `TracedRun`
says the same of a run whose turn is over, whoever closed it.  The strengthening
is needed because `CallsAreDense` and its like speak of the rows only, and a
crash, a sweep or a failed statement may end the turn between any two of them:
`CallsAreDense` does not say which attempt comes next, nor `FailureIsExplained`
what a pending failure was caused by.  `Numbered` takes the number of calls
as a parameter instead of counting them.  `CallsDense`, `CompleteExplained` and
`FailureExplained` follow.  `CostRolledUp` has a step of its own
(`CostOfRun`): the row's cost is the sum over its calls, a new call has a step no
other call has, so its cost is added once; a sweep and a failed CHECK leave the
cost as it was.

*Induction over data* (`Induction_proofs`).  The library's induction theorems
take an operator as a parameter, which the provers cannot instantiate.  Its
well-founded minimum (`WFMin`) takes sets only, and gives induction over the
naturals and over the subsets of a finite set as lemmas about a set
(`NatSetInduction`, `SubsetInduction`).  From these: the community modules'
fold, by which `CostIsRolledUp` adds, has a value that does not depend on the
order its `CHOOSE` takes (`FoldedAnyOrder`, `TotalAdd`); and a text that is
joined with a separator splits at its last separator in one way only
(`JoinExists`, `LastSplit`).

*Conversations.*  `BaseInv` says that positions and turns are unique
(`PositionsAreUnique`, `TurnsAreUnique`) next to `Control`; it is inductive for
any processes and any clock and gives `ConversationsTyped` and
`MessagesAnsweredOnce`.  Every step is quiet (it stores and stamps nothing),
takes a position, or commits a message (`FourKinds`), and all later proofs are
split that way.  What each claim needs:

| theorem | processes | clock | invariant |
|---|---|---|---|
| `ConversationsTyped`, `MessagesAnsweredOnce` | any | any | `BaseInv` |
| `DroppedBounded`, `TriggerShown` | any | any | `RaceInv` (`RaceInvariant`): what a turn has read stays in its conversation |
| `RepliesFollow` | any | not set back | `OrderInv` (`OrderInvariant`): positions grow |
| `LastMessageIsNewest`, `ResumedIsNewest` | one | any | `LastInv` (`LastInvariant`): nobody moves `last_message_at` between look and write |
| `DroppedExact` | one | any | `ReadInv` (`ReadInvariant`): what was read is what would be read now |
| `ContextEndsRight`, `TranscriptImplemented` | one | not set back | `ShownInv` (`ShownInvariant`): a turn's message stays the newest |

`DroppedExact` rests on two lemmas: what a LIMIT leaves out is exactly what is
older than all it keeps (`LeftOutIsOlder`), and a conversation has as many
messages as positions (`OnePositionEach`).  With more processes it is false, and
`RaceInv` keeps what is left of it: others only add messages (`ReadsKept`), and a
question that the LIMIT left out has a whole window above it
(`HiddenByAWindow`).  For the refinement, each message
has a place in its conversation's order; the places are 1, 2, ... without a gap
(`PlacesAreDense`, by the pigeonhole principle), a message behind all others
makes the transcript longer by its role and changes no other place
(`TranscriptGrows`), and a waiting turn's message is the last one
(`QuestionIsLast`).

*Ids.*  `SortedInv` (`SortedInvariant`) ties the module's two variables to the last id and to all
ids since time last went back.  `Sorted` follows, without a condition.

*Boot.*  The inductive invariant `IInv` adds four parts to the type invariant and
the two state properties.  `Schema`: a stamp is there exactly with its table, and
owners and rows only at head.  `Verdicts`: a process that `passed` has the stamp's
environment.  `Admitted`: a migration that keeps its lock still has the stamp it
found, and it is its own.  `Pendings`: at most one owner is inserted and not
committed, and only while there is none.  `TypeCorrect`, `GuardedRows` and
`SingleOwner` follow at once, and `StampKept` and `MigrationsStayHome` from
`IInv` before each step.

*ModelCalls.*  `ModelCallsInv` joins the type invariant and three of the
properties with `Control`: at each control point how many rows are recorded and
pauses slept, and what has been told.  `OutagesAreNamed` rests on lemmas that
walk through the adapters' clauses for each status from 400 to 599
(`GeminiKinds`, `AnthropicKinds`, `AnthropicTransport`, joined in `Classified`);
`CostsFair` on one about `Rounded`, `HintsAreKept` on one about `Backoff`.
`CallsImplementAttempts` shows every action to be one of `Attempts` or a
stutter.  `DigestsAreFaithful` is for histories of any length and texts of any
characters: two payloads that are equal split at the same last separator, so
their last messages are equal and so is what is before them, down to the header
with the model's name.  It assumes what the property does, that no text holds
the separator, and of the constants that a history is a sequence of messages
with one of two roles.

*RunStates.*  Facts about the edges: closed states have none, every open one
can fail.

The conditions are needed: the runs of section 8 and the observations there are
the counterexamples without them.

Model-checked only: liveness (`TurnEnds`, `SweepEnds`, `OrphansAreClosed`,
`BootEnds`).  A proof from fairness needs ENABLED of each fair action, which the
provers do not handle.

## 8. Where the code and its documents disagree

Shown by runs:

* `reply_overwritten`: `runtime.py:37-38`, "there is no interleaving that
  produces an answer the trace cannot explain".  A turn outlasts the cutoff,
  a second process boots and selects its run, the turn commits reply and
  COMPLETE, and the sweep's update makes the run FAILED.
* `closed_twice`: `agent_state.py:43-44`, a closed run "will never change again.
  The reaper must not touch them, and `completed_at` is set exactly when one is
  entered".  Two sweeps select one orphan; the second waits for the row's lock
  and closes it again.
* `last_goes_back`: `repository.py:121-123` of conversations, a disagreeing
  `last_message_at` "is not a state this code can produce".  Two processes can.
* `ids_clock_set_back`: `ids.py:71-72`, ids of one millisecond "are strictly
  increasing until the counter saturates".  Not when the clock leaves the
  millisecond and is set back into it: the counter is reseeded.
* `gemini_escapes`: `core/llm.py:223`, "Run one model call, or raise an `LLMError`
  subclass", and `ARCHITECTURE_v0.2.md:277`, which retries a timeout.  The Gemini
  adapter catches `APIError` and `TimeoutError` only.  An exception of its HTTP
  library (a refused connection, a read timeout) is neither retried nor recorded,
  ends the session and leaves the run for the sweep.  `ImplementsAttempts` allows
  it to a leaky adapter and to no other.

Observed on the way, with no run of their own:

* With turns longer than the cutoff the CHECK `terminal_iff_completed` does fire
  (`agent/repository.py:74` says it never has to), and it is what protects
  the closed row then.
* `runtime.py:35-37` says that "`llm_calls`, the assistant message, and the run
  reaching COMPLETE either all land or none do".  `_record_call` commits the call
  in a transaction before the one with the other two, so a crash in between
  keeps a successful call without a reply.
* No lock keeps two turns out of one conversation (`ARCHITECTURE.md:172`), so
  with two processes a history may end behind the message to be answered.
* A turn that fails leaves its user message, so a history need not alternate
  (`core/conversation.py:5-6`).
* The duplicate key is (`conversation_id`, `provider_message_id`), without the
  provider (`ARCHITECTURE.md:171`).  With a second channel whose ids collide with
  the first one's, a message that is no repeat would be refused and lost.  The model
  has that case (`Providers` of `shared_conversation`); the CLI, today's only
  channel, gives its messages no id, and no property speaks of it.
* `service.py:19-21` says a duplicate is returned with `duplicate=True`; the
  code raises `DuplicateMessage`.
* `alembic/env.py:5-10` says the check before a migration closes the window
  between it and the guard.  A migration that found no stamp holds no lock: if
  another host creates and stamps the database in between, it goes on to
  upgrade one that is not its own.  `MigratesItsOwn` therefore takes
  a stamp that was found as its premise.
* A running process is not told when its database is downgraded to base and
  created again in another environment.  A session that has its owner is stopped
  by the foreign keys, because its owner's rows are gone with the tables
  (`SayFails`).  One that is between its guard and its first commit is not: it
  sweeps, creates the owner of the new database or finds it, and goes on to write
  there.  `GuardedRowsMatch` does not speak of it: a guard that accepted the old
  database counts for that one only.  The API serves on.
* `anthropic.py:229-231` says a hint that cannot be read falls back to "the
  runtime's backoff [that] has its own floor".  A hint that can be read
  replaces the backoff (`runtime.py:306-307`): `retry-after: 0` retries at once, and a long one is
  slept to the end, if need be beyond `orphan_run_after_s`.
* A 4xx that no clause of the Anthropic adapter names (402, 408, 409) is retried as
  `LLMUnavailable`; the Gemini adapter takes it (408 aside) for an invalid
  request.  `Nature` and `TrueKinds` allow both readings.
* The Gemini adapter reads no `retry-after`.
* `context_builder.py:104` speaks of "a delimiter that cannot appear in the parts".
  A message may hold U+001E; such a one can share the digest of a transcript of two.
  `DigestsIdentify` leaves these texts out.
* The rate is found by the model an answer names (`runtime.py:357`).  One that
  is answered under a dated name has no rate and costs 0.
* `pricing.py:84` adds cached tokens to the input tokens.  Gemini's input count
  holds them already, which will matter when a Gemini model gets a rate.

## 9. Not modelled

* Contents, titles, token limits: no property depends on them.  Soft deletion:
  nothing in the repository deletes a message.
* Reads of more than one row inside a statement are atomic, as they are in
  PostgreSQL.  The database does not lose what it has committed.
* Requests the runtime never builds (a SYSTEM turn, a temperature, an empty
  transcript) and with them the adapters' checks of them; stop reasons, latency
  and provider metadata, which are stored and never read; the test scripts of
  `FakeLLM`.
* SHA-256 (taken for collision-free) and the float division of a price, which
  is exact enough for any sum a call can cost.
* *Log redaction* (`observability/logging.py`): a pure recursion over the values
  of one event.  No state depends on it and nothing is concurrent in it; its
  hard part is which strings look like secrets, which is text and not
  behaviour.
* *Settings*: their values are the constants of the modules; reading `.env` and
  the validators are left out, except for the provider's name and key.
* *API and engine*: the API's boot is in `Boot`, its health routes change
  nothing; the engine is configuration, which shows in how actions are cut.
* A stamp of an unknown value: nothing in the repository can write one.

## 10. Plan

Done: the turn and the sweep, conversations, ids, boot with guard, migrations
and owner, and the calls of the model; theorems for all their safety and action
properties and refinements.  Left:

1. *Composition*: `AgentRuntime` and `Conversations` share commit boundaries A
   and C; a module that runs both in step, with the one refinement of an answered
   message.
2. *Proofs* of what the abstract specifications promise by themselves (a settled
   turn of `Turns` never changes, a transcript of `Transcript` only grows), so
   that they can be cited through the refinements.

## 11. Running it

    tlc -config shared_database.cfg MCAgentRuntime
    tlapm AgentRuntime_proofs.tla

`PROJECT.json` names the module and configuration of every run and the source
lines of every definition.
