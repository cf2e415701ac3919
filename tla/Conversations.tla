--------------------------- MODULE Conversations ---------------------------
(***************************************************************************)
(* What is said and what the model is shown of it: the conversations and   *)
(* messages of app/domains/conversations, as the turns of                  *)
(* app/agent/runtime.py write and read them, for any number of processes.  *)
(* What AgentRuntime says of runs and retries is left out: a turn that has *)
(* read its history answers, or gives up.                                  *)
(*                                                                         *)
(* A message's place in the order (sent_at, id) that every history is read *)
(* in is its position.  A process takes the position when it asks its      *)
(* clock for the time, several statements before the message is committed. *)
(***************************************************************************)
EXTENDS Integers, FiniteSets

CONSTANTS
  Procs,       \* processes: CLI sessions and channel adapters
  Convs,       \* ids of conversations, in the order of UUIDv7
  Positions,   \* places in the order (sent_at, id)
  Providers,   \* channels: "cli", "telegram", ...
  ChannelIds,  \* a channel's own ids of its messages
  NoKey,       \* a message typed into the CLI has no such id
  NoConv,      \* "this process has no session"
  Window,      \* settings.context_window_messages
  ClockSteps   \* may the wall clock be set back?

ASSUME ConversationsAssumption ==
  /\ Convs \subseteq Nat
  /\ Positions \subseteq Nat \ {0}
  /\ NoKey \notin [provider : Providers, id : ChannelIds]
  /\ NoConv \notin Convs
  /\ Window \in Nat \ {0}
  /\ ClockSteps \in BOOLEAN

VARIABLES
  \* The database.
  convs,     \* rows of conversations
  closed,    \* those with closed_at
  last,      \* last_message_at, as a position; 0 is NULL
  messages,  \* rows of messages
  \* The clock: positions that were handed out.
  stamped,
  \* The processes.
  pc,        \* what the process does next
  conv,      \* the conversation of its session
  when,      \* the position of the message it is appending
  key,       \* and that message's key
  bump,      \* whether the append moves last_message_at
  trigger,   \* the position of the turn's user message; 0 before it is stored
  seen,      \* load_recent_messages' answer: positions
  total      \* count_messages' answer

database == <<convs, closed, last, messages>>
draft    == <<when, key, bump>>
turn     == <<trigger, seen, total>>
vars     == <<database, stamped, pc, conv, draft, turn>>

Keys == [provider : Providers, id : ChannelIds] \cup {NoKey}

In(c) == {m \in messages : m.conv = c}

Newest(S, n) == {x \in S : Cardinality({y \in S : y > x}) < n}

Init ==
  /\ convs    = {}
  /\ closed   = {}
  /\ last     = [c \in Convs |-> 0]
  /\ messages = {}
  /\ stamped  = {}
  /\ pc       = [p \in Procs |-> "down"]
  /\ conv     = [p \in Procs |-> NoConv]
  /\ when     = [p \in Procs |-> 0]
  /\ key      = [p \in Procs |-> NoKey]
  /\ bump     = [p \in Procs |-> FALSE]
  /\ trigger  = [p \in Procs |-> 0]
  /\ seen     = [p \in Procs |-> {}]
  /\ total    = [p \in Procs |-> 0]

Goto(p, from, to) == pc[p] = from /\ pc' = [pc EXCEPT ![p] = to]

\* The turn is over: its locals are gone.
ForgetTurn(p) ==
  /\ when'    = [when EXCEPT ![p] = 0]
  /\ key'     = [key EXCEPT ![p] = NoKey]
  /\ bump'    = [bump EXCEPT ![p] = FALSE]
  /\ trigger' = [trigger EXCEPT ![p] = 0]
  /\ seen'    = [seen EXCEPT ![p] = {}]
  /\ total'   = [total EXCEPT ![p] = 0]

-----------------------------------------------------------------------------
(* Sessions.                                                               *)

\* Mutant: the conversation opened last, whatever was said since.
Resumable_ByAge ==
  {c \in convs \ closed : \A d \in convs \ closed : d <= c}

\* latest_open_conversation: ORDER BY last_message_at DESC NULLS LAST, id DESC.
Resumable ==
  {c \in convs \ closed :
     \A d \in convs \ closed : last[d] < last[c] \/ (last[d] = last[c] /\ d <= c)}

Resume(p) ==
  /\ Goto(p, "down", "idle")
  /\ \E c \in Resumable : conv' = [conv EXCEPT ![p] = c]
  /\ UNCHANGED <<database, stamped, draft, turn>>

\* `chat --new`, a `chat` that finds nothing to resume, or `/new`.
StartNew(p, c) ==
  /\ pc[p] \in {"down", "idle"}
  /\ pc'    = [pc EXCEPT ![p] = "idle"]
  /\ c \notin convs
  /\ ClockSteps \/ \A d \in convs : d < c
  /\ convs' = convs \cup {c}
  /\ conv'  = [conv EXCEPT ![p] = c]
  /\ UNCHANGED <<closed, last, messages, stamped, draft, turn>>

\* Mutant: no look whether the row exists.
Close_Blind(c) ==
  /\ closed' = closed \cup {c}
  /\ UNCHANGED <<convs, last, messages, stamped, pc, conv, draft, turn>>

\* close_conversation, which any caller may use at any time.
Close(c) ==
  /\ c \in convs
  /\ closed' = closed \cup {c}
  /\ UNCHANGED <<convs, last, messages, stamped, pc, conv, draft, turn>>

-----------------------------------------------------------------------------
(* append_message, which _begin_turn calls for the owner's message and      *)
(* commit boundary C for the reply.                                        *)

\* Mutant: a clock that may step.
Now_Any == Positions \ stamped

\* clock.now() and uuid7.  Only the order of positions matters, so a clock
\* that does not step hands out the least one that is left.
Now ==
  {t \in Positions \ stamped :
     ClockSteps \/ \A u \in Positions \ stamped : t <= u}

StampMessage(p, t, k) ==
  /\ Goto(p, "idle", "look")
  /\ t \in Now
  /\ stamped' = stamped \cup {t}
  /\ when'    = [when EXCEPT ![p] = t]
  /\ key'     = [key EXCEPT ![p] = k]
  /\ UNCHANGED <<database, conv, bump, turn>>

\* The model has answered.
StampReply(p, t) ==
  /\ Goto(p, "model", "look")
  /\ t \in Now
  /\ stamped' = stamped \cup {t}
  /\ when'    = [when EXCEPT ![p] = t]
  /\ key'     = [key EXCEPT ![p] = NoKey]
  /\ UNCHANGED <<database, conv, bump, turn>>

\* SELECT of the conversation, and the comparison of its last_message_at.
Look(p) ==
  /\ Goto(p, "look", "insert")
  /\ bump' = [bump EXCEPT ![p] = last[conv[p]] < when[p]]
  /\ UNCHANGED <<database, stamped, conv, when, key, turn>>

\* Mutant: no UNIQUE constraint.
Duplicate_Never(p) == FALSE

\* UNIQUE (conversation_id, provider_message_id): NULLs are distinct, and the
\* provider is not part of it.
Duplicate(p) ==
  /\ key[p] # NoKey
  /\ \E m \in In(conv[p]) : m.key # NoKey /\ m.key.id = key[p].id

\* Mutant: only the owner's messages move last_message_at.
MovedLast_ByOwner(p) ==
  IF bump[p] /\ trigger[p] = 0 THEN [last EXCEPT ![conv[p]] = when[p]] ELSE last

MovedLast(p) == IF bump[p] THEN [last EXCEPT ![conv[p]] = when[p]] ELSE last

\* The flush and commit boundary A.
InsertMessage(p) ==
  /\ trigger[p] = 0
  /\ ~Duplicate(p)
  /\ Goto(p, "insert", "read")
  /\ messages' = messages \cup {[sent |-> when[p], conv |-> conv[p], role |-> "user",
                                 key |-> key[p], turn |-> when[p]]}
  /\ last'     = MovedLast(p)
  /\ trigger'  = [trigger EXCEPT ![p] = when[p]]
  /\ UNCHANGED <<convs, closed, stamped, conv, draft, seen, total>>

\* DuplicateMessage: the savepoint and the turn's transaction roll back.
RefuseMessage(p) ==
  /\ trigger[p] = 0
  /\ Duplicate(p)
  /\ Goto(p, "insert", "idle")
  /\ ForgetTurn(p)
  /\ UNCHANGED <<database, stamped, conv>>

\* Mutant: the reply goes to the conversation that is the latest by then.
InsertReply_Latest(p) ==
  /\ trigger[p] # 0
  /\ Goto(p, "insert", "idle")
  /\ \E c \in Resumable :
       messages' = messages \cup {[sent |-> when[p], conv |-> c, role |-> "assistant",
                                   key |-> NoKey, turn |-> trigger[p]]}
  /\ last' = MovedLast(p)
  /\ ForgetTurn(p)
  /\ UNCHANGED <<convs, closed, stamped, conv>>

\* The flush and commit boundary C.
InsertReply(p) ==
  /\ trigger[p] # 0
  /\ Goto(p, "insert", "idle")
  /\ messages' = messages \cup {[sent |-> when[p], conv |-> conv[p], role |-> "assistant",
                                 key |-> NoKey, turn |-> trigger[p]]}
  /\ last'     = MovedLast(p)
  /\ ForgetTurn(p)
  /\ UNCHANGED <<convs, closed, stamped, conv>>

-----------------------------------------------------------------------------
(* The rest of the turn.                                                   *)

\* Mutant: the oldest messages, for want of DESC.
Recent_Oldest(p) ==
  LET S == {m.sent : m \in In(conv[p])}
  IN  {x \in S : Cardinality({y \in S : y < x}) < Window}

\* load_recent_messages: ORDER BY sent_at DESC, id DESC LIMIT window.
Recent(p) == Newest({m.sent : m \in In(conv[p])}, Window)

ReadHistory(p) ==
  /\ Goto(p, "read", "count")
  /\ seen' = [seen EXCEPT ![p] = Recent(p)]
  /\ UNCHANGED <<database, stamped, conv, draft, trigger, total>>

\* Mutants: the messages of every conversation are counted, and only those up
\* to the turn's own.
CountMessages_All(p) ==
  /\ Goto(p, "count", "model")
  /\ total' = [total EXCEPT ![p] = Cardinality(messages)]
  /\ UNCHANGED <<database, stamped, conv, draft, trigger, seen>>
CountMessages_UpToTrigger(p) ==
  /\ Goto(p, "count", "model")
  /\ total' = [total EXCEPT ![p] =
                 Cardinality({m \in In(conv[p]) : m.sent <= trigger[p]})]
  /\ UNCHANGED <<database, stamped, conv, draft, trigger, seen>>

\* count_messages, a SELECT with a snapshot of its own, and build_context.
CountMessages(p) ==
  /\ Goto(p, "count", "model")
  /\ total' = [total EXCEPT ![p] = Cardinality(In(conv[p]))]
  /\ UNCHANGED <<database, stamped, conv, draft, trigger, seen>>

\* The turn ends without a reply.
GiveUp(p) ==
  /\ pc[p] \in {"read", "count", "model"}
  /\ pc' = [pc EXCEPT ![p] = "idle"]
  /\ ForgetTurn(p)
  /\ UNCHANGED <<database, stamped, conv>>

\* The process ends at any point; its open transaction rolls back.
Stop(p) ==
  /\ pc[p] # "down"
  /\ pc'   = [pc EXCEPT ![p] = "down"]
  /\ conv' = [conv EXCEPT ![p] = NoConv]
  /\ ForgetTurn(p)
  /\ UNCHANGED <<database, stamped>>

Next ==
  \/ \E c \in Convs : Close(c) \/ \E p \in Procs : StartNew(p, c)
  \/ \E p \in Procs :
       \/ Resume(p)
       \/ \E t \in Positions : StampReply(p, t) \/ \E k \in Keys : StampMessage(p, t, k)
       \/ Look(p) \/ InsertMessage(p) \/ RefuseMessage(p) \/ InsertReply(p)
       \/ ReadHistory(p) \/ CountMessages(p) \/ GiveUp(p) \/ Stop(p)

Spec == Init /\ [][Next]_vars

-----------------------------------------------------------------------------
(* Properties of every deployment.                                         *)

Message == [sent : Positions, conv : Convs, role : {"user", "assistant"},
            key : Keys, turn : Positions]

\* The values the variables range over.
TypeOK ==
  /\ convs \subseteq Convs
  /\ closed \subseteq convs
  /\ last \in [Convs -> Positions \cup {0}]
  /\ messages \subseteq Message /\ IsFiniteSet(messages)
  /\ stamped \subseteq Positions
  /\ pc \in [Procs -> {"down", "idle", "look", "insert", "read", "count", "model"}]
  /\ conv \in [Procs -> Convs \cup {NoConv}]
  /\ when \in [Procs -> Positions \cup {0}]
  /\ key \in [Procs -> Keys]
  /\ bump \in [Procs -> BOOLEAN]
  /\ trigger \in [Procs -> Positions \cup {0}]
  /\ seen \in [Procs -> SUBSET Positions]
  /\ total \in [Procs -> Nat]

Replies(m) == {n \in messages : n.role = "assistant" /\ n.turn = m.sent}

\* A message a channel delivers several times, to several processes at once,
\* is stored and answered at most once in its conversation (service.py:12-23).
AnsweredOnce ==
  \A m \in messages : m.role = "user" =>
    /\ \A x, y \in Replies(m) : x = y
    /\ m.key # NoKey => \A n \in In(m.conv) : n.key = m.key => n = m

\* A reply is stored in the conversation of the message it answers, and that
\* message precedes it there: no history shows an answer before its question
\* (repository.py:12-17).
ReplyFollowsItsMessage ==
  \A n \in messages : n.role = "assistant" =>
    \E m \in In(n.conv) : m.role = "user" /\ m.sent = n.turn /\ m.sent < n.sent

Sent(c) == {m.sent : m \in In(c)}

Behind(p) == {s \in Sent(conv[p]) : s > trigger[p]}

\* Another turn may commit between the two SELECTs of a context.  All the same
\* messages_dropped is never negative and never more than what the model was
\* not shown (context_builder.py:17-20).
DroppedIsBounded ==
  \A p \in Procs : pc[p] = "model" =>
    /\ Cardinality(seen[p]) <= total[p]
    /\ total[p] - Cardinality(seen[p]) <= Cardinality(Sent(conv[p]) \ seen[p])

\* Turns that race in one conversation may hide each other's question: a history
\* is without the message it was read for only if a whole window of messages
\* stands behind it, and then it shows nothing older either
\* (conversations/repository.py:159-184).
TriggerIsShown ==
  \A p \in Procs :
    pc[p] \in {"count", "model"} /\ trigger[p] \notin seen[p] =>
      /\ seen[p] \subseteq Behind(p)
      /\ Cardinality(Behind(p)) >= Window

-----------------------------------------------------------------------------
(* Properties of a conversation that one process drives.                   *)

\* "A conversation whose last_message_at disagrees with its newest message is
\* not a state this code can produce" (repository.py:121-123).
LastIsNewest ==
  \A c \in Convs :
    last[c] \in Sent(c) \cup {0} /\ \A s \in Sent(c) : s <= last[c]

\* The model is shown a history that ends on the message it has to answer
\* (tests/integration/test_agent_runtime.py:202-205).
ContextEndsWithTrigger ==
  \A p \in Procs : pc[p] = "model" =>
    trigger[p] \in seen[p] /\ \A s \in seen[p] : s <= trigger[p]

\* context_summary's messages_dropped is the number of messages older than
\* everything the model was shown (context_builder.py:17-20).
DroppedIsExact ==
  \A p \in Procs : pc[p] = "model" =>
    total[p] - Cardinality(seen[p]) =
      Cardinality({s \in Sent(conv[p]) : \A x \in seen[p] : s < x})

\* `chat` continues where the owner left off: the conversation it resumes
\* holds the newest message of every open conversation (repository.py:82-88).
ResumesTheNewest ==
  [][\A p \in Procs :
       pc[p] = "down" /\ pc'[p] = "idle" /\ convs' = convs =>
         \A c \in convs \ closed : \A s \in Sent(c) : \E u \in Sent(conv'[p]) : s <= u]_vars

\* A message's place in its conversation: 1 for the oldest.
Place(m) == Cardinality({n \in In(m.conv) : n.sent <= m.sent})

Nth(c, i) == CHOOSE m \in In(c) : Place(m) = i

Roles(c) == [i \in 1..Cardinality(In(c)) |-> Nth(c, i).role]

Log == INSTANCE Transcript WITH transcript <- [c \in Convs |-> Roles(c)]

\* One process implements the abstract transcript: messages are added at the
\* end of their conversation's order, a reply directly behind its message.
ImplementsTranscript == Log!Spec

-----------------------------------------------------------------------------
(* The inductive invariants of the proofs.                                 *)

Appending(p) == pc[p] \in {"look", "insert"}

\* What a process's control point says of its locals.
Control ==
  \A p \in Procs :
    /\ pc[p] # "down" => conv[p] \in convs
    /\ Appending(p) => when[p] \in stamped
    /\ pc[p] \in {"read", "count", "model"} => trigger[p] # 0
    /\ pc[p] \in {"down", "idle"} => trigger[p] = 0
    /\ trigger[p] # 0 =>
         \E m \in In(conv[p]) : m.role = "user" /\ m.sent = trigger[p]

\* No two messages, stored or being appended, share a position.
PositionsAreUnique ==
  /\ \A m \in messages : m.sent \in stamped
  /\ \A m, n \in messages : m.sent = n.sent => m = n
  /\ \A p \in Procs : Appending(p) =>
       /\ \A m \in messages : m.sent # when[p]
       /\ \A q \in Procs \ {p} : Appending(q) => when[q] # when[p]

\* A turn belongs to one process, which has not stored its reply yet; every
\* stored reply answers a stored message of its conversation.
TurnsAreUnique ==
  /\ \A p \in Procs : trigger[p] # 0 =>
       /\ \A n \in messages : n.role = "assistant" => n.turn # trigger[p]
       /\ \A q \in Procs \ {p} : trigger[q] # trigger[p]
  /\ \A n \in messages : n.role = "assistant" =>
       \E m \in In(n.conv) : m.role = "user" /\ m.sent = n.turn

BaseInv == TypeOK /\ Control /\ PositionsAreUnique /\ TurnsAreUnique /\ AnsweredOnce

\* The clock does not step: a position is greater than all that were handed
\* out before it.
ClockAdvances ==
  /\ \A s \in stamped, u \in Positions \ stamped : s < u
  /\ \A p \in Procs : Appending(p) /\ trigger[p] # 0 => trigger[p] < when[p]

OrderInv == BaseInv /\ ClockAdvances /\ ReplyFollowsItsMessage

\* One process: what it found of last_message_at is still so when it writes.
BumpIsCurrent ==
  \A p \in Procs : pc[p] = "insert" => (bump[p] <=> last[conv[p]] < when[p])

LastInv == BaseInv /\ LastIsNewest /\ BumpIsCurrent
=============================================================================
