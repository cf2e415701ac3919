------------------------ MODULE Conversations_proofs ------------------------
(***************************************************************************)
(* Theorems about Conversations for every set of processes, conversations, *)
(* channels and moments.                                                   *)
(***************************************************************************)
EXTENDS Conversations, Sequences, FiniteSetTheorems, FunctionTheorems, TLAPS

-----------------------------------------------------------------------------
(* Type correctness.                                                       *)

\* The rows the two commits insert.
Question(p) == [sent |-> when[p], conv |-> conv[p], role |-> "user",
                key |-> key[p], turn |-> when[p]]
Reply(p) == [sent |-> when[p], conv |-> conv[p], role |-> "assistant",
             key |-> NoKey, turn |-> trigger[p]]

\* A position is a number above NULL (sent_at of a stored message).
LEMMA PositionsAreNumbers ==
  \A t \in Positions : t \in Nat /\ t \in Int /\ t # 0 /\ 0 < t
  BY ConversationsAssumption

\* A process that is about to commit inserts a message (append_message).
LEMMA DraftType ==
  ASSUME TypeOK, Control, NEW p \in Procs, Appending(p)
  PROVE  /\ conv[p] \in convs /\ conv[p] \in Convs
         /\ when[p] \in stamped /\ when[p] \in Positions
         /\ Question(p) \in Message
         /\ trigger[p] # 0 => Reply(p) \in Message
<1>1. pc[p] # "down"
  BY DEF Appending
<1>2. conv[p] \in convs /\ conv[p] \in Convs
  BY <1>1 DEF Control, TypeOK
<1>3. when[p] \in stamped /\ when[p] \in Positions
  BY DEF Control, TypeOK
<1>4. key[p] \in Keys /\ NoKey \in Keys /\ trigger[p] \in Positions \cup {0}
  BY DEF TypeOK, Keys
<1> QED
  BY <1>2, <1>3, <1>4 DEF Question, Reply, Message

\* last_message_at moves to the position of the message, or stays.
LEMMA MovedLastType ==
  ASSUME TypeOK, Control, NEW p \in Procs, Appending(p)
  PROVE  /\ MovedLast(p) \in [Convs -> Positions \cup {0}]
         /\ \A c \in Convs : MovedLast(p)[c] =
              IF bump[p] /\ c = conv[p] THEN when[p] ELSE last[c]
  BY DraftType DEF MovedLast, TypeOK

\* count_messages returns a number of rows that has to be finite.
LEMMA FiniteMessages ==
  ASSUME TypeOK, NEW c
  PROVE  Cardinality(In(c)) \in Nat
<1>1. In(c) \subseteq messages
  BY DEF In
<1>2. IsFiniteSet(In(c))
  BY <1>1, FS_Subset DEF TypeOK
<1> QED
  BY <1>2, FS_CardinalityType

\* ForgetTurn leaves values of the right types.
LEMMA ForgetType ==
  ASSUME TypeOK, NEW p \in Procs, ForgetTurn(p)
  PROVE  /\ when' \in [Procs -> Positions \cup {0}]
         /\ key' \in [Procs -> Keys]
         /\ bump' \in [Procs -> BOOLEAN]
         /\ trigger' \in [Procs -> Positions \cup {0}]
         /\ seen' \in [Procs -> SUBSET Positions]
         /\ total' \in [Procs -> Nat]
  BY DEF ForgetTurn, TypeOK, Keys

\* Every step keeps the variables in their types.
LEMMA TypeStep == TypeOK /\ Control /\ [Next]_vars => TypeOK'
<1> SUFFICES ASSUME TypeOK, Control, [Next]_vars PROVE TypeOK'
  OBVIOUS
<1>1. ASSUME NEW c \in Convs, Close(c) PROVE TypeOK'
  BY <1>1 DEF Close, TypeOK, draft, turn
<1>2. ASSUME NEW c \in Convs, NEW p \in Procs, StartNew(p, c) PROVE TypeOK'
  BY <1>2 DEF StartNew, TypeOK, draft, turn
<1>3. ASSUME NEW p \in Procs, Resume(p) PROVE TypeOK'
  BY <1>3 DEF Resume, Resumable, Goto, TypeOK, database, draft, turn
<1>4. ASSUME NEW p \in Procs, NEW t \in Positions, StampReply(p, t) PROVE TypeOK'
  BY <1>4 DEF StampReply, Goto, TypeOK, Keys, database, turn
<1>5. ASSUME NEW p \in Procs, NEW t \in Positions, NEW k \in Keys, StampMessage(p, t, k)
      PROVE  TypeOK'
  BY <1>5 DEF StampMessage, Goto, TypeOK, database, turn
<1>6. ASSUME NEW p \in Procs, Look(p) PROVE TypeOK'
  <2>1. (last[conv[p]] < when[p]) \in BOOLEAN
    OBVIOUS
  <2> QED
    BY <1>6, <2>1 DEF Look, Goto, TypeOK, database, turn
<1>7. ASSUME NEW p \in Procs, InsertMessage(p) PROVE TypeOK'
  <2>1. Appending(p)
    BY <1>7 DEF InsertMessage, Goto, Appending
  <2>2. messages' = messages \cup {Question(p)} /\ last' = MovedLast(p)
    BY <1>7 DEF InsertMessage, Question
  <2>3. messages' \subseteq Message /\ IsFiniteSet(messages')
    BY <2>1, <2>2, DraftType, FS_AddElement DEF TypeOK
  <2> QED
    BY <1>7, <2>1, <2>2, <2>3, DraftType, MovedLastType DEF InsertMessage, Goto, TypeOK, draft
<1>8. ASSUME NEW p \in Procs, InsertReply(p) PROVE TypeOK'
  <2>1. Appending(p)
    BY <1>8 DEF InsertReply, Goto, Appending
  <2>2. messages' = messages \cup {Reply(p)} /\ last' = MovedLast(p) /\ trigger[p] # 0
    BY <1>8 DEF InsertReply, Reply
  <2>3. messages' \subseteq Message /\ IsFiniteSet(messages')
    BY <2>1, <2>2, DraftType, FS_AddElement DEF TypeOK
  <2>4. last' \in [Convs -> Positions \cup {0}]
    BY <2>1, <2>2, MovedLastType
  <2>5. ForgetTurn(p)
    BY <1>8 DEF InsertReply
  <2> QED
    BY <1>8, <2>3, <2>4, <2>5, ForgetType DEF InsertReply, Goto, TypeOK
<1>9. ASSUME NEW p \in Procs, RefuseMessage(p) PROVE TypeOK'
  <2>1. ForgetTurn(p)
    BY <1>9 DEF RefuseMessage
  <2> QED
    BY <1>9, <2>1, ForgetType DEF RefuseMessage, Goto, TypeOK, database
<1>10. ASSUME NEW p \in Procs, ReadHistory(p) PROVE TypeOK'
  <2>1. Recent(p) \subseteq Positions
    BY DEF Recent, Newest, In, TypeOK, Message
  <2> QED
    BY <1>10, <2>1 DEF ReadHistory, Goto, TypeOK, database, draft
<1>11. ASSUME NEW p \in Procs, CountMessages(p) PROVE TypeOK'
  BY <1>11, FiniteMessages DEF CountMessages, Goto, TypeOK, database, draft
<1>12. ASSUME NEW p \in Procs, GiveUp(p) PROVE TypeOK'
  <2>1. ForgetTurn(p)
    BY <1>12 DEF GiveUp
  <2> QED
    BY <1>12, <2>1, ForgetType DEF GiveUp, TypeOK, database
<1>13. ASSUME NEW p \in Procs, Stop(p) PROVE TypeOK'
  <2>1. ForgetTurn(p)
    BY <1>13 DEF Stop
  <2> QED
    BY <1>13, <2>1, ForgetType DEF Stop, TypeOK, database
<1>14. CASE UNCHANGED vars
  BY <1>14 DEF vars, database, draft, turn, TypeOK
<1> QED
  BY <1>1, <1>2, <1>3, <1>4, <1>5, <1>6, <1>7, <1>8, <1>9, <1>10, <1>11, <1>12,
     <1>13, <1>14 DEF Next

-----------------------------------------------------------------------------
(* Positions and turns are unique, and so is the answer to a message.      *)

Unique == Control /\ PositionsAreUnique /\ TurnsAreUnique /\ AnsweredOnce

\* What a step that stores nothing does to a process: it is out of its turn,
\* or goes on with the turn as it was.
OutOfTurn(q) ==
  /\ pc'[q] \in {"down", "idle"}
  /\ trigger'[q] = 0
  /\ pc'[q] # "down" => conv'[q] \in convs'
SameTurn(q) ==
  /\ conv'[q] = conv[q] /\ when'[q] = when[q] /\ trigger'[q] = trigger[q]
  /\ Appending(q)' => Appending(q)
  /\ pc'[q] \in {"read", "count", "model"} => pc[q] \in {"read", "count", "model"}
  /\ pc'[q] \in {"down", "idle"} <=> pc[q] \in {"down", "idle"}
  /\ pc'[q] = "down" <=> pc[q] = "down"

Quiet ==
  /\ messages' = messages /\ last' = last /\ stamped' = stamped
  /\ convs \subseteq convs'
  /\ \A q \in Procs : OutOfTurn(q) \/ SameTurn(q)

\* A step that stores nothing and stamps nothing keeps the invariant.
LEMMA QuietStep == Unique /\ Quiet => Unique'
<1> SUFFICES ASSUME Unique, Quiet PROVE Unique'
  OBVIOUS
<1> USE DEF Quiet
<1>1. Control'
  <2> SUFFICES ASSUME NEW q \in Procs
               PROVE  /\ pc'[q] # "down" => conv'[q] \in convs'
                      /\ Appending(q)' => when'[q] \in stamped'
                      /\ pc'[q] \in {"read", "count", "model"} => trigger'[q] # 0
                      /\ pc'[q] \in {"down", "idle"} => trigger'[q] = 0
                      /\ trigger'[q] # 0 =>
                           \E m \in In(conv[q])' : m.role = "user" /\ m.sent = trigger'[q]
    BY DEF Control
  <2>1. CASE OutOfTurn(q)
    BY <2>1 DEF OutOfTurn, Appending
  <2>2. CASE SameTurn(q)
    BY <2>2 DEF SameTurn, Unique, Control, In
  <2> QED
    BY <2>1, <2>2
<1>2. \A q \in Procs : Appending(q)' => Appending(q) /\ when'[q] = when[q]
  BY DEF OutOfTurn, SameTurn, Appending
<1>3. PositionsAreUnique'
  BY <1>2 DEF Unique, PositionsAreUnique
<1>4. \A q \in Procs : trigger'[q] # 0 => trigger'[q] = trigger[q]
  BY DEF OutOfTurn, SameTurn
<1>5. TurnsAreUnique'
  BY <1>4 DEF Unique, TurnsAreUnique, In
<1>6. AnsweredOnce'
  BY DEF Unique, AnsweredOnce, Replies, In
<1> QED
  BY <1>1, <1>3, <1>5, <1>6 DEF Unique

\* A step of p that ends its turn leaves the other processes alone.
LEMMA ForgetFrame ==
  ASSUME TypeOK, NEW p \in Procs, ForgetTurn(p)
  PROVE  /\ trigger'[p] = 0
         /\ \A q \in Procs \ {p} : trigger'[q] = trigger[q] /\ when'[q] = when[q]
  BY DEF ForgetTurn, TypeOK

\* The steps that store and stamp nothing.
LEMMA QuietActions ==
  ASSUME TypeOK, Unique, NEW p \in Procs,
         \/ Resume(p) \/ Look(p) \/ RefuseMessage(p) \/ ReadHistory(p)
         \/ CountMessages(p) \/ GiveUp(p) \/ Stop(p)
         \/ \E c \in Convs : StartNew(p, c) \/ Close(c)
  PROVE  Quiet
<1> USE DEF database, draft, turn, Goto, SameTurn, OutOfTurn, Appending
<1>1. CASE Resume(p)
  <2>1. \A q \in Procs \ {p} : SameTurn(q)
    BY <1>1 DEF Resume, TypeOK
  <2>2. OutOfTurn(p)
    BY <1>1 DEF Resume, Resumable, TypeOK, Unique, Control
  <2> QED
    BY <1>1, <2>1, <2>2 DEF Quiet, Resume
<1>2. CASE Look(p)
  <2>1. \A q \in Procs : SameTurn(q)
    BY <1>2 DEF Look, TypeOK
  <2> QED
    BY <1>2, <2>1 DEF Quiet, Look
<1>3. CASE RefuseMessage(p)
  <2>1. \A q \in Procs \ {p} : SameTurn(q)
    BY <1>3, ForgetFrame DEF RefuseMessage, TypeOK
  <2>2. OutOfTurn(p)
    BY <1>3, ForgetFrame DEF RefuseMessage, TypeOK, Unique, Control
  <2> QED
    BY <1>3, <2>1, <2>2 DEF Quiet, RefuseMessage
<1>4. CASE ReadHistory(p)
  <2>1. \A q \in Procs : SameTurn(q)
    BY <1>4 DEF ReadHistory, TypeOK
  <2> QED
    BY <1>4, <2>1 DEF Quiet, ReadHistory
<1>5. CASE CountMessages(p)
  <2>1. \A q \in Procs : SameTurn(q)
    BY <1>5 DEF CountMessages, TypeOK
  <2> QED
    BY <1>5, <2>1 DEF Quiet, CountMessages
<1>6. CASE GiveUp(p)
  <2>1. \A q \in Procs \ {p} : SameTurn(q)
    BY <1>6, ForgetFrame DEF GiveUp, TypeOK
  <2>2. OutOfTurn(p)
    BY <1>6, ForgetFrame DEF GiveUp, TypeOK, Unique, Control
  <2> QED
    BY <1>6, <2>1, <2>2 DEF Quiet, GiveUp
<1>7. CASE Stop(p)
  <2>1. \A q \in Procs \ {p} : SameTurn(q)
    BY <1>7, ForgetFrame DEF Stop, TypeOK
  <2>2. OutOfTurn(p)
    BY <1>7, ForgetFrame DEF Stop, TypeOK
  <2> QED
    BY <1>7, <2>1, <2>2 DEF Quiet, Stop
<1>8. ASSUME NEW c \in Convs, StartNew(p, c) PROVE Quiet
  <2>1. \A q \in Procs \ {p} : SameTurn(q)
    BY <1>8 DEF StartNew, TypeOK
  <2>2. OutOfTurn(p)
    BY <1>8 DEF StartNew, TypeOK, Unique, Control
  <2> QED
    BY <1>8, <2>1, <2>2 DEF Quiet, StartNew
<1>9. ASSUME NEW c \in Convs, Close(c) PROVE Quiet
  <2>1. \A q \in Procs : SameTurn(q)
    BY <1>9 DEF Close
  <2> QED
    BY <1>9, <2>1 DEF Quiet, Close
<1> QED
  BY <1>1, <1>2, <1>3, <1>4, <1>5, <1>6, <1>7, <1>8, <1>9

\* A position that is handed out belongs to no message and no other process.
LEMMA StampStep ==
  ASSUME TypeOK, Unique, NEW p \in Procs, NEW t \in Positions, NEW k \in Keys,
         StampMessage(p, t, k) \/ StampReply(p, t)
  PROVE  Unique'
<1>1. /\ t \notin stamped /\ stamped' = stamped \cup {t} /\ messages' = messages
      /\ convs' = convs /\ conv' = conv /\ trigger' = trigger
      /\ pc[p] \in {"idle", "model"} /\ pc'[p] = "look" /\ when'[p] = t
      /\ \A q \in Procs \ {p} : pc'[q] = pc[q] /\ when'[q] = when[q]
  BY DEF StampMessage, StampReply, Now, Goto, TypeOK, database, turn
<1>2. Control'
  BY <1>1 DEF Unique, Control, Appending, In
<1>3. PositionsAreUnique'
  BY <1>1 DEF Unique, Control, PositionsAreUnique, Appending
<1>4. TurnsAreUnique'
  BY <1>1 DEF Unique, TurnsAreUnique, In
<1>5. AnsweredOnce'
  BY <1>1 DEF Unique, AnsweredOnce, Replies, In
<1> QED
  BY <1>2, <1>3, <1>4, <1>5 DEF Unique

\* Commit boundary A: no message with this position or key was there.
LEMMA InsertMessageStep ==
  ASSUME TypeOK, Unique, NEW p \in Procs, InsertMessage(p)
  PROVE  Unique'
<1>1. /\ pc[p] = "insert" /\ pc'[p] = "read"
      /\ trigger[p] = 0 /\ trigger'[p] = when[p] /\ ~Duplicate(p)
      /\ messages' = messages \cup {Question(p)}
      /\ convs' = convs /\ conv' = conv /\ when' = when /\ stamped' = stamped
      /\ \A q \in Procs \ {p} : pc'[q] = pc[q] /\ trigger'[q] = trigger[q]
  BY DEF InsertMessage, Question, Goto, TypeOK, draft
<1>2. /\ Question(p).sent = when[p] /\ Question(p).conv = conv[p]
      /\ Question(p).role = "user" /\ Question(p).key = key[p]
  BY DEF Question
<1>3. Appending(p) /\ when[p] \in stamped /\ when[p] # 0
  BY <1>1, DraftType, PositionsAreNumbers DEF Unique, Appending
<1>4. Control'
  BY <1>1, <1>2, <1>3 DEF Unique, Control, Appending, In
<1>5. PositionsAreUnique'
  BY <1>1, <1>2, <1>3 DEF Unique, PositionsAreUnique, Appending
<1>6. \A n \in messages : n.role = "assistant" => n.turn # when[p]
  BY <1>3 DEF Unique, TurnsAreUnique, PositionsAreUnique, In
<1>7. \A q \in Procs \ {p} : trigger[q] # 0 => trigger[q] # when[p]
  BY <1>3 DEF Unique, Control, PositionsAreUnique, In
<1>8. TurnsAreUnique'
  BY <1>1, <1>2, <1>6, <1>7 DEF Unique, TurnsAreUnique, In
<1>9. AnsweredOnce'
  <2>1. \A n \in messages' : n.role = "assistant" => n \in messages /\ n.turn # when[p]
    BY <1>1, <1>2, <1>6
  <2>2. \A m \in messages' : m.role = "user" => \A x, y \in Replies(m)' : x = y
    BY <1>1, <1>2, <2>1 DEF Unique, AnsweredOnce, Replies
  <2>3. key[p] # NoKey => \A n \in In(conv[p]) : n.key # key[p]
    BY <1>1 DEF Duplicate
  <2>4. \A m \in messages' : m.role = "user" /\ m.key # NoKey =>
          \A n \in In(m.conv)' : n.key = m.key => n = m
    BY <1>1, <1>2, <2>3 DEF Unique, AnsweredOnce, In
  <2> QED
    BY <2>2, <2>4 DEF AnsweredOnce
<1> QED
  BY <1>4, <1>5, <1>8, <1>9 DEF Unique

\* Commit boundary C: the turn had no reply yet and is over with this one.
LEMMA InsertReplyStep ==
  ASSUME TypeOK, Unique, NEW p \in Procs, InsertReply(p)
  PROVE  Unique'
<1>1. /\ pc[p] = "insert" /\ pc'[p] = "idle"
      /\ trigger[p] # 0 /\ trigger'[p] = 0
      /\ messages' = messages \cup {Reply(p)}
      /\ convs' = convs /\ conv' = conv /\ stamped' = stamped
      /\ \A q \in Procs \ {p} :
           pc'[q] = pc[q] /\ trigger'[q] = trigger[q] /\ when'[q] = when[q]
  BY ForgetFrame DEF InsertReply, Reply, Goto, TypeOK
<1>2. /\ Reply(p).sent = when[p] /\ Reply(p).conv = conv[p]
      /\ Reply(p).role = "assistant" /\ Reply(p).key = NoKey /\ Reply(p).turn = trigger[p]
  BY DEF Reply
<1>3. Appending(p) /\ when[p] \in stamped
  BY <1>1, DraftType DEF Unique, Appending
<1>4. Control'
  BY <1>1, <1>2, <1>3 DEF Unique, Control, Appending, In
<1>5. PositionsAreUnique'
  BY <1>1, <1>2, <1>3 DEF Unique, PositionsAreUnique, Appending
<1>6. PICK m \in In(conv[p]) : m.role = "user" /\ m.sent = trigger[p]
  BY <1>1 DEF Unique, Control
<1>7. TurnsAreUnique'
  BY <1>1, <1>2, <1>6 DEF Unique, TurnsAreUnique, In
<1>8. AnsweredOnce'
  <2>1. \A n \in messages : n.role = "assistant" => n.turn # trigger[p]
    BY <1>1 DEF Unique, TurnsAreUnique
  <2>2. \A q \in messages' : q.role = "user" => q \in messages
    BY <1>1, <1>2
  <2>3. \A q \in messages' : q.role = "user" => \A x, y \in Replies(q)' : x = y
    BY <1>1, <1>2, <2>1, <2>2 DEF Unique, AnsweredOnce, Replies
  <2>4. \A q \in messages' : q.role = "user" /\ q.key # NoKey =>
          \A n \in In(q.conv)' : n.key = q.key => n = q
    BY <1>1, <1>2, <2>2 DEF Unique, AnsweredOnce, In
  <2> QED
    BY <2>3, <2>4 DEF AnsweredOnce
<1> QED
  BY <1>4, <1>5, <1>7, <1>8 DEF Unique

\* A step is quiet, takes a position, or commits a message.
LEMMA FourKinds ==
  ASSUME TypeOK, Unique, [Next]_vars
  PROVE  \/ Quiet
         \/ \E p \in Procs, t \in Positions, k \in Keys :
              StampMessage(p, t, k) \/ StampReply(p, t)
         \/ \E p \in Procs : InsertMessage(p)
         \/ \E p \in Procs : InsertReply(p)
<1>1. CASE UNCHANGED vars
  BY <1>1 DEF vars, database, draft, turn, Quiet, SameTurn, Appending
<1>2. ASSUME NEW c \in Convs, Close(c) PROVE Quiet
  BY <1>2 DEF Close, draft, turn, Quiet, SameTurn, Appending
<1>3. ASSUME NEW c \in Convs, NEW p \in Procs, StartNew(p, c) PROVE Quiet
  BY <1>3, QuietActions
<1>4. ASSUME NEW p \in Procs,
             \/ Resume(p) \/ Look(p) \/ RefuseMessage(p) \/ ReadHistory(p)
             \/ CountMessages(p) \/ GiveUp(p) \/ Stop(p)
      PROVE  Quiet
  BY <1>4, QuietActions
<1>5. NoKey \in Keys
  BY DEF Keys
<1> QED
  BY <1>1, <1>2, <1>3, <1>4, <1>5 DEF Next

\* The base invariant is inductive, for any processes and any clock.
LEMMA BaseStep == BaseInv /\ [Next]_vars => BaseInv'
<1> SUFFICES ASSUME BaseInv, [Next]_vars PROVE BaseInv'
  OBVIOUS
<1>1. TypeOK /\ Unique
  BY DEF BaseInv, Unique
<1>2. TypeOK'
  BY <1>1, TypeStep DEF Unique
<1>3. Quiet => Unique'
  BY <1>1, QuietStep
<1>4. (\E p \in Procs, t \in Positions, k \in Keys :
         StampMessage(p, t, k) \/ StampReply(p, t)) => Unique'
  BY <1>1, StampStep
<1>5. (\E p \in Procs : InsertMessage(p) \/ InsertReply(p)) => Unique'
  BY <1>1, InsertMessageStep, InsertReplyStep
<1> QED
  BY <1>1, <1>2, <1>3, <1>4, <1>5, FourKinds DEF BaseInv, Unique

\* Nothing is stored and nobody is in a turn at first.
LEMMA BaseInit == Init => BaseInv
<1> SUFFICES ASSUME Init PROVE BaseInv
  OBVIOUS
<1>1. TypeOK
  BY FS_EmptySet DEF Init, TypeOK, Keys
<1>2. Control /\ PositionsAreUnique /\ TurnsAreUnique /\ AnsweredOnce
  BY DEF Init, Control, PositionsAreUnique, TurnsAreUnique, AnsweredOnce, Appending
<1> QED
  BY <1>1, <1>2 DEF BaseInv

\* Every variable keeps to its type, for any processes and any clock.
THEOREM ConversationsTyped == Spec => []TypeOK
<1>1. BaseInv => TypeOK
  BY DEF BaseInv
<1> QED
  BY <1>1, BaseInit, BaseStep, PTL DEF Spec

\* However often and to however many processes a channel delivers a message,
\* and wherever a process stops, its conversation stores it once and holds at
\* most one reply to it (service.py:12-23).
THEOREM MessagesAnsweredOnce == Spec => []AnsweredOnce
<1>1. BaseInv => AnsweredOnce
  BY DEF BaseInv
<1> QED
  BY <1>1, BaseInit, BaseStep, PTL DEF Spec

-----------------------------------------------------------------------------
(* A clock that does not step: a reply follows its message.                *)

\* A position that is handed out is greater than all before it.
LEMMA NowIsNewest ==
  ASSUME TypeOK, ClockAdvances, ~ClockSteps, NEW t \in Now
  PROVE  /\ t \in Positions \ stamped
         /\ \A s \in stamped : s < t
         /\ \A u \in Positions \ (stamped \cup {t}) : t < u
<1>1. t \in Positions \ stamped /\ \A u \in Positions \ stamped : t <= u
  BY DEF Now
<1>2. \A u \in Positions \ (stamped \cup {t}) : t < u
  BY <1>1, PositionsAreNumbers
<1> QED
  BY <1>1, <1>2 DEF ClockAdvances

\* No step hands out a position before one it handed out, or lets a turn's
\* reply have one before its message's.
LEMMA ClockStep ==
  ASSUME BaseInv, ClockAdvances, ~ClockSteps, [Next]_vars
  PROVE  ClockAdvances'
<1>1. TypeOK /\ Unique
  BY DEF BaseInv, Unique
<1>2. CASE Quiet
  <2>1. \A q \in Procs : Appending(q)' /\ trigger'[q] # 0 =>
          Appending(q) /\ trigger[q] # 0 /\ trigger'[q] = trigger[q] /\ when'[q] = when[q]
    BY <1>2 DEF Quiet, OutOfTurn, SameTurn
  <2> QED
    BY <1>2, <2>1 DEF Quiet, ClockAdvances
<1>3. ASSUME NEW p \in Procs, NEW t \in Positions, NEW k \in Keys,
             StampMessage(p, t, k) \/ StampReply(p, t)
      PROVE  ClockAdvances'
  <2>1. /\ t \in Now /\ stamped' = stamped \cup {t} /\ trigger' = trigger
        /\ when'[p] = t
        /\ \A q \in Procs \ {p} : pc'[q] = pc[q] /\ when'[q] = when[q]
    BY <1>1, <1>3 DEF StampMessage, StampReply, Goto, TypeOK, turn
  <2>2. trigger[p] # 0 => trigger[p] \in stamped
    BY <1>1 DEF Unique, Control, PositionsAreUnique, In
  <2>3. \A s \in stamped', u \in Positions \ stamped' : s < u
    BY <1>1, <2>1, NowIsNewest DEF ClockAdvances
  <2>4. \A q \in Procs : Appending(q)' /\ trigger'[q] # 0 => trigger'[q] < when'[q]
    BY <1>1, <2>1, <2>2, NowIsNewest DEF ClockAdvances, Appending
  <2> QED
    BY <2>3, <2>4 DEF ClockAdvances
<1>4. ASSUME NEW p \in Procs, InsertMessage(p) \/ InsertReply(p) PROVE ClockAdvances'
  <2>1. /\ stamped' = stamped /\ pc'[p] \in {"read", "idle"}
        /\ \A q \in Procs \ {p} : /\ pc'[q] = pc[q] /\ trigger'[q] = trigger[q]
                                  /\ when'[q] = when[q]
    BY <1>1, <1>4, ForgetFrame DEF InsertMessage, InsertReply, Goto, TypeOK, draft
  <2> QED
    BY <2>1 DEF ClockAdvances, Appending
<1> QED
  BY <1>1, <1>2, <1>3, <1>4, FourKinds

\* No step stores a reply before its message or takes the message away.
LEMMA FollowStep ==
  ASSUME BaseInv, ClockAdvances, ReplyFollowsItsMessage, [Next]_vars
  PROVE  ReplyFollowsItsMessage'
<1>1. TypeOK /\ Unique
  BY DEF BaseInv, Unique
<1>2. CASE messages' = messages
  BY <1>2 DEF ReplyFollowsItsMessage, In
<1>3. ASSUME NEW p \in Procs, InsertMessage(p) PROVE ReplyFollowsItsMessage'
  BY <1>3 DEF InsertMessage, ReplyFollowsItsMessage, In
<1>4. ASSUME NEW p \in Procs, InsertReply(p) PROVE ReplyFollowsItsMessage'
  <2>1. messages' = messages \cup {Reply(p)} /\ trigger[p] # 0 /\ Appending(p)
    BY <1>4 DEF InsertReply, Reply, Goto, Appending
  <2>2. PICK m \in In(conv[p]) : m.role = "user" /\ m.sent = trigger[p]
    BY <1>1, <2>1 DEF Unique, Control
  <2>3. trigger[p] < when[p]
    BY <2>1 DEF ClockAdvances
  <2>4. Reply(p).conv = conv[p] /\ Reply(p).turn = trigger[p] /\ Reply(p).sent = when[p]
    BY DEF Reply
  <2> QED
    BY <2>1, <2>2, <2>3, <2>4 DEF ReplyFollowsItsMessage, In
<1> QED
  BY <1>1, <1>2, <1>3, <1>4, FourKinds DEF Quiet, StampMessage, StampReply, database

\* For any number of processes, if the wall clock is never set back, the
\* order of positions agrees with what was stored when.
THEOREM OrderInvariant == ~ClockSteps /\ Spec => []OrderInv
<1> SUFFICES ASSUME ~ClockSteps PROVE Spec => []OrderInv
  OBVIOUS
<1>1. Init => OrderInv
  <2>1. Init => ClockAdvances /\ ReplyFollowsItsMessage
    BY DEF Init, ClockAdvances, ReplyFollowsItsMessage, Appending
  <2> QED
    BY <2>1, BaseInit DEF OrderInv
<1>2. OrderInv /\ [Next]_vars => OrderInv'
  BY BaseStep, ClockStep, FollowStep DEF OrderInv
<1> QED
  BY <1>1, <1>2, PTL DEF Spec

\* Whoever drives a conversation, and however many at once, no history shows
\* an answer before its question, if the wall clock is never set back
\* (repository.py:12-17).
THEOREM RepliesFollow == ~ClockSteps /\ Spec => []ReplyFollowsItsMessage
<1> SUFFICES ASSUME ~ClockSteps PROVE Spec => []ReplyFollowsItsMessage
  OBVIOUS
<1>1. OrderInv => ReplyFollowsItsMessage
  BY DEF OrderInv
<1> QED
  BY <1>1, OrderInvariant, PTL

-----------------------------------------------------------------------------
(* One process: last_message_at is the newest message's sent_at.           *)

\* A commit that compared with the current last_message_at keeps it exact.
LEMMA BumpStep ==
  ASSUME TypeOK, Unique, LastIsNewest, BumpIsCurrent, NEW p \in Procs, pc[p] = "insert",
         NEW row, row.conv = conv[p], row.sent = when[p],
         messages' = messages \cup {row}, last' = MovedLast(p)
  PROVE  LastIsNewest'
<1>1. conv[p] \in Convs /\ when[p] \in Positions
  BY DraftType DEF Unique, Appending
<1>2. \A c \in Convs : last'[c] = IF bump[p] /\ c = conv[p] THEN when[p] ELSE last[c]
  BY MovedLastType DEF Unique, Appending
<1>3. \A c \in Convs : Sent(c)' = IF c = conv[p] THEN Sent(c) \cup {when[p]} ELSE Sent(c)
  BY DEF Sent, In
<1>4. bump[p] <=> last[conv[p]] < when[p]
  BY DEF BumpIsCurrent
<1>5. \A c \in Convs : Sent(c) \subseteq Positions /\ last[c] \in Nat
  BY PositionsAreNumbers DEF Sent, In, TypeOK, Message
<1> SUFFICES ASSUME NEW c \in Convs
             PROVE  last'[c] \in Sent(c)' \cup {0} /\ \A s \in Sent(c)' : s <= last'[c]
  BY DEF LastIsNewest
<1>6. last[c] \in Sent(c) \cup {0} /\ \A s \in Sent(c) : s <= last[c]
  BY DEF LastIsNewest
<1>7. CASE c = conv[p] /\ bump[p]
  <2>1. last'[c] = when[p] /\ Sent(c)' = Sent(c) \cup {when[p]} /\ last[c] < when[p]
    BY <1>2, <1>3, <1>4, <1>7
  <2> QED
    BY <1>1, <1>5, <1>6, <2>1, PositionsAreNumbers
<1>8. CASE c = conv[p] /\ ~bump[p]
  <2>1. last'[c] = last[c] /\ Sent(c)' = Sent(c) \cup {when[p]} /\ ~(last[c] < when[p])
    BY <1>2, <1>3, <1>4, <1>8
  <2> QED
    BY <1>1, <1>5, <1>6, <2>1, PositionsAreNumbers
<1>9. CASE c # conv[p]
  BY <1>2, <1>3, <1>6, <1>9
<1> QED
  BY <1>7, <1>8, <1>9

\* With one process nobody moves last_message_at between look and insert.
LEMMA CurrentStep ==
  ASSUME TypeOK, \A p, q \in Procs : p = q, BumpIsCurrent, [Next]_vars
  PROVE  BumpIsCurrent'
<1> SUFFICES ASSUME NEW q \in Procs, pc'[q] = "insert"
             PROVE  bump'[q] <=> last'[conv'[q]] < when'[q]
  BY DEF BumpIsCurrent
<1> USE DEF database, draft, turn, Goto
<1>1. CASE UNCHANGED vars
  BY <1>1 DEF vars, BumpIsCurrent
<1>2. ASSUME NEW c \in Convs, Close(c)
      PROVE  bump'[q] <=> last'[conv'[q]] < when'[q]
  BY <1>2 DEF Close, BumpIsCurrent
<1>3. ASSUME NEW p \in Procs, Look(p)
      PROVE  bump'[q] <=> last'[conv'[q]] < when'[q]
  <2>1. p = q /\ bump'[q] = (last[conv[q]] < when[q])
    BY <1>3 DEF Look, TypeOK
  <2> QED
    BY <1>3, <2>1 DEF Look
<1>4. ASSUME NEW p \in Procs,
             \/ \E c \in Convs : StartNew(p, c)
             \/ \E t \in Positions : StampReply(p, t) \/ \E k \in Keys : StampMessage(p, t, k)
             \/ Resume(p) \/ InsertMessage(p) \/ RefuseMessage(p) \/ InsertReply(p)
             \/ ReadHistory(p) \/ CountMessages(p) \/ GiveUp(p) \/ Stop(p)
      PROVE  FALSE
  <2>1. p = q
    OBVIOUS
  <2>2. pc' = [pc EXCEPT ![p] = pc'[p]] /\ pc'[p] # "insert"
    BY <1>4 DEF TypeOK, StartNew, StampReply, StampMessage, Resume, InsertMessage, RefuseMessage,
       InsertReply, ReadHistory, CountMessages, GiveUp, Stop
  <2> QED
    BY <2>1, <2>2
<1> QED
  BY <1>1, <1>2, <1>3, <1>4 DEF Next

\* A conversation that one process at a time writes has the last_message_at
\* of its newest message, whatever the clock does.
THEOREM LastInvariant == (\A p, q \in Procs : p = q) /\ Spec => []LastInv
<1> SUFFICES ASSUME \A p, q \in Procs : p = q PROVE Spec => []LastInv
  OBVIOUS
<1>1. Init => LastInv
  <2>1. Init => LastIsNewest /\ BumpIsCurrent
    BY DEF Init, LastIsNewest, BumpIsCurrent, Sent, In
  <2> QED
    BY <2>1, BaseInit DEF LastInv
<1>2. LastInv /\ [Next]_vars => LastInv'
  <2> SUFFICES ASSUME LastInv, [Next]_vars PROVE LastInv'
    OBVIOUS
  <2>1. BaseInv /\ TypeOK /\ Unique /\ LastIsNewest /\ BumpIsCurrent
    BY DEF LastInv, BaseInv, Unique
  <2>2. messages' = messages /\ last' = last => LastIsNewest'
    BY <2>1 DEF LastIsNewest, Sent, In
  <2>3. ASSUME NEW p \in Procs, InsertMessage(p) PROVE LastIsNewest'
    <3>1. /\ pc[p] = "insert" /\ messages' = messages \cup {Question(p)}
          /\ last' = MovedLast(p)
          /\ Question(p).conv = conv[p] /\ Question(p).sent = when[p]
      BY <2>3 DEF InsertMessage, Question, Goto
    <3> QED
      BY <2>1, <3>1, BumpStep
  <2>4. ASSUME NEW p \in Procs, InsertReply(p) PROVE LastIsNewest'
    <3>1. /\ pc[p] = "insert" /\ messages' = messages \cup {Reply(p)}
          /\ last' = MovedLast(p)
          /\ Reply(p).conv = conv[p] /\ Reply(p).sent = when[p]
      BY <2>4 DEF InsertReply, Reply, Goto
    <3> QED
      BY <2>1, <3>1, BumpStep
  <2>5. LastIsNewest'
    BY <2>1, <2>2, <2>3, <2>4, FourKinds DEF Quiet, StampMessage, StampReply, database
  <2>6. BaseInv' /\ BumpIsCurrent'
    BY <2>1, BaseStep, CurrentStep
  <2> QED
    BY <2>5, <2>6 DEF LastInv
<1> QED
  BY <1>1, <1>2, PTL DEF Spec

\* "A conversation whose last_message_at disagrees with its newest message is
\* not a state this code can produce" (repository.py:121-123), as long as one
\* process writes it.
THEOREM LastMessageIsNewest == (\A p, q \in Procs : p = q) /\ Spec => []LastIsNewest
<1> SUFFICES ASSUME \A p, q \in Procs : p = q PROVE Spec => []LastIsNewest
  OBVIOUS
<1>1. LastInv => LastIsNewest
  BY DEF LastInv
<1> QED
  BY <1>1, LastInvariant, PTL

\* `chat` continues where the owner left off (repository.py:82-88): no open
\* conversation holds a message newer than all of the one it resumes.
THEOREM ResumedIsNewest == (\A p, q \in Procs : p = q) /\ Spec => ResumesTheNewest
<1> SUFFICES ASSUME \A p, q \in Procs : p = q PROVE Spec => ResumesTheNewest
  OBVIOUS
<1> DEFINE
  Newer(p) == \A c \in convs \ closed : \A s \in Sent(c) : \E u \in Sent(conv'[p]) : s <= u
  Resumes == \A p \in Procs : pc[p] = "down" /\ pc'[p] = "idle" /\ convs' = convs => Newer(p)
<1>1. LastInv /\ [Next]_vars => [Resumes]_vars
  <2> SUFFICES ASSUME LastInv, Next, NEW p \in Procs,
                      pc[p] = "down", pc'[p] = "idle", convs' = convs
               PROVE  Newer(p)
    OBVIOUS
  <2>1. TypeOK /\ LastIsNewest
    BY DEF LastInv, BaseInv
  <2>2. Resume(p)
    <3>1. ASSUME NEW c \in Convs, NEW q \in Procs, StartNew(q, c) PROVE FALSE
      BY <3>1 DEF StartNew
    <3>2. ASSUME NEW q \in Procs,
                 \/ \E t \in Positions : StampReply(q, t) \/ \E k \in Keys : StampMessage(q, t, k)
                 \/ Look(q) \/ InsertMessage(q) \/ RefuseMessage(q) \/ InsertReply(q)
                 \/ ReadHistory(q) \/ CountMessages(q) \/ GiveUp(q) \/ Stop(q)
          PROVE  FALSE
      <4>1. q = p
        OBVIOUS
      <4> QED
        BY <3>2, <4>1 DEF StampReply, StampMessage, Look, InsertMessage, RefuseMessage,
           InsertReply, ReadHistory, CountMessages, GiveUp, Stop, Goto
    <3>3. ASSUME NEW c \in Convs, Close(c) PROVE FALSE
      BY <3>3 DEF Close
    <3> QED
      BY <3>1, <3>2, <3>3 DEF Next
  <2>3. PICK r \in Resumable : conv'[p] = r
    BY <2>1, <2>2 DEF Resume, TypeOK
  <2> SUFFICES ASSUME NEW c \in convs \ closed, NEW s \in Sent(c)
               PROVE  \E u \in Sent(r) : s <= u
    BY <2>3
  <2>4. r \in Convs /\ c \in Convs /\ (last[c] < last[r] \/ last[c] = last[r])
    BY <2>1 DEF Resumable, TypeOK
  <2>5. s \in Positions /\ s <= last[c] /\ last[r] \in Sent(r) \cup {0}
    BY <2>1, <2>4 DEF LastIsNewest, Sent, In, TypeOK, Message
  <2>6. last[c] \in Nat /\ last[r] \in Nat /\ s \in Nat /\ 0 < s
    BY <2>1, <2>4, <2>5, PositionsAreNumbers DEF TypeOK
  <2>7. s <= last[r] /\ last[r] # 0
    BY <2>4, <2>5, <2>6
  <2> QED
    BY <2>5, <2>7
<1>2. ResumesTheNewest <=> [][Resumes]_vars
  BY DEF ResumesTheNewest
<1> HIDE DEF Newer, Resumes
<1> QED
  BY <1>1, <1>2, LastInvariant, PTL DEF Spec

-----------------------------------------------------------------------------
(* One process: the history it reads is still the conversation's when the  *)
(* context is built of it.                                                 *)

\* What the process read is what it would read now.
ReadsAreCurrent ==
  \A p \in Procs :
    /\ pc[p] \in {"count", "model"} => seen[p] = Recent(p)
    /\ pc[p] = "model" => total[p] = Cardinality(In(conv[p]))

\* The message being appended is the newest that was stamped, and the message
\* of a turn the newest that is stored.
TurnIsNewest ==
  \A p \in Procs :
    /\ Appending(p) => \A s \in stamped : s <= when[p]
    /\ trigger[p] # 0 => \A m \in messages : m.sent <= trigger[p]

ReadInv == BaseInv /\ ReadsAreCurrent
ShownInv == ReadInv /\ ClockAdvances /\ TurnIsNewest

\* Between its SELECTs and the end of its turn no row is added but by the
\* process itself, so what it read stays current.
LEMMA ReadStep ==
  ASSUME TypeOK, \A p, q \in Procs : p = q, ReadsAreCurrent, [Next]_vars
  PROVE  ReadsAreCurrent'
<1> SUFFICES ASSUME NEW q \in Procs
             PROVE  /\ pc'[q] \in {"count", "model"} => seen'[q] = Recent(q)'
                    /\ pc'[q] = "model" => total'[q] = Cardinality(In(conv[q]))'
  BY DEF ReadsAreCurrent
<1> USE DEF database, draft, turn, Goto
<1>1. CASE UNCHANGED vars
  BY <1>1 DEF vars, ReadsAreCurrent, Recent, In
<1>2. ASSUME NEW c \in Convs, Close(c)
      PROVE  /\ pc'[q] \in {"count", "model"} => seen'[q] = Recent(q)'
             /\ pc'[q] = "model" => total'[q] = Cardinality(In(conv[q]))'
  BY <1>2 DEF Close, ReadsAreCurrent, Recent, In
<1>3. ASSUME NEW p \in Procs, ReadHistory(p)
      PROVE  pc'[q] = "count" /\ seen'[q] = Recent(q)'
  <2>1. p = q
    OBVIOUS
  <2> QED
    BY <1>3, <2>1 DEF ReadHistory, TypeOK, Recent, In
<1>4. ASSUME NEW p \in Procs, CountMessages(p)
      PROVE  seen'[q] = Recent(q)' /\ total'[q] = Cardinality(In(conv[q]))'
  <2>1. p = q
    OBVIOUS
  <2> QED
    BY <1>4, <2>1 DEF CountMessages, TypeOK, ReadsAreCurrent, Recent, In
<1>5. ASSUME NEW p \in Procs,
             \/ \E c \in Convs : StartNew(p, c)
             \/ \E t \in Positions : StampReply(p, t) \/ \E k \in Keys : StampMessage(p, t, k)
             \/ Resume(p) \/ Look(p) \/ InsertMessage(p) \/ RefuseMessage(p) \/ InsertReply(p)
             \/ GiveUp(p) \/ Stop(p)
      PROVE  pc'[q] \notin {"count", "model"}
  <2>1. p = q
    OBVIOUS
  <2>2. pc' = [pc EXCEPT ![p] = pc'[p]] /\ pc'[p] \notin {"count", "model"}
    BY <1>5 DEF TypeOK, StartNew, StampReply, StampMessage, Resume, Look, InsertMessage,
       RefuseMessage, InsertReply, GiveUp, Stop
  <2> QED
    BY <2>1, <2>2
<1> QED
  BY <1>1, <1>2, <1>3, <1>4, <1>5 DEF Next

\* One process builds its context of a history that is still the
\* conversation's, whatever the clock does.
THEOREM ReadInvariant == (\A p, q \in Procs : p = q) /\ Spec => []ReadInv
<1> SUFFICES ASSUME \A p, q \in Procs : p = q PROVE Spec => []ReadInv
  OBVIOUS
<1>1. Init => ReadInv
  BY BaseInit DEF Init, ReadInv, ReadsAreCurrent
<1>2. ReadInv /\ [Next]_vars => ReadInv'
  BY BaseStep, ReadStep DEF ReadInv, BaseInv
<1> QED
  BY <1>1, <1>2, PTL DEF Spec

\* What a LIMIT leaves out is older than everything it keeps, and nothing
\* else is (ORDER BY sent_at DESC, id DESC LIMIT window).
LEMMA LeftOutIsOlder ==
  ASSUME NEW S, IsFiniteSet(S), S \subseteq Nat, NEW n \in Nat
  PROVE  {s \in S : \A x \in Newest(S, n) : s < x} = S \ Newest(S, n)
<1>1. ASSUME NEW s \in S, s \notin Newest(S, n), NEW x \in Newest(S, n), ~(s < x)
      PROVE  FALSE
  <2> DEFINE Above(z) == {y \in S : y > z}
  <2>1. x \in S /\ Cardinality(Above(x)) < n /\ ~(Cardinality(Above(s)) < n)
    BY <1>1 DEF Newest
  <2>2. Above(s) \subseteq Above(x)
    <3>1. s \in Nat /\ x \in Nat /\ x <= s
      BY <1>1, <2>1
    <3>2. \A y \in Nat : y > s => y > x
      BY <3>1
    <3> QED
      BY <3>2
  <2>3. IsFiniteSet(Above(x)) /\ Above(x) \subseteq S
    BY FS_Subset
  <2>4. /\ Cardinality(Above(s)) <= Cardinality(Above(x))
        /\ IsFiniteSet(Above(s))
    BY <2>2, <2>3, FS_Subset
  <2>5. Cardinality(Above(s)) \in Nat /\ Cardinality(Above(x)) \in Nat
    BY <2>3, <2>4, FS_CardinalityType
  <2> HIDE DEF Above
  <2> QED
    BY <2>1, <2>4, <2>5
<1>2. ASSUME NEW s \in Newest(S, n), \A x \in Newest(S, n) : s < x PROVE FALSE
  <2>1. s \in Nat /\ s < s
    BY <1>2 DEF Newest
  <2> QED
    BY <2>1
<1> QED
  BY <1>1, <1>2

\* A conversation has as many messages as positions of messages.
LEMMA OnePositionEach ==
  ASSUME TypeOK, PositionsAreUnique, NEW c
  PROVE  /\ IsFiniteSet(Sent(c)) /\ Sent(c) \subseteq Positions
         /\ Cardinality(Sent(c)) = Cardinality(In(c))
<1>1. In(c) \subseteq messages /\ IsFiniteSet(In(c))
  <2>1. In(c) \subseteq messages
    BY DEF In
  <2> QED
    BY <2>1, FS_Subset DEF TypeOK
<1> DEFINE f == [m \in In(c) |-> m.sent]
<1>2. f \in Bijection(In(c), Sent(c))
  <2>1. f \in [In(c) -> Sent(c)]
    BY DEF Sent
  <2>2. \A m, n \in In(c) : f[m] = f[n] => m = n
    BY <1>1 DEF PositionsAreUnique
  <2>3. \A s \in Sent(c) : \E m \in In(c) : f[m] = s
    BY DEF Sent
  <2> QED
    BY <2>1, <2>2, <2>3, Fun_IsBij
<1>3. ExistsBijection(In(c), Sent(c))
  BY <1>2, Fun_ExistsBij
<1>4. Sent(c) \subseteq Positions
  BY DEF Sent, In, TypeOK, Message
<1> QED
  BY <1>1, <1>3, <1>4, FS_Bijection

\* context_summary's messages_dropped is the number of messages older than
\* everything the model was shown (context_builder.py:17-20), as long as one
\* process writes the conversation.
THEOREM DroppedExact == (\A p, q \in Procs : p = q) /\ Spec => []DroppedIsExact
<1> SUFFICES ASSUME \A p, q \in Procs : p = q PROVE Spec => []DroppedIsExact
  OBVIOUS
<1>1. ReadInv => DroppedIsExact
  <2> SUFFICES ASSUME ReadInv, NEW p \in Procs, pc[p] = "model"
               PROVE  total[p] - Cardinality(seen[p]) =
                        Cardinality({s \in Sent(conv[p]) : \A x \in seen[p] : s < x})
    BY DEF DroppedIsExact
  <2>1. TypeOK /\ PositionsAreUnique /\ ReadsAreCurrent
    BY DEF ReadInv, BaseInv
  <2>2. PICK S : S = Sent(conv[p])
    OBVIOUS
  <2>3. PICK T : T = Newest(S, Window)
    OBVIOUS
  <2>4. /\ IsFiniteSet(S) /\ S \subseteq Nat
        /\ total[p] = Cardinality(S) /\ seen[p] = T
    BY <2>1, <2>2, <2>3, OnePositionEach, PositionsAreNumbers DEF ReadsAreCurrent, Recent, Sent
  <2>5. {s \in S : \A x \in T : s < x} = S \ T
    <3>1. {s \in S : \A x \in Newest(S, Window) : s < x} = S \ Newest(S, Window)
      BY <2>4, LeftOutIsOlder, ConversationsAssumption
    <3> QED
      BY <2>3, <3>1
  <2>6. /\ Cardinality(S \ T) = Cardinality(S) - Cardinality(S \cap T)
        /\ S \cap T = T
    BY <2>3, <2>4, FS_Difference DEF Newest
  <2> QED
    BY <2>2, <2>4, <2>5, <2>6
<1> QED
  BY <1>1, ReadInvariant, PTL

-----------------------------------------------------------------------------
(* One process and a clock that does not step: the history ends on the     *)
(* message that has to be answered.                                        *)

\* Nothing is stamped or stored meanwhile but the turn's own messages.
LEMMA NewestStep ==
  ASSUME TypeOK, Unique, \A p, q \in Procs : p = q, ~ClockSteps, ClockAdvances,
         TurnIsNewest, [Next]_vars
  PROVE  TurnIsNewest'
<1> SUFFICES ASSUME NEW q \in Procs
             PROVE  /\ Appending(q)' => \A s \in stamped' : s <= when'[q]
                    /\ trigger'[q] # 0 => \A m \in messages' : m.sent <= trigger'[q]
  BY DEF TurnIsNewest
<1>1. CASE Quiet
  BY <1>1 DEF Quiet, OutOfTurn, SameTurn, Appending, TurnIsNewest
<1>2. ASSUME NEW p \in Procs, NEW t \in Positions, NEW k \in Keys,
             StampMessage(p, t, k) \/ StampReply(p, t)
      PROVE  /\ \A s \in stamped' : s <= when'[q]
             /\ messages' = messages /\ trigger' = trigger
  <2>1. /\ p = q /\ t \in Now /\ stamped' = stamped \cup {t} /\ when'[q] = t
        /\ messages' = messages /\ trigger' = trigger
    BY <1>2 DEF StampMessage, StampReply, Goto, TypeOK, database, turn
  <2>2. \A s \in stamped : s \in Nat /\ s < t
    BY <2>1, NowIsNewest, PositionsAreNumbers DEF TypeOK
  <2> QED
    BY <2>1, <2>2, PositionsAreNumbers
<1>3. ASSUME NEW p \in Procs, InsertMessage(p)
      PROVE  pc'[q] = "read" /\ \A m \in messages' : m.sent <= trigger'[q]
  <2>1. /\ p = q /\ messages' = messages \cup {Question(q)} /\ Question(q).sent = when[q]
        /\ pc[q] = "insert" /\ pc'[q] = "read" /\ trigger'[q] = when[q]
    BY <1>3 DEF InsertMessage, Goto, TypeOK, Question
  <2>2. Appending(q) /\ when[q] \in Nat
    BY <2>1, DraftType, PositionsAreNumbers DEF Appending, Unique
  <2>3. \A m \in messages : m.sent <= when[q]
    BY <2>2 DEF TurnIsNewest, Unique, PositionsAreUnique
  <2> QED
    BY <2>1, <2>2, <2>3
<1>4. ASSUME NEW p \in Procs, InsertReply(p)
      PROVE  pc'[q] = "idle" /\ trigger'[q] = 0
  BY <1>4 DEF InsertReply, ForgetTurn, Goto, TypeOK
<1> QED
  BY <1>1, <1>2, <1>3, <1>4, FourKinds DEF Appending, TurnIsNewest

\* What the model is about to be asked is the newest message of the history.
THEOREM ShownInvariant ==
  ~ClockSteps /\ (\A p, q \in Procs : p = q) /\ Spec => []ShownInv
<1> SUFFICES ASSUME ~ClockSteps, \A p, q \in Procs : p = q PROVE Spec => []ShownInv
  OBVIOUS
<1>1. Init => TurnIsNewest /\ ClockAdvances
  BY DEF Init, TurnIsNewest, ClockAdvances, Appending
<1>2. ReadInv /\ ClockAdvances /\ TurnIsNewest /\ [Next]_vars => TurnIsNewest'
  BY NewestStep DEF ReadInv, BaseInv, Unique
<1>3. ReadInv /\ ClockAdvances /\ [Next]_vars => ClockAdvances'
  BY ClockStep DEF ReadInv
<1>4. ShownInv <=> ReadInv /\ ClockAdvances /\ TurnIsNewest
  BY DEF ShownInv
<1> QED
  BY <1>1, <1>2, <1>3, <1>4, ReadInvariant, PTL DEF Spec

\* The model is shown a history that ends on the message it has to answer
\* (tests/integration/test_agent_runtime.py:202-205), as long as one process
\* writes the conversation and the wall clock is not set back.
THEOREM ContextEndsRight ==
  ~ClockSteps /\ (\A p, q \in Procs : p = q) /\ Spec => []ContextEndsWithTrigger
<1> SUFFICES ASSUME ~ClockSteps, \A p, q \in Procs : p = q
             PROVE  Spec => []ContextEndsWithTrigger
  OBVIOUS
<1>1. ShownInv => ContextEndsWithTrigger
  <2> SUFFICES ASSUME ShownInv, NEW p \in Procs, pc[p] = "model"
               PROVE  trigger[p] \in seen[p] /\ \A s \in seen[p] : s <= trigger[p]
    BY DEF ContextEndsWithTrigger
  <2>1. /\ TypeOK /\ Control /\ PositionsAreUnique /\ ReadsAreCurrent /\ TurnIsNewest
        /\ trigger[p] # 0
    BY DEF Control, ShownInv, ReadInv, BaseInv
  <2>2. PICK S : S = Sent(conv[p])
    OBVIOUS
  <2>3. seen[p] = Newest(S, Window)
    BY <2>1, <2>2 DEF ReadsAreCurrent, Recent, Sent
  <2>4. trigger[p] \in S
    BY <2>1, <2>2 DEF Control, Sent
  <2>5. S \subseteq Nat /\ \A s \in S : s <= trigger[p]
    <3>1. S \subseteq Nat
      BY <2>1, <2>2, OnePositionEach, PositionsAreNumbers
    <3> QED
      BY <2>1, <2>2, <3>1 DEF TurnIsNewest, Sent, In
  <2>6. {y \in S : y > trigger[p]} = {}
    <3> SUFFICES ASSUME NEW y \in S, y > trigger[p] PROVE FALSE
      OBVIOUS
    <3>1. y \in Nat /\ trigger[p] \in Nat /\ y <= trigger[p]
      BY <2>4, <2>5
    <3> QED
      BY <3>1
  <2>7. Cardinality({y \in S : y > trigger[p]}) < Window
    BY <2>6, FS_EmptySet, ConversationsAssumption
  <2> QED
    BY <2>3, <2>4, <2>5, <2>7 DEF Newest
<1> QED
  BY <1>1, ShownInvariant, PTL

-----------------------------------------------------------------------------
(* Turns that race: what a context still holds when it is used.            *)

\* What was read stays in the conversation, and a question that was not read
\* stays hidden.
ReadsHold(p) ==
  /\ pc[p] \in {"count", "model"} =>
       /\ seen[p] \subseteq Sent(conv[p])
       /\ trigger[p] \notin seen[p] =>
            seen[p] \subseteq Behind(p) /\ Cardinality(Behind(p)) >= Window
  /\ pc[p] = "model" =>
       /\ Cardinality(seen[p]) <= total[p]
       /\ total[p] <= Cardinality(Sent(conv[p]))

RaceInv == BaseInv /\ \A p \in Procs : ReadsHold(p)

\* A finite set of messages has finitely many positions.
LEMMA FinitelyManyPositions ==
  ASSUME NEW M, IsFiniteSet(M)
  PROVE  IsFiniteSet({m.sent : m \in M})
<1> DEFINE T == {m.sent : m \in M}
           f == [m \in M |-> m.sent]
<1>1. f \in [M -> T] /\ \A t \in T : \E m \in M : f[m] = t
  OBVIOUS
<1>2. f \in Surjection(M, T)
  BY <1>1, Fun_IsSurj
<1> QED
  BY <1>2, FS_Surjection

\* What is not among the newest n has n newer ones above it.
LEMMA HiddenByAWindow ==
  ASSUME NEW S, IsFiniteSet(S), S \subseteq Nat, NEW n \in Nat,
         NEW t \in S, t \notin Newest(S, n)
  PROVE  /\ Newest(S, n) \subseteq {s \in S : s > t}
         /\ Cardinality({s \in S : s > t}) >= n
<1>1. t \in {s \in S : \A x \in Newest(S, n) : s < x}
  <2>1. {s \in S : \A x \in Newest(S, n) : s < x} = S \ Newest(S, n)
    BY LeftOutIsOlder
  <2> QED
    BY <2>1
<1>2. Newest(S, n) \subseteq {s \in S : s > t}
  BY <1>1 DEF Newest
<1>3. Cardinality({s \in S : s > t}) \in Nat
  BY FS_Subset, FS_CardinalityType
<1> QED
  BY <1>2, <1>3 DEF Newest

\* A turn reads once; the steps of others leave what it read alone.
LEMMA ReadsKept ==
  ASSUME TypeOK, [Next]_vars, NEW q \in Procs, pc'[q] \in {"count", "model"},
         ~ReadHistory(q), ~CountMessages(q)
  PROVE  /\ pc'[q] = pc[q] /\ conv'[q] = conv[q] /\ trigger'[q] = trigger[q]
         /\ seen'[q] = seen[q] /\ total'[q] = total[q]
<1> USE DEF draft, turn, Goto
<1>1. ASSUME NEW p \in Procs,
             \/ \E c \in Convs : StartNew(p, c)
             \/ \E t \in Positions : StampReply(p, t) \/ \E k \in Keys : StampMessage(p, t, k)
             \/ Resume(p) \/ Look(p) \/ InsertMessage(p)
      PROVE  /\ pc'[q] = pc[q] /\ conv'[q] = conv[q] /\ trigger'[q] = trigger[q]
             /\ seen'[q] = seen[q] /\ total'[q] = total[q]
  <2>1. p # q
    BY <1>1 DEF TypeOK, StartNew, StampReply, StampMessage, Resume, Look, InsertMessage
  <2> QED
    BY <1>1, <2>1 DEF TypeOK, StartNew, StampReply, StampMessage, Resume, Look, InsertMessage
<1>2. ASSUME NEW p \in Procs, RefuseMessage(p) \/ InsertReply(p) \/ GiveUp(p) \/ Stop(p)
      PROVE  /\ pc'[q] = pc[q] /\ conv'[q] = conv[q] /\ trigger'[q] = trigger[q]
             /\ seen'[q] = seen[q] /\ total'[q] = total[q]
  <2>1. p # q
    BY <1>2 DEF TypeOK, RefuseMessage, InsertReply, GiveUp, Stop
  <2>2. /\ seen'[q] = seen[q] /\ total'[q] = total[q] /\ trigger'[q] = trigger[q]
    BY <1>2, <2>1 DEF TypeOK, RefuseMessage, InsertReply, GiveUp, Stop, ForgetTurn
  <2> QED
    BY <1>2, <2>1, <2>2 DEF TypeOK, RefuseMessage, InsertReply, GiveUp, Stop
<1>3. ASSUME NEW p \in Procs, p # q, ReadHistory(p) \/ CountMessages(p)
      PROVE  /\ pc'[q] = pc[q] /\ conv'[q] = conv[q] /\ trigger'[q] = trigger[q]
             /\ seen'[q] = seen[q] /\ total'[q] = total[q]
  BY <1>3 DEF TypeOK, ReadHistory, CountMessages
<1>4. ASSUME NEW c \in Convs, Close(c)
      PROVE  /\ pc'[q] = pc[q] /\ conv'[q] = conv[q] /\ trigger'[q] = trigger[q]
             /\ seen'[q] = seen[q] /\ total'[q] = total[q]
  BY <1>4 DEF Close
<1>5. CASE UNCHANGED vars
  BY <1>5 DEF vars
<1> QED
  BY <1>1, <1>2, <1>3, <1>4, <1>5 DEF Next

\* Reading makes it so, and nothing that others commit undoes it.
LEMMA RaceStep ==
  ASSUME BaseInv, BaseInv', [Next]_vars, NEW q \in Procs, ReadsHold(q)
  PROVE  ReadsHold(q)'
<1> USE DEF Goto
<1>1. TypeOK /\ TypeOK' /\ PositionsAreUnique /\ Control
  BY DEF BaseInv
<1> DEFINE S == Sent(conv[q])
<1>2. IsFiniteSet(S) /\ S \subseteq Nat /\ Cardinality(S) = Cardinality(In(conv[q]))
  <2>1. S \subseteq Positions /\ IsFiniteSet(S) /\ Cardinality(S) = Cardinality(In(conv[q]))
    BY <1>1, OnePositionEach
  <2> QED
    BY <2>1, PositionsAreNumbers
<1>3. CASE ReadHistory(q)
  <2>1. /\ pc[q] = "read" /\ pc'[q] = "count"
        /\ UNCHANGED <<messages, conv, trigger>>
        /\ seen'[q] = Newest(S, Window)
    BY <1>1, <1>3 DEF ReadHistory, TypeOK, Recent, Sent, database, draft
  <2>2. S' = S /\ Behind(q)' = {s \in S : s > trigger[q]}
    BY <2>1 DEF Sent, In, Behind
  <2>3. trigger[q] \in S
    BY <1>1, <2>1 DEF Control, Sent
  <2>4. seen'[q] \subseteq S
    BY <2>1 DEF Newest
  <2>5. trigger[q] \notin seen'[q] =>
           seen'[q] \subseteq Behind(q)' /\ Cardinality(Behind(q)') >= Window
    <3> HIDE DEF S
    <3>1. Window \in Nat
      BY ConversationsAssumption
    <3> SUFFICES ASSUME trigger[q] \notin Newest(S, Window)
                 PROVE  /\ Newest(S, Window) \subseteq {s \in S : s > trigger[q]}
                        /\ Cardinality({s \in S : s > trigger[q]}) >= Window
      BY <2>1, <2>2
    <3> QED
      BY <1>2, <2>3, <3>1, HiddenByAWindow
  <2> QED
    BY <2>1, <2>2, <2>4, <2>5 DEF ReadsHold
<1>4. CASE CountMessages(q)
  <2>1. /\ pc[q] = "count" /\ pc'[q] = "model"
        /\ UNCHANGED <<messages, conv, trigger, seen>>
        /\ total'[q] = Cardinality(S)
    BY <1>1, <1>2, <1>4 DEF CountMessages, TypeOK, database, draft
  <2>2. S' = S /\ Behind(q)' = Behind(q)
    BY <2>1 DEF Sent, In, Behind
  <2>3. seen[q] \subseteq S
    BY <2>1 DEF ReadsHold
  <2>4. /\ Cardinality(seen[q]) <= Cardinality(S)
        /\ Cardinality(S) \in Nat
    BY <1>2, <2>3, FS_Subset, FS_CardinalityType
  <2>5. trigger[q] \notin seen[q] =>
           seen[q] \subseteq Behind(q) /\ Cardinality(Behind(q)) >= Window
    BY <2>1 DEF ReadsHold
  <2> HIDE DEF S
  <2> QED
    BY <2>1, <2>2, <2>3, <2>4, <2>5 DEF ReadsHold, S
<1>5. CASE pc'[q] \in {"count", "model"} /\ ~ReadHistory(q) /\ ~CountMessages(q)
  <2>1. /\ pc'[q] = pc[q] /\ conv'[q] = conv[q] /\ trigger'[q] = trigger[q]
        /\ seen'[q] = seen[q] /\ total'[q] = total[q]
    BY <1>1, <1>5, ReadsKept
  <2> DEFINE R == Sent(conv[q])'
  <2>2. S \subseteq R /\ IsFiniteSet(R)
    <3> DEFINE M == {m \in messages' : m.conv = conv'[q]}
    <3>1. messages \subseteq messages'
      BY DEF Next, vars, database, Close, StartNew, Resume, StampReply, StampMessage, Look,
         InsertMessage, RefuseMessage, InsertReply, ReadHistory, CountMessages, GiveUp, Stop
    <3>2. R = {m.sent : m \in M}
      BY DEF Sent, In
    <3>3. IsFiniteSet(M)
      BY <1>1, FS_Subset DEF TypeOK
    <3>4. IsFiniteSet({m.sent : m \in M})
      <4> HIDE DEF M
      <4> QED
        BY <3>3, FinitelyManyPositions
    <3>5. S \subseteq R
      BY <2>1, <3>1 DEF Sent, In
    <3> QED
      BY <3>2, <3>4, <3>5
  <2>3. Behind(q) = {s \in S : s > trigger[q]} /\ Behind(q)' = {s \in R : s > trigger[q]}
    BY <2>1 DEF Behind
  <2> HIDE DEF S, R
  <2>4. /\ Behind(q) \subseteq Behind(q)' /\ IsFiniteSet(Behind(q)')
        /\ Behind(q)' \subseteq R
    BY <2>2, <2>3, FS_Subset
  <2>5. /\ Cardinality(Behind(q)) <= Cardinality(Behind(q)')
        /\ Cardinality(Behind(q)) \in Nat /\ Cardinality(Behind(q)') \in Nat
    BY <2>4, FS_Subset, FS_CardinalityType
  <2>6. /\ Cardinality(S) <= Cardinality(R)
        /\ Cardinality(S) \in Nat /\ Cardinality(R) \in Nat
    BY <1>2, <2>2, FS_Subset, FS_CardinalityType
  <2>7. /\ seen[q] \subseteq S
        /\ trigger[q] \notin seen[q] =>
             seen[q] \subseteq Behind(q) /\ Cardinality(Behind(q)) >= Window
        /\ pc[q] = "model" => Cardinality(seen[q]) <= total[q] /\ total[q] <= Cardinality(S)
    BY <1>5, <2>1 DEF ReadsHold, S
  <2>8. total[q] \in Nat /\ Window \in Nat
    BY <1>1, ConversationsAssumption DEF TypeOK
  <2>9. /\ seen'[q] \subseteq R
        /\ trigger'[q] \notin seen'[q] =>
             seen'[q] \subseteq Behind(q)' /\ Cardinality(Behind(q)') >= Window
    BY <2>1, <2>2, <2>4, <2>5, <2>7, <2>8
  <2>10. pc'[q] = "model" =>
           Cardinality(seen'[q]) <= total'[q] /\ total'[q] <= Cardinality(R)
    BY <2>1, <2>6, <2>7, <2>8
  <2> QED
    BY <2>9, <2>10 DEF ReadsHold, R
<1>6. CASE pc'[q] \notin {"count", "model"}
  BY <1>6 DEF ReadsHold
<1> QED
  BY <1>3, <1>4, <1>5, <1>6

\* However many turns race in one conversation, and whatever the clock does,
\* what a turn read of it stays in it.
THEOREM RaceInvariant == Spec => []RaceInv
<1>1. Init => RaceInv
  BY BaseInit DEF Init, RaceInv, ReadsHold
<1>2. RaceInv /\ [Next]_vars => RaceInv'
  <2> SUFFICES ASSUME RaceInv, [Next]_vars PROVE RaceInv'
    OBVIOUS
  <2>1. BaseInv /\ BaseInv'
    BY BaseStep DEF RaceInv
  <2>2. \A q \in Procs : ReadsHold(q)'
    BY <2>1, RaceStep DEF RaceInv
  <2> QED
    BY <2>1, <2>2 DEF RaceInv
<1> QED
  BY <1>1, <1>2, PTL DEF Spec

\* messages_dropped is never negative and counts no message the model was
\* shown, however many turns race (context_builder.py:17-20).
THEOREM DroppedBounded == Spec => []DroppedIsBounded
<1>1. RaceInv => DroppedIsBounded
  <2> SUFFICES ASSUME RaceInv, NEW p \in Procs, pc[p] = "model"
               PROVE  /\ Cardinality(seen[p]) <= total[p]
                      /\ total[p] - Cardinality(seen[p])
                           <= Cardinality(Sent(conv[p]) \ seen[p])
    BY DEF DroppedIsBounded
  <2>1. TypeOK /\ PositionsAreUnique /\ ReadsHold(p)
    BY DEF RaceInv, BaseInv
  <2> DEFINE S == Sent(conv[p])
             T == seen[p]
  <2>2. IsFiniteSet(S)
    BY <2>1, OnePositionEach
  <2>3. T \subseteq S /\ Cardinality(T) <= total[p] /\ total[p] <= Cardinality(S)
    BY <2>1 DEF ReadsHold
  <2> HIDE DEF S, T
  <2>4. S \cap T = T
    BY <2>3
  <2>5. /\ Cardinality(S \ T) = Cardinality(S) - Cardinality(T)
        /\ Cardinality(S) \in Nat /\ Cardinality(T) \in Nat
    BY <2>2, <2>3, <2>4, FS_Difference, FS_Subset, FS_CardinalityType
  <2>6. total[p] \in Nat
    BY <2>1 DEF TypeOK
  <2> QED
    BY <2>3, <2>5, <2>6 DEF S, T
<1> QED
  BY <1>1, RaceInvariant, PTL

\* A turn is not shown its own question only if a whole window of messages
\* stands behind it, however many turns race and whatever the clock does
\* (conversations/repository.py:159-184).
THEOREM TriggerShown == Spec => []TriggerIsShown
<1>1. RaceInv => TriggerIsShown
  BY DEF RaceInv, ReadsHold, TriggerIsShown
<1> QED
  BY <1>1, RaceInvariant, PTL

-----------------------------------------------------------------------------
(* The refinement: a conversation is a transcript that grows at its end.   *)

\* The messages of a conversation have the places 1, 2, ... in their order.
LEMMA PlacesAreDense ==
  ASSUME TypeOK, PositionsAreUnique, NEW c
  PROVE  /\ IsFiniteSet(In(c)) /\ Cardinality(In(c)) \in Nat
         /\ \A m \in In(c) : Place(m) \in 1..Cardinality(In(c))
         /\ \A m, n \in In(c) : Place(m) = Place(n) => m = n
         /\ \A i \in 1..Cardinality(In(c)) : \E m \in In(c) : Place(m) = i
<1> DEFINE UpTo(m) == {n \in In(c) : n.sent <= m.sent}
           N == Cardinality(In(c))
           f == [m \in In(c) |-> Place(m)]
<1>1. IsFiniteSet(In(c)) /\ N \in Nat
  <2>1. In(c) \subseteq messages
    BY DEF In
  <2>2. IsFiniteSet(In(c))
    BY <2>1, FS_Subset DEF TypeOK
  <2> QED
    BY <2>2, FS_CardinalityType
<1>2. \A m \in In(c) : m \in messages /\ m.sent \in Nat /\ m \in UpTo(m)
  BY PositionsAreNumbers DEF In, TypeOK, Message
<1>3. ASSUME NEW m \in In(c)
      PROVE  /\ IsFiniteSet(UpTo(m)) /\ Cardinality(UpTo(m)) \in 1..N
             /\ Place(m) = Cardinality(UpTo(m))
  <2>1. UpTo(m) \subseteq In(c)
    OBVIOUS
  <2>2. IsFiniteSet(UpTo(m)) /\ Cardinality(UpTo(m)) <= N
    BY <1>1, <2>1, FS_Subset
  <2>3. Cardinality(UpTo(m)) \in Nat /\ Cardinality(UpTo(m)) # 0
    BY <1>2, <2>2, FS_CardinalityType, FS_EmptySet
  <2>4. m.conv = c
    BY DEF In
  <2>5. Place(m) = Cardinality(UpTo(m))
    BY <2>4 DEF Place
  <2> HIDE DEF UpTo
  <2> QED
    BY <1>1, <2>2, <2>3, <2>5
<1>4. ASSUME NEW m \in In(c), NEW n \in In(c), m.sent < n.sent
      PROVE  Place(m) < Place(n)
  <2>1. UpTo(m) \subseteq UpTo(n)
    BY <1>2, <1>4
  <2>2. n \in UpTo(n) /\ n \notin UpTo(m)
    BY <1>2, <1>4
  <2>3. Cardinality(UpTo(m)) <= Cardinality(UpTo(n))
        /\ (Cardinality(UpTo(n)) = Cardinality(UpTo(m)) => UpTo(n) = UpTo(m))
    BY <1>3, <2>1, FS_Subset
  <2> HIDE DEF UpTo
  <2> QED
    BY <1>1, <1>3, <2>2, <2>3
<1>5. ASSUME NEW m \in In(c), NEW n \in In(c), Place(m) = Place(n) PROVE m = n
  <2>1. Place(m) \in Nat /\ m.sent \in Nat /\ n.sent \in Nat
    <3>1. Place(m) \in 1..N
      BY <1>3
    <3> QED
      BY <1>1, <1>2, <3>1
  <2>2. ~(m.sent < n.sent) /\ ~(n.sent < m.sent)
    BY <1>4, <1>5, <2>1
  <2>3. m.sent = n.sent
    BY <2>1, <2>2
  <2> QED
    BY <1>2, <2>3 DEF PositionsAreUnique
<1>6. f \in Injection(In(c), 1..N)
  BY <1>1, <1>3, <1>5 DEF Injection, IsInjective
<1>7. IsFiniteSet(1..N) /\ Cardinality(1..N) = N
  BY <1>1, FS_Interval
<1>8. f \in Surjection(In(c), 1..N)
  BY <1>1, <1>6, <1>7, FS_Injection
<1>9. \A i \in 1..N : \E m \in In(c) : Place(m) = i
  BY <1>8 DEF Surjection
<1> HIDE DEF UpTo, f
<1> QED
  BY <1>1, <1>3, <1>5, <1>9

\* A message behind all others of its conversation makes the transcript
\* longer by its role, and leaves the other transcripts as they are.
LEMMA TranscriptGrows ==
  ASSUME TypeOK, PositionsAreUnique, TypeOK', PositionsAreUnique',
         NEW row, row \notin messages, messages' = messages \cup {row},
         \A m \in messages : m.sent < row.sent
  PROVE  \A c \in Convs :
           Roles(c)' = IF c = row.conv THEN Append(Roles(c), row.role) ELSE Roles(c)
<1> TAKE c \in Convs
<1>1. CASE c # row.conv
  <2>1. In(c)' = In(c)
    BY <1>1 DEF In
  <2>2. \A m \in In(c) : Place(m)' = Place(m)
    BY <2>1 DEF Place, In
  <2>3. ASSUME NEW i PROVE Nth(c, i)' = Nth(c, i)
    BY <2>1, <2>2 DEF Nth
  <2> QED
    BY <1>1, <2>1, <2>3 DEF Roles
<1>2. CASE c = row.conv
  <2> DEFINE N == Cardinality(In(c))
  <2>1. In(c)' = In(c) \cup {row} /\ row \notin In(c)
    BY <1>2 DEF In
  <2>2. IsFiniteSet(In(c)) /\ N \in Nat
    BY PlacesAreDense
  <2>3. N' = N + 1
    BY <2>1, <2>2, FS_AddElement
  <2>4. \A m \in In(c) : Place(m)' = Place(m)
    <3> TAKE m \in In(c)
    <3>1. m \in messages /\ m.conv = c
      BY DEF In
    <3>2. m.sent \in Nat /\ m.sent < row.sent /\ row.sent \in Nat
      BY <3>1, PositionsAreNumbers DEF TypeOK, Message
    <3>3. ~(row.sent <= m.sent)
      BY <3>2
    <3>4. {n \in In(c)' : n.sent <= m.sent} = {n \in In(c) : n.sent <= m.sent}
      BY <2>1, <3>3
    <3> QED
      BY <3>1, <3>4 DEF Place
  <2>5. Place(row)' = N + 1
    <3>1. \A n \in In(c)' : n.sent <= row.sent
      <4> TAKE n \in In(c)'
      <4>1. n \in messages' /\ n.sent \in Nat /\ row.sent \in Nat
        BY PositionsAreNumbers DEF In, TypeOK, Message
      <4>2. n = row \/ n.sent < row.sent
        BY <2>1 DEF In
      <4> QED
        BY <4>1, <4>2
    <3>2. {n \in In(c)' : n.sent <= row.sent} = In(c)'
      BY <3>1
    <3> QED
      BY <1>2, <2>3, <3>2 DEF Place
  <2>6. ASSUME NEW i \in 1..N PROVE Nth(c, i)' = Nth(c, i)
    <3>1. PICK m \in In(c) : Place(m) = i
      BY PlacesAreDense
    <3>2. \A n \in In(c) : Place(n) = i => n = m
      BY <3>1, PlacesAreDense
    <3>3. m \in In(c)' /\ Place(m)' = i
      BY <2>1, <2>4, <3>1
    <3>4. \A n \in In(c)' : Place(n)' = i => n = m
      BY <2>1, <2>2, <2>4, <2>5, <3>2
    <3>5. Nth(c, i) = m
      BY <3>1, <3>2 DEF Nth
    <3>6. Nth(c, i)' = m
      BY <3>3, <3>4 DEF Nth
    <3> QED
      BY <3>5, <3>6
  <2>7. ASSUME NEW i, i = N + 1 PROVE Nth(c, i)' = row
    <3>1. \A n \in In(c) : Place(n) \in 1..N
      BY PlacesAreDense
    <3>2. \A n \in In(c)' : Place(n)' = i => n = row
      BY <2>1, <2>2, <2>4, <2>7, <3>1
    <3>3. row \in In(c)' /\ Place(row)' = i
      BY <2>1, <2>5, <2>7
    <3> QED
      BY <3>2, <3>3 DEF Nth
  <2>8. Roles(c)' = [i \in 1..(N + 1) |-> Nth(c, i)'.role]
    BY <2>3 DEF Roles
  <2>9. \A i \in 1..(N + 1) : Nth(c, i)'.role = IF i <= N THEN Nth(c, i).role ELSE row.role
    <3> TAKE i \in 1..(N + 1)
    <3>1. i \in 1..N \/ i = N + 1
      BY <2>2
    <3>2. i \in 1..N <=> i <= N
      BY <2>2
    <3> QED
      BY <2>2, <2>6, <2>7, <3>1, <3>2
  <2>10. Roles(c) \in Seq({"user", "assistant"}) /\ Len(Roles(c)) = N
    <3>1. \A i \in 1..N : Nth(c, i) \in In(c)
      BY PlacesAreDense DEF Nth
    <3>2. \A m \in In(c) : m.role \in {"user", "assistant"}
      BY DEF In, TypeOK, Message
    <3> QED
      BY <2>2, <3>1, <3>2 DEF Roles
  <2> HIDE DEF N
  <2>11. Append(Roles(c), row.role) =
           [i \in 1..(N + 1) |-> IF i <= N THEN Roles(c)[i] ELSE row.role]
    BY <2>2, <2>10
  <2>12. \A i \in 1..N : Roles(c)[i] = Nth(c, i).role
    BY DEF Roles, N
  <2>13. \A i \in 1..(N + 1) :
           Nth(c, i)'.role = IF i <= N THEN Roles(c)[i] ELSE row.role
    BY <2>2, <2>9, <2>12
  <2> QED
    BY <1>2, <2>8, <2>11, <2>13
<1> QED
  BY <1>1, <1>2

\* While a turn waits for its answer, its message is the last of the transcript.
LEMMA QuestionIsLast ==
  ASSUME TypeOK, Control, PositionsAreUnique, TurnIsNewest, NEW p \in Procs, trigger[p] # 0
  PROVE  /\ Roles(conv[p]) # <<>>
         /\ Roles(conv[p])[Len(Roles(conv[p]))] = "user"
<1> DEFINE c == conv[p]
           N == Cardinality(In(c))
<1>1. PICK m \in In(c) : m.role = "user" /\ m.sent = trigger[p]
  BY DEF Control
<1>2. {n \in In(m.conv) : n.sent <= m.sent} = In(c)
  BY <1>1 DEF TurnIsNewest, In
<1>3. Place(m) = N
  BY <1>2 DEF Place
<1>4. N \in Nat /\ Place(m) \in 1..N /\ \A n \in In(c) : Place(n) = Place(m) => n = m
  BY PlacesAreDense
<1>5. Nth(c, N) = m
  BY <1>3, <1>4 DEF Nth
<1>6. N \in 1..N
  BY <1>3, <1>4
<1> HIDE DEF N
<1>7. Roles(c) = [i \in 1..N |-> Nth(c, i).role]
  BY DEF Roles, N
<1>8. Len(Roles(c)) = N
  BY <1>4, <1>7
<1>9. Roles(c)[N] = "user"
  BY <1>1, <1>5, <1>6, <1>7
<1>10. Roles(c) # <<>>
  BY <1>4, <1>6, <1>8
<1> QED
  BY <1>8, <1>9, <1>10

\* A message that is stored is behind all others.
LEMMA AppendedIsNewest ==
  ASSUME TypeOK, Control, PositionsAreUnique, TurnIsNewest, NEW p \in Procs, Appending(p)
  PROVE  \A m \in messages : m.sent < when[p]
<1> TAKE m \in messages
<1>1. m.sent <= when[p] /\ m.sent # when[p]
  BY DEF TurnIsNewest, PositionsAreUnique
<1>2. m.sent \in Nat /\ when[p] \in Nat
  BY DraftType, PositionsAreNumbers DEF TypeOK, Message
<1> QED
  BY <1>1, <1>2

\* Every step adds to the end of one transcript, or changes none.
LEMMA TranscriptStep ==
  ASSUME ShownInv, ShownInv', [Next]_vars
  PROVE  Log!Next \/ UNCHANGED [c \in Convs |-> Roles(c)]
<1>1. /\ TypeOK /\ Unique /\ Control /\ PositionsAreUnique /\ TurnIsNewest
      /\ TypeOK' /\ PositionsAreUnique'
  BY DEF ShownInv, ReadInv, BaseInv, Unique
<1>2. CASE messages' = messages
  <2>1. ASSUME NEW c PROVE In(c)' = In(c)
    BY <1>2 DEF In
  <2>2. ASSUME NEW m PROVE Place(m)' = Place(m)
    BY <1>2 DEF In, Place
  <2>3. ASSUME NEW c, NEW i PROVE Nth(c, i)' = Nth(c, i)
    BY <2>1, <2>2 DEF Nth
  <2>4. ASSUME NEW c PROVE Roles(c)' = Roles(c)
    BY <2>1, <2>3 DEF Roles
  <2> QED
    BY <2>4
<1>3. ASSUME NEW p \in Procs, InsertMessage(p) PROVE Log!Next
  <2>1. Appending(p) /\ messages' = messages \cup {Question(p)}
    BY <1>3 DEF InsertMessage, Question, Goto, Appending
  <2>2. conv[p] \in Convs /\ \A m \in messages : m.sent < when[p]
    BY <1>1, <2>1, DraftType, AppendedIsNewest
  <2>3. PICK row : row = Question(p)
    OBVIOUS
  <2>4. row.sent = when[p] /\ row.conv = conv[p] /\ row.role = "user"
    BY <2>3 DEF Question
  <2>5. row \notin messages
    BY <1>1, <2>1, <2>4 DEF PositionsAreUnique
  <2>6. \A c \in Convs :
          Roles(c)' = IF c = conv[p] THEN Append(Roles(c), "user") ELSE Roles(c)
    BY <1>1, <2>1, <2>2, <2>3, <2>4, <2>5, TranscriptGrows
  <2>7. Log!Ask(conv[p])
    BY <2>2, <2>6 DEF Log!Ask
  <2> QED
    BY <2>2, <2>7 DEF Log!Next
<1>4. ASSUME NEW p \in Procs, InsertReply(p) PROVE Log!Next
  <2>1. Appending(p) /\ messages' = messages \cup {Reply(p)} /\ trigger[p] # 0
    BY <1>4 DEF InsertReply, Reply, Goto, Appending
  <2>2. conv[p] \in Convs /\ \A m \in messages : m.sent < when[p]
    BY <1>1, <2>1, DraftType, AppendedIsNewest
  <2>3. PICK row : row = Reply(p)
    OBVIOUS
  <2>4. row.sent = when[p] /\ row.conv = conv[p] /\ row.role = "assistant"
    BY <2>3 DEF Reply
  <2>5. row \notin messages
    BY <1>1, <2>1, <2>4 DEF PositionsAreUnique
  <2>6. \A c \in Convs :
          Roles(c)' = IF c = conv[p] THEN Append(Roles(c), "assistant") ELSE Roles(c)
    BY <1>1, <2>1, <2>2, <2>3, <2>4, <2>5, TranscriptGrows
  <2>7. Roles(conv[p]) # <<>> /\ Roles(conv[p])[Len(Roles(conv[p]))] = "user"
    BY <1>1, <2>1, QuestionIsLast
  <2>8. Log!Answer(conv[p])
    BY <2>2, <2>6, <2>7 DEF Log!Answer
  <2> QED
    BY <2>2, <2>8 DEF Log!Next
<1> QED
  BY <1>1, <1>2, <1>3, <1>4, FourKinds DEF Quiet, StampMessage, StampReply, database

\* What one process does to a conversation is to ask and answer at the end of
\* a transcript, an answer directly behind its question, if the wall clock is
\* not set back (repository.py:12-17).
THEOREM TranscriptImplemented ==
  ~ClockSteps /\ (\A p, q \in Procs : p = q) /\ Spec => ImplementsTranscript
<1> SUFFICES ASSUME ~ClockSteps, \A p, q \in Procs : p = q
             PROVE  Spec => ImplementsTranscript
  OBVIOUS
<1>1. Init => Log!Init
  <2> SUFFICES ASSUME Init PROVE Log!Init
    OBVIOUS
  <2>1. ASSUME NEW c PROVE Roles(c) = <<>>
    <3>1. In(c) = {}
      BY DEF Init, In
    <3>2. Cardinality(In(c)) = 0
      BY <3>1, FS_EmptySet
    <3> QED
      BY <3>2 DEF Roles
  <2> QED
    BY <2>1 DEF Log!Init
<1>2. ShownInv /\ ShownInv' /\ [Next]_vars => [Log!Next]_[c \in Convs |-> Roles(c)]
  BY TranscriptStep
<1> QED
  BY <1>1, <1>2, ShownInvariant, PTL DEF Spec, ImplementsTranscript, Log!Spec
=============================================================================
