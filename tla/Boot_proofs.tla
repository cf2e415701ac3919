---------------------------- MODULE Boot_proofs -----------------------------
(***************************************************************************)
(* Theorems about Boot for every set of processes, environments and users. *)
(***************************************************************************)
EXTENDS Boot, TLAPS

-----------------------------------------------------------------------------
(* The inductive invariant.                                                *)

\* A stamp is there with its table, and the core tables have rows only at head.
Schema ==
  /\ stamp = NoStamp <=> revision = 0
  /\ revision < 2 => owners = {} /\ writes = {}

\* A guard's verdict holds for as long as the database it was given on.
Verdicts ==
  \A p \in Procs : passed[p] =>
    /\ pc[p] # "down"
    /\ job[p] \notin Migrations
    /\ revision > 0
    /\ stamp = env[p]

\* A migration that was let in by a stamp keeps that stamp where it is.
Admitted ==
  \A p \in Procs :
    /\ pc[p] \in {"down", "regclass", "select"} => found[p] = NoStamp
    /\ pc[p] = "migrate" => job[p] \in Migrations
    /\ KeepsTable(p) => revision > 0 /\ found[p] = stamp /\ stamp = env[p]
    /\ pc[p] # "down" => env[p] \in Envs

\* At most one owner is about to be committed, and only while there is none.
Pendings ==
  \A p \in Procs :
    /\ InSession(p) => revision = 2
    /\ pc[p] \in {"open", "prompt"} => user[p] \in Users
    /\ Pending(p) => owners = {} /\ \A q \in Procs : Pending(q) => q = p

IInv == TypeOK /\ Schema /\ Verdicts /\ Admitted /\ Pendings
          /\ GuardedRowsMatch /\ OneOwner

-----------------------------------------------------------------------------
(* Steps that several actions share.                                       *)

\* The targets of the migrations.
LEMMA Targets ==
  /\ \A j \in Migrations : To[j] \in 0..2
  /\ To["base"] = 0
  /\ Upgrades \cap Downgrades = {}
  /\ \A j \in Upgrades : To[j] > 0
  /\ Migrations \subseteq Jobs /\ "none" \notin Jobs
  BY DEF To, Migrations, Upgrades, Downgrades, Jobs, Chats

\* A process that ends leaves the others and the database as they are.
LEMMA FailsStep ==
  ASSUME IInv, NEW p \in Procs, NEW at, Fails(p, at)
  PROVE  IInv'
<1>1. TypeOK'
  BY DEF IInv, TypeOK, Fails, Down, Void, database
<1>2. \A q \in Procs : passed'[q] => passed[q] /\ q # p
  BY DEF IInv, TypeOK, Fails, Void
<1>3. Schema' /\ GuardedRowsMatch' /\ OneOwner'
  BY DEF IInv, Fails, database, Schema, GuardedRowsMatch, OneOwner
<1>4. Verdicts'
  BY <1>2 DEF IInv, TypeOK, Verdicts, Fails, Down, database
<1>5. Admitted'
  BY DEF IInv, TypeOK, Admitted, KeepsTable, Fails, Down, database
<1>6. Pendings'
  BY DEF IInv, TypeOK, Pendings, InSession, Pending, Fails, Down, database
<1> QED
  BY <1>1, <1>3, <1>4, <1>5, <1>6 DEF IInv

\* A migration's transaction: what it does to the database, and its end.
LEMMA MigrateStep ==
  ASSUME IInv, NEW p \in Procs, Migrate(p)
  PROVE  IInv'
<1>1. job[p] \in Migrations /\ pc[p] = "migrate" /\ Down(p) /\ ~passed[p]
  BY DEF IInv, Migrate, Admitted, Verdicts
<1>2. env[p] \in Envs
  BY <1>1 DEF IInv, Admitted
<1>3. /\ pc' \in [Procs -> {"down", "regclass", "select", "migrate", "sweep",
                            "serving", "find", "insert", "open", "prompt"}]
      /\ job' \in [Procs -> Jobs \cup {"none"}]
      /\ env' \in [Procs -> Envs \cup {NoStamp}]
      /\ found' \in [Procs -> Envs \cup {NoStamp}]
      /\ user' \in [Procs -> Users \cup {NoUser}]
  BY <1>1 DEF IInv, TypeOK, Down
<1>4. \A q \in Procs \ {p} :
        /\ pc'[q] = pc[q] /\ job'[q] = job[q] /\ env'[q] = env[q]
        /\ found'[q] = found[q] /\ user'[q] = user[q]
  BY <1>1 DEF IInv, TypeOK, Down
<1>5. pc'[p] = "down" /\ found'[p] = NoStamp
  BY <1>1 DEF IInv, TypeOK, Down
<1>6. CASE Upgrade(p)
  <2>1. revision' \in 0..2 /\ revision' > 0 /\ revision < 2
    BY <1>6, <1>1, Targets DEF Upgrade, IInv, TypeOK
  <2>2. owners' = {} /\ writes' = {} /\ passed' = passed
    BY <1>6, <2>1 DEF Upgrade, IInv, Schema
  <2>3. stamp' \in Envs /\ (revision > 0 => stamp' = stamp)
    BY <1>6, <1>2 DEF Upgrade, IInv, TypeOK, Schema
  <2>4. TypeOK'
    BY <1>3, <2>1, <2>2, <2>3 DEF IInv, TypeOK
  <2>5. Schema'
    BY <2>1, <2>2, <2>3, BootAssumption DEF Schema
  <2>6. Verdicts'
    BY <1>1, <1>4, <2>1, <2>2, <2>3 DEF IInv, Verdicts
  <2>7. Admitted'
    BY <1>4, <1>5, <2>1, <2>3 DEF IInv, Admitted, KeepsTable
  <2>8. \A q \in Procs : ~InSession(q) /\ ~Pending(q)
    BY <2>1 DEF IInv, Pendings, InSession, Pending
  <2>9. Pendings'
    BY <1>4, <1>5, <2>8 DEF IInv, Pendings, InSession, Pending
  <2> QED
    BY <2>2, <2>4, <2>5, <2>6, <2>7, <2>9 DEF IInv, GuardedRowsMatch, OneOwner
<1>7. CASE Downgrade(p)
  <2>1. revision' \in 0..2 /\ revision' < 2 /\ revision' = To[job[p]] /\ revision > 0
    BY <1>7, <1>1, Targets DEF Downgrade, IInv, TypeOK
  <2>2. owners' = {} /\ writes' = {} /\ \A q \in Procs : ~InSession(q)
    BY <1>7 DEF Downgrade
  <2>3. Pendings'
    BY <1>4, <1>5, <2>2 DEF IInv, Pendings, InSession, Pending
  <2>4. CASE To[job[p]] = 0
    <3>1. /\ stamp' = NoStamp
          /\ \A q \in Procs \ {p} : ~KeepsTable(q)
          /\ passed' = [q \in Procs |-> FALSE]
      BY <1>7, <2>4 DEF Downgrade, Void
    <3>2. TypeOK'
      BY <1>3, <2>1, <2>2, <3>1 DEF IInv, TypeOK
    <3>3. Schema' /\ Verdicts'
      BY <2>1, <2>2, <2>4, <3>1 DEF Schema, Verdicts
    <3>4. Admitted'
      BY <1>4, <1>5, <3>1 DEF IInv, Admitted, KeepsTable
    <3> QED
      BY <2>2, <2>3, <3>2, <3>3, <3>4 DEF IInv, GuardedRowsMatch, OneOwner
  <2>5. CASE To[job[p]] # 0
    <3>1. stamp' = stamp /\ passed' = passed /\ revision' > 0
      BY <1>7, <2>5, <2>1 DEF Downgrade
    <3>2. TypeOK'
      BY <1>3, <2>1, <2>2, <3>1 DEF IInv, TypeOK
    <3>3. Schema'
      BY <2>1, <2>2, <3>1 DEF IInv, Schema
    <3>4. Verdicts'
      BY <1>1, <1>4, <3>1 DEF IInv, Verdicts
    <3>5. Admitted'
      BY <1>4, <1>5, <3>1 DEF IInv, Admitted, KeepsTable
    <3> QED
      BY <2>2, <2>3, <3>2, <3>3, <3>4, <3>5 DEF IInv, GuardedRowsMatch, OneOwner
  <2> QED
    BY <2>4, <2>5
<1>8. CASE NothingToDo(p)
  <2>1. /\ revision' = revision /\ stamp' = stamp /\ owners' = owners
        /\ writes' = writes /\ passed' = passed
    BY <1>8 DEF NothingToDo, database
  <2>2. TypeOK'
    BY <1>3, <2>1 DEF IInv, TypeOK
  <2>3. Schema' /\ GuardedRowsMatch' /\ OneOwner'
    BY <2>1 DEF IInv, Schema, GuardedRowsMatch, OneOwner
  <2>4. Verdicts'
    BY <1>1, <1>4, <2>1 DEF IInv, Verdicts
  <2>5. Admitted'
    BY <1>4, <1>5, <2>1 DEF IInv, Admitted, KeepsTable
  <2>6. Pendings'
    BY <1>4, <1>5, <2>1 DEF IInv, Pendings, InSession, Pending
  <2> QED
    BY <2>2, <2>3, <2>4, <2>5, <2>6 DEF IInv
<1> QED
  BY <1>6, <1>7, <1>8 DEF Migrate

\* The steps that leave the database alone, failures and migrations aside.
LEMMA LookStep ==
  ASSUME IInv, NEW p \in Procs,
         \/ \E j \in Jobs, e \in Envs : Start(p, j, e)
         \/ FindTable(p)
         \/ AcceptStamp(p)
         \/ FindOwner(p)
         \/ InsertOwner(p)
  PROVE  IInv'
<1>1. ASSUME NEW j \in Jobs, NEW e \in Envs, Start(p, j, e) PROVE IInv'
  <2>1. TypeOK'
    BY <1>1 DEF Start, Goto, IInv, TypeOK, database
  <2>2. Schema' /\ GuardedRowsMatch' /\ OneOwner'
    BY <1>1 DEF Start, IInv, database, Schema, GuardedRowsMatch, OneOwner
  <2>3. Verdicts'
    BY <1>1 DEF Start, Goto, IInv, TypeOK, database, Verdicts
  <2>4. Admitted'
    BY <1>1 DEF Start, Goto, IInv, TypeOK, database, Admitted, KeepsTable
  <2>5. Pendings'
    BY <1>1 DEF Start, Goto, IInv, TypeOK, database, Pendings, InSession, Pending
  <2> QED
    BY <2>1, <2>2, <2>3, <2>4, <2>5 DEF IInv
<1>2. CASE FindTable(p)
  <2>1. TypeOK'
    BY <1>2 DEF FindTable, Goto, IInv, TypeOK, database, locals
  <2>2. Schema' /\ GuardedRowsMatch' /\ OneOwner'
    BY <1>2 DEF FindTable, IInv, database, Schema, GuardedRowsMatch, OneOwner
  <2>3. Verdicts' /\ Admitted'
    BY <1>2 DEF FindTable, Goto, IInv, TypeOK, database, locals, Verdicts, Admitted,
                KeepsTable
  <2>4. Pendings'
    BY <1>2 DEF FindTable, Goto, IInv, TypeOK, database, locals, Pendings, InSession,
                Pending
  <2> QED
    BY <2>1, <2>2, <2>3, <2>4 DEF IInv
<1>3. CASE AcceptStamp(p)
  <2>1. stamp \in Envs /\ env[p] = stamp /\ revision > 0
    BY <1>3, BootAssumption DEF AcceptStamp, Goto, Agrees, IInv, TypeOK, Schema, Admitted
  <2>2. TypeOK'
    BY <1>3, <2>1 DEF AcceptStamp, Goto, IInv, TypeOK, database
  <2>3. Schema' /\ GuardedRowsMatch' /\ OneOwner'
    BY <1>3 DEF AcceptStamp, IInv, database, Schema, GuardedRowsMatch, OneOwner
  <2>4. Verdicts'
    BY <1>3, <2>1 DEF AcceptStamp, Goto, IInv, TypeOK, database, Verdicts
  <2>5. Admitted'
    BY <1>3, <2>1 DEF AcceptStamp, Goto, IInv, TypeOK, database, Admitted, KeepsTable
  <2>6. Pendings'
    BY <1>3 DEF AcceptStamp, Goto, IInv, TypeOK, database, Pendings, InSession, Pending
  <2> QED
    BY <2>2, <2>3, <2>4, <2>5, <2>6 DEF IInv
<1>4. CASE FindOwner(p)
  <2>1. /\ owners = {} => pc' = [pc EXCEPT ![p] = "insert"] /\ user' = user
        /\ owners # {} => /\ pc' = [pc EXCEPT ![p] = "open"]
                          /\ \E u \in owners : user' = [user EXCEPT ![p] = u]
    BY <1>4 DEF FindOwner, Goto, IfFound
  <2>2. TypeOK'
    BY <1>4, <2>1 DEF FindOwner, IInv, TypeOK, database
  <2>3. Schema' /\ GuardedRowsMatch' /\ OneOwner'
    BY <1>4 DEF FindOwner, IInv, database, Schema, GuardedRowsMatch, OneOwner
  <2>4. Verdicts' /\ Admitted'
    BY <1>4, <2>1 DEF FindOwner, Goto, IInv, TypeOK, database, Verdicts, Admitted,
                      KeepsTable
  <2>5. ~Pending(p)' /\ revision' = 2
    BY <1>4, <2>1 DEF FindOwner, IInv, TypeOK, database, Pending
  <2>6. Pendings'
    BY <1>4, <2>1, <2>5 DEF FindOwner, IInv, TypeOK, database, Pendings, InSession,
                            Pending
  <2> QED
    BY <2>2, <2>3, <2>4, <2>6 DEF IInv
<1>5. CASE InsertOwner(p)
  <2>1. PICK u \in Users : user' = [user EXCEPT ![p] = u]
    BY <1>5 DEF InsertOwner
  <2>2. TypeOK'
    BY <1>5, <2>1 DEF InsertOwner, Goto, IInv, TypeOK, database
  <2>3. Schema' /\ GuardedRowsMatch' /\ OneOwner'
    BY <1>5 DEF InsertOwner, IInv, database, Schema, GuardedRowsMatch, OneOwner
  <2>4. Verdicts' /\ Admitted'
    BY <1>5 DEF InsertOwner, Goto, IInv, TypeOK, database, Verdicts, Admitted, KeepsTable
  <2>5. \A q \in Procs \ {p} : ~Pending(q)'
    BY <1>5, <2>1 DEF InsertOwner, Goto, IInv, TypeOK, database, Pending
  <2>6. owners' = {} /\ revision' = 2
    BY <1>5 DEF InsertOwner, Goto, Taken, IInv, Pendings, InSession, database
  <2>7. Pendings'
    BY <1>5, <2>1, <2>5, <2>6 DEF InsertOwner, Goto, IInv, TypeOK, database, Pendings,
                                  InSession
  <2> QED
    BY <2>2, <2>3, <2>4, <2>7 DEF IInv
<1> QED
  BY <1>1, <1>2, <1>3, <1>4, <1>5

\* A row written by a process whose owner is there.
LEMMA RowFits ==
  ASSUME IInv, NEW p \in Procs, pc[p] # "down", NEW u \in Users
  PROVE  /\ WrittenBy(p, u) \in Row
         /\ WrittenBy(p, u).passed => WrittenBy(p, u).env = stamp
         /\ WrittenBy(p, u).user = u
  BY DEF WrittenBy, Row, IInv, TypeOK, Admitted, Verdicts

\* The steps that write rows.
LEMMA WriteStep ==
  ASSUME IInv, NEW p \in Procs, Sweep(p) \/ OpenSession(p) \/ Say(p)
  PROVE  IInv'
<1>1. CASE Sweep(p)
  <2>1. PICK new \in SUBSET Row :
          /\ writes' = writes \cup new
          /\ \A w \in new : (w.passed => w.env = stamp) /\ w.user \in owners
    <3>1. CASE writes' = writes
      <4>1. {} \in SUBSET Row /\ writes' = writes \cup {}
        BY <3>1
      <4> QED
        BY <4>1
    <3>2. ASSUME NEW w \in writes, writes' = writes \cup {WrittenBy(p, w.user)}
          PROVE  \E new \in SUBSET Row :
                   /\ writes' = writes \cup new
                   /\ \A x \in new : (x.passed => x.env = stamp) /\ x.user \in owners
      <4>1. w.user \in owners /\ w.user \in Users
        BY DEF IInv, OneOwner, TypeOK
      <4>2. pc[p] # "down"
        BY <1>1 DEF Sweep, Goto
      <4>3. {WrittenBy(p, w.user)} \in SUBSET Row
        BY <4>1, <4>2, RowFits
      <4>4. \A x \in {WrittenBy(p, w.user)} :
              (x.passed => x.env = stamp) /\ x.user \in owners
        BY <4>1, <4>2, RowFits
      <4> QED
        BY <3>2, <4>3, <4>4
    <3> QED
      BY <1>1, <3>1, <3>2 DEF Sweep
  <2>2. TypeOK'
    BY <1>1, <2>1 DEF Sweep, Goto, IInv, TypeOK, locals
  <2>3. Schema' /\ GuardedRowsMatch' /\ OneOwner'
    BY <1>1, <2>1 DEF Sweep, IInv, Schema, GuardedRowsMatch, OneOwner
  <2>4. Verdicts' /\ Admitted'
    BY <1>1 DEF Sweep, Goto, IInv, TypeOK, locals, Verdicts, Admitted, KeepsTable
  <2>5. Pendings'
    BY <1>1 DEF Sweep, Goto, IInv, TypeOK, locals, Pendings, InSession, Pending
  <2> QED
    BY <2>2, <2>3, <2>4, <2>5 DEF IInv
<1>2. CASE OpenSession(p)
  <2>1. /\ pc[p] = "open" /\ user[p] \in Users /\ revision = 2
        /\ owners' = owners \cup {user[p]}
    BY <1>2 DEF OpenSession, Goto, IInv, Pendings, InSession
  <2>2. owners' = {user[p]}
    BY <2>1 DEF IInv, OneOwner, Pendings, Pending
  <2>3. writes' = writes \cup {WrittenBy(p, user[p])} \/ writes' = writes
    BY <1>2 DEF OpenSession, Write
  <2>4. TypeOK'
    BY <1>2, <2>1, <2>3, RowFits DEF OpenSession, Goto, IInv, TypeOK, locals
  <2>5. Schema'
    BY <1>2, <2>1 DEF OpenSession, IInv, Schema
  <2>6. GuardedRowsMatch'
    BY <1>2, <2>1, <2>3, RowFits DEF OpenSession, IInv, GuardedRowsMatch
  <2>7. OneOwner'
    BY <2>1, <2>2, <2>3, RowFits DEF IInv, OneOwner
  <2>8. Verdicts' /\ Admitted'
    BY <1>2 DEF OpenSession, Goto, IInv, TypeOK, locals, Verdicts, Admitted, KeepsTable
  <2>9. \A q \in Procs : ~Pending(q)'
    <3>1. \A q \in Procs \ {p} : pc'[q] = pc[q] /\ user'[q] = user[q]
      BY <1>2 DEF OpenSession, Goto, IInv, TypeOK, locals
    <3>2. pc'[p] = "prompt"
      BY <1>2 DEF OpenSession, Goto, IInv, TypeOK
    <3>3. \A q \in Procs \ {p} : Pending(q) => ~Pending(p)
      BY DEF IInv, Pendings
    <3>4. \A q \in Procs \ {p} : Pending(q) => user[p] \in owners /\ owners = {}
      BY <2>1, <3>3 DEF IInv, Pendings, Pending
    <3> QED
      BY <2>1, <3>1, <3>2, <3>4 DEF Pending
  <2>10. Pendings'
    BY <1>2, <2>1, <2>9 DEF OpenSession, Goto, IInv, TypeOK, locals, Pendings, InSession
  <2> QED
    BY <2>4, <2>5, <2>6, <2>7, <2>8, <2>10 DEF IInv
<1>3. CASE Say(p)
  <2>1. pc[p] # "down" /\ user[p] \in owners /\ user[p] \in Users /\ revision = 2
    BY <1>3 DEF Say, Referenced, IInv, TypeOK
  <2>2. writes' = writes \cup {WrittenBy(p, user[p])}
    BY <1>3 DEF Say, Write
  <2>3. TypeOK'
    BY <1>3, <2>1, <2>2, RowFits DEF Say, IInv, TypeOK, locals
  <2>4. Schema' /\ GuardedRowsMatch' /\ OneOwner'
    BY <1>3, <2>1, <2>2, RowFits DEF Say, IInv, Schema, GuardedRowsMatch, OneOwner
  <2>5. Verdicts' /\ Admitted' /\ Pendings'
    BY <1>3 DEF Say, IInv, locals, Verdicts, Admitted, KeepsTable, Pendings, InSession,
                Pending
  <2> QED
    BY <2>3, <2>4, <2>5 DEF IInv
<1> QED
  BY <1>1, <1>2, <1>3

\* A boot without a table is refused; a migration goes on without a stamp.
LEMMA NoTableStep ==
  ASSUME IInv, NEW p \in Procs, FindNoTable(p)
  PROVE  IInv'
<1>1. CASE job[p] \in Migrations
  <2>1. pc' = [pc EXCEPT ![p] = "migrate"] /\ UNCHANGED locals
    BY <1>1 DEF FindNoTable
  <2>2. TypeOK'
    BY <2>1 DEF FindNoTable, IInv, TypeOK, database, locals
  <2>3. Schema' /\ GuardedRowsMatch' /\ OneOwner'
    BY DEF FindNoTable, IInv, database, Schema, GuardedRowsMatch, OneOwner
  <2>4. Verdicts' /\ Admitted'
    BY <1>1, <2>1 DEF FindNoTable, IInv, TypeOK, database, locals, Verdicts, Admitted,
                      KeepsTable
  <2>5. Pendings'
    BY <2>1 DEF FindNoTable, IInv, TypeOK, database, locals, Pendings, InSession, Pending
  <2> QED
    BY <2>2, <2>3, <2>4, <2>5 DEF IInv
<1>2. CASE job[p] \notin Migrations
  <2>1. ~passed[p]
    BY DEF FindNoTable, IInv, TypeOK, Verdicts
  <2>2. passed' = [q \in Procs |-> passed[q] /\ q \notin {p}]
    BY <2>1 DEF FindNoTable, IInv, TypeOK
  <2> QED
    BY <1>2, <2>2, FailsStep DEF FindNoTable, Fails, Void
<1> QED
  BY <1>1, <1>2

-----------------------------------------------------------------------------
(* The theorems.                                                           *)

\* An empty database and processes that are down satisfy the invariant.
LEMMA InvInit == Init => IInv
<1> SUFFICES ASSUME Init PROVE IInv
  OBVIOUS
<1>1. TypeOK
  BY DEF Init, TypeOK
<1> QED
  BY <1>1, BootAssumption DEF Init, IInv, Schema, Verdicts, Admitted, KeepsTable, Pendings,
     InSession, Pending, GuardedRowsMatch, OneOwner

\* Boots, migrations, sessions and their ends all keep it.
LEMMA InvStep == IInv /\ [Next]_vars => IInv'
<1> SUFFICES ASSUME IInv, [Next]_vars PROVE IInv'
  OBVIOUS
<1>1. ASSUME NEW p \in Procs,
             RefuseStamp(p) \/ MigrateAbort(p) \/ NoTables(p) \/ LoseOwner(p)
               \/ SayFails(p) \/ Stop(p)
      PROVE  IInv'
  BY <1>1, FailsStep DEF RefuseStamp, MigrateAbort, NoTables, LoseOwner, SayFails, Stop
<1>2. CASE UNCHANGED vars
  BY <1>2 DEF vars, database, locals, IInv, TypeOK, Schema, Verdicts, Admitted, KeepsTable,
              Pendings, InSession, Pending, GuardedRowsMatch, OneOwner
<1> QED
  BY <1>1, <1>2, LookStep, NoTableStep, MigrateStep, WriteStep DEF Next, BootStep

\* So it holds in every behaviour.
LEMMA Invariance == Spec => []IInv
  BY InvInit, InvStep, PTL DEF Spec

\* The values the variables range over, for every instance.
THEOREM TypeCorrect == Spec => []TypeOK
<1>1. IInv => TypeOK
  BY DEF IInv
<1> QED
  BY <1>1, Invariance, PTL

\* No process that checked the database writes rows of another environment.
THEOREM GuardedRows == Spec => []GuardedRowsMatch
<1>1. IInv => GuardedRowsMatch
  BY DEF IInv
<1> QED
  BY <1>1, Invariance, PTL

\* However many first sessions race, one owner owns every row.
THEOREM SingleOwner == Spec => []OneOwner
<1>1. IInv => OneOwner
  BY DEF IInv
<1> QED
  BY <1>1, Invariance, PTL

\* Only a migration touches a stamp that is there, to drop it with every row.
THEOREM StampKept == Spec => StampIsForLife
<1> DEFINE Kept == stamp # NoStamp /\ stamp' # stamp =>
                     stamp' = NoStamp /\ owners' = {} /\ writes' = {}
<1>1. IInv /\ [Next]_vars => [Kept]_vars
  <2> SUFFICES ASSUME IInv, Next PROVE Kept
    OBVIOUS
  <2>1. ASSUME NEW p \in Procs, Upgrade(p) \/ Downgrade(p) PROVE Kept
    BY <2>1, Targets DEF Upgrade, Downgrade, IInv, Schema
  <2>2. ASSUME stamp' = stamp PROVE Kept
    BY <2>2
  <2> QED
    BY <2>1, <2>2 DEF Next, BootStep, Start, FindTable, FindNoTable, AcceptStamp,
       RefuseStamp, Migrate, NothingToDo, MigrateAbort, Sweep, NoTables, FindOwner,
       InsertOwner, LoseOwner, OpenSession, Say, SayFails, Stop, Fails, database
<1> QED
  BY <1>1, Invariance, PTL DEF Spec, StampIsForLife

\* A migration that a stamp let in changes a database of that stamp.
THEOREM MigrationsStayHome == Spec => MigratesItsOwn
<1> DEFINE Home ==
      \A p \in Procs :
        pc[p] = "migrate" /\ pc'[p] = "down" /\ found[p] # NoStamp /\ revision' # revision
          => stamp = env[p]
<1>1. IInv => Home
  BY DEF IInv, Admitted, KeepsTable
<1> QED
  BY <1>1, Invariance, PTL DEF MigratesItsOwn
=============================================================================
