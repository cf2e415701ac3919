-------------------------------- MODULE Boot --------------------------------
(***************************************************************************)
(* Whose database is this?  The environment stamp of app/db/guard.py and   *)
(* the migration that writes it, the boot of a process up to its first row  *)
(* (bootstrap.py, main.py, cli.py), and the owner that the first session   *)
(* of a database creates.  Any number of processes, started with any       *)
(* APP_ENV, share one database with the alembic runs of its operators.     *)
(*                                                                         *)
(* The grain is one database statement.  A migration's statements are one  *)
(* step: its DDL locks what it touches until the commit, so other          *)
(* transactions see all of it or nothing.                                  *)
(***************************************************************************)
EXTENDS Integers

CONSTANTS
  Procs,     \* processes: chats, API servers and alembic runs
  Envs,      \* Environment: APP_ENV, and the values a stamp can have
  NoStamp,   \* no table, no stamp
  Users,     \* user ids
  NoUser     \* no owner known yet

ASSUME BootAssumption ==
  /\ NoStamp \notin Envs
  /\ NoUser \notin Users

VARIABLES
  \* The database.
  revision,  \* alembic_version: 0 is base, 2 is head
  stamp,     \* system_settings' row "environment"
  owners,    \* users with the identity ("cli", "local")
  writes,    \* rows of the core tables: whose, and written by what process
  \* The processes.
  pc,        \* what the process does next
  job,       \* what it was started for
  env,       \* its settings.app_env
  found,     \* what read_stamp returned to it
  passed,    \* its guard accepted the stamp this database has (a ghost: the
             \* process does not learn that the database was dropped since)
  user       \* its owner's id

database == <<revision, stamp, owners, writes>>
locals   == <<job, env, found, user>>
vars     == <<database, passed, pc, locals>>

\* Migrations, by the revision they aim at.
To == [base |-> 0, down1 |-> 1, up1 |-> 1, head |-> 2]

Upgrades   == {"up1", "head"}
Downgrades == {"base", "down1"}
Migrations == Upgrades \cup Downgrades
Chats      == {"chat", "chat --no-check-db"}
Jobs       == Migrations \cup Chats \cup {"api"}

Init ==
  /\ revision = 0
  /\ stamp    = NoStamp
  /\ owners   = {}
  /\ writes   = {}
  /\ pc       = [p \in Procs |-> "down"]
  /\ job      = [p \in Procs |-> "none"]
  /\ env      = [p \in Procs |-> NoStamp]
  /\ found    = [p \in Procs |-> NoStamp]
  /\ passed   = [p \in Procs |-> FALSE]
  /\ user     = [p \in Procs |-> NoUser]

Goto(p, from, to) == pc[p] = from /\ pc' = [pc EXCEPT ![p] = to]

\* The process ends; its open transaction rolls back.
Down(p) ==
  /\ pc'     = [pc EXCEPT ![p] = "down"]
  /\ job'    = [job EXCEPT ![p] = "none"]
  /\ env'    = [env EXCEPT ![p] = NoStamp]
  /\ found'  = [found EXCEPT ![p] = NoStamp]
  /\ user'   = [user EXCEPT ![p] = NoUser]

\* What the guards of these processes accepted counts no more.
Void(ps) == passed' = [q \in Procs |-> passed[q] /\ q \notin ps]

\* An exception that ends the process: `startup failed`, a refused lifespan,
\* a traceback of chat or of alembic.
Fails(p, at) == pc[p] = at /\ Down(p) /\ Void({p}) /\ UNCHANGED database

Start(p, j, e) ==
  /\ Goto(p, "down", IF j = "chat --no-check-db" THEN "find" ELSE "regclass")
  /\ job' = [job EXCEPT ![p] = j]
  /\ env' = [env EXCEPT ![p] = e]
  /\ UNCHANGED <<database, passed, found, user>>

-----------------------------------------------------------------------------
(* read_stamp and evaluate_stamp, in the guard and in alembic/env.py.      *)

\* There is a table, and its row is read next.
FindTable(p) ==
  /\ Goto(p, "regclass", "select")
  /\ revision > 0
  /\ UNCHANGED <<database, passed, locals>>

\* No table, no stamp: a boot is refused, a migration goes on.
FindNoTable(p) ==
  /\ pc[p] = "regclass"
  /\ revision = 0
  /\ IF job[p] \in Migrations
     THEN pc' = [pc EXCEPT ![p] = "migrate"] /\ UNCHANGED locals
     ELSE Down(p)
  /\ UNCHANGED <<database, passed>>

\* Mutant: a guard that only protects production.
Agrees_OneWay(p) == stamp = env[p] \/ env[p] # "prod"

\* evaluate_stamp, in both directions.
Agrees(p) == stamp = env[p]

\* The stamp is the process's own environment.  The guard's connection ends
\* here; a migration keeps its transaction, and with it a lock on the table.
AcceptStamp(p) ==
  /\ Goto(p, "select", IF job[p] \in Migrations THEN "migrate" ELSE "sweep")
  /\ revision > 0
  /\ Agrees(p)
  /\ found'  = [found EXCEPT ![p] = stamp]
  /\ passed' = [passed EXCEPT ![p] = job[p] \notin Migrations]
  /\ UNCHANGED <<database, job, env, user>>

\* EnvironmentMismatchError, or the table is gone since to_regclass saw it.
RefuseStamp(p) ==
  /\ revision = 0 \/ ~Agrees(p)
  /\ Fails(p, "select")

-----------------------------------------------------------------------------
(* Migrations: one transaction from read_stamp to the commit.              *)

\* Mutant: the stamp is read in a transaction of its own.
KeepsTable_Released(q) == FALSE

\* The lock on system_settings that its SELECT took.
KeepsTable(q) == pc[q] = "migrate" /\ found[q] # NoStamp

\* A session whose first transaction has read identities.
InSession(q) == pc[q] \in {"insert", "open"}

\* Mutant: 0002 writes the stamp again.
Upgrade_Restamps(p) ==
  /\ job[p] \in Upgrades
  /\ revision < To[job[p]]
  /\ revision' = To[job[p]]
  /\ stamp' = env[p]
  /\ UNCHANGED <<owners, writes, passed>>

\* 0001 and 0002, upwards: 0001 writes the stamp.
Upgrade(p) ==
  /\ job[p] \in Upgrades
  /\ revision < To[job[p]]
  /\ revision' = To[job[p]]
  /\ stamp' = IF revision = 0 THEN env[p] ELSE stamp
  /\ UNCHANGED <<owners, writes, passed>>

\* Mutant: the stamp is read on a connection of its own, which stays open while
\* the migration runs.
Downgrade_SecondConnection(p) ==
  /\ job[p] \in Downgrades
  /\ revision > To[job[p]]
  /\ revision' = To[job[p]]
  /\ \A q \in Procs : ~InSession(q)
  /\ owners' = {}
  /\ writes' = {}
  /\ IF To[job[p]] = 0
     THEN /\ \A q \in Procs : ~KeepsTable(q)
          /\ stamp' = NoStamp
          /\ Void(Procs)
     ELSE UNCHANGED <<stamp, passed>>

\* 0002 and 0001, downwards: the core tables go first, and the stamp last.
\* DROP TABLE waits for every transaction that has read the table.
Downgrade(p) ==
  /\ job[p] \in Downgrades
  /\ revision > To[job[p]]
  /\ revision' = To[job[p]]
  /\ \A q \in Procs : ~InSession(q)
  /\ owners' = {}
  /\ writes' = {}
  /\ IF To[job[p]] = 0
     THEN /\ \A q \in Procs \ {p} : ~KeepsTable(q)
          /\ stamp' = NoStamp
          /\ Void(Procs)
     ELSE UNCHANGED <<stamp, passed>>

\* The heads are read in the migration's own transaction: what is done already
\* is not done again.
NothingToDo(p) ==
  /\ IF job[p] \in Upgrades THEN revision >= To[job[p]] ELSE revision <= To[job[p]]
  /\ UNCHANGED <<database, passed>>

Migrate(p) ==
  /\ pc[p] = "migrate"
  /\ Upgrade(p) \/ Downgrade(p) \/ NothingToDo(p)
  /\ Down(p)

\* Two downgrades to base, each with a lock on the table the other one drops.
Deadlocked(p) ==
  /\ job[p] = "base" /\ KeepsTable(p)
  /\ \E q \in Procs \ {p} : job[q] = "base" /\ KeepsTable(q)

MigrateAbort(p) == Deadlocked(p) /\ Fails(p, "migrate")

-----------------------------------------------------------------------------
(* Boot and session.                                                       *)

\* A row, with the process's environment and whether its guard has checked this
\* database.
WrittenBy(p, u) == [user |-> u, env |-> env[p], passed |-> passed[p]]

Write(p) == writes' = writes \cup {WrittenBy(p, user[p])}

\* sweep_orphaned_runs, which closes runs if it finds any, whoever began them.
Sweep(p) ==
  /\ Goto(p, "sweep", IF job[p] = "api" THEN "serving" ELSE "find")
  /\ revision = 2
  /\ \/ UNCHANGED writes
     \/ \E w \in writes : writes' = writes \cup {WrittenBy(p, w.user)}
  /\ UNCHANGED <<revision, stamp, owners, passed, locals>>

\* Mutant: a session that goes on without an owner.
IfFound_Anyway == "open"

IfFound == IF owners = {} THEN "insert" ELSE "open"

\* find_user_by_identity.
FindOwner(p) ==
  /\ Goto(p, "find", IfFound)
  /\ revision = 2
  /\ owners # {} => \E u \in owners : user' = [user EXCEPT ![p] = u]
  /\ owners = {} => UNCHANGED user
  /\ UNCHANGED <<database, passed, job, env, found>>

\* The core tables are not there.
NoTables(p) == revision < 2 /\ (Fails(p, "sweep") \/ Fails(p, "find"))

\* Another session has inserted the identity and not committed it yet.
Pending(q) == pc[q] = "open" /\ user[q] \notin owners

\* Mutant: an identity that is not unique.
Taken_Never == FALSE

\* UNIQUE (provider, external_id).
Taken == owners # {}

\* A fresh uuid: whatever refers to a user refers to another one.
New(u) ==
  /\ \A q \in Procs : user[q] # u
  /\ \A w \in writes : w.user # u
  /\ u \notin owners

\* create_user_with_identity; the insert waits for a pending one of the same
\* identity to be committed or rolled back.
InsertOwner(p) ==
  /\ Goto(p, "insert", "open")
  /\ \A q \in Procs : ~Pending(q)
  /\ ~Taken
  /\ \E u \in Users : New(u) /\ user' = [user EXCEPT ![p] = u]
  /\ UNCHANGED <<database, passed, job, env, found>>

\* IntegrityError: the session ends, and the next one finds the owner.
LoseOwner(p) ==
  /\ \A q \in Procs : ~Pending(q)
  /\ Taken
  /\ Fails(p, "insert")

\* start_conversation or resume_or_start, and the first transaction's commit;
\* only a session that finds a conversation writes nothing.
OpenSession(p) ==
  /\ Goto(p, "open", "prompt")
  /\ owners' = owners \cup {user[p]}
  /\ \/ Write(p)
     \/ (\E w \in writes : w.user = user[p]) /\ UNCHANGED writes
  /\ UNCHANGED <<revision, stamp, passed, locals>>

\* The foreign keys of a new row: the session's owner, or a conversation of it.
Referenced(p) == revision = 2 /\ user[p] \in owners

\* A turn, or /new.
Say(p) ==
  /\ pc[p] = "prompt"
  /\ Referenced(p)
  /\ Write(p)
  /\ UNCHANGED <<revision, stamp, owners, passed, pc, locals>>

\* The tables, or the rows the session knows, are gone.
SayFails(p) == ~Referenced(p) /\ Fails(p, "prompt")

\* The process ends at any point, or a statement fails.
Stop(p) == pc[p] # "down" /\ Fails(p, pc[p])

BootStep(p) ==
  \/ FindTable(p) \/ FindNoTable(p) \/ AcceptStamp(p) \/ RefuseStamp(p)
  \/ Migrate(p) \/ MigrateAbort(p)
  \/ Sweep(p) \/ NoTables(p) \/ FindOwner(p)
  \/ InsertOwner(p) \/ LoseOwner(p) \/ OpenSession(p)

Next ==
  \E p \in Procs :
    \/ \E j \in Jobs, e \in Envs : Start(p, j, e)
    \/ BootStep(p) \/ Say(p) \/ SayFails(p) \/ Stop(p)

Spec == Init /\ [][Next]_vars

\* Whatever a boot or a migration waits for is served in queue order, so its
\* step is not overtaken for ever; starting, talking and stopping are free.
FairSpec == Spec /\ \A p \in Procs : SF_vars(BootStep(p))

-----------------------------------------------------------------------------
(* Properties.                                                             *)

Row == [user : Users, env : Envs, passed : BOOLEAN]

\* The values the variables range over.
TypeOK ==
  /\ revision \in 0..2
  /\ stamp \in Envs \cup {NoStamp}
  /\ owners \subseteq Users
  /\ writes \subseteq Row
  /\ pc \in [Procs -> {"down", "regclass", "select", "migrate", "sweep", "serving",
                       "find", "insert", "open", "prompt"}]
  /\ job \in [Procs -> Jobs \cup {"none"}]
  /\ env \in [Procs -> Envs \cup {NoStamp}]
  /\ found \in [Procs -> Envs \cup {NoStamp}]
  /\ passed \in [Procs -> BOOLEAN]
  /\ user \in [Procs -> Users \cup {NoUser}]

\* "A production database can never quietly become a dev one" (0001, 14-15):
\* a stamp is not overwritten, and is only dropped together with every row.
StampIsForLife ==
  [][stamp # NoStamp /\ stamp' # stamp =>
       stamp' = NoStamp /\ owners' = {} /\ writes' = {}]_vars

\* What the guard is for (guard.py:3-15, bootstrap.py:63-64): a process that
\* checked the database as it is - not one that was dropped and created again
\* since - neither sweeps nor writes rows of another environment.
GuardedRowsMatch ==
  \A w \in writes : w.passed => w.env = stamp

\* There is one owner (user.py:3, service.py:75-80), however many first
\* sessions race, and every row belongs to that owner: no session that
\* outlives its tables writes into the ones that replace them.
OneOwner ==
  /\ \A u, v \in owners : u = v
  /\ \A w \in writes : w.user \in owners

\* "The guard runs before migrations apply" (env.py:5-10): a migration that was
\* let in by a stamp meets that stamp when it changes the schema, whatever
\* other operators do in between.
MigratesItsOwn ==
  [][\A p \in Procs :
       pc[p] = "migrate" /\ pc'[p] = "down" /\ found[p] # NoStamp /\ revision' # revision
         => stamp = env[p]]_vars

\* A boot or a migration always ends: it serves, prompts, or goes down.
Booting(p) == pc[p] \notin {"down", "serving", "prompt"}

BootEnds == \A p \in Procs : Booting(p) ~> ~Booting(p)
=============================================================================
