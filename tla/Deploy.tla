--------------------------------- MODULE Deploy --------------------------------
(***************************************************************************)
(* Containers that start together against one database: entrypoint.sh      *)
(* checks the settings, migrates and starts the server; alembic/env.py     *)
(* runs the migrations in one transaction behind an advisory lock; the     *)
(* three revisions are those of alembic/versions.  Images of different     *)
(* heads overlap, as in a rolling deploy, and any container may be killed  *)
(* or lose its connection at any point.                                    *)
(*                                                                         *)
(* PostgreSQL and Alembic are external: a transaction's DDL is seen by     *)
(* others when it commits, a statement reads what is committed when it     *)
(* starts, locks of a transaction end with it, DDL on a table keeps        *)
(* writers out until then, and a lock is given in the order it was asked.  *)
(***************************************************************************)
EXTENDS Naturals, FiniteSets

CONSTANTS
  Containers,
  None,           \* no container
  Head,           \* the newest revision a container's image holds
  MaxStops        \* kills and restarts, a bound

ASSUME HeadAssumption == Head \in [Containers -> 1..3]
ASSUME NoneAssumption == None \notin Containers
ASSUME MaxStopsAssumption == MaxStops \in Nat

VARIABLES
  toggle,       \* POSTGRES_ENABLED, as it is spelled in the environment
  valid,        \* whether a container's settings pass validate_runtime
  pc,           \* where a container is
  lock,         \* who holds the advisory lock
  tx,           \* the schema as a container's transaction sees it
  db,           \* the committed schema: alembic_version and the objects
  duplicates,   \* two open tasks share a title
  stops

given == <<toggle, valid>>
vars == <<given, pc, lock, tx, db, duplicates, stops>>

Objects == {"alembic_version", "reference_tasks", "status_created_at", "updated_at", "open_title"}
Schemas == [version : 0..3, objects : SUBSET Objects]
Nothing == [version |-> 0, objects |-> {}]

\* What upgrade() of each revision creates, in the order of down_revision.
Creates(r) ==
  CASE r = 1 -> {"reference_tasks", "status_created_at"}
    [] r = 2 -> {"updated_at"}
    [] r = 3 -> {"open_title"}

Init ==
  /\ toggle \in {"true", "false", "0"}
  /\ valid \in [Containers -> BOOLEAN]
  /\ pc = [c \in Containers |-> "down"]
  /\ lock = None
  /\ tx = [c \in Containers |-> Nothing]
  /\ db = Nothing
  /\ duplicates = FALSE
  /\ stops = 0

-----------------------------------------------------------------------------
(* entrypoint.sh                                                           *)

\* pydantic reads a boolean: "0" is false as well.
PoolIsOn == toggle = "true"

\* The shell compares with the one word.
SkipsMigration == toggle = "false"

Checks(c) ==
  /\ pc[c] = "down"
  /\ pc' = [pc EXCEPT ![c] = CASE ~valid[c] -> "refused"
                               [] valid[c] /\ SkipsMigration -> "starting"
                               [] OTHER -> "migrating"]
  /\ UNCHANGED <<given, lock, tx, db, duplicates, stops>>

\* exec python -m project.launcher.main
Starts(c) ==
  /\ pc[c] = "starting"
  /\ pc' = [pc EXCEPT ![c] = "serving"]
  /\ UNCHANGED <<given, lock, tx, db, duplicates, stops>>

\* Mutant: the exit code of alembic is not looked at.
AfterFailureStarts == "starting"

\* "Database migration failed": exit 1.
AfterFailure == "failed"

-----------------------------------------------------------------------------
(* alembic/env.py and the revisions                                        *)

\* Mutant: a lock of the session, which nobody unlocks on this way out.
KeepsLock(c) == lock' = lock

\* The transaction is over, and its lock with it.
Releases(c) == lock' = IF lock = c THEN None ELSE lock

EndsAs(c, place) ==
  /\ pc' = [pc EXCEPT ![c] = place]
  /\ tx' = [tx EXCEPT ![c] = Nothing]

RollsBack(c, place) ==
  /\ EndsAs(c, place) /\ Releases(c)
  /\ UNCHANGED <<given, db, duplicates>>

\* Mutant: the lock is not asked for.
TakesNoLock(c) ==
  /\ pc[c] = "migrating"
  /\ pc' = [pc EXCEPT ![c] = "reading"]
  /\ UNCHANGED <<given, lock, tx, db, duplicates, stops>>

\* pg_advisory_xact_lock, before anything else of the transaction.
TakesLock(c) ==
  /\ pc[c] = "migrating" /\ lock = None
  /\ lock' = c
  /\ pc' = [pc EXCEPT ![c] = "reading"]
  /\ UNCHANGED <<given, tx, db, duplicates, stops>>

\* run_migrations reads the heads the database is at, and makes the version
\* table when there is none.
ReadsVersion(c) ==
  /\ pc[c] = "reading" /\ db.version <= Head[c]
  /\ tx' = [tx EXCEPT ![c] = [version |-> db.version,
                              objects |-> db.objects \cup {"alembic_version"}]]
  /\ pc' = [pc EXCEPT ![c] = "upgrading"]
  /\ UNCHANGED <<given, lock, db, duplicates, stops>>

\* "Can't locate revision": a newer image has been here.
MeetsForeignRevision(c) ==
  /\ pc[c] = "reading" /\ db.version > Head[c]
  /\ RollsBack(c, AfterFailure)
  /\ UNCHANGED stops

NextRevision(c) == tx[c].version + 1

\* A unique index cannot be made over rows that break it.
IsRejected(r) == r = 3 /\ duplicates

\* Mutant: the third revision writes its number and makes no index.
RowOnly(c) ==
  [version |-> NextRevision(c),
   objects |-> IF NextRevision(c) = 3 THEN tx[c].objects
               ELSE tx[c].objects \cup Creates(NextRevision(c))]

\* upgrade() and the row of alembic_version, in the same transaction.
Upgraded(c) ==
  [version |-> NextRevision(c), objects |-> tx[c].objects \cup Creates(NextRevision(c))]

AppliesRevision(c) ==
  /\ pc[c] = "upgrading" /\ tx[c].version < Head[c]
  /\ ~IsRejected(NextRevision(c))
  /\ tx' = [tx EXCEPT ![c] = Upgraded(c)]
  /\ UNCHANGED <<given, pc, lock, db, duplicates, stops>>

RevisionIsRejected(c) ==
  /\ pc[c] = "upgrading" /\ tx[c].version < Head[c]
  /\ IsRejected(NextRevision(c))
  /\ RollsBack(c, AfterFailure)
  /\ UNCHANGED stops

\* All the revisions at once.
CommitsTo(c, place) ==
  /\ pc[c] = "upgrading" /\ tx[c].version = Head[c]
  /\ db' = tx[c]
  /\ EndsAs(c, place) /\ Releases(c)
  /\ UNCHANGED <<given, duplicates, stops>>

Commits(c) == CommitsTo(c, "starting")

\* The connection fails after the commit and before its answer: alembic fails
\* although the schema has moved.
CommitIsNotHeard(c) == CommitsTo(c, AfterFailure)

LosesConnection(c) ==
  /\ pc[c] \in {"migrating", "reading", "upgrading"}
  /\ RollsBack(c, AfterFailure)
  /\ UNCHANGED stops

-----------------------------------------------------------------------------
(* The rest of the world                                                   *)

IsKilled(c) ==
  /\ pc[c] \notin {"down", "failed", "refused"}
  /\ stops < MaxStops /\ stops' = stops + 1
  /\ RollsBack(c, "down")

IsRestarted(c) ==
  /\ pc[c] = "failed"
  /\ stops < MaxStops /\ stops' = stops + 1
  /\ pc' = [pc EXCEPT ![c] = "down"]
  /\ UNCHANGED <<given, lock, tx, db, duplicates>>

\* A transaction that has changed the table keeps its writers out.
TableIsLocked == \E c \in Containers : tx[c].version > db.version

\* A server writes an open task under an open title, which only the index
\* refuses.
WritesDuplicate(c) ==
  /\ pc[c] = "serving" /\ PoolIsOn /\ ~duplicates
  /\ "reference_tasks" \in db.objects /\ "open_title" \notin db.objects
  /\ ~TableIsLocked
  /\ duplicates' = TRUE
  /\ UNCHANGED <<given, pc, lock, tx, db, stops>>

DuplicatesAreCleaned ==
  /\ duplicates /\ ~TableIsLocked
  /\ duplicates' = FALSE
  /\ UNCHANGED <<given, pc, lock, tx, db, stops>>

-----------------------------------------------------------------------------
Migrates(c) ==
  \/ ReadsVersion(c) \/ MeetsForeignRevision(c) \/ AppliesRevision(c)
  \/ RevisionIsRejected(c) \/ Commits(c)

Step(c) == Checks(c) \/ Starts(c) \/ TakesLock(c) \/ Migrates(c)

Next ==
  \/ \E c \in Containers : Step(c) \/ LosesConnection(c) \/ CommitIsNotHeard(c)
                             \/ IsKilled(c)
                             \/ IsRestarted(c) \/ WritesDuplicate(c)
  \/ DuplicatesAreCleaned

Spec == Init /\ [][Next]_vars

\* A statement of a live session ends, and the lock is given in turn.
FairSpec ==
  /\ Spec
  /\ \A c \in Containers : WF_vars(Migrates(c)) /\ SF_vars(TakesLock(c))

-----------------------------------------------------------------------------
(* Properties                                                              *)

\* A container is at a known place, and only the holder of the lock has a
\* transaction with changes in it.
TypeOK ==
  /\ pc \in [Containers -> {"down", "refused", "migrating", "reading", "upgrading",
                            "starting", "serving", "failed"}]
  /\ lock \in Containers \cup {None}
  /\ tx \in [Containers -> Schemas] /\ db \in Schemas
  /\ duplicates \in BOOLEAN /\ stops \in 0..MaxStops
  /\ \A c \in Containers : pc[c] \in {"reading", "upgrading"} <=> lock = c

ObjectsAt(v) ==
  (UNION {Creates(r) : r \in 1..v}) \cup (IF v > 0 THEN {"alembic_version"} ELSE {})

\* The committed schema is what the revisions up to alembic_version create,
\* whoever was killed between two of them.
SchemaIsItsVersion == db.objects = ObjectsAt(db.version)

\* What a transaction is about to create is nowhere else, neither committed
\* nor in another transaction: no replica dies of a UniqueViolation
\* (test_migration_lock.py).
CreatesOnce ==
  \A c, d \in Containers :
    pc[c] = "upgrading" /\ tx[c].version < Head[c] =>
      /\ Creates(NextRevision(c)) \cap db.objects = {}
      /\ c # d => Creates(NextRevision(c)) \cap tx[d].objects = {}

\* The order in entrypoint.sh: who serves with a pool has the schema its
\* image was written for, also while other images come and go.
ServesItsSchema ==
  \A c \in Containers : pc[c] = "serving" /\ PoolIsOn => db.version >= Head[c]

\* From the third revision on no two open tasks share a title.
OneOpenTitle == "open_title" \in db.objects => ~duplicates

\* entrypoint.sh:16-19: a container refused for its settings has not changed
\* the database it shares, and no step takes a revision back.
RefusedMigratesNothing ==
  [][db' # db => /\ db'.version >= db.version
                 /\ \E c \in Containers : valid[c] /\ pc[c] = "upgrading"]_vars

\* env.py:94-96: the lock ends with its transaction, so whoever waits for it
\* gets on, whatever happened to those before.
NobodyWaitsForever ==
  \A c \in Containers : pc[c] = "migrating" ~> pc[c] # "migrating"

\* ADR-006: switched by a single boolean, and when it is false the
\* entrypoint runs no migrations.
NoStoreNoMigration ==
  ~PoolIsOn => \A c \in Containers : pc[c] \notin {"migrating", "reading", "upgrading"}
=============================================================================
