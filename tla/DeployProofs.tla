------------------------------ MODULE DeployProofs -----------------------------
(***************************************************************************)
(* Deploys, proved for any number of containers, images and kills: what a  *)
(* transaction creates exists nowhere else, the committed schema is what   *)
(* its version says, and whoever serves with a pool has its image's        *)
(* schema.                                                                 *)
(***************************************************************************)
EXTENDS Deploy, TLAPS

-----------------------------------------------------------------------------
(* The revisions                                                           *)

Version == {"alembic_version"}

\* What is in the schema at each version, written out.
LEMMA ObjectsSpelled ==
  /\ ObjectsAt(0) = {}
  /\ ObjectsAt(1) = Version \cup {"reference_tasks", "status_created_at"}
  /\ ObjectsAt(2) = Version \cup {"reference_tasks", "status_created_at", "updated_at"}
  /\ ObjectsAt(3) = Version \cup {"reference_tasks", "status_created_at", "updated_at", "open_title"}
<1>1. /\ Creates(1) = {"reference_tasks", "status_created_at"}
      /\ Creates(2) = {"updated_at"}
      /\ Creates(3) = {"open_title"}
  BY DEF Creates
<1>2. 1..0 = {} /\ 1..1 = {1} /\ 1..2 = {1, 2} /\ 1..3 = {1, 2, 3}
  OBVIOUS
<1>3. ObjectsAt(0) = {}
  BY <1>2 DEF ObjectsAt
<1>4. ObjectsAt(1) = Version \cup Creates(1)
  BY <1>2 DEF ObjectsAt, Version
<1>5. ObjectsAt(2) = Version \cup Creates(1) \cup Creates(2)
  BY <1>2 DEF ObjectsAt, Version
<1>6. ObjectsAt(3) = Version \cup Creates(1) \cup Creates(2) \cup Creates(3)
  BY <1>2 DEF ObjectsAt, Version
<1> QED BY <1>1, <1>3, <1>4, <1>5, <1>6

\* A revision builds the next version on the one before, and creates nothing
\* an earlier version holds.
LEMMA RevisionBuilds ==
  ASSUME NEW v \in 0..2
  PROVE  ObjectsAt(v) \cup Version \cup Creates(v + 1) = ObjectsAt(v + 1)
<1>1. v = 0 \/ v = 1 \/ v = 2
  OBVIOUS
<1>2. /\ Creates(0 + 1) = {"reference_tasks", "status_created_at"}
      /\ Creates(1 + 1) = {"updated_at"}
      /\ Creates(2 + 1) = {"open_title"}
  BY DEF Creates
<1>3. 0 + 1 = 1 /\ 1 + 1 = 2 /\ 2 + 1 = 3
  OBVIOUS
<1>4. CASE v = 0
  BY <1>4, <1>2, <1>3, ObjectsSpelled DEF Version
<1>5. CASE v = 1
  BY <1>5, <1>2, <1>3, ObjectsSpelled DEF Version
<1>6. CASE v = 2
  BY <1>6, <1>2, <1>3, ObjectsSpelled DEF Version
<1> QED BY <1>1, <1>4, <1>5, <1>6

\* What a revision creates is in no earlier version.
LEMMA RevisionIsNew ==
  ASSUME NEW v \in 0..2, NEW w \in 0..v
  PROVE  Creates(v + 1) \cap (ObjectsAt(w) \cup Version) = {}
<1>1. v = 0 \/ v = 1 \/ v = 2
  OBVIOUS
<1>2. w = 0 \/ w = 1 \/ w = 2
  OBVIOUS
<1>3. /\ v = 0 => Creates(v + 1) = {"reference_tasks", "status_created_at"} /\ w = 0
      /\ v = 1 => Creates(v + 1) = {"updated_at"} /\ w # 2
      /\ v = 2 => Creates(v + 1) = {"open_title"}
  BY DEF Creates
<1>4. ObjectsAt(w) \in {ObjectsAt(0), ObjectsAt(1), ObjectsAt(2)}
  BY <1>2
<1>5. CASE v = 0
  BY <1>5, <1>3, ObjectsSpelled DEF Version
<1>6. CASE v = 1
  <2>1. w = 0 \/ w = 1
    BY <1>6, <1>2, <1>3
  <2> QED BY <1>6, <1>3, <2>1, ObjectsSpelled DEF Version
<1>7. CASE v = 2
  BY <1>7, <1>3, <1>2, ObjectsSpelled DEF Version
<1> QED BY <1>1, <1>5, <1>6, <1>7

\* The index that holds the rule is there from the third version on.
LEMMA IndexIsLast ==
  ASSUME NEW v \in 0..3
  PROVE  "open_title" \in ObjectsAt(v) \cup Version <=> v = 3
<1>1. v = 0 \/ v = 1 \/ v = 2 \/ v = 3
  OBVIOUS
<1> QED BY <1>1, ObjectsSpelled DEF Version

\* Every version is made of the objects the revisions name.
LEMMA ObjectsTyped == ASSUME NEW v \in 0..3 PROVE ObjectsAt(v) \subseteq Objects
<1>1. v = 0 \/ v = 1 \/ v = 2 \/ v = 3
  OBVIOUS
<1> QED BY <1>1, ObjectsSpelled DEF Version, Objects

\* A migrated schema has its version table.
LEMMA VersionIsKept ==
  ASSUME NEW v \in 1..3
  PROVE  ObjectsAt(v) \cup Version = ObjectsAt(v)
<1>1. v = 1 \/ v = 2 \/ v = 3
  OBVIOUS
<1> QED BY <1>1, ObjectsSpelled DEF Version

-----------------------------------------------------------------------------
(* The invariant                                                           *)

Places == {"down", "refused", "migrating", "reading", "upgrading", "starting", "serving", "failed"}

\* Types, without the bound on stops.
Typed ==
  /\ pc \in [Containers -> Places]
  /\ tx \in [Containers -> Schemas]
  /\ db \in Schemas
  /\ duplicates \in BOOLEAN

\* Whoever is inside a migration holds the one lock.
Exclusive == \A c \in Containers : pc[c] \in {"reading", "upgrading"} <=> lock = c

\* What an open transaction sees: the committed schema and revisions on top.
TxFits(c) ==
  IF pc[c] = "upgrading"
  THEN /\ tx[c].version \in db.version..Head[c]
       /\ tx[c].objects = ObjectsAt(tx[c].version) \cup Version
  ELSE tx[c] = Nothing

\* Past its migration a container with a pool has its image's schema; inside
\* it, it will have.
Ready(c) == PoolIsOn /\ pc[c] \in {"starting", "serving"} => db.version >= Head[c]

\* Nobody has built the unique index over duplicates.
IndexHolds ==
  duplicates => db.version # 3 /\ \A c \in Containers : tx[c].version # 3

IInv ==
  /\ Typed
  /\ Exclusive
  /\ SchemaIsItsVersion
  /\ \A c \in Containers : TxFits(c) /\ Ready(c)
  /\ IndexHolds

USE HeadAssumption, NoneAssumption

\* The empty schema is a schema at version 0.
LEMMA NothingTyped == Nothing \in Schemas /\ Nothing.version = 0 /\ Nothing.objects = {}
  BY DEF Nothing, Schemas

\* An empty database and containers that are down.
LEMMA InitHolds == Init => IInv
<1> SUFFICES ASSUME Init PROVE IInv
  OBVIOUS
<1>1. Typed
  BY NothingTyped DEF Init, Typed, Places
<1>2. Exclusive
  BY DEF Init, Exclusive
<1>3. SchemaIsItsVersion
  BY ObjectsSpelled DEF Init, Nothing, SchemaIsItsVersion
<1>4. \A c \in Containers : TxFits(c) /\ Ready(c)
  BY DEF Init, TxFits, Ready
<1>5. IndexHolds
  BY DEF Init, IndexHolds
<1> QED BY <1>1, <1>2, <1>3, <1>4, <1>5 DEF IInv

\* A container that rolls back keeps the invariant, wherever it goes but into
\* a migration or past it.
LEMMA RollBackKeeps ==
  ASSUME IInv, NEW c \in Containers, NEW place \in {"down", "failed"}, RollsBack(c, place)
  PROVE  IInv'
<1> USE DEF RollsBack, EndsAs, Releases
<1>1. Typed'
  BY NothingTyped DEF IInv, Typed, Places
<1>2. Exclusive'
  BY DEF IInv, Typed, Exclusive
<1>3. SchemaIsItsVersion'
  BY DEF IInv, SchemaIsItsVersion
<1>4. ASSUME NEW d \in Containers PROVE TxFits(d)' /\ Ready(d)'
  BY <1>4 DEF IInv, Typed, TxFits, Ready, PoolIsOn, given
<1>5. IndexHolds'
  BY NothingTyped DEF IInv, Typed, IndexHolds
<1> QED BY <1>1, <1>2, <1>3, <1>4, <1>5 DEF IInv

\* The steps of entrypoint.sh around the migration.
LEMMA ShellKeeps ==
  ASSUME IInv, NEW c \in Containers, Checks(c) \/ Starts(c) \/ IsRestarted(c)
  PROVE  IInv'
<1>1. /\ pc[c] \in {"down", "starting", "failed"}
      /\ \E place \in {"refused", "starting", "migrating", "serving", "down"} :
            /\ pc' = [pc EXCEPT ![c] = place]
            /\ place = "starting" => SkipsMigration
            /\ place = "serving" => pc[c] = "starting"
      /\ UNCHANGED <<given, lock, tx, db, duplicates>>
  BY DEF Checks, Starts, IsRestarted
<1>2. Typed'
  BY <1>1 DEF IInv, Typed, Places
<1>3. Exclusive'
  BY <1>1 DEF IInv, Typed, Exclusive
<1>4. SchemaIsItsVersion'
  BY <1>1 DEF IInv, SchemaIsItsVersion
<1>5. ASSUME NEW d \in Containers PROVE TxFits(d)' /\ Ready(d)'
  BY <1>1, <1>5 DEF IInv, Typed, TxFits, Ready, PoolIsOn, SkipsMigration, given
<1>6. IndexHolds'
  BY <1>1 DEF IInv, IndexHolds
<1> QED BY <1>2, <1>3, <1>4, <1>5, <1>6 DEF IInv

\* pg_advisory_xact_lock is granted to one container, which has changed nothing yet.
LEMMA LockKeeps ==
  ASSUME IInv, NEW c \in Containers, TakesLock(c)
  PROVE  IInv'
<1> USE DEF TakesLock
<1>1. Typed'
  BY DEF IInv, Typed, Places
<1>2. Exclusive'
  BY DEF IInv, Typed, Exclusive
<1>3. SchemaIsItsVersion'
  BY DEF IInv, SchemaIsItsVersion
<1>4. ASSUME NEW d \in Containers PROVE TxFits(d)' /\ Ready(d)'
  BY <1>4 DEF IInv, Typed, TxFits, Ready, PoolIsOn, given
<1>5. IndexHolds'
  BY DEF IInv, IndexHolds
<1> QED BY <1>1, <1>2, <1>3, <1>4, <1>5 DEF IInv

\* The version is read behind the lock, so the transaction starts at what is
\* committed and stays there.
LEMMA ReadKeeps ==
  ASSUME IInv, NEW c \in Containers, ReadsVersion(c)
  PROVE  IInv'
<1> USE DEF ReadsVersion
<1>1. db.version \in 0..3 /\ db.objects = ObjectsAt(db.version)
  BY DEF IInv, Typed, Schemas, SchemaIsItsVersion
<1>2. [version |-> db.version, objects |-> db.objects \cup {"alembic_version"}] \in Schemas
  BY <1>1, ObjectsTyped DEF Schemas, Objects
<1>3. Typed'
  BY <1>2 DEF IInv, Typed, Places
<1>4. Exclusive'
  BY DEF IInv, Typed, Exclusive
<1>5. SchemaIsItsVersion'
  BY DEF IInv, SchemaIsItsVersion
<1>6. tx'[c].version = db.version /\ tx'[c].objects = ObjectsAt(db.version) \cup Version
  BY <1>1 DEF IInv, Typed, Version
<1>7. Head[c] \in 1..3
  OBVIOUS
<1>8. ASSUME NEW d \in Containers PROVE TxFits(d)' /\ Ready(d)'
  BY <1>1, <1>6, <1>7, <1>8 DEF IInv, Typed, TxFits, Ready, PoolIsOn, given
<1>9. IndexHolds'
  BY <1>6 DEF IInv, Typed, IndexHolds
<1> QED BY <1>3, <1>4, <1>5, <1>8, <1>9 DEF IInv

\* What a transaction at some version below its head sees.
LEMMA TxSpelled ==
  ASSUME IInv, NEW c \in Containers, pc[c] = "upgrading", tx[c].version < Head[c]
  PROVE  /\ tx[c].version \in 0..2 /\ Head[c] \in 1..3
         /\ db.version \in 0..tx[c].version
         /\ tx[c].objects = ObjectsAt(tx[c].version) \cup Version
         /\ NextRevision(c) = tx[c].version + 1
<1>1. tx[c].version \in db.version..Head[c] /\ tx[c].objects = ObjectsAt(tx[c].version) \cup Version
  BY DEF IInv, TxFits
<1>2. db.version \in 0..3 /\ Head[c] \in 1..3
  BY DEF IInv, Typed, Schemas
<1> QED BY <1>1, <1>2 DEF NextRevision

\* A revision is applied to what the transaction sees; the third waits for
\* no duplicates, and from then on writers wait for it.
LEMMA RevisionKeeps ==
  ASSUME IInv, NEW c \in Containers, AppliesRevision(c)
  PROVE  IInv'
<1> USE DEF AppliesRevision
<1> DEFINE v == tx[c].version
<1>1. /\ v \in 0..2 /\ Head[c] \in 1..3 /\ db.version \in 0..v /\ v < Head[c]
      /\ tx[c].objects = ObjectsAt(v) \cup Version
      /\ NextRevision(c) = v + 1
  BY TxSpelled
<1>2. Upgraded(c) = [version |-> v + 1, objects |-> ObjectsAt(v + 1)]
  BY <1>1, RevisionBuilds DEF Upgraded
<1>3. ObjectsAt(v + 1) = ObjectsAt(v + 1) \cup Version
  BY <1>1, VersionIsKept
<1>4. Upgraded(c) \in Schemas
  BY <1>1, <1>2, ObjectsTyped DEF Schemas
<1>5. Typed'
  BY <1>4 DEF IInv, Typed, Places
<1>6. tx'[c].version = v + 1 /\ tx'[c].objects = ObjectsAt(v + 1) \cup Version
  BY <1>2, <1>3 DEF IInv, Typed
<1>7. Exclusive' /\ SchemaIsItsVersion'
  BY DEF IInv, Exclusive, SchemaIsItsVersion
<1>8. ASSUME NEW d \in Containers PROVE TxFits(d)' /\ Ready(d)'
  <2>1. CASE d = c
    BY <1>1, <1>6, <2>1 DEF IInv, TxFits, Ready
  <2>2. CASE d # c
    BY <2>2, <1>8 DEF IInv, Typed, TxFits, Ready, PoolIsOn, given
  <2> QED BY <2>1, <2>2
<1>9. duplicates => v + 1 # 3
  BY <1>1 DEF IsRejected
<1>10. IndexHolds'
  BY <1>6, <1>9 DEF IInv, Typed, IndexHolds
<1> QED BY <1>5, <1>7, <1>8, <1>10 DEF IInv

\* One commit replaces the schema; nobody else is in a transaction, and no
\* version gets lower.
LEMMA CommitKeeps ==
  ASSUME IInv, NEW c \in Containers, Commits(c) \/ CommitIsNotHeard(c)
  PROVE  IInv' /\ db'.version >= db.version
<1> PICK place \in {"starting", "failed"} : CommitsTo(c, place)
  BY DEF Commits, CommitIsNotHeard, AfterFailure
<1> USE DEF CommitsTo, EndsAs, Releases
<1>1. /\ tx[c].version = Head[c] /\ Head[c] \in 1..3 /\ db.version \in 0..Head[c]
      /\ tx[c].objects = ObjectsAt(Head[c]) \cup Version
  BY DEF IInv, Typed, Schemas, TxFits
<1>2. db'.version = Head[c] /\ db'.objects = ObjectsAt(Head[c])
  BY <1>1, VersionIsKept
<1>3. Typed'
  BY NothingTyped DEF IInv, Typed, Places
<1>4. Exclusive'
  BY DEF IInv, Typed, Exclusive
<1>5. SchemaIsItsVersion'
  BY <1>2 DEF SchemaIsItsVersion
<1>6. ASSUME NEW d \in Containers PROVE TxFits(d)' /\ Ready(d)'
  <2>1. CASE d = c
    BY <1>1, <1>2, <2>1 DEF IInv, Typed, TxFits, Ready
  <2>2. CASE d # c
    <3>1. pc'[d] = pc[d] /\ pc[d] # "upgrading" /\ tx'[d] = tx[d]
      BY <2>2, <1>6 DEF IInv, Typed, Exclusive
    <3>2. Head[d] \in 1..3
      BY <1>6
    <3> QED BY <1>1, <1>2, <3>1, <3>2, <1>6 DEF IInv, TxFits, Ready, PoolIsOn, given
  <2> QED BY <2>1, <2>2
<1>7. IndexHolds'
  BY <1>1, <1>2, NothingTyped DEF IInv, Typed, IndexHolds
<1> QED BY <1>1, <1>2, <1>3, <1>4, <1>5, <1>6, <1>7 DEF IInv

\* A server can write a duplicate only while there is no index, committed or
\* being committed.
LEMMA WritersKeep ==
  ASSUME IInv, (\E c \in Containers : WritesDuplicate(c)) \/ DuplicatesAreCleaned
  PROVE  IInv'
<1>1. /\ duplicates' \in BOOLEAN
      /\ duplicates' => "open_title" \notin db.objects /\ ~TableIsLocked
      /\ UNCHANGED <<given, pc, lock, tx, db, stops>>
  BY DEF WritesDuplicate, DuplicatesAreCleaned
<1>2. Typed'
  BY <1>1 DEF IInv, Typed
<1>3. Exclusive' /\ SchemaIsItsVersion'
  BY <1>1 DEF IInv, Exclusive, SchemaIsItsVersion
<1>4. ASSUME NEW d \in Containers PROVE TxFits(d)' /\ Ready(d)'
  BY <1>1, <1>4 DEF IInv, TxFits, Ready, PoolIsOn, given
<1>5. db.version \in 0..3
  BY DEF IInv, Typed, Schemas
<1>6. ASSUME duplicates' PROVE db.version # 3 /\ \A d \in Containers : tx[d].version # 3
  <2>1. db.version # 3
    BY <1>1, <1>5, <1>6, IndexIsLast DEF IInv, SchemaIsItsVersion
  <2>2. \A d \in Containers : ~(tx[d].version > db.version)
    BY <1>1, <1>6 DEF TableIsLocked
  <2> QED BY <1>5, <2>1, <2>2
<1>7. IndexHolds'
  BY <1>1, <1>6 DEF IndexHolds
<1> QED BY <1>2, <1>3, <1>4, <1>7 DEF IInv

\* A foreign revision, a rejected one, a lost connection and a kill all roll back.
LEMMA FailuresKeep ==
  ASSUME IInv, NEW c \in Containers,
         MeetsForeignRevision(c) \/ RevisionIsRejected(c) \/ LosesConnection(c) \/ IsKilled(c)
  PROVE  IInv'
<1>1. RollsBack(c, "down") \/ RollsBack(c, "failed")
  BY DEF MeetsForeignRevision, RevisionIsRejected, LosesConnection, IsKilled, AfterFailure
<1> QED BY <1>1, RollBackKeeps

\* A step in which nothing changes keeps the invariant.
LEMMA StutterKeeps == ASSUME IInv, UNCHANGED vars PROVE IInv'
<1> USE DEF vars, given
<1>1. Typed' /\ Exclusive' /\ SchemaIsItsVersion' /\ IndexHolds'
  BY DEF IInv, Typed, Exclusive, SchemaIsItsVersion, IndexHolds
<1>2. ASSUME NEW d \in Containers PROVE TxFits(d)' /\ Ready(d)'
  BY <1>2 DEF IInv, TxFits, Ready, PoolIsOn
<1> QED BY <1>1, <1>2 DEF IInv

\* A step is one of the containers' or of the world's.
LEMMA NextSpelled ==
  ASSUME Next
  PROVE  \/ \E c \in Containers :
              \/ Checks(c) \/ Starts(c) \/ IsRestarted(c)
              \/ TakesLock(c) \/ ReadsVersion(c) \/ AppliesRevision(c) \/ Commits(c)
              \/ CommitIsNotHeard(c) \/ MeetsForeignRevision(c) \/ RevisionIsRejected(c)
              \/ LosesConnection(c) \/ IsKilled(c)
         \/ (\E c \in Containers : WritesDuplicate(c)) \/ DuplicatesAreCleaned
  BY DEF Next, Step, Migrates

\* So every step of a container, of its image or of the world keeps it.
LEMMA NextKeeps == ASSUME IInv, [Next]_vars PROVE IInv'
<1>1. CASE UNCHANGED vars
  BY <1>1, StutterKeeps
<1>2. CASE Next
  BY <1>2, NextSpelled, ShellKeeps, LockKeeps, ReadKeeps, RevisionKeeps, CommitKeeps,
     FailuresKeep, WritersKeep
<1> QED BY <1>1, <1>2

-----------------------------------------------------------------------------
(* The theorems                                                            *)

\* Every reachable state satisfies the invariant.
THEOREM Invariance == Spec => []IInv
<1>1. Init => IInv
  BY InitHolds
<1>2. IInv /\ [Next]_vars => IInv'
  BY NextKeeps
<1> QED BY <1>1, <1>2, PTL DEF Spec

\* env.py: the committed schema is exactly what its version says, however
\* many containers raced for it, died or lost their connection on the way.
THEOREM SchemaKept == Spec => []SchemaIsItsVersion
<1>1. IInv => SchemaIsItsVersion
  BY DEF IInv
<1> QED BY <1>1, Invariance, PTL

\* The advisory lock: what a migration is about to create exists neither in
\* the database nor in another transaction, for any number of replicas.
THEOREM CreatedOnce == Spec => []CreatesOnce
<1>1. ASSUME IInv, NEW c \in Containers, NEW d \in Containers,
             pc[c] = "upgrading", tx[c].version < Head[c]
      PROVE  /\ Creates(NextRevision(c)) \cap db.objects = {}
             /\ c # d => Creates(NextRevision(c)) \cap tx[d].objects = {}
  <2>1. /\ tx[c].version \in 0..2 /\ db.version \in 0..tx[c].version
        /\ NextRevision(c) = tx[c].version + 1
    BY <1>1, TxSpelled
  <2>2. Creates(NextRevision(c)) \cap ObjectsAt(db.version) = {}
    BY <2>1, RevisionIsNew
  <2>3. ASSUME c # d PROVE tx[d].objects = {}
    <3>1. pc[d] # "upgrading"
      BY <1>1, <2>3 DEF IInv, Exclusive
    <3> QED BY <1>1, <3>1, NothingTyped DEF IInv, TxFits
  <2> QED BY <1>1, <2>2, <2>3 DEF IInv, SchemaIsItsVersion
<1>2. IInv => CreatesOnce
  BY <1>1 DEF CreatesOnce
<1> QED BY <1>2, Invariance, PTL

\* entrypoint.sh: no container serves with a pool on a schema older than its
\* image, also in a deploy in which images of several heads come and go.
THEOREM ServesMigrated == Spec => []ServesItsSchema
<1>1. IInv => ServesItsSchema
  BY DEF IInv, Ready, ServesItsSchema
<1> QED BY <1>1, Invariance, PTL

\* The third revision: once the index is committed no two open tasks share a
\* title, whatever servers of older images wrote while it was made.
THEOREM TitlesKept == Spec => []OneOpenTitle
<1>1. ASSUME IInv PROVE OneOpenTitle
  <2>1. db.version \in 0..3 /\ db.objects = ObjectsAt(db.version)
    BY <1>1 DEF IInv, Typed, Schemas, SchemaIsItsVersion
  <2>2. "open_title" \in db.objects => db.version = 3
    BY <2>1, IndexIsLast
  <2> QED BY <1>1, <2>2 DEF IInv, IndexHolds, OneOpenTitle
<1>2. IInv => OneOpenTitle
  BY <1>1
<1> QED BY <1>2, Invariance, PTL
=============================================================================
