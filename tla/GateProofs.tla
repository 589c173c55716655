------------------------------ MODULE GateProofs -------------------------------
(***************************************************************************)
(* What the verdicts of the gates are worth, proved for checkouts and      *)
(* databases of any size.  First the migration gate, for any number of     *)
(* worktrees, revisions and databases, and any interleaving of their gates *)
(* with developers and with databases that come and go; then the two       *)
(* validators of Gates, for any imports, wiring, statements and edits.     *)
(***************************************************************************)
EXTENDS MigrationGate, Gates, FiniteSetTheorems, SequenceTheorems, WellFoundedInduction, TLAPS

BranchShape ==
  /\ DOMAIN files = Worktrees /\ DOMAIN orm = Worktrees /\ DOMAIN pc = Worktrees /\ DOMAIN verdict = Worktrees
  /\ DOMAIN sight = Worktrees /\ DOMAIN settings = Worktrees
  /\ green \in [Worktrees -> BOOLEAN]
  /\ DOMAIN lost = Worktrees /\ DOMAIN dbOf = Worktrees
  /\ DOMAIN stamp = Databases /\ DOMAIN schema = Databases
  /\ \A w \in Worktrees : IsFiniteSet(DOMAIN files[w]) /\ dbOf[w] \in {"shared", w}

\* A gate under way has found a chain in the files, which nobody edits while it
\* runs; past the stamp, that holds nothing its files do not know, or it could not
\* be read, or another gate moved it since, which it can only where it is shared.
Checked ==
  \A w \in Worktrees :
    /\ pc[w] # "idle" => Chain(files[w])
    /\ pc[w] # "upgrade" => sight[w] = "none"
    /\ pc[w] = "upgrade" => sight[w] \in {"read", "unread", "overtaken"}
    /\ pc[w] = "upgrade" /\ sight[w] = "read" => Foreign(files[w], stamp[dbOf[w]]) = {}
    /\ sight[w] = "overtaken" => dbOf[w] = "shared"

\* A database of its own is stamped with what this worktree knows or has lost, and
\* with nothing before it is used.
OwnStamp ==
  \A w \in Worktrees :
    /\ dbOf[w] = w => stamp[w] \subseteq DOMAIN files[w] \cup lost[w]
    /\ dbOf[w] = "shared" => stamp[w] = {}

\* Since a run passed, the files and the database are what it passed on.
StillGreen ==
  \A w \in Worktrees :
    green[w] => Chain(files[w]) /\ stamp[dbOf[w]] = Heads(files[w]) /\ schema[dbOf[w]] = orm[w]

MigrationInv == BranchShape /\ Checked /\ OwnStamp /\ StillGreen

\* The heads of a finite graph can be counted.
LEMMA HeadsAreCounted ==
  ASSUME NEW f, IsFiniteSet(DOMAIN f) PROVE Cardinality(Heads(f)) \in Nat
<1>1. Heads(f) \subseteq DOMAIN f
  BY DEF Heads
<1> QED
  BY <1>1, FS_Subset, FS_CardinalityType

\* Files that pass the first check are one chain.
LEMMA PrecheckedIsChain ==
  ASSUME NEW f, IsFiniteSet(DOMAIN f), NEW enabled, Precheck(f, enabled) \in {"none", "database_disabled"}
  PROVE  Chain(f)
BY HeadsAreCounted DEF Precheck, RevisionGraphIssue, Chain

\* The verdicts on the files and the settings are these four.
LEMMA Prechecks ==
  ASSUME NEW f, NEW enabled
  PROVE  Precheck(f, enabled) \in {"none", "broken_revision_graph", "multiple_heads", "database_disabled"}
BY DEF Precheck, RevisionGraphIssue

\* What developers and hosts do.
Edits(w) ==
  \/ \E r \in Revisions : \/ ChangeModel(w, r) \/ AutogenerateMigration(w, r)
                          \/ MergeHeads(w, r) \/ DropFile(w, r)
  \/ \E a, b \in Revisions : Repoint(w, a, b)
  \/ \E v \in Worktrees : MergeBranch(w, v)
  \/ DbUpWorktree(w)

\* Another branch's files or a revision more leave them finite.
LEMMA MoreFiles ==
  ASSUME NEW f, NEW g, IsFiniteSet(DOMAIN f), IsFiniteSet(DOMAIN g)
  PROVE  IsFiniteSet(DOMAIN Over(g, f))
<1>1. DOMAIN Over(g, f) = (DOMAIN g) \cup (DOMAIN f)
  BY DEF Over
<1> QED
  BY <1>1, FS_Union

\* A branch has finitely many files after alembic wrote one more.
LEMMA OneMoreFile ==
  ASSUME NEW f, NEW r, IsFiniteSet(DOMAIN f)
  PROVE  IsFiniteSet(DOMAIN AtHead(r, f))
<1> DEFINE g == [s \in {r} |-> Heads(f)]
<1>1. IsFiniteSet({r})
  BY FS_Singleton
<1>2. DOMAIN g = {r}
  OBVIOUS
<1>3. IsFiniteSet(DOMAIN g)
  BY <1>1, <1>2
<1> HIDE DEF g
<1>4. IsFiniteSet(DOMAIN Over(g, f))
  BY <1>3, MoreFiles
<1> QED
  BY <1>4 DEF AtHead, g

\* Nothing is above the heads: a set that holds them and what is below its members
\* is all there is.
LEMMA HeadsReachAll ==
  ASSUME NEW f, Walkable(f) PROVE Below(f, Heads(f)) = DOMAIN f
<1> SUFFICES ASSUME NEW r \in DOMAIN f, NEW S \in SUBSET (DOMAIN f \cup Heads(f)),
                    Heads(f) \subseteq S, \A s \in S \cap DOMAIN f : f[s] \subseteq S,
                    r \notin S
             PROVE  FALSE
  BY DEF Below
<1> DEFINE C == (DOMAIN f) \ S
<1>1. C \in SUBSET DOMAIN f /\ C # {}
  OBVIOUS
<1>2. PICK q \in C : \A s \in C : q \notin f[s]
  BY <1>1 DEF Walkable
<1>3. q \notin Heads(f) /\ q \in DOMAIN f
  BY <1>2
<1>4. PICK s \in DOMAIN f : q \in f[s]
  BY <1>3 DEF Heads
<1>5. s \in S
  BY <1>2, <1>4
<1> QED
  BY <1>2, <1>4, <1>5

\* An edit touches the files of its own worktree, whose gate is at rest.
LEMMA EditsKeep == ASSUME MigrationInv, NEW w \in Worktrees, Edits(w) PROVE MigrationInv'
<1>0. Developer(w) /\ pc[w] = "idle"
  BY DEF Edits, ChangeModel, AutogenerateMigration, MergeHeads, DropFile, Repoint, MergeBranch,
         DbUpWorktree, Developer
<1> DEFINE OnlyItsOwn == /\ DOMAIN files' = Worktrees
                         /\ \A v \in Worktrees \ {w} : files'[v] = files[v]
                         /\ IsFiniteSet(DOMAIN files'[w])
                         /\ DOMAIN lost' = Worktrees
                         /\ \A v \in Worktrees \ {w} : lost'[v] = lost[v]
                         /\ (DOMAIN files[w]) \cup lost[w] \subseteq (DOMAIN files'[w]) \cup lost'[w]
           OrmOfItsOwn == DOMAIN orm' = Worktrees /\ \A v \in Worktrees \ {w} : orm'[v] = orm[v]
           ItsDatabase == /\ DOMAIN dbOf' = Worktrees
                          /\ \A v \in Worktrees \ {w} : dbOf'[v] = dbOf[v]
                          /\ dbOf'[w] = dbOf[w] \/ (dbOf[w] = "shared" /\ dbOf'[w] = w)
<1>1. OnlyItsOwn
  <2>0. DOMAIN files = Worktrees /\ IsFiniteSet(DOMAIN files[w]) /\ DOMAIN lost = Worktrees
    BY DEF MigrationInv, BranchShape
  <2>1. CASE files' = files /\ lost' = lost
    BY <2>0, <2>1
  <2>2. ASSUME NEW r, AutogenerateMigration(w, r) \/ MergeHeads(w, r) PROVE OnlyItsOwn
    <3>1. files' = [files EXCEPT ![w] = AtHead(r, files[w])] /\ lost' = lost
      BY <2>2 DEF AutogenerateMigration, MergeHeads
    <3>2. IsFiniteSet(DOMAIN AtHead(r, files[w]))
      BY <2>0, OneMoreFile
    <3>3. DOMAIN files[w] \subseteq DOMAIN AtHead(r, files[w])
      BY DEF AtHead, Over
    <3> QED
      BY <2>0, <3>1, <3>2, <3>3
  <2>3. ASSUME NEW r, DropFile(w, r) PROVE OnlyItsOwn
    <3>1. /\ files' = [files EXCEPT ![w] = [s \in (DOMAIN files[w]) \ {r} |-> files[w][s]]]
          /\ lost' = [lost EXCEPT ![w] = lost[w] \cup {r}]
      BY <2>3 DEF DropFile
    <3>2. DOMAIN files'[w] = (DOMAIN files[w]) \ {r} /\ lost'[w] = lost[w] \cup {r}
      BY <2>0, <3>1
    <3>3. IsFiniteSet(DOMAIN files'[w])
      BY <2>0, <3>2, FS_Subset
    <3> QED
      BY <2>0, <3>1, <3>2, <3>3
  <2>4. ASSUME NEW a, NEW b, Repoint(w, a, b) PROVE OnlyItsOwn
    <3>1. files' = [files EXCEPT ![w][a] = {b}] /\ lost' = lost
      BY <2>4 DEF Repoint
    <3>2. DOMAIN files'[w] = DOMAIN files[w]
      BY <2>0, <3>1
    <3> QED
      BY <2>0, <3>1, <3>2
  <2>5. ASSUME NEW v \in Worktrees, MergeBranch(w, v) PROVE OnlyItsOwn
    <3>1. files' = [files EXCEPT ![w] = Over(files[v], files[w])] /\ lost' = lost
      BY <2>5 DEF MergeBranch
    <3>2. IsFiniteSet(DOMAIN Over(files[v], files[w]))
      BY <2>0, MoreFiles DEF MigrationInv, BranchShape
    <3>3. DOMAIN files[w] \subseteq DOMAIN Over(files[v], files[w])
      BY DEF Over
    <3> QED
      BY <2>0, <3>1, <3>2, <3>3
  <2>6. ASSUME NEW r, ChangeModel(w, r) PROVE OnlyItsOwn
    <3>1. files' = files /\ lost' = lost
      BY <2>6 DEF ChangeModel
    <3> QED
      BY <2>1, <3>1
  <2>7. ASSUME DbUpWorktree(w) PROVE OnlyItsOwn
    <3>1. files' = files /\ lost' = lost
      BY <2>7 DEF DbUpWorktree, branch
    <3> QED
      BY <2>1, <3>1
  <2> HIDE DEF OnlyItsOwn
  <2>8. CASE \E r \in Revisions : \/ ChangeModel(w, r) \/ AutogenerateMigration(w, r)
                                  \/ MergeHeads(w, r) \/ DropFile(w, r)
    BY <2>2, <2>3, <2>6, <2>8
  <2>9. CASE \E a, b \in Revisions : Repoint(w, a, b)
    BY <2>4, <2>9
  <2>10. CASE \E v \in Worktrees : MergeBranch(w, v)
    BY <2>5, <2>10
  <2> QED
    BY <2>7, <2>8, <2>9, <2>10 DEF Edits
<1>2. OrmOfItsOwn
  <2>0. DOMAIN orm = Worktrees
    BY DEF MigrationInv, BranchShape
  <2>1. ASSUME NEW o, orm' = [orm EXCEPT ![w] = o] \/ orm' = orm PROVE OrmOfItsOwn
    BY <2>0, <2>1
  <2>2. CASE \E r \in Revisions : \/ ChangeModel(w, r) \/ AutogenerateMigration(w, r)
                                  \/ MergeHeads(w, r) \/ DropFile(w, r)
    BY <2>1, <2>2 DEF ChangeModel, AutogenerateMigration, MergeHeads, DropFile
  <2>3. CASE \E a, b \in Revisions : Repoint(w, a, b)
    BY <2>1, <2>3 DEF Repoint
  <2>4. CASE \E v \in Worktrees : MergeBranch(w, v)
    BY <2>1, <2>4 DEF MergeBranch
  <2>5. CASE DbUpWorktree(w)
    BY <2>1, <2>5 DEF DbUpWorktree, branch
  <2> QED
    BY <2>2, <2>3, <2>4, <2>5 DEF Edits
<1>3. ItsDatabase
  BY DEF MigrationInv, BranchShape, Edits, ChangeModel, AutogenerateMigration, MergeHeads, DropFile,
         Repoint, MergeBranch, DbUpWorktree, host
<1>4. /\ UNCHANGED <<db, pc, settings, sight>>
      /\ verdict' = [verdict EXCEPT ![w] = "none"] /\ green' = [green EXCEPT ![w] = FALSE]
  BY <1>0 DEF Developer
<1>5. BranchShape'
  BY <1>1, <1>2, <1>3, <1>4 DEF MigrationInv, BranchShape, db
<1>6. Checked'
  <2> SUFFICES ASSUME NEW v \in Worktrees
               PROVE  /\ pc'[v] # "idle" => Chain(files'[v])
                      /\ pc'[v] # "upgrade" => sight'[v] = "none"
                      /\ pc'[v] = "upgrade" => sight'[v] \in {"read", "unread", "overtaken"}
                      /\ pc'[v] = "upgrade" /\ sight'[v] = "read" => Foreign(files'[v], stamp'[dbOf'[v]]) = {}
                      /\ sight'[v] = "overtaken" => dbOf'[v] = "shared"
    BY DEF Checked
  <2>1. sight[w] = "none"
    BY <1>0 DEF MigrationInv, Checked
  <2> QED
    BY <1>0, <1>1, <1>3, <1>4, <2>1 DEF MigrationInv, Checked, db
<1>7. OwnStamp'
  BY <1>1, <1>3, <1>4, MigrationAssumption DEF MigrationInv, BranchShape, OwnStamp, db, MigrationAssumption
<1>8. StillGreen'
  <2> SUFFICES ASSUME NEW v \in Worktrees, green'[v]
               PROVE  Chain(files'[v]) /\ stamp'[dbOf'[v]] = Heads(files'[v]) /\ schema'[dbOf'[v]] = orm'[v]
    BY DEF StillGreen
  <2>1. v # w /\ green[v]
    BY <1>4 DEF MigrationInv, BranchShape
  <2> QED
    BY <1>1, <1>2, <1>3, <1>4, <2>1 DEF MigrationInv, StillGreen, db
<1> QED
  BY <1>5, <1>6, <1>7, <1>8 DEF MigrationInv

\* A gate's step: it moves its own program counter, reads the files as they are,
\* and asks the settings only before it looks at the database.
GateStep(w) ==
  Start(w) \/ IsDatabaseReachable(w) \/ ForeignRevisionIssue(w) \/ UpgradeHead(w) \/ Check(w)

\* A gate that moves neither the database nor what is known of it.
LEMMA QuietKeeps ==
  ASSUME MigrationInv, NEW w \in Worktrees, UNCHANGED <<branch, host, db, green, lost>>,
         DOMAIN pc' = Worktrees, DOMAIN verdict' = Worktrees, DOMAIN settings' = Worktrees,
         DOMAIN sight' = Worktrees,
         \A v \in Worktrees \ {w} : pc'[v] = pc[v] /\ sight'[v] = sight[v],
         pc'[w] # "idle" => Chain(files[w]),
         pc'[w] # "upgrade" => sight'[w] = "none",
         pc'[w] = "upgrade" => sight'[w] \in {"read", "unread"},
         pc'[w] = "upgrade" /\ sight'[w] = "read" => Foreign(files[w], stamp[dbOf[w]]) = {}
  PROVE  MigrationInv'
<1>1. UNCHANGED <<files, orm, dbOf, stamp, schema>>
  BY DEF branch, host, db
<1>2. BranchShape'
  BY <1>1 DEF MigrationInv, BranchShape
<1>3. Checked'
  BY <1>1 DEF MigrationInv, Checked
<1>4. OwnStamp'
  BY <1>1 DEF MigrationInv, OwnStamp
<1>5. StillGreen'
  BY <1>1 DEF MigrationInv, StillGreen
<1> QED
  BY <1>2, <1>3, <1>4, <1>5 DEF MigrationInv

\* What the gate brings the database to is what its files say, and all of it.
LEMMA UpgradeKeeps == ASSUME MigrationInv, NEW w \in Worktrees, UpgradeHead(w) PROVE MigrationInv'
<1> DEFINE d == dbOf[w]
<1>1. pc[w] = "upgrade" /\ UNCHANGED <<files, orm, dbOf, settings, lost>>
  BY DEF UpgradeHead, branch, host
<1>2. /\ Chain(files[w]) /\ d \in {"shared", w} /\ d \in Databases
      /\ Heads(files[w]) \subseteq DOMAIN files[w]
  BY <1>1 DEF MigrationInv, BranchShape, Checked, Heads, Databases
<1>3. /\ \A v \in Worktrees : sight'[v] =
           IF v = w THEN "none"
           ELSE IF CanUpgrade(w) /\ Overtakes(w, v) /\ pc[v] = "upgrade" THEN "overtaken" ELSE sight[v]
      /\ DOMAIN sight' = Worktrees
      /\ green' = [v \in Worktrees |-> green[v] /\ ~(CanUpgrade(w) /\ Overtakes(w, v))]
  BY DEF UpgradeHead
<1>4. /\ DOMAIN pc' = Worktrees /\ DOMAIN verdict' = Worktrees /\ pc'[w] # "upgrade"
      /\ \A v \in Worktrees \ {w} : pc'[v] = pc[v]
  BY DEF UpgradeHead, Goes, Ends, MigrationInv, BranchShape
<1>5. /\ DOMAIN stamp' = Databases /\ DOMAIN schema' = Databases
      /\ \A c \in Databases \ {d} : stamp'[c] = stamp[c] /\ schema'[c] = schema[c]
      /\ IF CanUpgrade(w) THEN stamp'[d] = Heads(files[w]) /\ schema'[d] = schema[d] \cup (Pending(w) \cap Changes)
                          ELSE stamp'[d] = stamp[d] /\ schema'[d] = schema[d]
  BY <1>2 DEF UpgradeHead, db, MigrationInv, BranchShape
<1>6. BranchShape'
  <2>1. green' \in [Worktrees -> BOOLEAN]
    BY <1>3
  <2> QED
    BY <1>1, <1>3, <1>4, <1>5, <2>1 DEF MigrationInv, BranchShape
<1>7. \A v \in Worktrees \ {w} : ~Overtakes(w, v) => dbOf[v] # d \/ stamp'[d] = stamp[d]
  BY <1>5 DEF Overtakes
<1>8. ASSUME NEW v \in Worktrees
      PROVE  /\ pc'[v] # "idle" => Chain(files'[v])
             /\ pc'[v] # "upgrade" => sight'[v] = "none"
             /\ pc'[v] = "upgrade" => sight'[v] \in {"read", "unread", "overtaken"}
             /\ pc'[v] = "upgrade" /\ sight'[v] = "read" => Foreign(files'[v], stamp'[dbOf'[v]]) = {}
             /\ sight'[v] = "overtaken" => dbOf'[v] = "shared"
  <2>1. CASE v = w
    BY <1>1, <1>2, <1>3, <1>4, <2>1
  <2>2. CASE v # w /\ CanUpgrade(w) /\ Overtakes(w, v) /\ pc[v] = "upgrade"
    <3>1. dbOf[v] = "shared"
      <4>1. dbOf[v] \in {"shared", v} /\ dbOf[w] \in {"shared", w} /\ dbOf[v] = dbOf[w]
        BY <2>2 DEF MigrationInv, BranchShape, Overtakes
      <4> QED
        BY <2>2, <4>1
    <3> QED
      BY <1>1, <1>3, <1>4, <2>2, <3>1 DEF MigrationInv, Checked
  <2>3. CASE v # w /\ ~(CanUpgrade(w) /\ Overtakes(w, v)) /\ pc[v] = "upgrade"
    <3>1. stamp'[dbOf[v]] = stamp[dbOf[v]]
      <4>1. dbOf[v] \in Databases
        BY DEF MigrationInv, BranchShape, Databases
      <4> QED
        BY <1>5, <1>7, <2>3, <4>1
    <3>2. sight'[v] = sight[v] /\ pc'[v] = pc[v]
      BY <1>3, <1>4, <2>3
    <3> QED
      BY <1>1, <3>1, <3>2 DEF MigrationInv, Checked
  <2>4. CASE v # w /\ pc[v] # "upgrade"
    BY <1>1, <1>3, <1>4, <2>4 DEF MigrationInv, Checked
  <2> QED
    BY <2>1, <2>2, <2>3, <2>4
<1>9. Checked'
  BY <1>8 DEF Checked
<1>10. OwnStamp'
  <2> SUFFICES ASSUME NEW v \in Worktrees
               PROVE  /\ dbOf'[v] = v => stamp'[v] \subseteq DOMAIN files'[v] \cup lost'[v]
                      /\ dbOf'[v] = "shared" => stamp'[v] = {}
    BY DEF OwnStamp
  <2>1. v # "shared" /\ v \in Databases
    BY MigrationAssumption DEF MigrationAssumption, Databases
  <2>2. CASE v = d
    <3>1. v = w /\ dbOf[v] = v
      BY <1>2, <2>1, <2>2
    <3> QED
      BY <1>1, <1>2, <1>5, <2>1, <3>1 DEF MigrationInv, OwnStamp
  <2>3. CASE v # d
    BY <1>1, <1>5, <2>1, <2>3 DEF MigrationInv, OwnStamp
  <2> QED
    BY <2>2, <2>3
<1>11. StillGreen'
  <2> SUFFICES ASSUME NEW v \in Worktrees, green'[v]
               PROVE  Chain(files'[v]) /\ stamp'[dbOf'[v]] = Heads(files'[v]) /\ schema'[dbOf'[v]] = orm'[v]
    BY DEF StillGreen
  <2>1. green[v] /\ ~(CanUpgrade(w) /\ Overtakes(w, v)) /\ dbOf[v] \in Databases
    BY <1>3 DEF MigrationInv, BranchShape, Databases
  <2>2. Chain(files[v]) /\ stamp[dbOf[v]] = Heads(files[v]) /\ schema[dbOf[v]] = orm[v]
    BY <2>1 DEF MigrationInv, StillGreen
  <2>3. CASE dbOf[v] # d \/ ~CanUpgrade(w)
    BY <1>1, <1>5, <2>1, <2>2, <2>3
  <2>4. CASE dbOf[v] = d /\ CanUpgrade(w)
    <3>1. stamp[d] = Heads(files[w])
      BY <2>1, <2>2, <2>4 DEF Overtakes
    <3>2. Pending(w) = {}
      BY <1>2, <3>1, HeadsReachAll DEF Pending, Chain
    <3> QED
      BY <1>1, <1>5, <2>2, <2>4, <3>1, <3>2
  <2> QED
    BY <2>3, <2>4
<1> QED
  BY <1>6, <1>9, <1>10, <1>11 DEF MigrationInv

\* A gate goes on only past what it has checked.
LEMMA GateKeeps == ASSUME MigrationInv, NEW w \in Worktrees, GateStep(w) PROVE MigrationInv'
<1>1. CASE Start(w)
  <2>1. PICK enabled \in BOOLEAN :
          IF Precheck(files[w], enabled) = "none"
          THEN /\ Goes(w, "probe")
               /\ \E s \in Settings : settings' = [settings EXCEPT ![w] = s]
          ELSE Ends(w, Precheck(files[w], enabled)) /\ UNCHANGED settings
    BY <1>1 DEF Start
  <2>2. UNCHANGED <<branch, host, db, green, lost, sight>> /\ pc[w] = "idle"
    BY <1>1 DEF Start, history
  <2>3. /\ DOMAIN pc' = Worktrees /\ DOMAIN verdict' = Worktrees /\ DOMAIN settings' = Worktrees
        /\ \A v \in Worktrees \ {w} : pc'[v] = pc[v]
        /\ pc'[w] \in {"probe", "idle"}
    BY <2>1 DEF MigrationInv, BranchShape, Goes, Ends
  <2>4. pc'[w] # "idle" => Chain(files[w])
    BY <2>1, PrecheckedIsChain DEF MigrationInv, BranchShape, Goes, Ends
  <2>5. DOMAIN sight' = Worktrees /\ sight'[w] = "none" /\ \A v \in Worktrees : sight'[v] = sight[v]
    BY <2>2 DEF MigrationInv, BranchShape, Checked
  <2> QED
    BY <2>2, <2>3, <2>4, <2>5, QuietKeeps
<1>2. CASE IsDatabaseReachable(w)
  <2>1. UNCHANGED <<branch, host, db, green, lost, sight>> /\ pc[w] = "probe"
    BY <1>2 DEF IsDatabaseReachable, history
  <2>2. /\ DOMAIN pc' = Worktrees /\ DOMAIN verdict' = Worktrees /\ DOMAIN settings' = Worktrees
        /\ \A v \in Worktrees \ {w} : pc'[v] = pc[v]
        /\ pc'[w] \in {"stamp", "idle"}
    BY <1>2 DEF IsDatabaseReachable, MigrationInv, BranchShape, Goes, Ends
  <2>3. /\ DOMAIN sight' = Worktrees /\ sight'[w] = "none" /\ \A v \in Worktrees : sight'[v] = sight[v]
        /\ Chain(files[w])
    BY <2>1 DEF MigrationInv, BranchShape, Checked
  <2> QED
    BY <2>1, <2>2, <2>3, QuietKeeps
<1>3. CASE ForeignRevisionIssue(w)
  <2>1. UNCHANGED <<branch, host, db, green, lost, settings>> /\ pc[w] = "stamp"
    BY <1>3 DEF ForeignRevisionIssue
  <2>2. /\ DOMAIN pc' = Worktrees /\ DOMAIN verdict' = Worktrees /\ DOMAIN settings' = Worktrees
        /\ \A v \in Worktrees \ {w} : pc'[v] = pc[v]
    BY <1>3, <2>1 DEF ForeignRevisionIssue, MigrationInv, BranchShape, Goes, Ends
  <2>3. DOMAIN sight = Worktrees /\ sight[w] = "none" /\ Chain(files[w]) /\ DOMAIN pc = Worktrees
    BY <2>1 DEF MigrationInv, BranchShape, Checked
  <2>4. CASE Foreign(files[w], StampedRevisionIds(w)) # {}
    <3>1. sight' = sight /\ pc'[w] = "idle"
      BY <1>3, <2>3, <2>4 DEF ForeignRevisionIssue, Ends
    <3> QED
      BY <2>1, <2>2, <2>3, <3>1, QuietKeeps
  <2>5. CASE Foreign(files[w], StampedRevisionIds(w)) = {}
    <3>1. /\ pc'[w] = "upgrade" /\ DOMAIN sight' = Worktrees
          /\ \A v \in Worktrees \ {w} : sight'[v] = sight[v]
          /\ sight'[w] = IF up[dbOf[w]] THEN "read" ELSE "unread"
      BY <1>3, <2>3, <2>5 DEF ForeignRevisionIssue, Goes
    <3>2. sight'[w] = "read" => Foreign(files[w], stamp[dbOf[w]]) = {}
      BY <2>5, <3>1 DEF StampedRevisionIds
    <3> QED
      BY <2>1, <2>2, <2>3, <3>1, <3>2, QuietKeeps
  <2> QED
    BY <2>4, <2>5
<1>4. CASE UpgradeHead(w)
  BY <1>4, UpgradeKeeps
<1>5. CASE Check(w)
  <2>1. UNCHANGED <<files, orm, dbOf, stamp, schema, lost, sight, settings>> /\ pc[w] = "check"
    BY <1>5 DEF Check, branch, host, db
  <2>2. /\ DOMAIN pc' = Worktrees /\ DOMAIN verdict' = Worktrees
        /\ \A v \in Worktrees \ {w} : pc'[v] = pc[v]
        /\ pc'[w] = "idle"
    BY <1>5 DEF Check, MigrationInv, BranchShape, Ends
  <2>3. green' = [green EXCEPT ![w] = green[w] \/ UpToDate(w)]
    BY <1>5 DEF Check
  <2>4. green' \in [Worktrees -> BOOLEAN]
    <3>1. UpToDate(w) \in BOOLEAN /\ green \in [Worktrees -> BOOLEAN]
      BY DEF UpToDate, MigrationInv, BranchShape
    <3> QED
      BY <2>3, <3>1
  <2>5. BranchShape'
    BY <2>1, <2>2, <2>4 DEF MigrationInv, BranchShape
  <2>6. Checked'
    BY <2>1, <2>2 DEF MigrationInv, Checked
  <2>7. OwnStamp'
    BY <2>1 DEF MigrationInv, OwnStamp
  <2>8. StillGreen'
    <3> SUFFICES ASSUME NEW v \in Worktrees, green'[v]
                 PROVE  Chain(files[v]) /\ stamp[dbOf[v]] = Heads(files[v]) /\ schema[dbOf[v]] = orm[v]
      BY <2>1 DEF StillGreen
    <3>1. CASE green[v]
      BY <3>1 DEF MigrationInv, StillGreen
    <3>2. CASE ~green[v]
      <4>1. v = w /\ UpToDate(w)
        BY <2>3, <3>2 DEF MigrationInv, BranchShape
      <4> QED
        BY <2>1, <4>1 DEF UpToDate, MigrationInv, Checked
    <3> QED
      BY <3>1, <3>2
  <2> QED
    BY <2>5, <2>6, <2>7, <2>8 DEF MigrationInv
<1> QED
  BY <1>1, <1>2, <1>3, <1>4, <1>5 DEF GateStep

\* One initial revision per worktree and nothing under way.
LEMMA InitHolds == Init => MigrationInv
<1>1. DOMAIN Initially = {Base} /\ IsFiniteSet({Base})
  BY FS_Singleton DEF Initially
<1> SUFFICES ASSUME Init PROVE MigrationInv
  OBVIOUS
<1>2. BranchShape
  BY <1>1 DEF Init, BranchShape
<1>3. Checked
  BY DEF Init, Checked
<1>4. OwnStamp
  BY MigrationAssumption DEF Init, OwnStamp, Databases, MigrationAssumption
<1>5. StillGreen
  BY DEF Init, StillGreen
<1> QED
  BY <1>2, <1>3, <1>4, <1>5 DEF MigrationInv

\* The steps of the model, by who takes them.
LEMMA WhoSteps ==
  ASSUME Next
  PROVE  \/ \E w \in Worktrees : GateStep(w) \/ Edits(w)
         \/ \E d \in Databases : HostChanges(d)
BY DEF Next, GateStep, Edits

\* Every step keeps the invariant.
LEMMA NextKeeps == ASSUME MigrationInv, [Next]_vars PROVE MigrationInv'
<1>0. ASSUME UNCHANGED <<files, orm, dbOf, stamp, schema, pc, settings, verdict, green, sight, lost>>
      PROVE  MigrationInv'
  <2>1. BranchShape' /\ Checked'
    BY <1>0 DEF MigrationInv, BranchShape, Checked
  <2>2. OwnStamp' /\ StillGreen'
    BY <1>0 DEF MigrationInv, OwnStamp, StillGreen
  <2> QED
    BY <2>1, <2>2 DEF MigrationInv
<1>1. CASE Next
  <2>1. ASSUME NEW d \in Databases, HostChanges(d) PROVE MigrationInv'
    BY <1>0, <2>1 DEF HostChanges, branch, db, history
  <2> QED
    BY <1>1, <2>1, WhoSteps, GateKeeps, EditsKeep
<1>2. CASE UNCHANGED vars
  BY <1>0, <1>2 DEF vars, branch, host, db, history
<1> QED
  BY <1>1, <1>2

\* The invariant of the migration gate and its worktrees.
LEMMA MigrationInvHolds == Spec => []MigrationInv
<1>1. MigrationInv /\ [Next]_vars => MigrationInv'
  BY NextKeeps
<1> QED
  BY InitHolds, <1>1, PTL DEF Spec

-----------------------------------------------------------------------------
\* A run of w ends with a verdict only by a step of its own.
LEMMA EndsByItself ==
  ASSUME MigrationInv, [Next]_vars, NEW w \in Worktrees, RunEnds(w)
  PROVE  GateStep(w)
<1>1. ASSUME NEW v \in Worktrees, GateStep(v), v # w PROVE FALSE
  <2>1. pc'[w] = pc[w] /\ verdict'[w] = verdict[w]
    BY <1>1 DEF GateStep, Start, IsDatabaseReachable, ForeignRevisionIssue, UpgradeHead, Check,
                Goes, Ends, MigrationInv, BranchShape
  <2> QED
    BY <2>1 DEF RunEnds
<1>2. ASSUME NEW v \in Worktrees, Edits(v) PROVE FALSE
  <2>1. Developer(v)
    BY <1>2 DEF Edits, ChangeModel, AutogenerateMigration, MergeHeads, DropFile, Repoint,
                MergeBranch, DbUpWorktree
  <2> QED
    BY <2>1 DEF Developer, RunEnds, MigrationInv, BranchShape
<1>3. ASSUME NEW d \in Databases, HostChanges(d) PROVE FALSE
  BY <1>3 DEF HostChanges, RunEnds
<1>4. ~UNCHANGED vars
  BY DEF vars, RunEnds
<1> QED
  BY <1>1, <1>2, <1>3, <1>4, WhoSteps

\* What each verdict was given on.
LEMMA WhyItEnds ==
  ASSUME MigrationInv, NEW w \in Worktrees, GateStep(w), RunEnds(w)
  PROVE  \/ /\ verdict'[w] \in {"broken_revision_graph", "multiple_heads", "database_disabled"}
            /\ pc[w] = "idle"
            /\ \E enabled \in BOOLEAN : verdict'[w] = Precheck(files[w], enabled)
         \/ /\ verdict'[w] \in {"database_unreachable", "database_required"}
            /\ pc[w] = "probe" /\ ~up[dbOf[w]]
            /\ verdict'[w] = "database_unreachable" => MaySkip(settings[w])
         \/ verdict'[w] = "foreign_revision" /\ Foreign(files[w], StampedRevisionIds(w)) # {}
         \/ verdict'[w] = "upgrade_failure" /\ pc[w] = "upgrade" /\ ~CanUpgrade(w)
         \/ pc[w] = "check" /\ verdict'[w] = IF UpToDate(w) THEN "passed" ELSE "head_drift"
<1>1. CASE Start(w)
  <2>1. PICK enabled \in BOOLEAN :
          \/ Precheck(files[w], enabled) = "none" /\ Goes(w, "probe")
          \/ Precheck(files[w], enabled) # "none" /\ Ends(w, Precheck(files[w], enabled))
    BY <1>1 DEF Start
  <2>2. ~Goes(w, "probe")
    BY DEF Goes, RunEnds, MigrationInv, BranchShape
  <2>3. verdict'[w] = Precheck(files[w], enabled) /\ Precheck(files[w], enabled) # "none"
    BY <2>1, <2>2 DEF Ends, MigrationInv, BranchShape
  <2>4. pc[w] = "idle"
    BY <1>1 DEF Start
  <2> QED
    BY <2>3, <2>4, Prechecks
<1>2. CASE IsDatabaseReachable(w)
  BY <1>2 DEF IsDatabaseReachable, Goes, Ends, RunEnds, MigrationInv, BranchShape
<1>3. CASE ForeignRevisionIssue(w)
  BY <1>3 DEF ForeignRevisionIssue, Goes, Ends, RunEnds, MigrationInv, BranchShape
<1>4. CASE UpgradeHead(w)
  <2>1. pc[w] = "upgrade" /\ IF CanUpgrade(w) THEN Goes(w, "check") ELSE Ends(w, "upgrade_failure")
    BY <1>4 DEF UpgradeHead
  <2> QED
    BY <2>1 DEF Goes, Ends, RunEnds, MigrationInv, BranchShape
<1>5. CASE Check(w)
  BY <1>5 DEF Check, Ends, MigrationInv, BranchShape
<1> QED
  BY <1>1, <1>2, <1>3, <1>4, <1>5 DEF GateStep

(* A run that passed passes again: the heads the gate stamped are known to the *)
(* files, nothing is above them, and the check finds what it found before.     *)
THEOREM PassedPassesAgain == Spec => GreenStaysGreen
<1>1. ASSUME MigrationInv, [Next]_vars
      PROVE  \A w \in Worktrees : RunEnds(w) /\ green[w] /\ up[dbOf[w]] =>
               verdict'[w] \in {"passed", "database_disabled"}
  <2> SUFFICES ASSUME NEW w \in Worktrees, RunEnds(w), green[w], up[dbOf[w]]
               PROVE  verdict'[w] \in {"passed", "database_disabled"}
    OBVIOUS
  <2>1. GateStep(w)
    BY <1>1, EndsByItself
  <2>2. Chain(files[w]) /\ stamp[dbOf[w]] = Heads(files[w]) /\ schema[dbOf[w]] = orm[w]
    BY <1>1 DEF MigrationInv, StillGreen
  <2>3. RevisionGraphIssue(files[w]) = "none"
    <3>1. Cardinality(Heads(files[w])) \in Nat
      BY <1>1, HeadsAreCounted DEF MigrationInv, BranchShape
    <3> QED
      BY <2>2, <3>1 DEF Chain, RevisionGraphIssue
  <2>4. verdict'[w] \notin {"broken_revision_graph", "multiple_heads"}
        \/ ~\E enabled \in BOOLEAN : verdict'[w] = Precheck(files[w], enabled)
    BY <2>3 DEF Precheck
  <2>5. Foreign(files[w], StampedRevisionIds(w)) = {}
    BY <2>2 DEF Foreign, StampedRevisionIds, Heads
  <2>6. CanUpgrade(w)
    <3>1. Pending(w) = {}
      BY <2>2, HeadsReachAll DEF Pending, Chain
    <3> QED
      BY <2>2, <3>1 DEF CanUpgrade, Heads
  <2>7. UpToDate(w)
    BY <2>2 DEF UpToDate
  <2> QED
    BY <1>1, <2>1, <2>4, <2>5, <2>6, <2>7, WhyItEnds
<1> QED
  BY MigrationInvHolds, <1>1, PTL DEF Spec, GreenStaysGreen

(* A run that exits with 0 has found one chain in the files, and skips only a  *)
(* database it was not required to verify.                                     *)
THEOREM GreenLooked == Spec => GreenMeansLookedAt
<1>1. ASSUME MigrationInv, [Next]_vars
      PROVE  \A w \in Worktrees : RunEnds(w) /\ ExitCode(verdict'[w]) = 0 =>
               LET s == settings[w] IN
               /\ Chain(files[w])
               /\ verdict'[w] = "database_unreachable" => ~s.require /\ (s.ci => s.optOut)
  <2> SUFFICES ASSUME NEW w \in Worktrees, RunEnds(w), ExitCode(verdict'[w]) = 0
               PROVE  LET s == settings[w] IN
                      /\ Chain(files[w])
                      /\ verdict'[w] = "database_unreachable" => ~s.require /\ (s.ci => s.optOut)
    OBVIOUS
  <2>1. verdict'[w] \in {"passed", "database_disabled", "database_unreachable"}
    BY <1>1 DEF ExitCode
  <2>2. GateStep(w)
    BY <1>1, EndsByItself
  <2>3. Chain(files[w])
    <3>1. CASE pc[w] # "idle"
      BY <1>1, <3>1 DEF MigrationInv, Checked
    <3>2. CASE pc[w] = "idle"
      <4>1. PICK enabled \in BOOLEAN : verdict'[w] = Precheck(files[w], enabled)
        <5>1. ~ForeignRevisionIssue(w) /\ verdict'[w] # "foreign_revision"
          BY <2>1, <3>2 DEF ForeignRevisionIssue
        <5> QED
          BY <1>1, <2>2, <3>2, <5>1, WhyItEnds
      <4>2. Precheck(files[w], enabled) = "database_disabled"
        BY <2>1, <4>1, Prechecks
      <4> QED
        BY <1>1, <4>2, PrecheckedIsChain DEF MigrationInv, BranchShape
    <3> QED
      BY <3>1, <3>2
  <2>4. verdict'[w] = "database_unreachable" => MaySkip(settings[w])
    BY <1>1, <2>2, WhyItEnds
  <2> QED
    BY <2>3, <2>4 DEF MaySkip, DatabaseSkipIsAllowed
<1> QED
  BY MigrationInvHolds, <1>1, PTL DEF Spec, GreenMeansLookedAt

(* "upgrade_failure" is said of a stamp the branch does not know only if it    *)
(* could not be read or another gate moved it since; and on a database of its  *)
(* own a worktree meets no stamp but of what it has lost itself, and no race.  *)
THEOREM RightSideBlamed == Spec => BlamesTheRightSide
<1>1. ASSUME MigrationInv, [Next]_vars
      PROVE  \A w \in Worktrees : RunEnds(w) =>
               LET unknown == stamp[dbOf[w]] \ DOMAIN files[w] IN
               /\ verdict'[w] = "upgrade_failure" /\ unknown # {} =>
                    DOMAIN files[w] = {} \/ sight[w] \in {"unread", "overtaken"}
               /\ dbOf[w] = w => unknown \subseteq lost[w] /\ sight[w] # "overtaken"
  <2> TAKE w \in Worktrees
  <2> HAVE RunEnds(w)
  <2>1. ASSUME verdict'[w] = "upgrade_failure", stamp[dbOf[w]] \ DOMAIN files[w] # {}, DOMAIN files[w] # {}
        PROVE  sight[w] \in {"unread", "overtaken"}
    <3>1. pc[w] = "upgrade"
      BY <1>1, <2>1, EndsByItself, WhyItEnds
    <3>2. Foreign(files[w], stamp[dbOf[w]]) # {}
      BY <2>1 DEF Foreign
    <3> QED
      BY <1>1, <3>1, <3>2 DEF MigrationInv, Checked
  <2>2. ASSUME dbOf[w] = w
        PROVE  stamp[dbOf[w]] \ DOMAIN files[w] \subseteq lost[w] /\ sight[w] # "overtaken"
    BY <1>1, <2>2, MigrationAssumption DEF MigrationInv, OwnStamp, Checked, MigrationAssumption
  <2> QED
    BY <2>1, <2>2
<1> QED
  BY MigrationInvHolds, <1>1, PTL DEF Spec, BlamesTheRightSide

-----------------------------------------------------------------------------
\* A prefix, segment by segment.
LEMMA PrefixIs ==
  ASSUME NEW p \in Seq(Segments), NEW s \in Seq(Segments)
  PROVE  IsPrefix(p, s) <=> Len(p) <= Len(s) /\ \A i \in 1..Len(p) : p[i] = s[i]
<1>1. ASSUME Len(p) <= Len(s) PROVE SubSeq(p, 1, Len(p)) = SubSeq(s, 1, Len(p)) <=> \A i \in 1..Len(p) : p[i] = s[i]
  <2>1. /\ SubSeq(p, 1, Len(p)) \in Seq(Segments) /\ Len(SubSeq(p, 1, Len(p))) = Len(p)
        /\ \A i \in 1..Len(p) : SubSeq(p, 1, Len(p))[i] = p[i]
    OBVIOUS
  <2>2. /\ SubSeq(s, 1, Len(p)) \in Seq(Segments) /\ Len(SubSeq(s, 1, Len(p))) = Len(p)
        /\ \A i \in 1..Len(p) : SubSeq(s, 1, Len(p))[i] = s[i]
    BY <1>1
  <2> QED
    BY <2>1, <2>2, SeqEqual
<1> QED
  BY <1>1 DEF IsPrefix

\* A package on the way to a name is a beginning of it.
LEMMA PackageIs ==
  ASSUME NEW s \in Seq(Segments), NEW m \in WithPackages(s)
  PROVE  m \in Seq(Segments) /\ Len(m) \in 1..Len(s) /\ \A i \in 1..Len(m) : m[i] = s[i]
<1>1. PICK n \in 1..Len(s) : m = SubSeq(s, 1, n)
  BY DEF WithPackages
<1> QED
  BY <1>1

\* One segment more, whatever it is.
LEMMA AppendIs ==
  ASSUME NEW S, NEW s \in Seq(S), NEW x
  PROVE  /\ Append(s, x) # <<>> /\ Len(Append(s, x)) = Len(s) + 1 /\ Append(s, x)[Len(s) + 1] = x
         /\ \A i \in 1..Len(s) : Append(s, x)[i] = s[i]
         /\ x \in S => Append(s, x) \in Seq(S)
<1>1. s \in Seq(S \cup {x}) /\ x \in S \cup {x}
  OBVIOUS
<1> QED
  BY <1>1, AppendProperties

\* A module of the checkout is a name below `project`.
LEMMA ModuleIs ==
  ASSUME NEW c, IsSource(c), NEW f \in DOMAIN c
  PROVE  /\ ModuleOf(f) \in Seq(Segments) /\ Len(ModuleOf(f)) >= 1 /\ ModuleOf(f)[1] = "project"
         /\ Len(ModuleOf(f)) \in {Len(f) - 1, Len(f)}
         /\ \A i \in 1..Len(ModuleOf(f)) : ModuleOf(f)[i] = f[i]
<1>1. f \in Seq(Segments) /\ Len(f) >= 2 /\ f[1] = "project"
  BY DEF IsSource
<1>2. /\ Package(f) \in Seq(Segments) /\ Len(Package(f)) = Len(f) - 1
      /\ \A i \in 1..(Len(f) - 1) : Package(f)[i] = f[i]
  BY <1>1 DEF Package
<1>3. CASE Last(f) = "__init__"
  <2>1. ModuleOf(f) = Package(f)
    BY <1>3 DEF ModuleOf
  <2> QED
    BY <1>1, <1>2, <2>1
<1>4. CASE Last(f) # "__init__"
  <2>1. ModuleOf(f) = f
    BY <1>4 DEF ModuleOf
  <2> QED
    BY <1>1, <2>1
<1> QED
  BY <1>3, <1>4

\* Where the base of a relative import lies, and the module it names.
Named(f, s) == IF s.kind # "from" THEN s.name ELSE IF s.level = 0 THEN s.module ELSE ResolveRelative(f, s.level, s.module)
Target(f, s) ==
  IF s.kind # "from" THEN s.name ELSE IF s.taken = "*" THEN Named(f, s) ELSE Append(Named(f, s), s.taken)

\* What a from-import names is a sequence of segments, whole or with the name it
\* takes (_resolve_import_names).
LEMMA NamedIs ==
  ASSUME NEW f \in Seq(Segments), NEW s, IsStatement(s)
  PROVE  Named(f, s) \in Seq(Segments) /\ Target(f, s) \in Seq(Segments)
<1>1. CASE s.kind = "from"
  <2>1. s.level \in Nat /\ s.module \in Seq(Segments) /\ s.taken \in Segments \cup {"*"}
    BY <1>1 DEF IsStatement
  <2> DEFINE end == IF Len(f) - s.level < 0 THEN Len(f) - 1 + (Len(f) - s.level) ELSE Len(f) - s.level
             base == SubSeq(f, 1, end)
  <2>2. base \in Seq(Segments)
    <3>1. end \in Int /\ end <= Len(f)
      BY <2>1
    <3> HIDE DEF end
    <3>2. 1 \in Int /\ \A i \in 1..end : f[i] \in Segments
      BY <3>1
    <3> QED
      BY <3>1, <3>2, SubSeqProperties
  <2>4. ResolveRelative(f, s.level, s.module) = base \o s.module
    BY DEF ResolveRelative
  <2> HIDE DEF base
  <2>3. ResolveRelative(f, s.level, s.module) \in Seq(Segments)
    BY <2>1, <2>2, <2>4, ConcatProperties
  <2> QED
    BY <1>1, <2>1, <2>3, AppendIs DEF Named, Target
<1> QED
  BY <1>1 DEF IsStatement, Named, Target

\* What the validator reads of a visible statement.
LEMMA Read ==
  ASSUME NEW f \in Seq(Segments), NEW stmts, NEW s \in stmts, IsStatement(s), Visible(s), Named(f, s) # <<>>
  PROVE  <<Named(f, s), Target(f, s)>> \in Imported(f, stmts)
<1>1. CASE s.kind = "call"
  BY <1>1 DEF Imported, DynamicImportTargets, Visible, Named, Target
<1>2. CASE s.kind = "import"
  <2>1. <<Named(f, s), Target(f, s)>> \in ResolveImportNames(f, s)
    BY <1>2 DEF ResolveImportNames, Named, Target
  <2> QED
    BY <1>2, <2>1 DEF Imported
<1>3. CASE s.kind = "from"
  <2>1. <<Named(f, s), Target(f, s)>> \in ResolveImportNames(f, s)
    BY <1>3 DEF ResolveImportNames, Named, Target
  <2> QED
    BY <1>3, <2>1 DEF Imported
<1> QED
  BY <1>1, <1>2, <1>3 DEF IsStatement

\* What Python loads of it: a package on the way to the module it names, or what it takes.
LEMMA LoadedIs ==
  ASSUME NEW c, NEW f \in Seq(Segments), NEW s, IsStatement(s), NEW m \in LoadedBy(c, f, s)
  PROVE  \/ m \in WithPackages(Named(f, s))
         \/ s.kind = "from" /\ m = Append(Named(f, s), s.taken) /\ m \in Modules(c)
<1>1. CASE s.kind = "from"
  <2>1. s.level \in Nat /\ s.module \in Seq(Segments) /\ s.taken \in Segments \cup {"*"}
    BY <1>1 DEF IsStatement
  <2>2. <<>> \o s.module = s.module
    BY <2>1, ConcatEmptySeq
  <2>3. CASE s.level = 0
    BY <1>1, <2>1, <2>2, <2>3 DEF LoadedBy, Named
  <2>4. CASE s.level # 0
    <3>1. s.level < Len(f) /\ ~(Len(f) - s.level < 0)
      BY <1>1, <2>1 DEF LoadedBy
    <3> QED
      BY <1>1, <2>1, <2>4, <3>1 DEF LoadedBy, Named, ResolveRelative
  <2> QED
    BY <2>3, <2>4
<1>2. CASE s.kind # "from"
  BY <1>2 DEF IsStatement, LoadedBy, Named
<1> QED
  BY <1>1, <1>2

\* Names of two and of three segments.
LEMMA PairIs ==
  ASSUME NEW S, NEW a \in S, NEW b \in S
  PROVE  <<a, b>> \in Seq(S) /\ Len(<<a, b>>) = 2 /\ <<a, b>>[1] = a /\ <<a, b>>[2] = b
OBVIOUS
\* The three places of a triple.
LEMMA TripleIs ==
  ASSUME NEW S, NEW a \in S, NEW b \in S, NEW c \in S
  PROVE  /\ <<a, b, c>> \in Seq(S) /\ Len(<<a, b, c>>) = 3
         /\ <<a, b, c>>[1] = a /\ <<a, b, c>>[2] = b /\ <<a, b, c>>[3] = c
OBVIOUS

\* A sequence of two is the pair of its elements.
LEMMA TwoSegments ==
  ASSUME NEW S, NEW s \in Seq(S), Len(s) = 2
  PROVE  s = <<s[1], s[2]>>
OBVIOUS
\* A sequence of one has length one.
LEMMA OneSegment ==
  ASSUME NEW x, NEW s, s = <<x>>
  PROVE  Len(s) = 1
OBVIOUS

\* The domain's allowlist, by the first segments of a name.
LEMMA AllowedIs ==
  ASSUME NEW m \in Seq(Segments), m # <<>>
  PROVE  IsAllowedImport(m) <=> m[1] \in Stdlib \/ (Len(m) >= 2 /\ m[1] = "project" /\ m[2] = "domain")
<1> DEFINE p == <<"project", "domain">>
<1>1. p \in Seq(Segments) /\ Len(p) = 2 /\ p[1] = "project" /\ p[2] = "domain"
  <2>1. "project" \in Segments /\ "domain" \in Segments
    BY NamesAssumption
  <2> QED
    BY <2>1, PairIs
<1>2. IsPrefix(p, m) <=> Len(p) <= Len(m) /\ \A i \in 1..Len(p) : p[i] = m[i]
  BY <1>1, PrefixIs
<1>3. IsAllowedImport(m) <=> Head(m) \in Stdlib \/ IsPrefix(p, m)
  BY DEF IsAllowedImport, DomainAllowedPrefixes, MatchesPrefix
<1> QED
  BY <1>1, <1>2, <1>3

\* What a file of the domain may load.
Innocent(m) == m \in Seq(Segments) /\ m # <<>> /\ (IsAllowedImport(m) \/ m = <<"project">>)

\* A name on the way to an allowed one is innocent.
LEMMA PackagesOfAllowed ==
  ASSUME NEW s \in Seq(Segments), IsAllowedImport(s), NEW m \in WithPackages(s)
  PROVE  Innocent(m)
<1>1. m \in Seq(Segments) /\ Len(m) \in 1..Len(s) /\ \A i \in 1..Len(m) : m[i] = s[i]
  BY PackageIs
<1>2. m # <<>> /\ s # <<>> /\ m[1] = s[1]
  BY <1>1
<1>3. CASE s[1] \in Stdlib
  BY <1>1, <1>2, <1>3, AllowedIs DEF Innocent
<1>4. CASE Len(s) >= 2 /\ s[1] = "project" /\ s[2] = "domain"
  <2>1. CASE Len(m) = 1
    <3>1. m = <<"project">>
      BY <1>1, <1>4, <2>1
    <3> QED
      BY <1>1, <1>2, <3>1 DEF Innocent
  <2>2. CASE Len(m) >= 2
    BY <1>1, <1>2, <1>4, <2>2, AllowedIs DEF Innocent
  <2>3. Len(m) \in Nat /\ Len(m) # 0
    <3>1. Len(s) \in Nat
      OBVIOUS
    <3> QED
      BY <1>1, <3>1
  <2>4. \A n \in Nat : n # 0 => n = 1 \/ n >= 2
    OBVIOUS
  <2> QED
    BY <2>1, <2>2, <2>3, <2>4
<1> QED
  BY <1>2, <1>3, <1>4, AllowedIs

\* A module of the checkout with one segment is `project`.
LEMMA ShortModule ==
  ASSUME NEW c, IsSource(c), NEW m \in Modules(c)
  PROVE  m \in Seq(Segments) /\ m # <<>> /\ m[1] = "project" /\ (Len(m) = 1 => m = <<"project">>)
<1>1. PICK f \in DOMAIN c : m = ModuleOf(f)
  BY DEF Modules
<1>2. m \in Seq(Segments) /\ Len(m) >= 1 /\ m[1] = "project"
  BY <1>1, ModuleIs
<1> QED
  BY <1>2

\* A file of the domain without an issue, all of whose imports can be seen, loads
\* nothing but what is innocent.
LEMMA DomainLoads ==
  ASSUME NEW c, IsSource(c), NEW f \in DOMAIN c, LayerFromPath(f) = "domain",
         ValidatePythonSource(f, c[f]) = {}, NEW s \in c[f], Visible(s), NEW m \in LoadedBy(c, f, s)
  PROVE  Innocent(m)
<1> DEFINE name == Named(f, s)
           target == Target(f, s)
<1>1. f \in Seq(Segments) /\ IsStatement(s)
  BY DEF IsSource
<1>2. name \in Seq(Segments) /\ target \in Seq(Segments)
  BY <1>1, NamedIs
<1>3. CASE name = <<>>
  <2>1. WithPackages(name) = {}
    BY <1>3 DEF WithPackages
  <2>2. s.kind = "from" /\ m = Append(name, s.taken) /\ m \in Modules(c)
    BY <1>1, <2>1, LoadedIs
  <2>3. Len(m) = 1
    BY <1>1, <1>2, <1>3, <2>2, AppendIs DEF IsStatement
  <2> QED
    BY <2>2, <2>3, ShortModule DEF Innocent
<1>4. CASE name # <<>>
  <2>1. <<name, target>> \in Imported(f, c[f])
    BY <1>1, <1>4, Read
  <2>2. ~ValidateImport("domain", name, target)
    BY <2>1 DEF ValidatePythonSource
  <2>3. IsAllowedImport(name) \/ IsAllowedImport(target)
    BY <2>2 DEF ValidateImport
  <2>4. target # <<>> /\ target[1] = name[1]
    <3>1. CASE target = name
      BY <1>4, <3>1
    <3>2. CASE s.kind = "from" /\ target = Append(name, s.taken)
      <4>1. s.taken \in Segments \cup {"*"} /\ Len(name) >= 1
        BY <1>1, <1>2, <1>4, <3>2 DEF IsStatement
      <4> QED
        BY <1>2, <3>2, <4>1, AppendIs
    <3> QED
      BY <3>1, <3>2 DEF Target, Named
  <2>5. CASE IsAllowedImport(name)
    <3>1. CASE m \in WithPackages(name)
      BY <1>2, <2>5, <3>1, PackagesOfAllowed
    <3>2. CASE m = Append(name, s.taken) /\ m \in Modules(c)
      <4>1. /\ m \in Seq(Segments) /\ m # <<>> /\ Len(m) = Len(name) + 1
            /\ \A i \in 1..Len(name) : m[i] = name[i]
        <5>1. m \in Seq(Segments)
          BY <3>2, ShortModule
        <5> QED
          BY <1>2, <3>2, <5>1, AppendIs
      <4> QED
        BY <1>2, <1>4, <2>5, <4>1, AllowedIs DEF Innocent
    <3> QED
      BY <1>1, <3>1, <3>2, LoadedIs
  <2>6. CASE IsAllowedImport(target) /\ ~IsAllowedImport(name)
    <3>1. s.kind = "from" /\ s.taken # "*" /\ target = Append(name, s.taken)
      BY <2>6 DEF Target, Named
    <3>2. /\ Len(target) = Len(name) + 1
          /\ \A i \in 1..Len(name) : target[i] = name[i]
      BY <1>1, <1>2, <3>1, AppendIs DEF IsStatement
    <3>3. Len(name) = 1 /\ name[1] = "project"
      <4>1. Len(name) \in Nat /\ Len(name) >= 1
        BY <1>2, <1>4
      <4>2. target[1] \notin Stdlib /\ ~(Len(name) >= 2 /\ name[1] = "project" /\ name[2] = "domain")
        BY <1>2, <1>4, <2>4, <2>6, AllowedIs
      <4>3. Len(target) >= 2 /\ target[1] = "project" /\ target[2] = "domain"
        BY <1>2, <2>4, <2>6, <4>2, AllowedIs
      <4>4. name[1] = "project"
        BY <2>4, <4>3
      <4>5. CASE Len(name) >= 2
        <5>1. target[2] = name[2]
          BY <3>2, <4>1, <4>5
        <5> QED
          BY <4>2, <4>3, <4>4, <4>5, <5>1
      <4>6. Len(name) \in Nat
        BY <1>2
      <4> QED
        BY ONLY <4>1, <4>4, <4>5, <4>6
    <3>4. CASE m \in WithPackages(name)
      <4>1. m \in Seq(Segments) /\ Len(m) = 1 /\ m[1] = "project"
        BY <1>2, <3>3, <3>4, PackageIs
      <4>2. m = <<"project">>
        BY <4>1
      <4> QED
        BY <4>1, <4>2 DEF Innocent
    <3>5. CASE m = target
      BY <1>2, <2>4, <2>6, <3>5 DEF Innocent
    <3> QED
      BY <1>1, <3>1, <3>4, <3>5, LoadedIs
  <2> QED
    BY <2>3, <2>5, <2>6
<1> QED
  BY <1>3, <1>4

\* A name with a forbidden beginning is named by the statement that loads it.
LEMMA ForbiddenLoads ==
  ASSUME NEW c, IsSource(c), NEW f \in DOMAIN c, LayerFromPath(f) \in DOMAIN ForbiddenPrefixes,
         ValidatePythonSource(f, c[f]) = {}, NEW s \in c[f], Visible(s), NEW m \in LoadedBy(c, f, s),
         NEW prefix \in ForbiddenPrefixes[LayerFromPath(f)]
  PROVE  ~MatchesPrefix(m, prefix)
<1> DEFINE name == Named(f, s)
           target == Target(f, s)
<1>1. f \in Seq(Segments) /\ IsStatement(s)
  BY DEF IsSource
<1>2. name \in Seq(Segments) /\ target \in Seq(Segments)
  BY <1>1, NamedIs
<1>3. prefix \in Seq(Segments) /\ Len(prefix) >= 2 /\ \A i \in 1..Len(prefix) : prefix[i] # "*"
  <2>1. prefix \in {<<"project", "infrastructure">>, <<"project", "core", "composition_root">>,
                    <<"project", "core", "service_registration">>, <<"project", "core", "lifecycle">>,
                    <<"project", "launcher">>}
    BY DEF ForbiddenPrefixes
  <2>2. ASSUME NEW a \in {"infrastructure", "launcher"}, prefix = <<"project", a>>
        PROVE  prefix \in Seq(Segments) /\ Len(prefix) >= 2 /\ \A i \in 1..Len(prefix) : prefix[i] # "*"
    <3>1. "project" \in Segments /\ a \in Segments
      BY NamesAssumption
    <3>2. prefix \in Seq(Segments) /\ Len(prefix) = 2 /\ prefix[1] = "project" /\ prefix[2] = a
      BY <2>2, <3>1, PairIs
    <3> QED
      BY <3>2
  <2>3. ASSUME NEW a \in {"composition_root", "service_registration", "lifecycle"}, prefix = <<"project", "core", a>>
        PROVE  prefix \in Seq(Segments) /\ Len(prefix) >= 2 /\ \A i \in 1..Len(prefix) : prefix[i] # "*"
    <3>1. "project" \in Segments /\ "core" \in Segments /\ a \in Segments
      BY NamesAssumption
    <3>2. prefix \in Seq(Segments) /\ Len(prefix) = 3 /\ prefix[1] = "project" /\ prefix[2] = "core" /\ prefix[3] = a
      BY <2>3, <3>1, TripleIs
    <3> QED
      BY <3>2
  <2> QED
    BY <2>1, <2>2, <2>3
<1> SUFFICES ASSUME IsPrefix(prefix, m) PROVE FALSE
  BY DEF MatchesPrefix
<1>4. ASSUME IsPrefix(prefix, name) \/ IsPrefix(prefix, target), name # <<>> PROVE FALSE
  <2>1. <<name, target>> \in Imported(f, c[f])
    BY <1>1, <1>4, Read
  <2>2. ~ValidateImport(LayerFromPath(f), name, target)
    BY <2>1 DEF ValidatePythonSource
  <2>3. LayerFromPath(f) # "domain"
    BY DEF ForbiddenPrefixes
  <2> QED
    BY <1>4, <2>2, <2>3 DEF ValidateImport, MatchesPrefix
<1>5. CASE m \in WithPackages(name)
  <2>1. m \in Seq(Segments) /\ Len(m) \in 1..Len(name) /\ \A i \in 1..Len(m) : m[i] = name[i]
    BY <1>2, <1>5, PackageIs
  <2>2. Len(prefix) <= Len(m) /\ \A i \in 1..Len(prefix) : prefix[i] = m[i]
    BY <1>3, <2>1, PrefixIs
  <2>3. IsPrefix(prefix, name)
    BY <1>2, <1>3, <2>1, <2>2, PrefixIs
  <2> QED
    BY <1>4, <2>1, <2>3
<1>6. CASE s.kind = "from" /\ m = Append(name, s.taken) /\ m \in Modules(c)
  <2>1. /\ m \in Seq(Segments) /\ Len(m) = Len(name) + 1 /\ m[Len(name) + 1] = s.taken
        /\ \A i \in 1..Len(name) : m[i] = name[i]
    <3>1. m \in Seq(Segments)
      BY <1>6, ShortModule
    <3> QED
      BY <1>2, <1>6, <3>1, AppendIs
  <2>2. Len(prefix) <= Len(m) /\ \A i \in 1..Len(prefix) : prefix[i] = m[i]
    BY <1>3, <2>1, PrefixIs
  <2>3. name # <<>>
    BY <1>2, <1>3, <2>1, <2>2
  <2>4. CASE s.taken # "*"
    <3>1. target = m
      BY <1>6, <2>4 DEF Target
    <3> QED
      BY <1>4, <2>3, <3>1
  <2>5. CASE s.taken = "*"
    <3>1. Len(prefix) <= Len(name)
      BY <1>2, <1>3, <2>1, <2>2, <2>5
    <3>2. IsPrefix(prefix, name)
      BY <1>2, <1>3, <2>1, <2>2, <3>1, PrefixIs
    <3> QED
      BY <1>4, <2>3, <3>2
  <2> QED
    BY <2>4, <2>5
<1> QED
  BY <1>1, <1>5, <1>6, LoadedIs

-----------------------------------------------------------------------------
\* A set of indices that is not empty has a first one.
LEMMA FirstExists ==
  ASSUME NEW n \in Nat, NEW S \in SUBSET (1..n), S # {}
  PROVE  \E m \in S : \A j \in S : m <= j
<1> DEFINE Before(i) == {j \in S : j < i}
           Befores == {Before(i) : i \in S}
<1>1. Befores \subseteq FiniteSubsetsOf(1..n)
  <2>1. \A i \in S : Before(i) \in SUBSET (1..n)
    OBVIOUS
  <2>2. IsFiniteSet(1..n)
    BY FS_Interval
  <2>3. \A i \in S : IsFiniteSet(Before(i))
    BY <2>1, <2>2, FS_Subset
  <2> QED
    BY <2>1, <2>3 DEF FiniteSubsetsOf
<1>2. PICK B \in Befores : \A A \in Befores : <<A, B>> \notin StrictSubsetOrdering(1..n)
  <2>1. Befores # {}
    OBVIOUS
  <2> HIDE DEF Befores
  <2> QED
    BY <1>1, <2>1, FS_StrictSubsetOrderingWellFounded, WFMin
<1>3. PICK m \in S : B = Before(m)
  BY <1>2
<1>4. ASSUME NEW j \in S, j < m PROVE FALSE
  <2>1. j \in Before(m) /\ j \notin Before(j)
    BY <1>4
  <2>2. ASSUME NEW k \in Before(j) PROVE k \in Before(m)
    <3>1. k \in Nat /\ j \in Nat /\ m \in Nat /\ k < j /\ j < m
      BY <1>4
    <3> QED
      BY <3>1
  <2>3. <<Before(j), Before(m)>> \in StrictSubsetOrdering(1..n)
    BY <2>1, <2>2 DEF StrictSubsetOrdering
  <2> QED
    BY <1>2, <1>3, <2>3
<1> QED
  BY <1>3, <1>4

\* Counting up to n, as a set of numbers.
LEMMA CountUp ==
  ASSUME NEW n \in Nat, NEW S, 0 \in S, \A k \in 0..n : k \in S /\ k < n => k + 1 \in S
  PROVE  n \in S
<1> SUFFICES ASSUME n \notin S PROVE FALSE
  OBVIOUS
<1> DEFINE Out == {k \in 1..n : k \notin S}
<1>1. Out \in SUBSET (1..n) /\ Out # {}
  OBVIOUS
<1>2. PICK m \in Out : \A j \in Out : m <= j
  <2> HIDE DEF Out
  <2> QED
    BY <1>1, FirstExists
<1>3. m - 1 \in 0..n /\ m - 1 < n /\ m - 1 \notin Out
  BY <1>2
<1>4. m - 1 \in S
  BY <1>2, <1>3
<1> QED
  BY <1>2, <1>3, <1>4

\* What a chain of n imports brings in, step by step.
Chained(c, f, n, r) == r = [k \in 0..n |-> IF k = 0 THEN Loads(c, f) ELSE Onward(c, r[k - 1])]

\* There is such a chain for every n, by induction on it.
LEMMA ChainedExists ==
  ASSUME NEW c, NEW f, NEW n \in Nat
  PROVE  \E r : Chained(c, f, n, r)
<1> DEFINE S == {k \in 0..n : \E r : Chained(c, f, k, r)}
<1>1. 0 \in S
  <2>1. Chained(c, f, 0, [k \in 0..0 |-> Loads(c, f)])
    BY DEF Chained
  <2> QED
    BY <2>1
<1>2. ASSUME NEW k \in 0..n, k \in S, k < n PROVE k + 1 \in S
  <2>1. PICK r : Chained(c, f, k, r)
    BY <1>2
  <2> DEFINE q == [i \in 0..(k + 1) |-> IF i <= k THEN r[i] ELSE Onward(c, r[k])]
  <2>2. \A i \in 0..k : r[i] = IF i = 0 THEN Loads(c, f) ELSE Onward(c, r[i - 1])
    BY <2>1 DEF Chained
  <2>3. \A i \in 0..(k + 1) : q[i] = IF i = 0 THEN Loads(c, f) ELSE Onward(c, q[i - 1])
    <3>1. ASSUME NEW i \in 0..(k + 1) PROVE q[i] = IF i = 0 THEN Loads(c, f) ELSE Onward(c, q[i - 1])
      <4>1. CASE i = 0
        BY <2>2, <4>1
      <4>2. CASE i # 0 /\ i <= k
        <5>1. i - 1 \in 0..k /\ q[i - 1] = r[i - 1]
          BY <4>2
        <5> QED
          BY <2>2, <4>2, <5>1
      <4>3. CASE i = k + 1
        <5>1. i - 1 = k /\ q[i - 1] = r[k]
          BY <4>3
        <5> QED
          BY <4>3, <5>1
      <4> QED
        BY <4>1, <4>2, <4>3
    <3> QED
      BY <3>1
  <2>4. q = [i \in 0..(k + 1) |-> IF i = 0 THEN Loads(c, f) ELSE Onward(c, q[i - 1])]
    <3> HIDE DEF q
    <3>1. q = [i \in 0..(k + 1) |-> q[i]]
      BY DEF q
    <3> QED
      BY <2>3, <3>1
  <2> HIDE DEF q
  <2>5. k + 1 \in 0..n
    BY <1>2
  <2> QED
    BY <2>4, <2>5 DEF Chained
<1> HIDE DEF S
<1>3. n \in S
  BY <1>1, <1>2, CountUp
<1> QED
  BY <1>3 DEF S

\* A set that holds what the file loads, and is closed under what its members load,
\* holds everything the file reaches.
LEMMA ReachedWithin ==
  ASSUME NEW c, IsFiniteSet(DOMAIN c), NEW f, NEW U, Loads(c, f) \subseteq U,
         \A modules \in SUBSET U : Onward(c, modules) \subseteq U
  PROVE  Reached(c, f) \subseteq U
<1> DEFINE n == Cardinality(DOMAIN c)
           r == CHOOSE x : Chained(c, f, n, x)
           S == {k \in 0..n : r[k] \subseteq U}
<1>1. n \in Nat
  BY FS_CardinalityType
<1> HIDE DEF n
<1>2. Chained(c, f, n, r)
  BY <1>1, ChainedExists
<1>3. Reached(c, f) = r[n]
  BY DEF Reached, Chained, n
<1> HIDE DEF r
<1>4. \A k \in 0..n : r[k] = IF k = 0 THEN Loads(c, f) ELSE Onward(c, r[k - 1])
  BY <1>2 DEF Chained
<1>5. 0 \in S
  BY <1>1, <1>4
<1>6. \A k \in 0..n : k \in S /\ k < n => k + 1 \in S
  <2>1. ASSUME NEW k \in 0..n, r[k] \subseteq U, k < n PROVE k + 1 \in 0..n /\ r[k + 1] \subseteq U
    <3>1. k + 1 \in 0..n /\ k + 1 # 0 /\ (k + 1) - 1 = k
      BY <1>1, <2>1
    <3>2. r[k + 1] = Onward(c, r[k])
      BY <1>4, <3>1
    <3> QED
      BY <2>1, <3>1, <3>2
  <2> QED
    BY <2>1
<1>7. n \in S
  <2> HIDE DEF S
  <2> QED
    BY <1>1, <1>5, <1>6, CountUp
<1> QED
  BY <1>3, <1>7

-----------------------------------------------------------------------------
\* What a gate has said is still true of the checkout it looked at: every edit
\* takes it back.
Judged ==
  /\ gate \in {"architecture passed", "green"} => ArchitectureIssues(imports) = {} /\ AllParse
  /\ gate = "green" => EndpointWiringIssues(wiring) = {}

GatesInv == IsSource(imports) /\ IsWiring(wiring) /\ Judged

\* One part of the wiring in the place of another leaves a wiring.
LEMMA OtherRegistry ==
  ASSUME NEW w, IsWiring(w), NEW i \in DOMAIN w.registries, NEW x, Readable(x)
  PROVE  IsWiring([w EXCEPT !.registries[i] = x])
BY DEF IsWiring
\* Another dependencies.py leaves the wiring well formed.
LEMMA OtherDependencies ==
  ASSUME NEW w, IsWiring(w), NEW x, Readable(x)
  PROVE  IsWiring([w EXCEPT !.dependencies = x])
BY DEF IsWiring
\* Another router_registration.py leaves the wiring well formed.
LEMMA OtherRegistration ==
  ASSUME NEW w, IsWiring(w), NEW x, Readable(x)
  PROVE  IsWiring([w EXCEPT !.registration = x])
BY DEF IsWiring
\* Another endpoint module leaves the wiring well formed.
LEMMA OtherEndpoint ==
  ASSUME NEW w, IsWiring(w), NEW m \in DOMAIN w.endpoints, NEW x, IsEndpoint(x)
  PROVE  IsWiring([w EXCEPT !.endpoints[m] = x])
BY DEF IsWiring

\* An edit of a registry's entries or of the dict it returns keeps it readable.
LEMMA RegistryEdited ==
  ASSUME GatesInv, NEW i \in DOMAIN wiring.registries, EditRegistry(i)
  PROVE  IsWiring(wiring')
<1> DEFINE old == wiring.registries[i]
           with(new) == [wiring EXCEPT !.registries[i].literal.entries = new]
<1>0. IsWiring(wiring) /\ Readable(old)
  BY DEF GatesInv, IsWiring
<1>1. ASSUME NEW new PROVE IsWiring(with(new))
  <2>1. Readable([old EXCEPT !.literal.entries = new])
    BY <1>0 DEF Readable
  <2>2. with(new) = [wiring EXCEPT !.registries[i] = [old EXCEPT !.literal.entries = new]]
    OBVIOUS
  <2> QED
    BY <1>0, <2>1, <2>2, OtherRegistry
<1>2. ASSUME NEW new PROVE IsWiring([wiring EXCEPT !.registries[i].returned = new])
  <2>1. Readable([old EXCEPT !.returned = new])
    BY <1>0 DEF Readable
  <2>2. [wiring EXCEPT !.registries[i].returned = new] = [wiring EXCEPT !.registries[i] = [old EXCEPT !.returned = new]]
    OBVIOUS
  <2> QED
    BY <1>0, <2>1, <2>2, OtherRegistry
<1> DEFINE entries == old.literal.entries
<1>3. CASE \E k \in DOMAIN entries : Rewire(with(Restrict1(entries, k)))
  BY <1>1, <1>3 DEF Rewire
<1>4. CASE \E k \in DOMAIN entries, j \in Keys : Rewire(with(Renamed(entries, k, j)))
  BY <1>1, <1>4 DEF Rewire
<1>5. CASE \E k \in Keys, looks \in BOOLEAN :
             Rewire([wiring EXCEPT !.registries[i].returned =
                       {[registry |-> looks, entries |-> [x \in {k} |-> Opaque]]}])
  BY <1>2, <1>5 DEF Rewire
<1> QED
  BY <1>3, <1>4, <1>5 DEF EditRegistry

\* An edit of getters and aliases keeps dependencies.py readable.
LEMMA DependenciesEdited ==
  ASSUME GatesInv, EditDependencies
  PROVE  IsWiring(wiring')
<1> DEFINE old == wiring.dependencies
<1>0. IsWiring(wiring) /\ Readable(old)
  BY DEF GatesInv, IsWiring
<1>1. ASSUME NEW x, Readable(x), wiring' = [wiring EXCEPT !.dependencies = x] PROVE IsWiring(wiring')
  BY <1>0, <1>1, OtherDependencies
<1>2. ASSUME NEW g, NEW x PROVE Readable([old EXCEPT !.getters[g].key = x]) /\ Readable([old EXCEPT !.getters[g].shape = x])
  BY <1>0 DEF Readable
<1>3. ASSUME NEW x PROVE Readable([old EXCEPT !.getters = x]) /\ Readable([old EXCEPT !.aliases = x])
  BY <1>0 DEF Readable
<1>4. ASSUME NEW g, NEW k, wiring' = [wiring EXCEPT !.dependencies.getters[g].key = k] PROVE IsWiring(wiring')
  <2>1. wiring' = [wiring EXCEPT !.dependencies = [old EXCEPT !.getters[g].key = k]]
    BY <1>4
  <2> QED
    BY <1>1, <1>2, <2>1
<1>5. ASSUME NEW g, NEW k, wiring' = [wiring EXCEPT !.dependencies.getters[g].shape = k] PROVE IsWiring(wiring')
  <2>1. wiring' = [wiring EXCEPT !.dependencies = [old EXCEPT !.getters[g].shape = k]]
    BY <1>5
  <2> QED
    BY <1>1, <1>2, <2>1
<1>6. ASSUME NEW new, wiring' = [wiring EXCEPT !.dependencies.getters = new] PROVE IsWiring(wiring')
  <2>1. wiring' = [wiring EXCEPT !.dependencies = [old EXCEPT !.getters = new]]
    BY <1>6
  <2> QED
    BY <1>1, <1>3, <2>1
<1>7. ASSUME NEW a, wiring' = [wiring EXCEPT !.dependencies.aliases = Restrict1(@, a)] PROVE IsWiring(wiring')
  <2>1. wiring' = [wiring EXCEPT !.dependencies = [old EXCEPT !.aliases = Restrict1(@, a)]]
    BY <1>7
  <2> QED
    BY <1>1, <1>3, <2>1
<1> QED
  BY <1>4, <1>5, <1>6, <1>7 DEF EditDependencies, Rewire

\* A router imported, included or dropped keeps router_registration.py readable.
LEMMA RegistrationEdited ==
  ASSUME GatesInv, EditRegistration
  PROVE  IsWiring(wiring')
<1> DEFINE old == wiring.registration
<1>0. IsWiring(wiring) /\ Readable(old)
  BY DEF GatesInv, IsWiring
<1>1. ASSUME NEW x, NEW y PROVE Readable([old EXCEPT !.includes = x]) /\ Readable([[old EXCEPT !.imports = x] EXCEPT !.includes = y])
  BY <1>0 DEF Readable
<1>2. ASSUME NEW q, wiring' = [wiring EXCEPT !.registration.includes = @ \ {q}] PROVE IsWiring(wiring')
  <2>1. wiring' = [wiring EXCEPT !.registration = [old EXCEPT !.includes = @ \ {q}]]
    BY <1>2
  <2> QED
    BY <1>0, <1>1, <2>1, OtherRegistration
<1>3. ASSUME NEW x, NEW y, wiring' = [wiring EXCEPT !.registration.imports = x, !.registration.includes = y]
      PROVE  IsWiring(wiring')
  <2>1. wiring' = [wiring EXCEPT !.registration = [[old EXCEPT !.imports = x] EXCEPT !.includes = y]]
    BY <1>0, <1>3 DEF IsWiring
  <2> QED
    BY <1>0, <1>1, <2>1, OtherRegistration
<1> QED
  BY <1>2, <1>3 DEF EditRegistration, Rewire

\* A new router, handler or use keeps an endpoint module an endpoint module.
LEMMA EndpointEdited ==
  ASSUME GatesInv, NEW m \in DOMAIN wiring.endpoints, EditEndpoint(m)
  PROVE  IsWiring(wiring')
<1> DEFINE old == wiring.endpoints[m]
<1>0. IsWiring(wiring) /\ IsEndpoint(old)
  BY DEF GatesInv, IsWiring
<1>1. ASSUME NEW x, IsEndpoint(x), wiring' = [wiring EXCEPT !.endpoints[m] = x] PROVE IsWiring(wiring')
  BY <1>0, <1>1, OtherEndpoint
<1>2. ASSUME NEW h, h.router = "router", wiring' = [wiring EXCEPT !.endpoints[m].handlers = @ \cup {h}]
      PROVE  IsWiring(wiring')
  <2>1. IsEndpoint([old EXCEPT !.handlers = @ \cup {h}])
    BY <1>0, <1>2 DEF IsEndpoint
  <2>2. wiring' = [wiring EXCEPT !.endpoints[m] = [old EXCEPT !.handlers = @ \cup {h}]]
    BY <1>2
  <2> QED
    BY <1>1, <2>1, <2>2
<1>3. ASSUME NEW use, wiring' = [wiring EXCEPT !.endpoints[m].uses = @ \cup {use}]
      PROVE  IsWiring(wiring')
  <2>1. IsEndpoint([old EXCEPT !.uses = @ \cup {use}])
    BY <1>0 DEF IsEndpoint
  <2>2. wiring' = [wiring EXCEPT !.endpoints[m] = [old EXCEPT !.uses = @ \cup {use}]]
    BY <1>3
  <2> QED
    BY <1>1, <2>1, <2>2
<1>4. ASSUME NEW h, h.router = "second",
             wiring' = [wiring EXCEPT !.endpoints[m].routers = @ \cup {"second"}, !.endpoints[m].handlers = @ \cup {h}]
      PROVE  IsWiring(wiring')
  <2> DEFINE new == [[old EXCEPT !.routers = @ \cup {"second"}] EXCEPT !.handlers = @ \cup {h}]
  <2>1. IsEndpoint(new)
    BY <1>0, <1>4 DEF IsEndpoint
  <2>2. wiring' = [wiring EXCEPT !.endpoints[m] = new]
    BY <1>0, <1>4 DEF IsWiring, IsEndpoint
  <2> QED
    BY <1>1, <2>1, <2>2
<1> DEFINE second == [router |-> "second", parameters |-> {}]
           plain(p) == [router |-> "router", parameters |-> {p}]
           use(how) == [how |-> how, class |-> "TaskService"]
<1>5. second.router = "second" /\ \A p : plain(p).router = "router"
  OBVIOUS
<1>6. \/ wiring' = [wiring EXCEPT !.endpoints[m].routers = @ \cup {"second"}, !.endpoints[m].handlers = @ \cup {second}]
      \/ \E p : wiring' = [wiring EXCEPT !.endpoints[m].handlers = @ \cup {plain(p)}]
      \/ \E how : wiring' = [wiring EXCEPT !.endpoints[m].uses = @ \cup {use(how)}]
  BY DEF EditEndpoint, Rewire
<1> HIDE DEF second, plain, use
<1> QED
  BY <1>2, <1>3, <1>4, <1>5, <1>6

\* A file that stops to parse, or goes, is still one the gates have a verdict for.
LEMMA FileBroken ==
  ASSUME GatesInv, BreakFile
  PROVE  IsWiring(wiring')
<1>0. IsWiring(wiring)
  BY DEF GatesInv
<1>1. ASSUME NEW i \in DOMAIN wiring.registries, wiring' = [wiring EXCEPT !.registries[i].parse = "broken"]
      PROVE  IsWiring(wiring')
  <2>1. Readable([wiring.registries[i] EXCEPT !.parse = "broken"])
    BY <1>0 DEF IsWiring, Readable
  <2>2. wiring' = [wiring EXCEPT !.registries[i] = [wiring.registries[i] EXCEPT !.parse = "broken"]]
    BY <1>1
  <2> QED
    BY <1>0, <2>1, <2>2, OtherRegistry
<1>2. ASSUME wiring' = [wiring EXCEPT !.dependencies.parse = "broken"] PROVE IsWiring(wiring')
  <2>1. Readable([wiring.dependencies EXCEPT !.parse = "broken"])
    BY <1>0 DEF IsWiring, Readable
  <2>2. wiring' = [wiring EXCEPT !.dependencies = [wiring.dependencies EXCEPT !.parse = "broken"]]
    BY <1>2
  <2> QED
    BY <1>0, <2>1, <2>2, OtherDependencies
<1>3. ASSUME wiring' = [wiring EXCEPT !.registration.parse = "broken"] PROVE IsWiring(wiring')
  <2>1. Readable([wiring.registration EXCEPT !.parse = "broken"])
    BY <1>0 DEF IsWiring, Readable
  <2>2. wiring' = [wiring EXCEPT !.registration = [wiring.registration EXCEPT !.parse = "broken"]]
    BY <1>3
  <2> QED
    BY <1>0, <2>1, <2>2, OtherRegistration
<1>4. ASSUME NEW m \in DOMAIN wiring.endpoints, NEW parse \in {"broken", "missing"},
             wiring' = [wiring EXCEPT !.endpoints[m].parse = parse]
      PROVE  IsWiring(wiring')
  <2>1. IsEndpoint([wiring.endpoints[m] EXCEPT !.parse = parse])
    BY <1>0 DEF IsWiring, IsEndpoint
  <2>2. wiring' = [wiring EXCEPT !.endpoints[m] = [wiring.endpoints[m] EXCEPT !.parse = parse]]
    BY <1>4
  <2> QED
    BY <1>0, <2>1, <2>2, OtherEndpoint
<1> QED
  BY <1>1, <1>2, <1>3, <1>4 DEF BreakFile, Rewire

\* One more import below a package leaves sources.
LEMMA ImportWritten ==
  ASSUME GatesInv, NEW file \in DOMAIN imports, NEW stmt \in Statements, WriteImport(file, stmt)
  PROVE  IsSource(imports')
<1>1. imports' = [imports EXCEPT ![file] = @ \cup {stmt}] /\ Len(file) > 2
  BY DEF WriteImport
<1>2. IsSource(imports) /\ IsStatement(stmt)
  BY CheckoutAssumption DEF GatesInv
<1>3. DOMAIN imports' = DOMAIN imports
  BY <1>1
<1>4. file # <<"project", "__init__">>
  <2> SUFFICES ASSUME file = <<"project", "__init__">> PROVE FALSE
    OBVIOUS
  <2>1. Len(file) = 2
    BY PairIs
  <2> QED
    BY <1>1, <2>1
<1>5. \A f \in DOMAIN imports : imports'[f] = IF f = file THEN imports[f] \cup {stmt} ELSE imports[f]
  BY <1>1
<1> QED
  BY <1>2, <1>3, <1>4, <1>5 DEF IsSource

\* An edit of any kind takes the verdict back.
LEMMA GatesStep ==
  ASSUME GatesInv, [GatesNext]_gatesVars
  PROVE  GatesInv'
<1>1. CASE ValidateArchitecture
  BY <1>1 DEF ValidateArchitecture, GatesInv, Judged, AllParse
<1>2. CASE ValidateEndpointWiring
  BY <1>2 DEF ValidateEndpointWiring, GatesInv, Judged, AllParse
<1>3. CASE \E file \in DOMAIN imports, stmt \in Statements : WriteImport(file, stmt)
  BY <1>3, ImportWritten DEF WriteImport, Edited, GatesInv, Judged
<1>4. ASSUME wiring' # wiring, Rewire(wiring'), IsWiring(wiring') PROVE GatesInv'
  BY <1>4 DEF Rewire, Edited, GatesInv, Judged
<1>5. CASE \E i \in DOMAIN wiring.registries : EditRegistry(i)
  <2>1. PICK i \in DOMAIN wiring.registries : EditRegistry(i)
    BY <1>5
  <2>2. Rewire(wiring') /\ wiring' # wiring
    BY <2>1 DEF EditRegistry, Rewire
  <2> QED
    BY <1>4, <2>1, <2>2, RegistryEdited
<1>6. CASE EditDependencies
  <2>1. Rewire(wiring') /\ wiring' # wiring
    BY <1>6 DEF EditDependencies, Rewire
  <2> QED
    BY <1>4, <1>6, <2>1, DependenciesEdited
<1>7. CASE EditRegistration
  <2>1. Rewire(wiring') /\ wiring' # wiring
    BY <1>7 DEF EditRegistration, Rewire
  <2> QED
    BY <1>4, <1>7, <2>1, RegistrationEdited
<1>8. CASE BreakFile
  <2>1. Rewire(wiring') /\ wiring' # wiring
    BY <1>8 DEF BreakFile, Rewire
  <2> QED
    BY <1>4, <1>8, <2>1, FileBroken
<1>9. CASE \E m \in DOMAIN wiring.endpoints : EditEndpoint(m)
  <2>1. PICK m \in DOMAIN wiring.endpoints : EditEndpoint(m)
    BY <1>9
  <2>2. Rewire(wiring') /\ wiring' # wiring
    BY <2>1 DEF EditEndpoint, Rewire
  <2> QED
    BY <1>4, <2>1, <2>2, EndpointEdited
<1>10. CASE UNCHANGED gatesVars
  BY <1>10 DEF gatesVars, GatesInv, Judged, AllParse
<1> QED
  BY <1>1, <1>2, <1>3, <1>5, <1>6, <1>7, <1>8, <1>9, <1>10 DEF GatesNext

(* A green run was judged on the very files the checkout still has, by both    *)
(* gates of this directory, and no edit leaves a file they cannot look at.     *)
THEOREM GatesAreJudged == GatesSpec => []GatesInv
<1>1. GatesInit => GatesInv
  BY CheckoutAssumption DEF GatesInit, GatesInv, Judged
<1>2. GatesInv /\ [GatesNext]_gatesVars => GatesInv'
  BY GatesStep
<1> QED
  BY <1>1, <1>2, PTL DEF GatesSpec

-----------------------------------------------------------------------------
\* No rule of the wiring gate is broken: its links, one by one.
LEMMA NoIssueInTheChain ==
  ASSUME NEW w, EndpointWiringIssues(w) = {}
  PROVE  /\ \A a \in Aliases(w) : GetterOf(w, a) \in Getters(w)
         /\ \A g \in Getters(w) : KeyOf(w, g) \in DOMAIN Services(w)
         /\ w.registration.parse = "ok" => \A m \in w.registration.imports : ~Missing(w, m)
<1>1. ChainIssues(w) = {}
  BY DEF EndpointWiringIssues
<1> QED
  BY <1>1 DEF ChainIssues

\* The wiring gate without an issue has found every handler's router registered.
LEMMA NoIssueInAnEndpoint ==
  ASSUME NEW w, EndpointWiringIssues(w) = {}, NEW m \in DOMAIN w.endpoints, w.endpoints[m].parse = "ok",
         NEW h \in RouteHandlers(w.endpoints[m])
  PROVE  <<m, h.router>> \in RegisteredRouters(w)
<1>1. ValidateEndpointModule(w, m) = {}
  BY DEF EndpointWiringIssues
<1>2. ASSUME NEW x \in DeadRouters(w, m) PROVE x \in ValidateEndpointModule(w, m)
  BY DEF ValidateEndpointModule
<1> QED
  BY <1>1, <1>2 DEF DeadRouters

\* A key the validator found is one the started application registers.
LEMMA FoundIsRegistered ==
  ASSUME NEW w, NEW k \in DOMAIN Services(w)
  PROVE  k \in Registered(w)
<1> DEFINE dicts(file) == IF file.parse = "ok" THEN RegistryDicts(file) ELSE {}
           all == UNION {{<<d, i>> : d \in dicts(w.registries[i])} : i \in DOMAIN w.registries}
<1>1. DOMAIN Services(w) = UNION {DOMAIN p[1].entries : p \in all}
  BY DEF Services
<1>2. PICK p \in all : k \in DOMAIN p[1].entries
  BY <1>1
<1>3. PICK i \in DOMAIN w.registries : \E d \in dicts(w.registries[i]) : p = <<d, i>>
  BY <1>2
<1>4. PICK d \in RegistryDicts(w.registries[i]) : k \in DOMAIN d.entries
  BY <1>2, <1>3
<1> QED
  BY <1>4 DEF RegistryDicts, Registered

\* After a green run every file of the wiring parses, or is an endpoint module that
\* is not there.
LEMMA GreenFiles ==
  ASSUME GatesInv, gate = "green"
  PROVE  /\ \A i \in DOMAIN wiring.registries : wiring.registries[i].parse = "ok"
         /\ wiring.dependencies.parse = "ok" /\ wiring.registration.parse = "ok"
         /\ \A m \in DOMAIN wiring.endpoints : wiring.endpoints[m].parse \in {"ok", "missing"}
BY DEF GatesInv, Judged, AllParse, IsWiring, Readable, IsEndpoint

(* A green gate: the application starts, and every route is reachable.       *)
THEOREM GreenRouted == GatesSpec => []GreenMeansRouted
<1>1. GatesInv => GreenMeansRouted
  <2> SUFFICES ASSUME GatesInv, gate = "green"
               PROVE  /\ Starts(wiring)
                      /\ \A m \in DOMAIN wiring.endpoints : \A h \in wiring.endpoints[m].handlers :
                           wiring.endpoints[m].parse = "ok" => Routed(wiring, m, h)
    BY DEF GreenMeansRouted
  <2>1. EndpointWiringIssues(wiring) = {}
    BY DEF GatesInv, Judged
  <2>2. Starts(wiring)
    <3>1. \A a \in DOMAIN wiring.dependencies.aliases :
            wiring.dependencies.aliases[a] \in DOMAIN wiring.dependencies.getters
      BY <2>1, GreenFiles, NoIssueInTheChain DEF Aliases, GetterOf, Getters
    <3>2. \A m \in wiring.registration.imports : m \in DOMAIN wiring.endpoints /\ wiring.endpoints[m].parse = "ok"
      BY <2>1, GreenFiles, NoIssueInTheChain DEF Missing
    <3> QED
      BY <3>1, <3>2, GreenFiles DEF Starts
  <2>3. ASSUME NEW m \in DOMAIN wiring.endpoints, NEW h \in wiring.endpoints[m].handlers, wiring.endpoints[m].parse = "ok"
        PROVE  Routed(wiring, m, h)
    <3>1. h \in RouteHandlers(wiring.endpoints[m])
      BY DEF GatesInv, IsWiring, IsEndpoint, RouteHandlers
    <3>2. <<m, h.router>> \in RegisteredRouters(wiring)
      BY <2>1, <2>3, <3>1, NoIssueInAnEndpoint
    <3> QED
      BY <3>2, GreenFiles DEF RegisteredRouters, Routed
  <2> QED
    BY <2>2, <2>3
<1> QED
  BY <1>1, GatesAreJudged, PTL

(* A green gate: no request finds a service missing that it asks for by an   *)
(* alias.                                                                    *)
THEOREM GreenServed == GatesSpec => []GreenMeansServed
<1>1. GatesInv => GreenMeansServed
  <2> SUFFICES ASSUME GatesInv, gate = "green", NEW p, p.annotation \in DOMAIN wiring.dependencies.aliases
               PROVE  wiring.dependencies.getters[wiring.dependencies.aliases[p.annotation]].key \in Registered(wiring)
    BY DEF GreenMeansServed, Served
  <2>1. EndpointWiringIssues(wiring) = {}
    BY DEF GatesInv, Judged
  <2>2. p.annotation \in Aliases(wiring)
    BY GreenFiles DEF Aliases
  <2>3. KeyOf(wiring, GetterOf(wiring, p.annotation)) \in DOMAIN Services(wiring)
    BY <2>1, <2>2, NoIssueInTheChain
  <2> QED
    BY <2>3, FoundIsRegistered DEF KeyOf, GetterOf
<1> QED
  BY <1>1, GatesAreJudged, PTL

\* A closed set of innocent modules: what one of them brings in, when it is a file
\* of this checkout, is a file of the domain or the empty package `project`.
LEMMA InnocentIsClosed ==
  ASSUME NEW c, IsSource(c), ArchitectureIssues(c) = {}, \A f \in DOMAIN c : \A s \in c[f] : Visible(s),
         NEW f \in DOMAIN c, Innocent(ModuleOf(f)), NEW m \in Loads(c, f)
  PROVE  Innocent(m)
<1>1. /\ f \in Seq(Segments) /\ Len(f) >= 2 /\ f[1] = "project" /\ f # <<"project", "domain">>
      /\ f = <<"project", "__init__">> => c[f] = {}
  BY DEF IsSource
<1>2. PICK s \in c[f] : m \in LoadedBy(c, f, s)
  BY DEF Loads
<1>3. /\ ModuleOf(f) \in Seq(Segments) /\ Len(ModuleOf(f)) >= 1 /\ ModuleOf(f)[1] = "project"
      /\ Len(ModuleOf(f)) \in {Len(f) - 1, Len(f)}
      /\ \A i \in 1..Len(ModuleOf(f)) : ModuleOf(f)[i] = f[i]
  BY ModuleIs
<1>4. CASE Len(ModuleOf(f)) >= 2 /\ ModuleOf(f)[2] = "domain"
  <2>1. f[2] = "domain"
    BY <1>1, <1>3, <1>4
  <2>2. Len(f) > 2
    <3>1. Len(f) = 2 => f = <<"project", "domain">>
      BY <1>1, <2>1, TwoSegments
    <3> QED
      BY <1>1, <3>1
  <2>3. LayerFromPath(f) = "domain"
    BY <2>1, <2>2 DEF LayerFromPath
  <2>4. ValidatePythonSource(f, c[f]) = {} /\ Visible(s)
    BY <1>2 DEF ArchitectureIssues
  <2> QED
    BY <1>2, <2>3, <2>4, DomainLoads
<1>5. CASE ModuleOf(f) = <<"project">>
  <2>1. Len(f) = 2 /\ ModuleOf(f) # f
    <3>1. Len(ModuleOf(f)) = 1
      BY <1>5, OneSegment
    <3>2. Len(f) \in Nat
      BY <1>1
    <3>3. \A n \in Nat : n >= 2 /\ 1 \in {n - 1, n} => n = 2
      OBVIOUS
    <3>4. Len(f) = 2
      BY <1>1, <1>3, <3>1, <3>2, <3>3
    <3> QED
      BY <3>1, <3>4
  <2>2. Last(f) = "__init__"
    BY <2>1 DEF ModuleOf
  <2>3. f = <<"project", "__init__">>
    BY <1>1, <2>1, <2>2, TwoSegments DEF Last
  <2> QED
    BY <1>1, <1>2, <2>3
<1>6. IsAllowedImport(ModuleOf(f)) \/ ModuleOf(f) = <<"project">>
  BY DEF Innocent
<1>7. ModuleOf(f) # <<>>
  BY <1>3
<1> QED
  BY <1>3, <1>4, <1>5, <1>6, <1>7, AllowedIs, NamesAssumption

(* A module of the domain loads the standard library and the domain, through *)
(* any chain of imports; the other layers write no import that loads what    *)
(* their layer forbids.                                                      *)
THEOREM GreenLayered == GatesSpec => []GreenMeansLayered
<1>1. GatesInv => GreenMeansLayered
  <2> SUFFICES ASSUME GatesInv, gate \in {"architecture passed", "green"},
                      NEW file \in DOMAIN imports, \A s \in imports[file] : Visible(s)
               PROVE  /\ LayerFromPath(file) = "domain" /\ (\A f \in DOMAIN imports : \A s \in imports[f] : Visible(s)) =>
                           \A m \in Reached(imports, file) : IsAllowedImport(m) \/ m = <<"project">>
                      /\ LayerFromPath(file) \in DOMAIN ForbiddenPrefixes =>
                           \A m \in Loads(imports, file), prefix \in ForbiddenPrefixes[LayerFromPath(file)] :
                             ~MatchesPrefix(m, prefix)
    BY DEF GreenMeansLayered
  <2>1. IsSource(imports) /\ ArchitectureIssues(imports) = {}
    BY DEF GatesInv, Judged
  <2>2. ValidatePythonSource(file, imports[file]) = {}
    BY <2>1 DEF ArchitectureIssues
  <2>3. ASSUME LayerFromPath(file) = "domain", \A f \in DOMAIN imports : \A s \in imports[f] : Visible(s),
               NEW m \in Reached(imports, file)
        PROVE  IsAllowedImport(m) \/ m = <<"project">>
    <3> DEFINE All == Loads(imports, file) \cup UNION {Loads(imports, f) : f \in DOMAIN imports}
               U == {x \in All : Innocent(x)}
    <3>1. Loads(imports, file) \subseteq U
      <4>1. ASSUME NEW x \in Loads(imports, file) PROVE Innocent(x)
        <5>1. PICK s \in imports[file] : x \in LoadedBy(imports, file, s)
          BY DEF Loads
        <5> QED
          BY <2>1, <2>2, <2>3, <5>1, DomainLoads
      <4> QED
        BY <4>1
    <3>2. ASSUME NEW modules \in SUBSET U, NEW x \in Onward(imports, modules) PROVE x \in U
      <4>1. CASE x \in modules
        BY <4>1
      <4>2. CASE \E f \in DOMAIN imports : ModuleOf(f) \in modules /\ x \in Loads(imports, f)
        <5>1. PICK f \in DOMAIN imports : ModuleOf(f) \in modules /\ x \in Loads(imports, f)
          BY <4>2
        <5>2. Innocent(ModuleOf(f))
          BY <5>1
        <5>3. Innocent(x)
          BY <2>1, <2>3, <5>1, <5>2, InnocentIsClosed
        <5> QED
          BY <5>1, <5>3
      <4> QED
        BY <4>1, <4>2 DEF Onward
    <3>3. IsFiniteSet(DOMAIN imports)
      BY <2>1 DEF IsSource
    <3> HIDE DEF U
    <3>4. m \in U
      BY <3>1, <3>2, <3>3, ReachedWithin
    <3> QED
      BY <3>4 DEF U, Innocent
  <2>4. ASSUME LayerFromPath(file) \in DOMAIN ForbiddenPrefixes, NEW m \in Loads(imports, file),
               NEW prefix \in ForbiddenPrefixes[LayerFromPath(file)]
        PROVE  ~MatchesPrefix(m, prefix)
    <3>1. PICK s \in imports[file] : m \in LoadedBy(imports, file, s)
      BY DEF Loads
    <3> QED
      BY <2>1, <2>2, <2>4, <3>1, ForbiddenLoads
  <2> QED
    BY <2>3, <2>4
<1> QED
  BY <1>1, GatesAreJudged, PTL
=============================================================================
