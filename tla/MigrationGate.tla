----------------------------- MODULE MigrationGate ----------------------------
(***************************************************************************)
(* scripts/validate_migrations.py in several worktrees of one repository:  *)
(* each holds the revision files of its own branch, and more than one may  *)
(* name the same database in its .env.  The gate is not a reader: it runs  *)
(* `alembic upgrade head` on the database it checks, so one branch's gate  *)
(* moves the ground under another's.                                       *)
(*                                                                         *)
(* Covered: the order of the gate's checks and what each of them read, a   *)
(* database that goes away between two of them, branches that fork, merge, *)
(* re-point or lose a revision, a model change without a revision, the     *)
(* settings that allow or forbid a skip.                                   *)
(* Not covered: files edited while a gate of that worktree runs, a schema  *)
(* change `alembic check` cannot see, the text of an issue.                *)
(* Three variables are history, for the properties: green, sight and lost. *)
(***************************************************************************)
EXTENDS Naturals, FiniteSets

CONSTANTS
  Worktrees,
  Base,            \* the revision every branch starts from
  Changes,         \* revisions that change the schema
  Merges,          \* `alembic merge heads` revisions: they change nothing
  Broken,          \* revisions whose upgrade op fails
  MaxSteps         \* bound: steps of developers and of the database's host

ASSUME MigrationAssumption ==
  /\ Base \notin Changes \cup Merges /\ Changes \cap Merges = {}
  /\ Broken \subseteq Changes /\ MaxSteps \in Nat
  /\ "shared" \notin Worktrees

Revisions == {Base} \cup Changes \cup Merges
Databases == Worktrees \cup {"shared"}

VARIABLES
  files,    \* worktree -> its revision files: revision -> its down_revisions
  orm,      \* worktree -> the changes its ORM metadata contains
  dbOf,     \* worktree -> the database its .env names
  up,       \* database -> it accepts connections
  stamp,    \* database -> the revisions alembic_version holds
  schema,   \* database -> the changes its tables carry
  pc,       \* worktree -> step of its gate
  settings, \* worktree -> settings of that run, while it still asks them
  verdict,  \* worktree -> what the last run ended with
  green,    \* worktree -> it passed, and neither it nor its database was changed since
  sight,    \* worktree -> what its run knows of the stamp when it comes to upgrade
  lost,     \* worktree -> revisions whose file it had and lost
  steps

branch == <<files, orm>>
host == <<dbOf, up>>
db == <<stamp, schema>>
history == <<green, sight, lost>>
vars == <<branch, host, db, pc, settings, verdict, history, steps>>

Settings == [ci : BOOLEAN, optOut : BOOLEAN, require : BOOLEAN]
NoSettings == [ci |-> FALSE, optOut |-> FALSE, require |-> FALSE]
Initially == [r \in {Base} |-> {}]

-----------------------------------------------------------------------------
\* The revision graph, from the files alone.
Heads(f) == {r \in DOMAIN f : \A s \in DOMAIN f : r \notin f[s]}

\* Every down_revision is there, and none leads round in a circle: of any of the
\* revisions, one is not below another of them.
Walkable(f) ==
  /\ \A r \in DOMAIN f : f[r] \subseteq DOMAIN f
  /\ \A S \in SUBSET DOMAIN f : S # {} => \E r \in S : \A s \in S : r \notin f[s]

\* Revision files put over others: the new ones win.
Over(new, old) ==
  [r \in DOMAIN new \cup DOMAIN old |-> IF r \in DOMAIN new THEN new[r] ELSE old[r]]
AtHead(r, f) == Over([s \in {r} |-> Heads(f)], f)

\* The revisions at or below rs: those in every set that holds rs and what is
\* below its members.
Below(f, rs) ==
  LET closed(S) == rs \subseteq S /\ \A s \in S \cap DOMAIN f : f[s] \subseteq S
  IN  {r \in DOMAIN f : \A S \in SUBSET (DOMAIN f \cup rs) : closed(S) => r \in S}

RevisionGraphIssue(f) ==
  IF ~Walkable(f) THEN "broken_revision_graph"
  ELSE IF Cardinality(Heads(f)) > 1 THEN "multiple_heads" ELSE "none"

\* Mutant: CI alone does not forbid the skip.
SkipUnlessRequired(s) == ~s.require

DatabaseSkipIsAllowed(s) == s.optOut \/ ~s.ci
\* main: --require-database, or implied.
MaySkip(s) == ~s.require /\ DatabaseSkipIsAllowed(s)

Ends(w, rule) ==
  pc' = [pc EXCEPT ![w] = "idle"] /\ verdict' = [verdict EXCEPT ![w] = rule]
Goes(w, step) == pc' = [pc EXCEPT ![w] = step] /\ verdict' = [verdict EXCEPT ![w] = "none"]

\* What the files and the settings alone decide, in this order.
Precheck(f, enabled) ==
  IF RevisionGraphIssue(f) # "none" THEN RevisionGraphIssue(f)
  ELSE IF ~enabled THEN "database_disabled" ELSE "none"

Start(w) ==
  /\ pc[w] = "idle"
  /\ \E enabled \in BOOLEAN :
       IF Precheck(files[w], enabled) = "none"
       THEN /\ Goes(w, "probe")
            /\ \E s \in Settings : settings' = [settings EXCEPT ![w] = s]
       ELSE Ends(w, Precheck(files[w], enabled)) /\ UNCHANGED settings
  /\ UNCHANGED <<branch, host, db, history, steps>>

IsDatabaseReachable(w) ==
  /\ pc[w] = "probe"
  /\ IF up[dbOf[w]]
     THEN Goes(w, "stamp")
     ELSE Ends(w, IF MaySkip(settings[w]) THEN "database_unreachable" ELSE "database_required")
  /\ settings' = [settings EXCEPT ![w] = NoSettings]
  /\ UNCHANGED <<branch, host, db, history, steps>>

\* Mutants: alembic is left to say so; the difference the other way round.
NeverForeign(f, stamped) == {}
StampedIsMissing(f, stamped) == IF stamped = {} THEN {} ELSE DOMAIN f \ stamped

\* Nothing is foreign to a checkout that has no revisions at all.
Foreign(f, stamped) == IF DOMAIN f = {} THEN {} ELSE stamped \ DOMAIN f

\* A read that fails reads as nothing stamped.
StampedRevisionIds(w) == IF up[dbOf[w]] THEN stamp[dbOf[w]] ELSE {}

ForeignRevisionIssue(w) ==
  /\ pc[w] = "stamp"
  /\ IF Foreign(files[w], StampedRevisionIds(w)) # {}
     THEN Ends(w, "foreign_revision") /\ UNCHANGED sight
     ELSE /\ Goes(w, "upgrade")
          /\ sight' = [sight EXCEPT ![w] = IF up[dbOf[w]] THEN "read" ELSE "unread"]
  /\ UNCHANGED <<branch, host, db, settings, green, lost, steps>>

\* alembic upgrade head, one transaction under the migration lock: from the
\* stamp, which must be known, every revision above it.
Pending(w) == (DOMAIN files[w]) \ Below(files[w], stamp[dbOf[w]])
CanUpgrade(w) ==
  /\ up[dbOf[w]] /\ stamp[dbOf[w]] \subseteq DOMAIN files[w]
  /\ Pending(w) \cap (Broken \cup schema[dbOf[w]]) = {}

\* The gate of w moves a database that v uses as well.
Overtakes(w, v) == v # w /\ dbOf[v] = dbOf[w] /\ stamp[dbOf[w]] # Heads(files[w])

UpgradeHead(w) ==
  /\ pc[w] = "upgrade"
  /\ IF CanUpgrade(w)
     THEN /\ stamp' = [stamp EXCEPT ![dbOf[w]] = Heads(files[w])]
          /\ schema' = [schema EXCEPT ![dbOf[w]] = @ \cup (Pending(w) \cap Changes)]
          /\ Goes(w, "check")
     ELSE Ends(w, "upgrade_failure") /\ UNCHANGED db
  /\ green' = [v \in Worktrees |-> green[v] /\ ~(CanUpgrade(w) /\ Overtakes(w, v))]
  /\ sight' = [v \in Worktrees |->
       IF v = w THEN "none"
       ELSE IF CanUpgrade(w) /\ Overtakes(w, v) /\ pc[v] = "upgrade" THEN "overtaken" ELSE sight[v]]
  /\ UNCHANGED <<branch, host, settings, lost, steps>>

\* alembic check: the database is at head and its tables are the metadata's.
UpToDate(w) ==
  /\ up[dbOf[w]]
  /\ stamp[dbOf[w]] = Heads(files[w])
  /\ schema[dbOf[w]] = orm[w]

Check(w) ==
  /\ pc[w] = "check"
  /\ Ends(w, IF UpToDate(w) THEN "passed" ELSE "head_drift")
  /\ green' = [green EXCEPT ![w] = @ \/ UpToDate(w)]
  /\ UNCHANGED <<branch, host, db, settings, sight, lost, steps>>

-----------------------------------------------------------------------------
Used == UNION {DOMAIN files[w] \cup orm[w] : w \in Worktrees}

Developer(w) ==
  /\ pc[w] = "idle" /\ steps < MaxSteps /\ steps' = steps + 1
  /\ verdict' = [verdict EXCEPT ![w] = "none"] /\ green' = [green EXCEPT ![w] = FALSE]
  /\ UNCHANGED <<db, pc, settings, sight>>

\* The ORM changes, and no revision is made yet.
ChangeModel(w, r) ==
  /\ Developer(w) /\ r \in Changes \ Used
  /\ orm' = [orm EXCEPT ![w] = @ \cup {r}]
  /\ UNCHANGED <<files, host, lost>>

\* make autogenerate-migration, for this change or one made before.
AutogenerateMigration(w, r) ==
  /\ Developer(w)
  /\ r \in (orm[w] \cup (Changes \ Used)) \ DOMAIN files[w]
  /\ Cardinality(Heads(files[w])) = 1 /\ Walkable(files[w])
  /\ files' = [files EXCEPT ![w] = AtHead(r, @)]
  /\ orm' = [orm EXCEPT ![w] = @ \cup {r}]
  /\ UNCHANGED <<host, lost>>

\* git merge: the other branch's revisions, as they stand there.
MergeBranch(w, v) ==
  /\ Developer(w) /\ pc[v] = "idle" /\ files[v] # files[w]
  /\ files' = [files EXCEPT ![w] = Over(files[v], @)]
  /\ orm' = [orm EXCEPT ![w] = @ \cup orm[v]]
  /\ UNCHANGED <<host, lost>>

\* A down_revision is written by hand: one of the two ways out of a fork that
\* the gate proposes, where it names the other head; a circle, where it does not.
Repoint(w, a, b) ==
  /\ Developer(w) /\ {a, b} \subseteq DOMAIN files[w] /\ files[w][a] # {b}
  /\ files' = [files EXCEPT ![w][a] = {b}]
  /\ UNCHANGED <<orm, host, lost>>

\* The other way out.
MergeHeads(w, r) ==
  /\ Developer(w) /\ r \in Merges \ Used
  /\ Cardinality(Heads(files[w])) = 2 /\ Walkable(files[w])
  /\ files' = [files EXCEPT ![w] = AtHead(r, @)]
  /\ UNCHANGED <<orm, host, lost>>

\* A revision file is lost, or taken back with its change.
DropFile(w, r) ==
  /\ Developer(w) /\ r \in DOMAIN files[w]
  /\ files' = [files EXCEPT ![w] = [s \in (DOMAIN @) \ {r} |-> @[s]]]
  /\ orm' \in {orm, [orm EXCEPT ![w] = @ \ {r}]}
  /\ lost' = [lost EXCEPT ![w] = @ \cup {r}]
  /\ UNCHANGED host

\* make db-up-worktree: a database nobody else uses.
DbUpWorktree(w) ==
  /\ Developer(w) /\ dbOf[w] = "shared"
  /\ dbOf' = [dbOf EXCEPT ![w] = w]
  /\ UNCHANGED <<branch, up, lost>>

\* A database somebody uses stops or comes back, whatever the gates are doing.
HostChanges(d) ==
  /\ steps < MaxSteps /\ steps' = steps + 1
  /\ \E w \in Worktrees : dbOf[w] = d
  /\ up' = [up EXCEPT ![d] = ~@]
  /\ UNCHANGED <<branch, dbOf, db, pc, settings, verdict, history>>

Init ==
  /\ files = [w \in Worktrees |-> Initially] /\ orm = [w \in Worktrees |-> {}]
  /\ dbOf = [w \in Worktrees |-> "shared"] /\ up = [d \in Databases |-> TRUE]
  /\ stamp = [d \in Databases |-> {}] /\ schema = [d \in Databases |-> {}]
  /\ pc = [w \in Worktrees |-> "idle"] /\ settings = [w \in Worktrees |-> NoSettings]
  /\ verdict = [w \in Worktrees |-> "none"] /\ green = [w \in Worktrees |-> FALSE]
  /\ sight = [w \in Worktrees |-> "none"] /\ lost = [w \in Worktrees |-> {}]
  /\ steps = 0

Next ==
  \/ \E w \in Worktrees :
       \/ Start(w) \/ IsDatabaseReachable(w) \/ ForeignRevisionIssue(w) \/ UpgradeHead(w) \/ Check(w)
       \/ \E r \in Revisions : \/ ChangeModel(w, r) \/ AutogenerateMigration(w, r)
                               \/ MergeHeads(w, r) \/ DropFile(w, r)
       \/ \E a, b \in Revisions : Repoint(w, a, b)
       \/ \E v \in Worktrees : MergeBranch(w, v)
       \/ DbUpWorktree(w)
  \/ \E d \in Databases : HostChanges(d)

Spec == Init /\ [][Next]_vars

-----------------------------------------------------------------------------
RunEnds(w) == pc'[w] = "idle" /\ verdict'[w] # "none" /\ (pc[w] # "idle" \/ verdict'[w] # verdict[w])
ExitCode(rule) == IF rule \in {"passed", "database_disabled", "database_unreachable"} THEN 0 ELSE 1
Chain(f) == Walkable(f) /\ Cardinality(Heads(f)) <= 1

(* The gate migrates the database it judges, and what it left is what it asks  *)
(* for: a run that passed passes again, under any settings, until this branch  *)
(* changes, another worktree's gate moves the database or the database is gone.*)
GreenStaysGreen ==
  [][\A w \in Worktrees : RunEnds(w) /\ green[w] /\ up[dbOf[w]] =>
       verdict'[w] \in {"passed", "database_disabled"}]_vars

(* A run that exits with 0 has at least found one chain in the files, and it *)
(* has not skipped a database it was required to verify.                     *)
GreenMeansLookedAt ==
  [][\A w \in Worktrees : RunEnds(w) /\ ExitCode(verdict'[w]) = 0 =>
       LET s == settings[w] IN
       /\ Chain(files[w])
       /\ verdict'[w] = "database_unreachable" => ~s.require /\ (s.ci => s.optOut)]_vars

(* A database stamped with what this branch does not know is reported as       *)
(* another's, and as a failed upgrade only when its stamp could not be read or *)
(* another gate moved it after it was.  With a database of its own, the remedy *)
(* the gate proposes, a worktree meets neither: what is unknown to it there is *)
(* a revision whose file it has lost itself.                                   *)
BlamesTheRightSide ==
  [][\A w \in Worktrees : RunEnds(w) =>
       LET unknown == stamp[dbOf[w]] \ DOMAIN files[w] IN
       /\ verdict'[w] = "upgrade_failure" /\ unknown # {} =>
            DOMAIN files[w] = {} \/ sight[w] \in {"unread", "overtaken"}
       /\ dbOf[w] = w => unknown \subseteq lost[w] /\ sight[w] # "overtaken"]_vars
=============================================================================
