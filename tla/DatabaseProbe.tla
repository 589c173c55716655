---------------------------- MODULE DatabaseProbe ----------------------------
(***************************************************************************)
(* The database half of GET /health/ready (endpoints/health.py): a probe   *)
(* task per check, at most one per pool, raced against a 2 s budget by     *)
(* asyncio.wait, cancelled but never awaited, and kept in _active_db_probes *)
(* until its done callback runs.  One worker process with one pool; every  *)
(* step is what runs between two awaits of one coroutine or one callback,  *)
(* so callbacks and resumptions interleave as the event loop may run them. *)
(***************************************************************************)
EXTENDS Naturals, Sequences, FiniteSets

CONSTANTS
  Requests,     \* concurrent GETs of /health/ready
  Probes,       \* names for probe tasks, reused once nothing refers to them
  None,
  PoolSize,     \* connections of the pool
  Revisions,    \* what alembic_version may hold
  Schemas,      \* its contents as the deployment moves on
  Expected,     \* script.get_heads() of this code
  Known,        \* every revision of this code
  Malformed     \* blank or padded revisions

ASSUME ProbeAssumption ==
  /\ None \notin Probes
  /\ PoolSize \in Nat \ {0}
  /\ Schemas \in Seq(SUBSET Revisions)
  /\ Schemas # <<>>
  /\ Expected \subseteq Known
  /\ Known \cup Malformed \subseteq Revisions
  /\ Known \cap Malformed = {}

VARIABLES
  registered,   \* _active_db_probes[id(pool)]
  state,        \* of each probe task
  holding,      \* probes with a connection of the pool
  cancelled,    \* probes whose cancel() was called
  outcome,      \* what a done probe holds
  readAt,       \* which of Schemas a probe read
  settling,     \* done probes whose callback has not run
  pc,           \* of each request
  mine,         \* the probe a request waits for
  answer,       \* its verdict
  asked,        \* history: the schema when the request began
  judged,       \* history: the probe a verdict is about had spent its budget
  loaded,       \* _migration_revisions is cached
  dbUp,         \* the server answers
  schema,       \* index of what alembic_version holds
  others        \* connections other requests hold

probeVars == <<registered, state, holding, cancelled, outcome, readAt, settling>>
requestVars == <<pc, mine, answer, asked, judged, loaded>>
worldVars == <<dbUp, schema, others>>
vars == <<probeVars, requestVars, worldVars>>

States == {"free", "acquiring", "checking", "asking_table", "asking_version", "done"}
Outcomes == {"none", "revisions", "error", "cancelled"}
Verdicts == {"none", "healthy", "behind", "malformed", "not_migrated", "failed",
             "timed_out", "unreadable", "dropped"}
ReadVerdicts == {"healthy", "behind", "malformed", "not_migrated"}

Undone == {p \in Probes : state[p] \notin {"free", "done"}}
InUse == others + Cardinality(holding)

\* One type invariant for the probes, the requests and the world around them.
TypeOK ==
  /\ registered \in Probes \cup {None}
  /\ state \in [Probes -> States]
  /\ holding \in SUBSET Probes
  /\ cancelled \in SUBSET Probes
  /\ outcome \in [Probes -> Outcomes]
  /\ readAt \in [Probes -> 0..Len(Schemas)]
  /\ settling \in SUBSET Probes
  /\ pc \in [Requests -> {"idle", "waiting", "woken"}]
  /\ mine \in [Requests -> Probes \cup {None}]
  /\ answer \in [Requests -> Verdicts]
  /\ asked \in [Requests -> 0..Len(Schemas)]
  /\ judged \in [Requests -> BOOLEAN]
  /\ loaded \in BOOLEAN
  /\ dbUp \in BOOLEAN
  /\ schema \in DOMAIN Schemas
  /\ others \in 0..PoolSize
  /\ InUse <= PoolSize

Init ==
  /\ registered = None
  /\ state = [p \in Probes |-> "free"]
  /\ holding = {}
  /\ cancelled = {}
  /\ outcome = [p \in Probes |-> "none"]
  /\ readAt = [p \in Probes |-> 0]
  /\ settling = {}
  /\ pc = [r \in Requests |-> "idle"]
  /\ mine = [r \in Requests |-> None]
  /\ answer = [r \in Requests |-> "none"]
  /\ asked = [r \in Requests |-> 0]
  /\ judged = [r \in Requests |-> FALSE]
  /\ loaded = FALSE
  /\ dbUp \in BOOLEAN
  /\ schema = 1
  /\ others = 0

-----------------------------------------------------------------------------
(* _check_database *)

\* Mutant: a schema this code does not know counts as behind.
VerdictExact(revisions) ==
  CASE revisions = {} -> "not_migrated"
    [] revisions # {} /\ revisions \cap Malformed # {} -> "malformed"
    [] revisions # {} /\ revisions \cap Malformed = {} ->
         IF revisions # Expected THEN "behind" ELSE "healthy"

\* The verdict on the revisions a probe read, tested in the code's order.
Verdict(revisions) ==
  CASE revisions = {} -> "not_migrated"
    [] revisions # {} /\ revisions \cap Malformed # {} -> "malformed"
    [] revisions # {} /\ revisions \cap Malformed = {} ->
         IF revisions # Expected /\ revisions \subseteq Known THEN "behind" ELSE "healthy"

Answer(r, verdict) ==
  /\ answer' = [answer EXCEPT ![r] = verdict]
  /\ pc' = [pc EXCEPT ![r] = "idle"]
  /\ mine' = [mine EXCEPT ![r] = None]

Unused(p) ==
  \/ state[p] = "free"
  \/ state[p] = "done" /\ p \notin settling /\ registered # p
     /\ \A r \in Requests : mine[r] # p

\* ScriptDirectory raises; functools.cache keeps no exception, so only until the
\* first success.
MigrationsUnreadable(r) ==
  /\ pc[r] = "idle" /\ ~loaded
  /\ Answer(r, "unreadable")
  /\ asked' = [asked EXCEPT ![r] = schema]
  /\ UNCHANGED <<probeVars, worldVars, judged, loaded>>

\* A probe of this pool is still undone: answer at once, start nothing.
RefuseWhileInFlight(r) ==
  /\ pc[r] = "idle"
  /\ registered \in Undone
  /\ Answer(r, "timed_out")
  /\ asked' = [asked EXCEPT ![r] = schema]
  /\ judged' = [judged EXCEPT ![r] = registered \in cancelled]
  /\ loaded' = TRUE
  /\ UNCHANGED <<probeVars, worldVars>>

\* create_task, register, add_done_callback, and wait: no await in between.
StartProbe(r, p) ==
  /\ pc[r] = "idle"
  /\ registered \notin Undone
  /\ Unused(p)
  /\ registered' = p
  /\ state' = [state EXCEPT ![p] = "acquiring"]
  /\ cancelled' = cancelled \ {p}
  /\ outcome' = [outcome EXCEPT ![p] = "none"]
  /\ readAt' = [readAt EXCEPT ![p] = 0]
  /\ mine' = [mine EXCEPT ![r] = p]
  /\ pc' = [pc EXCEPT ![r] = "waiting"]
  /\ answer' = [answer EXCEPT ![r] = "none"]
  /\ asked' = [asked EXCEPT ![r] = schema]
  /\ judged' = [judged EXCEPT ![r] = FALSE]
  /\ loaded' = TRUE
  /\ UNCHANGED <<holding, settling, worldVars>>

\* asyncio.wait is woken by its timer, or by the probe's completion.
TimerFires(r) ==
  /\ pc[r] = "waiting"
  /\ pc' = [pc EXCEPT ![r] = "woken"]
  /\ judged' = [judged EXCEPT ![r] = TRUE]
  /\ UNCHANGED <<probeVars, worldVars, mine, answer, asked, loaded>>

ProbeWakes(r) ==
  /\ pc[r] = "waiting" /\ state[mine[r]] = "done"
  /\ pc' = [pc EXCEPT ![r] = "woken"]
  /\ UNCHANGED <<probeVars, worldVars, mine, answer, asked, judged, loaded>>

\* Resumed with the probe done: wait looks again, so a probe that ended after
\* the timer fired still counts.
ReadVerdict(r) ==
  /\ pc[r] = "woken" /\ state[mine[r]] = "done"
  /\ CASE outcome[mine[r]] = "revisions" -> Answer(r, Verdict(Schemas[readAt[mine[r]]]))
       [] outcome[mine[r]] = "error" -> Answer(r, "failed")
       [] OTHER -> Answer(r, "dropped")
  /\ UNCHANGED <<probeVars, worldVars, asked, judged, loaded>>

\* Mutant: the cancellation is awaited, as wait_for would.
GiveUpAwaiting(r) ==
  /\ pc[r] = "woken" /\ mine[r] \in Undone
  /\ cancelled' = cancelled \cup {mine[r]}
  /\ UNCHANGED <<registered, state, holding, outcome, readAt, settling, worldVars, requestVars>>

\* Resumed with the probe still running: cancel it, do not await it.
GiveUp(r) ==
  /\ pc[r] = "woken" /\ mine[r] \in Undone
  /\ cancelled' = cancelled \cup {mine[r]}
  /\ Answer(r, "timed_out")
  /\ UNCHANGED <<registered, state, holding, outcome, readAt, settling, worldVars, asked,
                 judged, loaded>>

\* Mutant: no `finally`.
RequestCancelledOnly(r) ==
  /\ pc[r] # "idle"
  /\ Answer(r, "dropped")
  /\ UNCHANGED <<probeVars, worldVars, asked, judged, loaded>>

\* The request itself is cancelled at its await: `finally` cancels the probe.
RequestCancelled(r) ==
  /\ pc[r] # "idle"
  /\ cancelled' = cancelled \cup ({mine[r]} \cap Undone)
  /\ Answer(r, "dropped")
  /\ UNCHANGED <<registered, state, holding, outcome, readAt, settling, worldVars, asked,
                 judged, loaded>>

-----------------------------------------------------------------------------
(* _run_db_probe *)

\* Mutant: the connection is not given back, as without `async with`.
EndsKeeping(p, how) ==
  /\ state' = [state EXCEPT ![p] = "done"]
  /\ holding' = holding
  /\ outcome' = [outcome EXCEPT ![p] = how]
  /\ settling' = settling \cup {p}

\* The task ends, its connection goes back to the pool, its callback is queued.
Ends(p, how) ==
  /\ state' = [state EXCEPT ![p] = "done"]
  /\ holding' = holding \ {p}
  /\ outcome' = [outcome EXCEPT ![p] = how]
  /\ settling' = settling \cup {p}

\* The pool hands out a connection, to be checked with a query of its own; a
\* cancelled waiter gets none.
GetConnection(p) ==
  /\ state[p] = "acquiring" /\ p \notin cancelled /\ InUse < PoolSize
  /\ state' = [state EXCEPT ![p] = "checking"]
  /\ holding' = holding \cup {p}
  /\ UNCHANGED <<registered, cancelled, outcome, readAt, settling, requestVars, worldVars>>

CheckPasses(p) ==
  /\ dbUp /\ state[p] = "checking"
  /\ state' = [state EXCEPT ![p] = "asking_table"]
  /\ UNCHANGED <<registered, holding, cancelled, outcome, readAt, settling, requestVars, worldVars>>

\* check_connection failed: the pool drops the connection and tries another.
CheckFails(p) ==
  /\ ~dbUp /\ state[p] = "checking"
  /\ state' = [state EXCEPT ![p] = "acquiring"]
  /\ holding' = holding \ {p}
  /\ UNCHANGED <<registered, cancelled, outcome, readAt, settling, requestVars, worldVars>>

\* to_regclass found no table: no second statement.
NoVersionTable(p) ==
  /\ dbUp /\ state[p] = "asking_table" /\ Schemas[schema] = {}
  /\ Ends(p, "revisions")
  /\ readAt' = [readAt EXCEPT ![p] = schema]
  /\ UNCHANGED <<registered, cancelled, requestVars, worldVars>>

VersionTableExists(p) ==
  /\ dbUp /\ state[p] = "asking_table" /\ Schemas[schema] # {}
  /\ state' = [state EXCEPT ![p] = "asking_version"]
  /\ UNCHANGED <<registered, holding, cancelled, outcome, readAt, settling, requestVars, worldVars>>

ReadVersion(p) ==
  /\ dbUp /\ state[p] = "asking_version"
  /\ Ends(p, "revisions")
  /\ readAt' = [readAt EXCEPT ![p] = schema]
  /\ UNCHANGED <<registered, cancelled, requestVars, worldVars>>

\* The server is gone: a query fails when keepalive or tcp_user_timeout drops
\* the socket, which may be long after the budget.
ConnectionLost(p) ==
  /\ ~dbUp /\ state[p] \in {"asking_table", "asking_version"}
  /\ Ends(p, "error")
  /\ UNCHANGED <<registered, cancelled, readAt, requestVars, worldVars>>

\* A cancelled probe ends: at once while it waits for a connection, else when
\* the server answers psycopg's cancel or the socket drops.
CancelDelivered(p) ==
  /\ p \in cancelled \cap Undone
  /\ state[p] = "acquiring" \/ dbUp
  /\ Ends(p, "cancelled")
  /\ UNCHANGED <<registered, cancelled, readAt, requestVars, worldVars>>

\* Mutant: pop without asking whose registration it is.
SettledAnyway(p) ==
  /\ p \in settling
  /\ settling' = settling \ {p}
  /\ registered' = None
  /\ UNCHANGED <<state, holding, cancelled, outcome, readAt, requestVars, worldVars>>

\* The done callback: pop the registration if it is still this task's.
Settled(p) ==
  /\ p \in settling
  /\ settling' = settling \ {p}
  /\ registered' = IF registered = p THEN None ELSE registered
  /\ UNCHANGED <<state, holding, cancelled, outcome, readAt, requestVars, worldVars>>

-----------------------------------------------------------------------------
(* The world *)

ServerFreezes ==
  /\ dbUp /\ dbUp' = FALSE
  /\ UNCHANGED <<probeVars, requestVars, schema, others>>

ServerAnswersAgain ==
  /\ ~dbUp /\ dbUp' = TRUE
  /\ UNCHANGED <<probeVars, requestVars, schema, others>>

\* A migration of this or of a later release commits.
SchemaMoves ==
  /\ dbUp /\ schema < Len(Schemas)
  /\ schema' = schema + 1
  /\ UNCHANGED <<probeVars, requestVars, dbUp, others>>

OtherRequestTakes ==
  /\ InUse < PoolSize
  /\ others' = others + 1
  /\ UNCHANGED <<probeVars, requestVars, dbUp, schema>>

OtherRequestReturns ==
  /\ dbUp /\ others > 0
  /\ others' = others - 1
  /\ UNCHANGED <<probeVars, requestVars, dbUp, schema>>

-----------------------------------------------------------------------------
Poll(r) ==
  \/ MigrationsUnreadable(r)
  \/ RefuseWhileInFlight(r)
  \/ \E p \in Probes : StartProbe(r, p)

Resume(r) == ProbeWakes(r) \/ ReadVerdict(r) \/ GiveUp(r)

Responds(p) ==
  CheckPasses(p) \/ NoVersionTable(p) \/ VersionTableExists(p) \/ ReadVersion(p)

Next ==
  \/ \E r \in Requests :
       Poll(r) \/ TimerFires(r) \/ Resume(r) \/ RequestCancelled(r)
  \/ \E p \in Probes :
       \/ GetConnection(p) \/ Responds(p) \/ CheckFails(p)
       \/ ConnectionLost(p) \/ CancelDelivered(p) \/ Settled(p)
  \/ ServerFreezes \/ ServerAnswersAgain \/ SchemaMoves
  \/ OtherRequestTakes \/ OtherRequestReturns

Spec == Init /\ [][Next]_vars

\* The event loop runs what is ready, the timer included; pollers keep polling;
\* a server that is up answers; the pool serves its waiters in turn, and other
\* requests give their connections back.
Fairness ==
  /\ \A r \in Requests :
       WF_vars(Poll(r)) /\ WF_vars(TimerFires(r)) /\ WF_vars(Resume(r))
  /\ \A p \in Probes :
       WF_vars(Responds(p)) /\ WF_vars(CancelDelivered(p)) /\ WF_vars(Settled(p))
  /\ SF_vars(\E p \in Probes : GetConnection(p))
  /\ WF_vars(OtherRequestReturns)

FairSpec == Spec /\ Fairness

-----------------------------------------------------------------------------
(* Properties *)

\* "cap probes to one per pool" (_active_db_probes): whatever the order of
\* timers, completions, callbacks and new polls, at most one probe task is
\* undone, so a frozen server costs readiness one connection, not the pool.
OneProbeAtATime ==
  \A p, q \in Undone : p = q

\* A probe is never merely abandoned (the comment above _run_db_probe): while it
\* runs, either its request still waits for it or it has been cancelled, also
\* when the request itself is cancelled.
NoOrphanProbe ==
  \A p \in Undone : p \in cancelled \/ \E r \in Requests : mine[r] = p

\* What the schema at step i of the deployment means for this code: every one of
\* its revisions has been applied by then, or not.
TrueVerdict(i) ==
  CASE Schemas[i] = {} -> "not_migrated"
    [] Schemas[i] # {} /\ Schemas[i] \cap Malformed # {} -> "malformed"
    [] Schemas[i] # {} /\ Schemas[i] \cap Malformed = {} ->
         IF Expected \subseteq UNION {Schemas[j] : j \in 1..i} THEN "healthy" ELSE "behind"

\* A verdict was true at some moment between the arrival of the request and its
\* answer: no stale probe is believed, a migrated schema is not called behind,
\* and an old replica stays ready on a newer schema.
VerdictIsTrue ==
  \A r \in Requests :
    answer[r] \in ReadVerdicts
      => \E i \in asked[r]..schema : answer[r] = TrueVerdict(i)

\* _DATABASE_TIMEOUT_MESSAGE, "Database check timed out", means a probe had its
\* READINESS_DB_TIMEOUT_SECONDS and did not answer.
TimedOutMeansBudgetSpent ==
  \A r \in Requests : answer[r] = "timed_out" => judged[r]

\* The check answers whatever the server does: it never waits for the
\* cancellation of a probe.
EveryCheckAnswers == \A r \in Requests : (pc[r] # "idle") ~> (pc[r] = "idle")

\* What the code cannot help: a budget that runs out while the server works on
\* the probe or while other requests hold the connections, a cancelled poll.
CutShort ==
  \E r \in Requests :
    \/ answer[r] = "dropped"
    \/ /\ pc[r] = "woken" /\ mine[r] \in Undone
       /\ state[mine[r]] # "acquiring" \/ others > 0

\* Readiness recovers: when the server stays up and neither it nor the load
\* spends the budget, polls keep getting verdicts that were read from it: no
\* registration and no connection is left behind by what went wrong before.
Recovers ==
  <>[](dbUp /\ ~CutShort) => []<>(\E r \in Requests : answer[r] \in ReadVerdicts)
=============================================================================
