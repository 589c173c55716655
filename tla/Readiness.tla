------------------------------ MODULE Readiness ------------------------------
(***************************************************************************)
(* GET /health/ready as a whole (endpoints/health.py), with the LLM check  *)
(* in full (llm_service_readiness.py): a cached provider probe behind a    *)
(* lazily made asyncio.Lock with a second look at the cache, then the      *)
(* database check, then the verdict by criticality (ADR-008).  The         *)
(* database check is what DatabaseProbe models in detail; here it answers  *)
(* within its budget.  Time is counted in ticks, and passes only when the  *)
(* event loop has nothing to run.  One worker process.                     *)
(***************************************************************************)
EXTENDS Naturals, Sequences

CONSTANTS
  Polls,         \* concurrent GETs of /health/ready
  None,
  Ttl,           \* _PROBE_CACHE_TTL_SECONDS
  LlmTimeout,    \* llm_readiness_timeout_seconds
  DbBudget,      \* READINESS_DB_TIMEOUT_SECONDS
  Settings,      \* the deployments of this instance
  MaxCancels     \* bound: how many polls are cancelled in a behaviour

Setting == [mode: {"mock", "init", "probe"}, llm_critical: BOOLEAN,
            services: BOOLEAN, llm_service: BOOLEAN,
            database_enabled: BOOLEAN, pool: BOOLEAN]

ASSUME ReadinessAssumption ==
  /\ None \notin Polls
  /\ Ttl \in Nat \ {0} /\ LlmTimeout \in Nat \ {0} /\ DbBudget \in Nat \ {0}
  /\ Settings \subseteq Setting
  /\ MaxCancels \in Nat

VARIABLES
  setting,       \* the settings and services of this process
  cache,         \* _probe_cache
  cacheAge,      \* ticks since _probe_cache_at, counted up to Ttl
  lock,          \* who holds _probe_lock
  waiters,       \* its queue
  pc,            \* of each poll
  llm,           \* checks["llm"]["status"]
  db,            \* checks["database"]["status"]
  waited,        \* ticks the poll has spent at its current await
  answer,        \* the poll's verdict
  heard,         \* history: what the last completed provider call said
  heardAge,      \* history: ticks since then, counted up to Ttl
  took,          \* history: ticks since the poll began, while it runs
  passed,        \* history: calls cancelled while the poll queued, while it runs
  cancels        \* history: polls cancelled so far

probeVars == <<cache, cacheAge, lock, waiters, heard, heardAge>>
pollVars == <<pc, llm, db, waited, answer, took, passed>>
vars == <<setting, probeVars, pollVars, cancels>>

Statuses == {"healthy", "unhealthy"}
\* What n provider timeouts take.
Timeouts(n) == LlmTimeout * n

\* Bound: ticks are counted until no poll could be slower.
TooSlow == Timeouts(1 + MaxCancels) + DbBudget + 1

Verdicts == {"none", "ready", "unready", "dropped"}

\* One type invariant for the probe cache, the lock and the polls.
TypeOK ==
  /\ setting \in Settings
  /\ cache \in Statuses \cup {"none"}
  /\ cacheAge \in 0..Ttl
  /\ lock \in Polls \cup {None}
  /\ waiters \in Seq(Polls)
  /\ pc \in [Polls -> {"idle", "queued", "calling", "checking_db"}]
  /\ llm \in [Polls -> Statuses \cup {"none"}]
  /\ db \in [Polls -> Statuses \cup {"none", "disabled"}]
  /\ waited \in [Polls -> Nat]
  /\ answer \in [Polls -> Verdicts]
  /\ heard \in Statuses \cup {"none"}
  /\ heardAge \in 0..Ttl
  /\ took \in [Polls -> Nat]
  /\ passed \in [Polls -> 0..MaxCancels]
  /\ cancels \in 0..MaxCancels

Init ==
  /\ setting \in Settings
  /\ cache = "none" /\ cacheAge = Ttl
  /\ lock = None /\ waiters = <<>>
  /\ pc = [p \in Polls |-> "idle"]
  /\ llm = [p \in Polls |-> "none"]
  /\ db = [p \in Polls |-> "none"]
  /\ waited = [p \in Polls |-> 0]
  /\ answer = [p \in Polls |-> "none"]
  /\ heard = "none" /\ heardAge = Ttl
  /\ took = [p \in Polls |-> 0]
  /\ passed = [p \in Polls |-> 0]
  /\ cancels = 0

-----------------------------------------------------------------------------
(* The verdict: _build_readiness_response *)

\* critical_statuses: the LLM votes when it is critical, the database when it is
\* enabled (a disabled one has the status "disabled").
Verdict(llmStatus, dbStatus) ==
  IF \/ setting.llm_critical /\ llmStatus = "unhealthy"
     \/ setting.database_enabled /\ dbStatus = "unhealthy"
  THEN "unready" ELSE "ready"

Ends(p, verdict) ==
  /\ pc' = [pc EXCEPT ![p] = "idle"]
  /\ answer' = [answer EXCEPT ![p] = verdict]
  /\ waited' = [waited EXCEPT ![p] = 0]
  /\ took' = [took EXCEPT ![p] = 0]
  /\ passed' = [passed EXCEPT ![p] = 0]

Awaits(p, what) ==
  /\ pc' = [pc EXCEPT ![p] = what]
  /\ answer' = [answer EXCEPT ![p] = "none"]
  /\ waited' = [waited EXCEPT ![p] = 0]
  /\ UNCHANGED <<took, passed>>

\* The LLM check is done: the database check is awaited when there is a pool to
\* ask, else the poll is answered at once.
LlmChecked(p, status) ==
  /\ llm' = [llm EXCEPT ![p] = status]
  /\ IF setting.database_enabled /\ setting.pool
     THEN Awaits(p, "checking_db") /\ db' = [db EXCEPT ![p] = "none"]
     ELSE LET without == IF setting.database_enabled THEN "unhealthy" ELSE "disabled"
          IN  Ends(p, Verdict(status, without)) /\ db' = [db EXCEPT ![p] = without]

DbAnswers(p, status) ==
  /\ pc[p] = "checking_db"
  /\ db' = [db EXCEPT ![p] = status]
  /\ Ends(p, Verdict(llm[p], status))
  /\ UNCHANGED <<setting, probeVars, llm, cancels>>

-----------------------------------------------------------------------------
(* check_readiness up to its first await *)

\* Mutant: an answer of exactly the TTL's age is still used.
FreshAtTtl == cache # "none" /\ cacheAge <= Ttl

\* _fresh_cached_probe finds an answer it may use.
Fresh == cache # "none" /\ cacheAge < Ttl

\* app.state has no services.
NoServices(p) ==
  /\ pc[p] = "idle" /\ ~setting.services
  /\ Ends(p, "unready")
  /\ UNCHANGED <<setting, probeVars, llm, db, cancels>>

\* No LLM service; mock mode, or `init`, which never ask the provider.
AnswersWithoutProvider(p) ==
  /\ pc[p] = "idle" /\ setting.services
  /\ ~setting.llm_service \/ setting.mode # "probe"
  /\ LlmChecked(p, IF setting.llm_service THEN "healthy" ELSE "unhealthy")
  /\ UNCHANGED <<setting, probeVars, cancels>>

Probing(p) ==
  pc[p] = "idle" /\ setting.services /\ setting.llm_service /\ setting.mode = "probe"

AnswersFromCache(p) ==
  /\ Probing(p) /\ Fresh
  /\ LlmChecked(p, cache)
  /\ UNCHANGED <<setting, probeVars, cancels>>

\* A free lock nobody waits for is taken without an await.
CallsProvider(p) ==
  /\ Probing(p) /\ ~Fresh /\ lock = None /\ waiters = <<>>
  /\ lock' = p
  /\ Awaits(p, "calling")
  /\ UNCHANGED <<setting, cache, cacheAge, waiters, heard, heardAge, llm, db, cancels>>

\* asyncio.Lock is fair: a poll queues behind the waiters even when the lock has
\* just been released.
Queues(p) ==
  /\ Probing(p) /\ ~Fresh /\ (lock # None \/ waiters # <<>>)
  /\ waiters' = Append(waiters, p)
  /\ Awaits(p, "queued")
  /\ UNCHANGED <<setting, cache, cacheAge, lock, heard, heardAge, llm, db, cancels>>

-----------------------------------------------------------------------------
(* The lock, the call and the cache *)

\* Mutants: the second look is left out; the lock is not asked.
GrantedWithoutLook(p) ==
  /\ lock = None /\ waiters # <<>> /\ p = Head(waiters)
  /\ waiters' = Tail(waiters)
  /\ lock' = p /\ Awaits(p, "calling") /\ UNCHANGED <<llm, db>>
  /\ UNCHANGED <<setting, cache, cacheAge, heard, heardAge, cancels>>

\* The first waiter gets the lock and looks at the cache again: fresh, it lets
\* the lock go and answers; else the call is its own.
Granted(p) ==
  /\ lock = None /\ waiters # <<>> /\ p = Head(waiters)
  /\ waiters' = Tail(waiters)
  /\ IF Fresh
     THEN LlmChecked(p, cache) /\ UNCHANGED lock
     ELSE lock' = p /\ Awaits(p, "calling") /\ UNCHANGED <<llm, db>>
  /\ UNCHANGED <<setting, cache, cacheAge, heard, heardAge, cancels>>

\* Mutant: only a success is cached.
CallEndsCachingSuccess(p, status) ==
  /\ pc[p] = "calling"
  /\ IF status = "healthy" THEN cache' = status /\ cacheAge' = 0
     ELSE UNCHANGED <<cache, cacheAge>>
  /\ heard' = status /\ heardAge' = 0
  /\ lock' = None
  /\ LlmChecked(p, status)
  /\ UNCHANGED <<setting, waiters, cancels>>

\* The provider answered, failed, or wait_for ran out: success and failure are
\* cached alike, stamped when the call is over.
CallEnds(p, status) ==
  /\ pc[p] = "calling"
  /\ cache' = status /\ cacheAge' = 0
  /\ heard' = status /\ heardAge' = 0
  /\ lock' = None
  /\ LlmChecked(p, status)
  /\ UNCHANGED <<setting, waiters, cancels>>

Without(queue, p) ==
  IF \E i \in DOMAIN queue : queue[i] = p
  THEN LET at == CHOOSE i \in DOMAIN queue : queue[i] = p
       IN  [i \in 1..(Len(queue) - 1) |-> IF i < at THEN queue[i] ELSE queue[i + 1]]
  ELSE queue

\* Mutant: the lock is not released on the way out.
LeavesKeepingLock(p) ==
  /\ lock' = lock
  /\ waiters' = Without(waiters, p)

\* `async with` releases the lock, a cancelled acquire() leaves the queue.
Leaves(p) ==
  /\ lock' = IF lock = p THEN None ELSE lock
  /\ waiters' = Without(waiters, p)

CancelledAt(p) ==
  /\ pc[p] # "idle" /\ cancels < MaxCancels
  /\ cancels' = cancels + 1
  /\ Leaves(p)
  /\ pc' = [pc EXCEPT ![p] = "idle"]
  /\ answer' = [answer EXCEPT ![p] = "dropped"]
  /\ waited' = [waited EXCEPT ![p] = 0]
  /\ took' = [took EXCEPT ![p] = 0]
  /\ passed' = [q \in Polls |-> IF q = p THEN 0
                                ELSE IF pc[p] = "calling" /\ pc[q] = "queued"
                                THEN passed[q] + 1 ELSE passed[q]]
  /\ UNCHANGED <<setting, heard, heardAge, llm, db>>

\* The poll is cancelled at its await: CancelledError is no Exception, so
\* nothing is cached.
Cancelled(p) ==
  /\ CancelledAt(p)
  /\ UNCHANGED <<cache, cacheAge>>

-----------------------------------------------------------------------------
(* Time *)

\* The event loop is ahead of the clock: no waiter could be granted the lock,
\* and no timer is due.
Idle ==
  /\ ~(lock = None /\ waiters # <<>>)
  /\ \A p \in Polls :
       /\ pc[p] = "calling" => waited[p] < LlmTimeout
       /\ pc[p] = "checking_db" => waited[p] < DbBudget

Older(age) == IF age < Ttl THEN age + 1 ELSE age

Tick ==
  /\ Idle
  /\ cacheAge' = Older(cacheAge)
  /\ heardAge' = Older(heardAge)
  /\ waited' = [p \in Polls |->
                  IF pc[p] \in {"calling", "checking_db"} THEN waited[p] + 1 ELSE waited[p]]
  /\ took' = [p \in Polls |-> IF pc[p] = "idle" \/ took[p] = TooSlow
                              THEN took[p] ELSE took[p] + 1]
  /\ UNCHANGED <<setting, cache, lock, waiters, heard, pc, llm, db, answer, passed, cancels>>

-----------------------------------------------------------------------------
Arrives(p) ==
  \/ NoServices(p)
  \/ AnswersWithoutProvider(p)
  \/ AnswersFromCache(p)
  \/ CallsProvider(p)
  \/ Queues(p)

Proceeds(p) ==
  \/ Granted(p)
  \/ \E status \in Statuses : CallEnds(p, status) \/ DbAnswers(p, status)

Next ==
  \/ \E p \in Polls : Arrives(p) \/ Proceeds(p) \/ Cancelled(p)
  \/ Tick

Spec == Init /\ [][Next]_vars

\* A due timer and a granted lock resume their poll, and time passes.  Nobody
\* has to poll, and the provider has to answer nothing: its timer ends the call.
Due(p) ==
  \/ Granted(p)
  \/ pc[p] = "calling" /\ waited[p] = LlmTimeout /\ CallEnds(p, "unhealthy")
  \/ pc[p] = "checking_db" /\ waited[p] = DbBudget /\ DbAnswers(p, "unhealthy")

FairSpec == Spec /\ WF_vars(Tick) /\ \A p \in Polls : WF_vars(Due(p))

-----------------------------------------------------------------------------
(* Properties *)

\* The lock is not "decorative" (_cached_or_fresh_probe): however many polls
\* arrive, are granted the lock or are cancelled, one provider call is in flight.
OneProviderCall ==
  \A p, q \in Polls : (pc[p] = "calling" /\ pc[q] = "calling") => p = q

\* The cost bound the TTL exists for: a provider call begins only when the last
\* completed one, failed or not, is a whole TTL old, also for the polls that
\* queued behind it.
CallsAreSpaced ==
  [][\A p \in Polls : (pc[p] # "calling" /\ pc'[p] = "calling") => heardAge = Ttl]_vars

\* What a poll reports of the provider, when it goes on to the database check, is
\* what the last completed call said, less than a TTL ago: nothing older, nothing
\* a newer call has contradicted, nothing left by a cancelled call.
ReportsLastAnswer ==
  [][\A p \in Polls :
       (/\ setting.mode = "probe" /\ setting.llm_service
        /\ pc[p] # "checking_db" /\ pc'[p] = "checking_db")
         => (llm'[p] = heard' /\ heardAge' < Ttl)]_vars

\* An outage of the provider alone never takes a replica out of rotation unless
\* the LLM is critical, and then no replica that saw it stays in (ADR-008).
OutageNeedsCriticality ==
  \A p \in Polls :
    /\ (answer[p] = "unready" /\ setting.services /\ db[p] \in {"healthy", "disabled"})
         => (setting.llm_critical /\ llm[p] = "unhealthy")
    /\ (answer[p] = "ready" /\ setting.llm_critical) => llm[p] = "healthy"

\* The wait is bounded whatever the provider does: one probe timeout and one
\* database budget, and one more timeout for each call that was cancelled while
\* the poll queued behind it.  Waiters do not run their own timeouts in turn.
AnswersInTime ==
  \A p \in Polls : took[p] <= Timeouts(1 + passed[p]) + DbBudget

\* Every poll is answered, with a provider that never does.
EveryPollAnswers == \A p \in Polls : (pc[p] # "idle") ~> (pc[p] = "idle")
=============================================================================
