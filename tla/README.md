# mayak: models, model checking and proofs

This directory is a verification development for the service template *mayak*: TLA+ modules
translated from its source, TLC configurations that check them on small instances, and proofs
that TLAPS checks for every value of the constants. It is written for a reader who has the
repository open beside it. Source paths are relative to the repository; in `PROJECT.json` they
carry the prefix `src/`.

`PROJECT.json` lists the components, the runs, the mutants that show each property can fail, the
map from definitions to source lines, the hazards and the theorems.

    tlc -workers 2 -config ReferenceTasks.cfg MCReferenceTasks   # a run
    tlapm ReferenceTasksProofs.tla                               # the proofs of a module

## 1. The system

mayak is one HTTP service (FastAPI on uvicorn, asyncio) with a PostgreSQL store, an LLM provider
behind it, and a log whose records are meant to be read by an agent as a tree of spans. It runs as
one process per container, or several worker processes, with several containers sharing a
database.

    entrypoint.sh ── validate settings ── alembic upgrade head ── exec python -m project.launcher.main
                                            │ advisory lock            │
                                            ▼                          ▼
                                       PostgreSQL ◄── pool ──── uvicorn: lifespan, requests
                                            ▲                          │
                   reference_tasks, alembic_version        middleware → endpoint → handlers
                                                              │ spans      │            │
                                                              ▼            ▼            ▼
                                                        run log ◄── LLM service     /health/ready:
                                                        (NDJSON)     (retries)       cached LLM probe,
                                                              │                      DB probe
                                                              ▼
                                                   trace tree, trace summary

Around the service stand the programs of its repository, which read and change the checkout it is
developed in, several worktrees at a time:

    make init-project ── extract_reference_vertical ──► checkout ◄── run_mutations ── run_all_tests
                                                        │      │                       (Compose stack)
                         validate_architecture ◄────────┘      └──────► validate_migrations ──► database
                         validate_endpoint_wiring                       (each worktree's own gate)

### Inventory

The module that models a component is in parentheses; what has none is in section 8 with the reason.

| Component | State it keeps | Operations | What is hard about it | What makes it correct |
|---|---|---|---|---|
| Reference vertical *(ReferenceTasks)*: `project/domain/reference_task.py`, `application/reference_task_service.py`, `infrastructure/persistence/reference_task_repository.py` | table `reference_tasks`; per request the row read and the row to write | create, get, update, list | read, compute and write are three statements; the only guard is `updated_at` in the `WHERE`; the title rule spans rows; a statement outlives its connection | no update is lost, one open task per title, a refusal wrote nothing, an acknowledged write happened once |
| Database probe *(DatabaseProbe)*: `_check_database`, `_run_db_probe`, `_active_db_probes` in `api/endpoints/health.py` | one registered task per pool, the pool's connections, the revisions of the code (cached) | poll, time out, cancel without awaiting, done callback | timer, completion, callback, next poll and cancellation in any order, while the server is frozen | one probe per pool, none abandoned, a verdict that was true, an answer whatever the server does, recovery |
| LLM probe *(Readiness)*: `agents/llm_service_readiness.py` | cached status and its age, a lazily made `asyncio.Lock` and its queue | check from cache, queue, call with a timeout, cache | waiters granted after the cache was filled; a cancelled holder; time | one provider call, spaced by the TTL, never a stale report, a bounded wait |
| Readiness verdict *(Readiness)*: `_build_readiness_response`, `_check_llm_service` | the services of the process | LLM check, then database check, then verdict | which checks vote | an outage of the provider takes a replica out only if it is critical |
| Middleware and exception handlers *(HttpRequest)*: `api/middleware.py`, `api/exception_handlers.py` | trace id, root span, the status seen on the way out | sample pings, refuse a declared or an actual body over the limit, observe the response, answer an exception | the 500 is sent *outside* the middleware; a response may have started; cancellation at every await | the summary tells what the client got; what failed is shown as failed |
| Semantic logger *(SpanLog, HttpRequest)*: `core/logging/logger.py`, `context.py` | open spans (context variables), counters of the root | open, close, fail, count, write | four ways out of a span, two levels, counting at the end | counters are those of the tree that can be built |
| Trace reader *(TraceTree)*: `core/logging/trace_tree.py`, `trace_formatter.py` | none | parse, build the tree, mark the trace | spans that never finish, parents that the level filter swallowed, records after the span | one tree per request, nothing that matters outside it |
| LLM service, live *(HttpRequest)*: `agents/llm_service_live.py`, `tool_runner.py` | attempts of the call in progress | call, retry, translate the failure | the reply may be invalid, the pause may be cancelled | a failure of the provider is not the caller's |
| Launcher, application, lifespan *(Launcher)*: `launcher/main.py`, `core/lifecycle.py`, `core/composition_root.py` | signal dispositions, `_RECEIVED_SIGNALS`, the pool, the lifecycle span | configure, serve, stop, report, restore the default | uvicorn replaces, captures and re-raises signals; every step may fail | the pool is closed, a SIGTERM is survived and named, a failure has its exit code |
| Run log file *(Launcher)*: `prepend_trace_summary` | the file of this run | read all, truncate, write all | everything is in one process's memory for a moment | nothing is dropped that was not read |
| Container start, migrations *(Deploy)*: `entrypoint.sh`, `alembic/env.py`, `alembic/versions/*` | committed schema, open transactions, the advisory lock | validate, lock, upgrade revision by revision, commit, start | replicas that start together, images of different heads, kills and lost connections | the schema is what its version says; who serves has its schema |
| LLM service in mock mode, tool binding, tool runner, prompt adapter *(AgentTurn)*: `agents/llm_service.py`, `llm_service_mock.py`, `tool_runner.py`, `prompt_llm_adapter.py` | the conversation, which the caller keeps; the tools bound to a copy of the service | bind, reply, run a tool, prompt | which tools a turn has used is worked out again at every reply; all verticals share one service | each tool once per question, a prompt answered in text, a turn that ends |
| Mutation runner *(MutationRun)*: `scripts/run_mutations.py` | the file being mutated and its backup, the baseline in the catalogue | back up, mutate, run the tiers, restore, compare, record | kills and interrupts between and inside writes; tiers that hang or break; local edits | one defect is measured, the checkout comes back, no catch is forgotten |
| Test runner *(MutationRun)*: `scripts/run_all_tests.py` | the Compose project of the checkout | up, suite, `down -v` | an abandoned run takes the stack of the next one down | (through the runner above) |
| Extraction, product check *(Extraction)*: `scripts/extract_reference_vertical.py`, `check_product_from_template.py` | the vertical's files, the lines it added to shared files, the template's tools | plan, cut, copy, delete | cuts that fit after edits and take too much; a script that deletes itself | all of the vertical or none of it, and no line that the project wrote |
| Migration gate *(MigrationGate)*: `scripts/validate_migrations.py` | none of its own: it upgrades the database it looks at | read the graph, ask the database, compare stamps, upgrade, check | worktrees that share a database; skips | a green run stays green, 0 means looked at, the right branch is blamed |
| Architecture gate *(Architecture, Gates)*: `scripts/validate_architecture.py`, `validation_support/dynamic_imports.py` | none | read imports, judge them by layer | the many ways to write an import | no layer loads what it must not |
| Endpoint wiring gate; routing, dependencies, service registration *(EndpointWiring, Gates)*: `scripts/validate_endpoint_wiring.py`, `api/router_registration.py`, `api/dependencies.py`, `core/service_registration.py` | none | read the chain from route to service | every link is in another file | a route is reachable and its service is found |
| Settings and guards | none | read, refuse | spellings, combinations | – |
| Formatting, redaction, serialization, logging configuration | none | write one record | data | – |
| Remaining gates, doctor, generators | none | match text | – | – |

### Where the parts meet

* `Readiness` awaits the database check that `DatabaseProbe` details. `Readiness` uses of it only
  that it answers within its budget, which is `EveryCheckAnswers` of `DatabaseProbe` together with
  its timer.
* `DatabaseProbe` reads the `alembic_version` that `Deploy` writes; its schema sequence is one that
  `Deploy` (plus a corrupted row) can commit, in order.
* `ReferenceTasks` relies on the unique index that `Deploy` creates in its third revision;
  `OneOpenTitle` of `Deploy` and `TableIsConsistent` of `ReferenceTasks` are two halves of one rule:
  from the moment the index is committed, and under it.
* `HttpRequest` writes the log with the operators of `SpanLog` and reads it back with those of
  `TraceTree`, so a property relates what happened to what a reader of the log sees.
* `Launcher` runs the lifespan around all requests and renders the log that they wrote.
* `Gates` composes `Architecture` and `EndpointWiring`: a green run is both validators on one
  checkout, and its properties speak of what Python then loads and what the application serves.
* `MigrationGate` runs the same Alembic upgrade as `Deploy`, over an arbitrary revision graph in
  place of the shipped chain of three; `Deploy` details the transaction that is one step here.
* `AgentTurn` runs `run_tool` as one of its outcomes; the span around it is in `HttpRequest`.

## 2. Plan

Written before the modules, in the order of importance for a user of the service; what is done is
marked.

1. **ReferenceTasks** over `TaskData`, with the abstract specification `AtomicTasks` (an indivisible
   patch). Done: one run, five theorems including the refinement.
2. **DatabaseProbe.** Done: two runs (safety, liveness), three theorems.
3. **Readiness** with the LLM probe and time. Done: one run, five theorems.
4. **HttpRequest** composed of `SpanLog` and `TraceTree`. Done: one run, four
   theorems, one for each property of the run.
5. **Launcher.** Done: one run, three theorems.
6. **Deploy.** Done: one run, four theorems.
7. **AgentTurn**: the deterministic agent of `llm_service_mock.py` in the tool loop. Done: one run,
   a theorem for each of its two safety properties.
8. **MutationRun**: `scripts/run_mutations.py` as a program that is killed. Done: one run,
   four theorems, one for each property of the run.
9. **Extraction**, with the product check. Done: one run, two theorems, one for each property of
   the run.
10. **MigrationGate** in worktrees that share a database. Done: one run, three
    theorems, one for each property of the run.
11. **Gates** over `Architecture` and `EndpointWiring`. Done: one run, three theorems, one for each
    property of the run.
12. Compositions (not done): `Readiness` with `DatabaseProbe` in place of its abstract database check;
    `Deploy` with the writes of `ReferenceTasks` in place of `WritesDuplicate`.

The settings guards were planned as a module and dropped: they are independent conditions over one
environment, and a model of them would have repeated them.

Abstract specifications worth stating: `AtomicTasks` (stated and refined); for 12, the database
check of `Readiness` as the abstract specification of `DatabaseProbe`.

## 3. The modules and the code

Every definition that stands for code has a row in the `map` of `PROJECT.json`. A definition
introduced by the comment *Mutant* is no part of a specification: it is a variant that a plausible
bug would make of the definition that follows it, and the table of mutants says which property it
breaks. The conventions common to all modules:

* An action is what runs between two awaits of one coroutine (or between two calls into code of a
  vertical, for `HttpRequest`; between two statements at which a signal matters, for `Launcher`;
  one shell step or one SQL statement, for `Deploy`).
* A history variable is declared with the word *history*; no guard of an action reads one.
* Names that the code uses are kept (`table`, `cur`, `new`, `ALLOWED_STATUSES`,
  `_active_db_probes` as `registered`, `_probe_cache` as `cache`, `saved`/`captured` after
  uvicorn's).

### `TaskData`, `ReferenceTasks`, `AtomicTasks`

`TaskData` is the task as data. `Row` is `ReferenceTask`; `Keep` is the `UNCHANGED` sentinel of the
patch; `Valid` is `check_title`, `check_details`, `check_status`; `Apply` is
`dataclasses.replace(current, …)` with its new stamp; `TitleTaken` is the partial unique index
`uq_reference_tasks_open_title` on `lower(title)`. Titles, texts and stamps are model values,
because the code compares them and nothing else.

`ReferenceTasks` is the service over the repository over one table.

| Action | Code |
|---|---|
| `RefuseCreate`, `BeginCreate`, `CreateAnswered` | `create_task`, `add`: stamp and uuid4 first, then the checks, `INSERT`, `UniqueViolation` as `TaskTitleTakenError` (409) |
| `RefuseUnread`, `BeginRead`, `EndAfterRead` | `get_task`; the start of `update_task`: an empty patch is a 422 before any query, an id that is no UUID a 404 without one, a bad field of a missing task a 404 |
| `BeginWrite`, `EndAfterWrite` | `update`: `UPDATE … WHERE id = … AND updated_at = … RETURNING` |
| `BeginReread`, `EndAfterReread` | the second read, which tells a moved row (409) from one that is gone (404) |
| `DbSelect`, `DbInsert`, `DbUpdate` | PostgreSQL executes one statement (autocommit), whether or not its request still listens |
| `Interrupted` | the driver raises, or the worker dies; a statement stays on its way |
| `RemovedByOther` | a row removed outside the API |

`AtomicTasks` is what clients are promised: create, patch and remove, each in one step, with only
patches that clients send. `ReferenceTasks!AtomicUpdates` instantiates it with the same `table`: the
refinement mapping is the identity on the table, and every other variable is implementation.

### `DatabaseProbe`

`registered` is `_active_db_probes[id(pool)]`, `state`/`outcome` the task, `settling` the queue of
done callbacks, `cancelled` the calls of `cancel()`; `mine` is the local `probe` of a request.

| Action | Code |
|---|---|
| `MigrationsUnreadable`, `RefuseWhileInFlight`, `StartProbe` | `_check_database` up to `asyncio.wait`: no await in between, so one step |
| `TimerFires`, `ProbeWakes` | what wakes `asyncio.wait(…, timeout=…)`; the request resumes in a step of its own |
| `ReadVerdict`, `GiveUp`, `RequestCancelled` | done: read the result; undone: cancel, answer, never await; `finally` on cancellation |
| `GetConnection`, `CheckPasses`, `CheckFails`, `NoVersionTable`, `VersionTableExists`, `ReadVersion`, `ConnectionLost`, `CancelDelivered` | `_run_db_probe` over a psycopg pool whose `check` runs a query before handing out a connection |
| `Settled` | the done callback |
| `ServerFreezes`, `ServerAnswersAgain`, `SchemaMoves`, `OtherRequestTakes`, `OtherRequestReturns` | the world |

### `Readiness`

`cache`/`cacheAge` are `_probe_cache` and its stamp, `lock`/`waiters` the `asyncio.Lock`. A tick
passes only when the event loop has nothing ready (`Idle`): no waiter to wake, no timer due.

| Action | Code |
|---|---|
| `NoServices`, `AnswersWithoutProvider` | `_build_readiness_response` without services; mock mode, `init` mode, a missing LLM service |
| `AnswersFromCache`, `CallsProvider`, `Queues`, `Granted` | `_cached_or_fresh_probe`: look, lock, look again |
| `CallEnds` | `_execute_live_probe`: answer, error or `wait_for`'s timeout, cached alike |
| `DbAnswers` | the database check (detailed in `DatabaseProbe`) and the verdict |
| `Cancelled` | the client left: the lock is released, or the queue left, and nothing is cached |

### `SpanLog`, `TraceTree`, `HttpRequest`

`SpanLog` has the records of a span, the judgement of an exception (`IsClientRejection`,
`ErrorLevel`), the counters of the root. `TraceTree` has `ParseEvents`, `SpanNodes`, `TreeRoots`,
`Shown` and `TraceFailed`: `_parse_events`, `_build_tree` and the mark of `format_trace_for_llm`. The
records of a trace keep their places in the log: a reader depends on their order only, so gaps
between them say nothing.
`HttpRequest` is one request through the ASGI stack. `frames` is the chain of context variables
(`span` keeps its token in a frame), `exc` the exception in flight, `observed` the status the
observing `send` saw, `got` what the client got.

| Action | Code |
|---|---|
| `Ping`, `Arrives`, `RefusesBody` | `AILoggingMiddleware.__call__`: sampling of liveness pings, the root span, the declared length |
| `OpensSpan`, `ClosesSpan`, `Raises`, `Catches`, `LeavesSpan`, `Streams`, `Returns` | any endpoint: `logger.span` entered and left, errors raised, caught or let through |
| `CallsProvider`, `ProviderReplies`, `ReplyIsInvalid`, `AttemptFails`, `TriesAgain` | `_call_llm_with_retry` and its records |
| `MeetsHandlers`, `Answers`, `Finishes` | the five exception handlers inside the middleware; the response on its way out; the root span closed |
| `Fails`, `HandlesEscaped`, `Sends500`, `LosesThe500` | an exception that escapes the middleware, and the 500 that `ServerErrorMiddleware` sends outside it with the trace id restored |
| `Interrupted`, `IsCutShort` | `CancelledError` at an await, through every open span |

One request stands for all: each is a task with its own copy of the context variables, its own
root span and its own trace id, and the reader selects by trace id.

### `Launcher`

`at` is the statement of `main()` (or of uvicorn inside it) the process is at; `disposition` is who
gets a SIGTERM, `saved` what uvicorn found and will put back, `captured` what it caught and raises
again, from the last one back to the second SIGINT from the end (`RaisedAgain`); `log` is the set of lines written, `read` the copy `prepend_trace_summary` made.

| Actions | Code |
|---|---|
| `Configures`, `RefusesConfiguration`, `InstallsHandler` | `main()` up to `uvicorn.run` |
| `EntersUvicorn` … `ReturnsFromUvicorn` | uvicorn (external), `create_app`, `lifespan` with `pool.open()`, the port, serving, `cleanup_services`, unwinding with the signals raised again |
| `Reports`, `HandlesProjectError`, `HandlesInterrupt`, `RestoresDefault`, `Completes`, `ClosesLifecycle` | the rest of `main()`: its clauses, its `finally`, the end of the span |
| `ReadsLog`, `RendersNothing`, `Truncates`, `WritesSummary`, `WriteFails`, `Exits` | `prepend_trace_summary`, the exit code of `run_application` |
| `Sigterm`, `SigintIsCaptured`, `SigintIsRaised` | a signal at any statement |

### `Deploy`

| Actions | Code |
|---|---|
| `Checks`, `Starts` | `entrypoint.sh`: settings, the toggle, `exec` |
| `TakesLock` | `pg_advisory_xact_lock`, the first statement of the transaction in `env.py` |
| `ReadsVersion`, `MeetsForeignRevision`, `AppliesRevision`, `RevisionIsRejected`, `Commits`, `CommitIsNotHeard` | `run_migrations` over the three revisions, in one transaction; the answer to the commit may be lost |
| `LosesConnection`, `IsKilled`, `IsRestarted` | the failures |
| `WritesDuplicate`, `DuplicatesAreCleaned` | a server of an image that serves without the unique index; an operator |

### `AgentTurn`

`mockTools` is what is bound to a copy of the service (`"shared"` is the service itself), `conv` the
messages the vertical's loop keeps, `stage` where that loop is. The service has no memory of a turn:
`MockResponse` is a function of the tools, the messages of the current turn, and how many messages
there are (which makes the call ids of a conversation differ). `OfKind` picks the messages of one kind
in their order; it is a recursive function, so that it can be proved about.

| Actions | Code |
|---|---|
| `BindTools` | `bind_tools`: refused when a tool's arguments cannot reach the provider or cannot be checked, else a copy |
| `Question`, `RunTool` | the loop of a vertical (external) over `run_tool`; it hands back a result or an error, or lets the error end the turn with a call unanswered |
| `Call` | `LLMService.call` in mock mode: `_collect_tool_messages`, `_answered_tool_names`, `_build_mock_response` |
| `Prompt` | `PromptLLMAdapter.call` over the shared service |

### `MutationRun`

`disk` and `backup` are a target file and its `.mutation-backup`; `catches` is what the tests really
notice, which the run does not know; `baseline` what the catalogue records. `inTier`, `stack` and
`orphan` are the end-to-end tier, its Compose project and an abandoned tier.

| Actions | Code |
|---|---|
| `Start` | `main` up to the first tier: leftovers back, local edits refused |
| `RunLocalSuites`, `StackUp`, `RunFunctionalStep`, `TierTimesOut`, `OrphanEnds` | `run_tier`, the two tiers of `run_all_tests.py`, the ceiling that kills `make` only |
| `ControlDone`, `WriteBackup`, `WriteMutant`, `MeasureDone`, `Restore`, `Unlink` | the control run and `measure_one` with its `finally` |
| `Report` | the second control, regressions, the recorded baseline |
| `Kill`, `Interrupt` | at any step and inside any write, without and with the `finally` |
| `Touch`, `CheckoutCatalogue` | the developer, between two runs |

### `Extraction`

`remaining` is the plan, carried out one file per step; `text` holds the lines of the shared files,
`notes` the files that a project put into the directories of the template's tools, known to git or not.
`Refusal` is `build_plan` with its refusals in their order; `ApplyCut` is `_apply_cut`, `MakeCut` one
turn of `build_plan`'s loop, and `AfterCuts` the whole loop, each cut on what the ones before it left;
`IsOurs` compares what the cuts would take with what was shipped, both without the blank lines at their
end (`Trimmed`), as the digests are taken. `EditedFiles` is what the plan writes: what the cuts leave,
without the sentences on the vertical in `docs/project_context.json` (`WithoutSentences`), and with the
new place of every file that moves, in the project's lines too (`Point`, `PointAll`). `Deleted` is what
the deletions name; a directory of the template's tools goes with all that git knows in it, and `Sweep`
takes whatever else lies there.
`ShippedAssumption` says of the list of cuts that every one fits the template
(`test_extract_reference_vertical.py` runs them on it) and that none of the vertical's lines is left
(the product check looks for what is).

| Actions | Code |
|---|---|
| `RunInit` | `build_plan`, whole and before the first write |
| `ApplyPlan` (`Copy`, `WriteDrop`, `WriteShared`, `Delete`, `Sweep`, `FollowUp`) | `apply_plan` and the follow-ups of `main` |
| `KillExtraction` | between any two files |
| `Edit`, `ReplaceIdentity` | the developer |

### `MigrationGate`

One gate per worktree; `files` is the revision graph on its branch, `orm` its metadata, `stamp` and
`schema` the database its `.env` names. `Walkable` refuses a missing down_revision and a circle of them;
`Below` is a smallest closed set of revisions, `Pending` what an upgrade would run, `CanUpgrade` whether
it can. Three variables are history, for the properties: `green` (this worktree passed, and neither it
nor its database was changed since), `sight` (what a run knows of the stamp when it comes to upgrade;
`Overtakes` is the gate of another worktree moving it) and `lost` (revisions whose file it had and lost).

| Actions | Code |
|---|---|
| `Start` | the graph, before anything else; then the switch of the database |
| `IsDatabaseReachable`, `ForeignRevisionIssue`, `UpgradeHead`, `Check` | the checks that need the database, in their order, each reading it anew |
| `ChangeModel`, `AutogenerateMigration`, `MergeBranch`, `Repoint`, `MergeHeads`, `DropFile`, `DbUpWorktree`, `HostChanges` | developers, git, Alembic's commands, the host |

### `Architecture`, `EndpointWiring`, `Gates`

The two validators as operators over what they read from the syntax, and beside each, written from
the language and the application and not from the validator, what is then the case: `Loads` and
`Reached` (what Python loads), `Starts`, `Routed` and `Served` (what FastAPI and `_get_service` do
with the same files). `Gates` runs them in the order of `make quality-gates` on a checkout that a
developer changes one edit at a time (`AllParse`: the first of them reads every file of `project/`, the
wiring's too, and refuses one that does not parse; `WriteImport`, `EditRegistry`, `EditDependencies`,
`EditRegistration`, `EditEndpoint`, `BreakFile`).

## 4. What the runs check

Every run passes: TLC explores the instance to the end.

| Run | Instance | Distinct states | Shows |
|---|---|---|---|
| `reference_tasks` | 2 requests, 2 ids, 2 spellings of one title, 3 patches: two that collide, one that is refused; 3 stamps that never repeat | 62,258 | `NoLostUpdate`, `TableIsConsistent`, `AnswersAreTrue`, `AtomicUpdates` (the refinement) |
| `database_probe` | 2 polls, 2 probe names, a pool of 1, five schemas: empty, old, current, newer, corrupted | 2,296,912 | `OneProbeAtATime`, `NoOrphanProbe`, `VerdictIsTrue` |
| `database_probe_live` | the same with one schema and fairness | 95,304 | `EveryCheckAnswers`, `Recovers` |
| `readiness` | 3 polls, TTL 3, provider timeout 2, database budget 1, 1 cancellation, 6 deployments | 430,230 | `AnswersInTime`, `CallsAreSpaced`, `ReportsLastAnswer`, `EveryPollAnswers` |
| `http_request` | 2 child spans, 2 provider calls of 2 attempts, 1 caught exception, both log levels | 1,570,902 | `SummaryMatchesAnswer`, `CountsMatchTheTree`, `FailuresAreShown`, `ProviderFailureIsNotTheCallers` |
| `launcher` | 3 signals | 27,044 | `PoolIsClosed`, `OutcomeIsTrue`, `TermIsSurvivable` |
| `deploy` | 3 containers of heads 2, 3, 3; 2 kills or restarts | 8,322 | `SchemaIsItsVersion`, `CreatesOnce`, `ServesItsSchema`, `NobodyWaitsForever` |
| `agent_turn` | 3 agents over one service: three tools, two of them in another order, tools that are refused; 2 questions each | 7,752 | `EachToolOncePerTurn`, `PromptGetsText`, `EveryTurnEnds` |
| `mutation_run` | 2 defects in a file each, the 2 shipped tiers, any catches, an empty or a true baseline; 1 kill or interrupt, 1 step of the developer, any number of runs | 2,260,032 | `MeasuresOneDefect`, `EndsWhereItBegan`, `RecordsTheTruth`, `NeverForgetsACatch` |
| `extraction` | 2 sample files around the script in the order of deletion, 3 shared files: one with two cuts of which one runs to its end, one with a cut inside, the context with a sentence on the vertical and a line that names a sample file; 1 directory of tools; 3 edits, 1 kill | 621,490 | `WholeUnlessKilled`, `KeepsTheProjectsWork` |
| `migration_gate` | 2 worktrees, 3 revisions of which one fails, 1 merge revision; 4 steps of developers and host, any number of gates | 1,745,241 | `GreenStaysGreen`, `GreenMeansLookedAt`, `BlamesTheRightSide` |
| `gates` | the template's wiring, a file of every layer, 17 import statements; 2 edits | 33,540 | `GreenMeansLayered`, `GreenMeansRouted`, `GreenMeansServed` |

Modules also state what no run lists, because a listed property or a theorem says more, or because a
single guard keeps it: the type invariants, `OneProviderCall`, `OutageNeedsCriticality`,
`OneOpenTitle`, `WrittenBackIsAll`, `RefusedMigratesNothing`. TLC confirms each when it is added to
its run's configuration.

### The properties in words

*ReferenceTasks.*
`NoLostUpdate`: every `UPDATE` that happened stored the row it replaced with only the fields its
own patch names changed.
`TableIsConsistent`: at no moment are two open tasks under one `lower(title)`.
`AnswersAreTrue`: a 404, 409 or 422 has written nothing and has nothing on its way that could; a
201, or the 200 of an update, was stored under its id, and no request ever wrote twice; a 409 of an
update is explained by a concurrent write of the same row or by an open task that had the title.

*DatabaseProbe.*
`OneProbeAtATime`: a frozen server costs readiness one task and one connection, whatever the order
of timers, callbacks and polls.
`NoOrphanProbe`: an undone probe is waited for or has been cancelled.
`VerdictIsTrue`: a verdict was true of the schema at some moment between the arrival of the poll and
its answer; a schema ahead of the code is healthy, one behind is not.
`EveryCheckAnswers`: the check never waits for the end of a cancelled probe.
`Recovers`: once the server stays up and no budget runs out, verdicts that were read come again and
again; nothing that a freeze left behind blocks them.

*Readiness.*
`CallsAreSpaced`: a provider call begins only when the last completed one is a whole TTL old.
`ReportsLastAnswer`: what a poll reports is the outcome of the last completed call, younger than
the TTL.
`AnswersInTime`: one provider timeout and one database budget, and one more timeout for each call
cancelled ahead in the queue. The extra term is real: a cancelled call caches nothing, so the next
waiter begins a call of its own.

*HttpRequest.*
`SummaryMatchesAnswer`: exactly one summary per logged request, whose status and outcome are those
the client got; an exception after the response started is a server error beside the status that
was sent.
`CountsMatchTheTree`: the counters of the summary are the sizes of the tree that can be rebuilt from
the records.
`FailuresAreShown`: no record that names a failure is outside its trace, and a request that failed
is marked: one an exception escaped from, and one that ended by answering 5xx, also when nothing was
raised for it (the 503 of readiness), where the summary is all that says so. An interrupted request
is *cancelled*, whatever it had begun to answer; that is what `trace_formatter.py:145-150` wants.
`ProviderFailureIsNotTheCallers`: a failure of the provider that escapes the endpoint is never
answered with a 4xx, and never logged as a client error.

*Launcher.*
`TermIsSurvivable`: from the installation of the handler to the end of the `try` block no SIGTERM
ends the process, neither one that arrives nor one that uvicorn raises again.
`PoolIsClosed`: past `uvicorn.run` no pool is open or opening.
`OutcomeIsTrue`: a server that got a SIGTERM is not closed as a plain return, unless two SIGINTs came
after it (observation 7), and exit code 0 and the outcome *ok* mean that it served or that it was
asked to stop.

*Deploy.*
`CreatesOnce`: what a migration is about to create exists neither in the database nor in another
transaction. `SchemaIsItsVersion`: a kill between two revisions leaves no schema in between.
`ServesItsSchema`: a container that serves with a pool has its image's schema.
`NobodyWaitsForever`: whoever waits for the lock gets on.

*AgentTurn.*
`EachToolOncePerTurn`: within one question the model asks for the agent's own tools, each once and in
binding order, and answers after all of them, also after a turn that was given up with a call
unanswered and when results carry no tool name.
`PromptGetsText`: nobody's tools are bound to the shared service, so a prompt never gets a tool call.
`EveryTurnEnds`: a reply computed from the messages alone never asks for ever.

*MutationRun.*
`MeasuresOneDefect`: a run of the whole catalogue measures the commit's code with exactly one defect,
and its controls the commit's code, whatever a killed run left.
`EndsWhereItBegan`: a run that ends by itself or by one interrupt leaves the files as the commit has
them and no backup.
`RecordsTheTruth`: a verdict that enters the baseline is what the tests do to that defect; no tier
that broke, hung or lost its stack is written down as a catch or a miss.
`NeverForgetsACatch`: no recorded catch moves to a later tier or to *missed*.

*Extraction.*
`WholeUnlessKilled`: unless a run is killed, the vertical is there with all it needs or gone with all
that imports it, and a project that passes the product check has it gone. A run that came to its end is
swept: no tool of the template's is left, nothing in their directories, and no shared file names a sample
at the place it had.
`KeepsTheProjectsWork`: killed or not, a run takes no line that a project wrote from a shared file, but for
a sentence on the vertical in the context, and changes nothing in one but the place of a file that moved;
the lines stay in their order, and an edited file of the vertical stays. It promises nothing of files in
the template's own directories: those go, the project's among them, as
`test_extract_reference_vertical.py:233-247` wants.

*MigrationGate.*
`GreenStaysGreen`: a run that passed passes again, under any settings, until its branch changes, the gate
of another worktree moves the database, or the database is gone. The gate migrates what it judges, so this
is what its verdict is worth to the next command.
`GreenMeansLookedAt`: exit code 0 means one chain in the files, and no skip of a database that had to
be verified.
`BlamesTheRightSide`: a database stamped with what this branch does not know is reported as another's; as
a failed upgrade only when the stamp could not be read, or the gate of another worktree moved it after it
was (or when the checkout has no revisions at all, which the code leaves to Alembic). With a database of
its own, which is the remedy the gate proposes, a worktree meets no such race, and what is unknown to it
there is a revision whose file it has lost itself.

*Gates.*
`GreenMeansLayered`: after a green run no file loads, by any visible import, what its layer must not,
and the domain reaches nothing but itself and its allowed libraries through any chain of imports.
`GreenMeansRouted`: after a green run the application starts and every handler is where a request can
reach it. `GreenMeansServed`: no request finds a service missing that its handler asks for by an alias.

### Bounds, and why they are enough

* *Requests and polls.* The races of `ReferenceTasks` are between a reader and a writer of one row
  or between two writers of one title: two requests. What a third could add is a chain of moved
  rows, and the theorems hold for any number. `Readiness` has three polls, because its hazard is the
  *second* waiter: one in the call, one that is granted the lock, one that queued behind it.
  `DatabaseProbe` has two polls and two probe names; a name is reused as soon as nothing refers to
  it, so runs of any number of probes are covered, and a third name could only stand for a second
  undone probe, which is what `OneProbeAtATime` excludes.
* *Stamps.* Three: one for the initial row, one for each writer; in the run they never repeat, which
  `NoLostUpdate` and the refinement need. What does not need it is proved for any clock (section 6).
  Runs where stamps are used up stop, which is why `CHECK_DEADLOCK FALSE` is set; so does the end of
  all requests.
* *Ids.* One stands under the initial row, one is free for a create that races its reopening.
* *Schemas.* One of each class that `_check_database` tells apart, in the order a deployment meets
  them.
* *Ticks.* TTL 3 > provider timeout 2 > database budget 1 keeps the order of the configured values
  (30 s, 5 s, 2 s) and makes every boundary (exactly the TTL, exactly the timeout) reachable.
  `took` is counted up to a value that no poll may reach, so the count is finite and a slower poll
  would still be seen.
* *Spans.* A span in a span is the deepest nesting that the reader's rules tell apart (parent
  present, parent absent); two successive spans are the other case of two. Two attempts are a
  retried and a final failure; two calls are a call after a failed one.
* *Signals.* One during the startup, one that stops the server, one after the default was restored.
* *Containers.* Two replicas that race for an empty database and one of an older image; two kills or
  restarts, so that one container can be killed inside a migration and another, or the same, again.
  `CHECK_DEADLOCK FALSE` is set because a deployment in which everything serves or was refused has
  nothing left to do.
* *Questions.* Two: a second question is what a scan of the whole conversation gets wrong.
  `MaxMessages` is more than any two turns need, so it never stops a turn.
* *Defects.* Two in two files: one left by a killed run while the other is measured. One stop and one
  step of the developer in any order around any number of runs; what a stop leaves is on disk, so a
  second one meets only what one of these runs may leave.
* *Edits and kills of the extraction.* A line moved into a cut, one lost beside it and a file of the
  project's own are three edits. One kill: after it every later run is refused or has nothing to do.
* *Worktrees.* Two share a database; two good revisions are a fork, a third that fails is a broken
  upgrade on top of either. Four steps reach a fork, its merge and a database moved by the other.
* *Edits of the gates.* Two: a green checkout is one edit away from every single fault, and the second
  is the one that could hide it. The theorems hold for any number. `CHECK_DEADLOCK FALSE` is set because the edits are used up.

Symmetry (polls and probe names; worktrees and revisions that work) is used in safety runs only.

### Fairness

* `DatabaseProbe`: weak fairness of polling (an orchestrator keeps polling; the code cannot), of the
  timer, of resumption, of the done callback, and of a server *that is up* for the query in
  progress and for a cancellation. Strong fairness of *some* probe getting a connection: the pool
  serves its waiters in turn, while other requests take and give back in between; and weak fairness
  of those returning their connections while the server is up. No fairness makes a frozen server
  answer again, which is why `Recovers` is conditional.
* `Readiness`: time passes, and what is due runs: a granted lock, an expired timer. The provider is
  never obliged to answer.
* `Deploy`: weak fairness of the statements of a live session; strong fairness of taking the lock,
  since PostgreSQL grants a heavyweight lock in the order it was asked, so a waiter is not
  overtaken forever.
* `AgentTurn`: weak fairness of a loop's next call and next tool, which its vertical awaits one after
  the other. No loop is obliged to bind or to ask.
* The other modules state no liveness: what keeps a request or a process from ending is the endpoint
  or uvicorn, and what ends a repository script is the person who started it.

## 5. Observations

Statements of a comment or document that the code does not keep, met while modelling. Each is a
definition of its module with a configuration of its own, kept out of the runs: the command shows
the counterexample.

1. **A healthy probe in flight makes another poll "timed out"** (`TimedOutMeansBudgetSpent`;
   `tlc -config DatabaseProbeBusy.cfg MCDatabaseProbe`). `health.py:116` answers
   `Database check timed out` whenever the pool's probe is undone, also when a concurrent poll
   started it a moment ago. The comments give a *stuck* probe as the reason. With two pollers (a
   load balancer and an orchestrator) a healthy replica can answer 503.
2. **A DEBUG span detaches what is inside it** (`NoDetachedSpans`;
   `tlc -config HttpRequestRoots.cfg MCHttpRequest`). A span left at its default level has no node
   in a log at INFO, and its INFO children become roots of the trace (`trace_tree.py:362`), beside
   `http_request`. The tracing guide says of such a span only that it shows nothing.
3. **The summary is not protected from SIGTERM** (`NotKilledMidWrite`;
   `tlc -config LauncherMidWrite.cfg MCLauncher`). `main.py:41-43` says that the handler exists so
   that rendering the trace summary is not killed mid-write; the default is restored at 245, before
   the summary, and the file is emptied before it is written again. A second SIGTERM there loses
   the log.
4. **`POSTGRES_ENABLED=0` migrates** (`NoStoreNoMigration`;
   `tlc -config DeployToggle.cfg MCDeploy`). `entrypoint.sh:28` compares with the word `false`;
   pydantic reads `0`, `no`, `off` and other spellings as false too. ADR-006 calls the switch a
   single boolean that also turns the migrations off.
5. **A leftover backup goes over a local edit** (`LocalEditsSurvive`;
   `tlc -config MutationRunEdits.cfg MCMutationRun`). The comment at `run_mutations.py:155` refuses
   to measure files with local edits; `main` restores leftover backups first (270) and looks for
   edits afterwards (271), so an edit made after a killed run is replaced before it is noticed.
   The order is the right one for the measurement (`MeasuresOneDefect` fails with the other).
6. **The extraction is not all or nothing across a kill** (`AllOrNothing`;
   `tlc -config ExtractionKilled.cfg MCExtraction`). The header of
   `extract_reference_vertical.py:3` says *once, all or nothing*. A run killed after the drop
   migration was written meets, when repeated, a file it takes for the project's own vertical, keeps
   everything, and exits with 0. No edited file and
   no line of the project's is lost by it (`KeepsTheProjectsWork`).
7. **Some stops look like a plain return** (`StopIsNamed`;
   `tlc -config LauncherUnnamed.cfg MCLauncher`). `main.py:210-212` reports the signal *so the lifecycle
   summary says why the process stopped rather than looking like a plain return*, and 186 says that
   the two signals behave alike. uvicorn 0.52.1 swallows the `KeyboardInterrupt` of a SIGINT, so a
   server stopped by Ctrl-C alone closes its span as a plain return. So does one that gets a SIGTERM
   and then two SIGINTs: uvicorn raises captured signals again from the last one backwards, the
   second SIGINT raises `KeyboardInterrupt` at once (`asyncio.Runner`), and the SIGTERM before them is
   never raised again, so `_RECEIVED_SIGNALS` stays empty (`Overtaken`).

Smaller ones, without a definition of their own:

* `llm_service_mock.py:28-29`, `71-75` and `146-149` describe a scan of the whole conversation; the
  code scans the current turn, which is what `EachToolOncePerTurn` needs.
* An attempt answered by an unreadable reply raises before `log_llm_call` (`llm_service_live.py:206`),
  so `llm_calls` does not count it.
* A SIGTERM between the installation of the handler and uvicorn's own (`main.py:189`) is recorded, and
  the server starts and serves. No document promises otherwise.
* A disk that fills while the log is written back (`trace_formatter.py:386`) loses the log, and stderr
  says only that no summary was written.
* The ceiling of a tier kills `make` only (`run_mutations.py:121`): an abandoned end-to-end tier later
  runs `down -v` under the next one. No verdict is falsified (`RecordsTheTruth`); it becomes
  *inconclusive*.
* With `--only`, a leftover in a file that is not selected is neither restored nor noticed, which is
  why `MeasuresOneDefect` speaks of the whole catalogue.
* A revision re-pointed onto the other branch's, in a worktree whose database already ran it, leaves
  that database without the other branch's change: the stamp is the head and nothing is pending. Only
  `alembic check` notices. A database that another worktree migrates between the read of the stamp and
  the upgrade is reported as an upgrade failure, and so is one whose stamp could not be read
  (`BlamesTheRightSide` names both).
* What the gates do not see: the file `project/__init__.py` has no layer; a *missing* wiring file parses
  as nothing; with no endpoint handler left, a `router_registration.py` that does not parse passes; the
  class a getter casts to is not compared with what is registered; handlers made with `api_route` or
  `websocket`, and aliases imported under another name, are not counted. `GreenMeansRouted` and
  `GreenMeansServed` speak of what the gates claim to read.

## 6. What is proved

Eight modules hold theorems; `tlapm` proves every obligation in them. The theorems hold for all values
of the constants that satisfy the named assumptions; TLC evaluates those assumptions in the runs.

**Assumptions.** `DataAssumption` and `RequestAssumption` (sentinels differ from values, accepted
and refused values are disjoint, `Lower` is defined on all titles, the initial table respects the
unique index), `ProbeAssumption`, `ReadinessAssumption` (durations are positive),
`MaxSignalsAssumption`, `HeadAssumption`, `NoneAssumption`, `MaxStopsAssumption`,
`HttpRequestAssumption` (the levels written are production's or development's), `CatalogueAssumption`
(there is a tier, and the end-to-end one is among them), `MigrationAssumption` (no worktree is called *shared*), `AgentAssumption` (no
binding names a tool twice), `NamesAssumption` and `CheckoutAssumption` (the template's files lie below
`project`, its wiring has the shape the validators read, a route is one of its file's routers),
`ExtractionAssumption` (among the rest: a line that a developer writes is not the vertical's, and a line
with the new place of a file does not name the old one), `ShippedAssumption` (the cuts fit the template and
take the whole vertical from it) and `ReasonsAssumption` (a reason is something). `FreshStamps`, that no two
readings of the clock agree, is no assumption of a module but a hypothesis of the two theorems that
need it; so is `ForwardOnly`, that the schemas of a database are a history that only moves forward,
of the one theorem that compares a verdict with that history. The schemas of the runs satisfy it.

**ReferenceTasksProofs.**
* `Typing` (of `TypeOK`, which no run lists): with `Wired`, which ties a statement on its way to an operation with a real id and to a
  row: `new` is a row exactly when there is something to write, which typing alone does not say.
* `OneOpenTask`: needs nothing but typing. The database decides each statement, so the rule does not
  depend on the clock, on the order of statements, or on who still listens.
* `NoUpdateIsLost` (under `FreshStamps`): the argument is that a stamp identifies a *version of a
  row*. `StampsAreUsed`: every stamp anywhere was read from the clock. `PendingIsNew`: the stamp of
  a write on its way stands nowhere else. `ReadIsCurrent`: hence a row with the stamp that was read
  *is* the row that was read. `WritesAsAsked`: and the write on its way was computed from that row.
  Together (`Versions`) they make the `WHERE` clause a comparison of whole rows. None of the parts is
  inductive without the others.

* `ImplementsAtomic` (under `FreshStamps`): every step of the service is a step of `AtomicTasks` or
  leaves the table alone. Beside the invariants above it needs `Claimed` (an `INSERT` on its way is
  at an id that nobody else has, with no row under it: an id is drawn once) and `Checked` (an
  `UPDATE` on its way applies a patch that a client sent and that passed the checks).

* `AnswersHold` (for any clock; `FreshStamps` is not needed): by `TypeOK`, `Wired`, `Claimed`,
  `Checked` and three invariants about what an answer can rest on. `Ledgers`: what a request has
  written by where it stands, nothing before its one write and that write from then on; hence a
  refusal wrote nothing and a success once. `Stood`: a row that stands under an id is the initial one
  or was written there, and no create is on its way to an id where a row has ever stood. `Causes`: each
  way to a refusal has its cause at the moment it is sent, and keeps it: a row that was read is still
  there, or another request replaced it, or it was removed; a title that was taken has stood under
  another id. The removal outside the API is why *gone* and *moved* are two cases, and why a second
  read that finds a row proves that another request wrote it.

**DatabaseProbeProofs.**
* `OneProbe`, `NoOrphans`: by `SingleFlight`: an undone probe is the *registered* one. It is needed
  because the code looks only at the registration; it holds because the callback removes a
  registration only if it is its own.
* `VerdictsAreTrue` (under `ForwardOnly`): by `Fresh`: the revisions a waited-for probe holds were
  read between the arrival of the poll that started it and now. No poll adopts another's probe, so
  the probe was started after the poll came in. `VerdictTellsHistory` then says that the comparison
  with the revisions the code ships places a schema in its history, a release ahead included.

**LLMServiceProofs**, on the two sides of the LLM service.
* `Typing` and `OneCall` (of definitions no run lists), `CallsKeepTheirDistance`, `ReportsTheLast`,
  `BoundedWait`: by
  `IInv == TypeOK /\ LockAndQueue /\ CacheIsHeard /\ TimeIsKept`. `LockAndQueue`: the lock is held
  exactly by the poll in the call, the queue holds exactly the queued polls, each once.
  `CacheIsHeard`: the cache is the last completed answer and its age is true. `TimeIsKept` bounds what
  a poll has spent at each await: while it queues its clock runs with that of the call in flight, and
  when the lock is free it has spent a whole timeout only if the call it waited for has filled the
  cache. That last implication is why the second look at the cache bounds the wait.
* `TurnsAreKept`, `EachToolOnce`, `PromptIsText` (of `AgentTurn`, for any agents, tools, bindings and
  questions): by `TurnInv`. `Bindings`: who works has its own tools bound, and the shared service none.
  `InTurn`, of every agent's current turn: it has asked for a first part of the agent's tools, by calls
  of different ids; there are results of all of them or of all but the last, in the same order, and
  each is found by its call. That is what makes `ToolNameOf` right for a loop that leaves the name out,
  and the tool asked for next the first one without a result. It rests on two things a conversation
  must have and that the model had left open: no binding names a tool twice (`IsInjective`), and no
  tool has the name that stands for none. The lemmas on `OfKind` (`KeepsExists`, `OfKindMore`) and
  `CurrentTurn` (`TurnMore`, `TurnNew`) say what one more message adds.

**LauncherProofs.**
* `TermSurvived`: by `Guarded`: at each statement who owns SIGTERM, and what uvicorn will put back.
* `PoolClosed`: by `PoolIsHeld`: a pool is opening or open only inside a lifespan, and a lifespan is
  only inside uvicorn.
* `OutcomeTold`: by `Told`, which carries the end from statement to statement: a SIGTERM that uvicorn
  captured, and that two SIGINTs did not overtake, has reached the handler of `main()` when `uvicorn.run` returns without an exception, a
  clause is entered only by an exception, and only a good end reaches the `finally` clause without
  one. Nothing captures a signal after that, which is where `Guarded` is needed.

**DeployProofs.**
* `SchemaKept`, `CreatedOnce`, `ServesMigrated`, `TitlesKept` (of `OneOpenTitle`): by the invariant that the lock is
  exclusive, that the open transaction sees the committed schema with whole revisions on top
  (`TxFits`), that whoever is past its migration has its schema and nobody takes a revision back
  (`Ready`), and that a duplicate excludes the index, committed or about to be (`IndexHolds`: a
  transaction that has changed the table keeps writers out). `RevisionBuilds` and `RevisionIsNew`
  are the two facts about the revisions it rests on.

**HttpRequestProofs.** For every endpoint, however many spans it nests, calls it makes, exceptions it
catches and attempts a call takes.
* `SummaryIsTrue`: by `Summarised` (there is no summary before the root closes and one after, which
  holds the status the observer saw) and `Answered` (the observer has what the client got, until an
  exception escapes). A 500 sent later is the one the summary foretold: `got` is then still empty.
* `CountsAreTrue`: by `Counted`: the counters count the spans that are *no longer open*, by whether a
  record has made a node of them, while a reader counts nodes. A tool call has its node from its start
  and a span below the level may get one only by failing, so the two agree only when nothing is open.
  `Stacked` (the open spans are those of one chain, with growing ids and the root below) and `Noded`
  (an open span that is not written has no node; the root has none before it closes) carry that
  through any nesting.
* `NoFailureIsHidden`: by `Noded`: the root of a request that is over has exactly one node, and no
  parent in the trace, so the tree has a root to hang a late record on; by `Answered`, an escaped
  exception has left a `critical` record; by `Summarised`, the outcome of the one summary is that of
  the answer, which is what marks a 5xx that nothing was raised for.
* `ProvidersFault`: by `Blamed`: an exception that is the provider's stays a translated or a raw one on
  its way out, and the record of a rejection is written only by what replaces it.

  The module has two kinds of lemma: what one more record does to each view of the log (`Adds`, `Gains`,
  `WriteStart`, `WriteFinish`, `WriteError`, `WriteSummary`, `WriteLeaf`), and one for each action. Every record of a request carries its trace id (`Typing` of the
  log), which is why `TraceViews` lets the reader's tree be reasoned about in the log itself.

**WorkTreeProofs**, on the two tools that rewrite a working tree.
* `OneDefect`, `TreeRestored`: by `Tree`: while a run lives, the files it was asked to change are the
  commit's and have no backup, but for the one file between its backup and its restore; a run starts
  only after what an earlier one left behind has been put back and nothing is dirty.
* `TruthRecorded`: by `Controlled` (a tier that was green in the control run has nothing to say of what
  is on disk beside the planted defect), `Measured` (so green and red are the defect's own) and
  `Observed` (so is every verdict that is not *inconclusive*, which never enters the baseline).
  `FirstExists`, by well-founded induction, is why "the first tier that caught it" is defined.
* `CatchesKept`: by `MayRecord`, and by typing, which says that the ranks of verdicts are comparable.
* `WholeOrGone`, `WorkKept` (of `Extraction`, for any files, cuts, edits and kills): by `ExtractionInv`.
  `Places` is typing. `DoneOrDue`: of everything a whole extraction has to do, each thing is done or
  still in the plan; `WholePlan`: until a run is killed, no plan has been begun or nothing of one is
  forgotten. A kill is the one step that breaks it, which is observation 6. `Sweeping`: what is not swept
  yet is still in the plan. `PlanFits`: what is still to be written has none of the vertical's lines and
  no old place, keeps all the others of the file in their order, and no edited file of the vertical is
  among those to delete. `NoMoreThanShipped`: a
  project removes the vertical's lines and writes none again; needed because a cut is compared by what
  it *takes*: cuts that take what they took from the template take as many of the vertical's lines as
  the template had (`CutsCount`), so none is left.
  What `WorkKept` uses of it does not depend on the list of cuts: what was shipped where they cut, and
  what they put there, is by definition not the project's, nor is a sentence on the vertical or a blank line;
  cuts that take exactly that, but for blank lines at the end (`SameTrimmed`), keep every other line in
  its order (`CutsKeep`), and cuts that would take anything else are refused. The rest of the plan keeps
  them too: sentences are not counted (`KeptFiltered`), and a line is compared after its mentions are
  brought up to date, so doing that changes nothing (`PointAllOnce`).

**GateProofs**, on the three gates.
* `PassedPassesAgain`, `GreenLooked`, `RightSideBlamed`: by `MigrationInv`. `BranchShape` is typing.
  `Checked`: the files of a gate under way are one chain (nobody edits a worktree while its gate runs), and
  from the stamp on it has `sight` of it: read and known, unread, or overtaken. `OwnStamp`: a database of a
  worktree's own is stamped only with what its files have or have had. `StillGreen`: while `green`, the
  files are one chain and the database is at its head with the schema of its metadata. The upgrade of the
  next run is then a step that changes nothing, because everything of a branch is at or below its heads
  (`HeadsReachAll`): a set of revisions that is not would have no head, and so hold a circle.
* `GreenRouted`, `GreenServed`, `GreenLayered` (of `Gates`, for any imports, wiring, statements and
  edits): by `GatesAreJudged`: what a gate has said is true of the checkout as it stands, since every
  edit takes it back. The rest is about the validators alone: no issue means that each link of the
  chain from a route to its service is there (`NoIssueInTheChain`, `FoundIsRegistered`). `GreenLayered`
  says the same of any chain of imports: the modules of the domain, its packages and the empty package
  `project` are closed under loading (`InnocentIsClosed`), by induction over the steps of `Reached`
  (`ReachedWithin`); `DomainLoads` and `ForbiddenLoads` go through every form of import, since
  what Python loads and what the gate resolves are written apart. The attempt at `GreenRouted` found
  that the model let a file that does not parse pass the architecture gate; the code refuses it, and
  so does `AllParse` now.

**What stays with TLC.** Liveness (`EveryCheckAnswers`, `Recovers`,
`EveryPollAnswers`, `NobodyWaitsForever`, `EveryTurnEnds`), since the prover handles neither fairness
nor `ENABLED`. Every invariant and action property of the runs is stated by a theorem.

Induction over data has no rule here that a prover can instantiate. Where a theorem needs it, the
operator is a recursive function of the model (`Only`, `AfterCuts`, `OfKind`, `Reached`), the statement
is a *set* of numbers, and `CountUp` does the induction: a set that has 0 and with each number the next
one has them all, since a least number outside it exists (`FirstExists`, by well-founded induction over
finite sets). Each such operator needs its own proof that the function it chooses exists
(`CuttingExists`, `KeepsExists`, `ChainedExists`). No module
declares a RECURSIVE operator.

## 7. Simplifications inside the models

* *The clock.* Stamps are compared for equality only. That a real clock may step back or tie is the
  residual risk that ADR-007 accepts; `AnswersHold` and `OneOpenTask` do not depend on it.
* *Isolation.* Every statement of the vertical is its own transaction, so it is one step.
* *Workers.* Requests of several workers are not told apart in `ReferenceTasks`: they share nothing
  but the table. The probe and the cache are per process, so `DatabaseProbe` and `Readiness` are one
  process. `Launcher` is one worker; with several, uvicorn's supervisor runs in place of the server.
* *Signals.* A SIGINT while uvicorn unwinds, and SIGKILL, are left out of `Launcher`.
* *Requests.* A status is one of each class that the code tells apart; a stream begins with a 200 or
  with a 5xx, since a 4xx would take the path of the 200. The level of a span is one of the two that the code uses by default; the reuse of a
  client's `X-Request-ID`, which lets two requests share a trace, is left out; the wording of records
  is left out.
* *Provider.* The pause between attempts is an await at which a cancellation may arrive; its length
  is not modelled.
* *Migrations.* `downgrade` is run by hand, the offline branch prints SQL: neither is modelled.

* *Mock agent.* Arguments and texts of a reply are left out; a tool that fails is an outcome, and what
  a loop does with it is its vertical's choice.
* *Mutation run.* Defects are in different files or measured one at a time, so they do not mask each
  other; a local edit is one that no tier notices, since any other fails the control run. Rows an
  earlier stack left change nothing, because `tests/functional/conftest.py` truncates the tables. Two
  runs in one checkout, and edits while a run is alive, are left out. The report file is left out:
  nothing reads it.
* *Extraction.* A write is whole; a kill falls between two files, and an `OSError` in the middle of the plan
  is one: nothing is undone. The files git knows in one directory are deleted in one step. How `ruff` and
  the JSON writer lay out what was written is left out. Equal lines of a file are one string.
  A developer who adds a line adds none of the vertical's; one who removes a line may remove any.
* *Migration gate.* An upgrade is one step (it is one transaction under the lock of `Deploy`), and a
  revision changes the schema in a way `alembic check` sees. Alembic's detection of circles is taken to be
  complete. Files do not change while the gate of
  their own worktree runs.
* *Gates.* The syntax is given as what the validators read from it; which node of the syntax tree gives
  it is not modelled. Every subsystem is on.

## 8. What is not modelled, and why

* **Settings and startup guards** (`core/config*.py`). Their verdict is an input of `Deploy` and
  `Launcher`. The guards are independent conditions over one environment, without state or steps.
* **Formatting, redaction, serialization, error description.** Pure functions of one record over
  strings; no property here depends on their output.
* **Logging configuration, file rotation.** The level filter is a constant of `HttpRequest`;
  which old files are deleted is not modelled.
* **Transport models and protocols, sampling.** Declarations; the sampling of pings is a free choice.
* **`GET /reference-tasks` (list).** Reads one statement and changes nothing.
* **The wording a tool's argument error gets** (`tool_runner.py`), and the pause between two attempts at
  the provider.
* **The other gates, the doctor and the generators** (`validate_runtime_ownership`,
  `validate_repository_metadata`, `validate_test_quality`, `validate_module_sizes`,
  `validate_dependencies`, `validate_secrets`, `validate_cbm`, `doctor_ai_context`, `sync_agent_docs`,
  `create_env_file`). Each is one pass over text, metadata or sizes that do not change under it; what
  it matches is the whole of it, so a model would repeat its patterns.
* **`downgrade` and the offline branch of Alembic.** Run by hand, or printing SQL.
