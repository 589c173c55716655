-------------------------------- MODULE Launcher -------------------------------
(***************************************************************************)
(* The life of one server process: main() of project/launcher/main.py from *)
(* the first log line to the exit code, with the application it builds     *)
(* (composition_root.py), the lifespan that opens and closes the pool      *)
(* (lifecycle.py) and the rewriting of the run's log file after the last   *)
(* line (trace_formatter.py), under SIGTERM and SIGINT at any point.       *)
(*                                                                         *)
(* uvicorn 0.52.1 with one worker is external.  It replaces the handlers   *)
(* of both signals while it runs, puts back what it found, and raises      *)
(* again what it captured, the last signal first.  By then a SIGINT is     *)
(* asyncio.Runner's: the first one cancels the task that is about to end,  *)
(* the second raises KeyboardInterrupt on the spot.  uvicorn swallows the  *)
(* KeyboardInterrupt of either, and ends the process itself when the       *)
(* startup or the binding of the port failed.  A SIGINT that arrives while *)
(* it unwinds is left out.                                                 *)
(***************************************************************************)
EXTENDS Naturals, Sequences, FiniteSets

CONSTANT MaxSignals          \* signals the operator sends, a bound

ASSUME MaxSignalsAssumption == MaxSignals \in Nat

VARIABLES
  fullTrace,     \* ENABLE_FULL_TRACE: the log is a file of this run
  pid1,          \* the process is PID 1, whose unhandled SIGTERM is dropped
  at,            \* the statement the process is at
  sent,          \* how many signals were sent
  disposition,   \* who gets a SIGTERM
  saved,         \* the disposition uvicorn found
  captured,      \* the signals uvicorn caught, in order
  received,      \* _RECEIVED_SIGNALS holds one
  pool,          \* services["db_pool"]
  lifespan,      \* whether the lifespan is entered and not left
  started,       \* uvicorn's server.started
  raised,        \* what main() is leaving with
  status,        \* span_ctx.output["status"] of application_lifecycle
  outcome,       \* the outcome its request.summary names
  log,           \* the lines in the log
  read,          \* original_lines of prepend_trace_summary
  exit           \* the exit code, or how the process was killed

config == <<fullTrace, pid1>>
signals == <<sent, disposition, saved, captured, received>>
server == <<pool, lifespan, started>>
ending == <<raised, status, outcome>>
file == <<log, read>>
vars == <<config, at, signals, server, ending, file, exit>>

Init ==
  /\ fullTrace \in BOOLEAN /\ pid1 \in BOOLEAN
  /\ at = "configuring"
  /\ sent = 0 /\ disposition = "default" /\ saved = "default"
  /\ captured = <<>> /\ received = FALSE
  /\ pool \in {"absent", "unopened"} /\ lifespan = FALSE /\ started = FALSE
  /\ raised = "none" /\ status = "none" /\ outcome = "none"
  /\ log = {} /\ read = {}
  /\ exit = "running"

-----------------------------------------------------------------------------
(* Up to uvicorn.run                                                       *)

GoesTo(here, there) == exit = "running" /\ at = here /\ at' = there

\* Settings valid, log file named, old ones rotated, logging set up again.
Configures ==
  /\ GoesTo("configuring", "starting")
  /\ log' = {"environment", "server_starting"}
  /\ UNCHANGED <<config, signals, server, ending, read, exit>>

\* A settings error is turned into a ProjectError; a log directory that
\* cannot be made raises an OSError, which no clause of main() handles.
RefusesConfiguration ==
  /\ exit = "running" /\ at = "configuring"
  /\ \/ raised' = "ProjectError" /\ at' = "handling"
     \/ fullTrace /\ raised' = "OSError" /\ at' = "finally"
  /\ UNCHANGED <<config, signals, server, status, outcome, file, exit>>

\* Mutant: no handler before uvicorn.run.
InstallsNothing ==
  /\ GoesTo("starting", "entering")
  /\ UNCHANGED <<config, signals, server, ending, file, exit>>

InstallsHandler ==
  /\ GoesTo("starting", "entering")
  /\ disposition' = "remember"
  /\ UNCHANGED <<config, sent, saved, captured, received, server, ending, file, exit>>

-----------------------------------------------------------------------------
(* Inside uvicorn.run                                                      *)

EntersUvicorn ==
  /\ GoesTo("entering", "building")
  /\ saved' = disposition /\ disposition' = "uvicorn"
  /\ UNCHANGED <<config, sent, captured, received, server, ending, file, exit>>

\* create_app: dependencies, middleware, handlers, routers, app.state.
BuildsApplication ==
  /\ GoesTo("building", "opening")
  /\ log' = log \cup {"application_built"}
  /\ UNCHANGED <<config, signals, server, ending, read, exit>>

\* Whatever fails in there leaves as a ProjectError, past uvicorn's
\* re-raising: what it captured is forgotten.
BuildFails ==
  /\ GoesTo("building", "handling")
  /\ log' = log \cup {"building_failed"} /\ raised' = "ProjectError"
  /\ disposition' = saved
  /\ UNCHANGED <<config, sent, saved, captured, received, server, status, outcome, read, exit>>

\* The lifespan's first half; the pool is opened when there is one.
OpensPool ==
  /\ GoesTo("opening", "binding")
  /\ lifespan' = TRUE
  /\ pool' = IF pool = "absent" THEN "absent" ELSE "open"
  /\ log' = log \cup {"startup_initiated"}
  /\ UNCHANGED <<config, signals, started, ending, read, exit>>

\* Mutant: the lifespan closes the pool after its yield and not in finally.
PoolFailsUnclosed ==
  /\ GoesTo("opening", "unwinding")
  /\ pool = "unopened" /\ pool' = "opening"
  /\ log' = log \cup {"startup_initiated", "startup_failed"}
  /\ UNCHANGED <<config, signals, lifespan, started, ending, read, exit>>

\* open() raises or is cut off after 30 s, with its tasks already running;
\* the error is logged and raised, and the finally clause still closes.
PoolFails ==
  /\ GoesTo("opening", "cleaning")
  /\ pool = "unopened" /\ pool' = "opening" /\ lifespan' = TRUE
  /\ log' = log \cup {"startup_initiated", "startup_failed"}
  /\ UNCHANGED <<config, signals, started, ending, read, exit>>

\* A signal that came during startup ends the server before it serves, and
\* then nobody tells the lifespan to shut down.
Binds ==
  /\ GoesTo("binding", IF captured = <<>> THEN "serving" ELSE "unwinding")
  /\ started' = TRUE
  /\ UNCHANGED <<config, signals, pool, lifespan, ending, file, exit>>

\* The port is taken: the lifespan is shut down, then sys.exit(1).
BindFails ==
  /\ GoesTo("binding", "cleaning")
  /\ raised' = "SystemExit1"
  /\ UNCHANGED <<config, signals, server, status, outcome, file, exit>>

Serves ==
  /\ GoesTo("serving", "serving")
  /\ log' = log \cup {"requests"}
  /\ UNCHANGED <<config, signals, server, ending, read, exit>>

\* A SIGINT after another signal is impatience: the lifespan is not told.
Forced == \E i \in 2..Len(captured) : captured[i] = "SIGINT"

StopsServing ==
  /\ GoesTo("serving", IF Forced THEN "unwinding" ELSE "cleaning")
  /\ captured # <<>>
  /\ UNCHANGED <<config, signals, server, ending, file, exit>>

\* The lifespan's finally clause and cleanup_services: close() may fail,
\* which is logged and not raised.
CleansUp ==
  /\ GoesTo("cleaning", IF disposition = "uvicorn" THEN "unwinding" ELSE "returned")
  /\ lifespan' = FALSE
  /\ pool' = IF pool = "absent" THEN "absent" ELSE "closed"
  /\ \E note \in {"services_cleaned_up", "cleanup_pool_failed"} :
        /\ pool = "absent" => note = "services_cleaned_up"
        /\ log' = log \cup {"shutdown_initiated", note, "shutdown_completed"}
  /\ UNCHANGED <<config, signals, started, ending, read, exit>>

\* Two SIGINTs came after the i-th signal.
Overtaken(i) ==
  \E j, k \in 1..Len(captured) :
    /\ i < j /\ j < k
    /\ captured[j] = "SIGINT" /\ captured[k] = "SIGINT"

\* Is the i-th captured signal raised again?  From the last one backwards, until
\* the second SIGINT raises an exception.
RaisedAgain(i) == ~Overtaken(i)

\* Handlers put back, then the captured signals raised again; unless an
\* exception is on its way.  A lifespan nobody shut down is cancelled with
\* the event loop's other tasks, and that is its end as well.
Unwinds ==
  /\ exit = "running" /\ at = "unwinding"
  /\ disposition' = saved
  /\ LET again == raised = "none" /\ \E i \in 1..Len(captured) :
                                       captured[i] = "SIGTERM" /\ RaisedAgain(i)
         fatal == again /\ saved = "default" /\ ~pid1
     IN  /\ exit' = IF fatal THEN "killed" ELSE exit
         /\ received' = (received \/ (again /\ saved = "remember"))
  /\ at' = IF lifespan THEN "cleaning" ELSE "returned"
  /\ UNCHANGED <<config, sent, saved, captured, server, ending, file>>

\* The end of uvicorn.run: sys.exit(3) when the server never started.
ReturnsFromUvicorn ==
  /\ exit = "running" /\ at = "returned"
  /\ raised' = IF raised = "none" /\ ~started THEN "SystemExit3" ELSE raised
  /\ at' = IF raised' = "none" THEN "reporting" ELSE "finally"
  /\ UNCHANGED <<config, signals, server, status, outcome, file, exit>>

-----------------------------------------------------------------------------
(* From uvicorn.run to the exit                                            *)

Reports ==
  /\ GoesTo("reporting", "finally")
  /\ status' = IF received THEN "stopped" ELSE status
  /\ log' = IF received THEN log \cup {"application_stopped"} ELSE log
  /\ UNCHANGED <<config, signals, server, raised, outcome, read, exit>>

\* Mutant: the error is logged and not raised.
SwallowsProjectError ==
  /\ GoesTo("handling", "finally")
  /\ raised = "ProjectError" /\ raised' = "none"
  /\ status' = "failed" /\ log' = log \cup {"startup_failed"}
  /\ UNCHANGED <<config, signals, server, outcome, read, exit>>

HandlesProjectError ==
  /\ GoesTo("handling", "finally")
  /\ raised = "ProjectError"
  /\ status' = "failed" /\ log' = log \cup {"startup_failed"}
  /\ UNCHANGED <<config, signals, server, raised, outcome, read, exit>>

HandlesInterrupt ==
  /\ GoesTo("handling", "finally")
  /\ raised = "KeyboardInterrupt" /\ raised' = "none"
  /\ status' = "stopped" /\ log' = log \cup {"application_stopped"}
  /\ UNCHANGED <<config, signals, server, outcome, read, exit>>

RestoresDefault ==
  /\ GoesTo("finally", "completing")
  /\ disposition' = "default"
  /\ UNCHANGED <<config, sent, saved, captured, received, server, ending, file, exit>>

Completes ==
  /\ GoesTo("completing", "closing")
  /\ log' = log \cup {"shutdown_complete"}
  /\ UNCHANGED <<config, signals, server, ending, read, exit>>

OutcomeOf(e) ==
  CASE e = "none" -> "ok"
    [] e \in {"ProjectError", "OSError"} -> "server_error"
    [] OTHER -> "cancelled"

\* Only a main() that raises nothing gets to the trace summary.
ClosesLifecycle ==
  /\ GoesTo("closing", IF raised = "none" /\ fullTrace THEN "flushing" ELSE "leaving")
  /\ outcome' = OutcomeOf(raised)
  /\ log' = log \cup {"lifecycle_summary"}
  /\ UNCHANGED <<config, signals, server, raised, status, read, exit>>

\* Handlers flushed and closed, the file read, the traces rendered.
ReadsLog ==
  /\ GoesTo("flushing", "rendering")
  /\ read' = log
  /\ UNCHANGED <<config, signals, server, ending, log, exit>>

\* Nothing to render, or rendering raised: said on stderr, no file touched.
RendersNothing ==
  /\ GoesTo("rendering", "leaving")
  /\ UNCHANGED <<config, signals, server, ending, file, exit>>

\* open(path, "w") empties the file in place.
Truncates ==
  /\ GoesTo("rendering", "writing")
  /\ log' = {}
  /\ UNCHANGED <<config, signals, server, ending, read, exit>>

WritesSummary ==
  /\ GoesTo("writing", "leaving")
  /\ log' = read \cup {"trace_summary"}
  /\ UNCHANGED <<config, signals, server, ending, read, exit>>

\* The disk is full: caught, said on stderr, and the file stays as it is.
WriteFails ==
  /\ GoesTo("writing", "leaving")
  /\ UNCHANGED <<config, signals, server, ending, file, exit>>

ExitCode(e) ==
  CASE e \in {"none", "KeyboardInterrupt"} -> "0"
    [] e = "SystemExit3" -> "3"
    [] OTHER -> "1"

Exits ==
  /\ GoesTo("leaving", "leaving")
  /\ exit' = ExitCode(raised)
  /\ UNCHANGED <<config, signals, server, ending, file>>

-----------------------------------------------------------------------------
(* Signals                                                                 *)

Sends == exit = "running" /\ sent < MaxSignals /\ sent' = sent + 1

Sigterm ==
  /\ Sends
  /\ \/ /\ disposition = "default"
        /\ exit' = IF pid1 THEN exit ELSE "killed"
        /\ UNCHANGED <<captured, received>>
     \/ /\ disposition = "remember" /\ received' = TRUE
        /\ UNCHANGED <<captured, exit>>
     \/ /\ disposition = "uvicorn" /\ captured' = Append(captured, "SIGTERM")
        /\ UNCHANGED <<received, exit>>
  /\ UNCHANGED <<config, at, disposition, saved, server, ending, file>>

SigintIsCaptured ==
  /\ Sends
  /\ disposition = "uvicorn" /\ captured' = Append(captured, "SIGINT")
  /\ UNCHANGED <<config, at, disposition, saved, received, server, ending, file, exit>>

\* Python's own handler raises KeyboardInterrupt at the statement main() is
\* at: in the try block an except clause meets it, in a clause it leaves
\* through finally, in finally it skips what is left of it.
SigintIsRaised ==
  /\ Sends
  /\ \/ at \in {"configuring", "starting", "entering", "reporting"} /\ at' = "handling"
     \/ at = "handling" /\ at' = "finally"
     \/ at \in {"finally", "completing"} /\ at' = "closing"
     \/ at \in {"closing", "flushing", "rendering", "writing"} /\ at' = "leaving"
  /\ raised' = "KeyboardInterrupt"
  /\ UNCHANGED <<config, disposition, saved, captured, received, server, status, outcome, file, exit>>

-----------------------------------------------------------------------------
Ended == exit # "running" /\ UNCHANGED vars

Starts == Configures \/ RefusesConfiguration \/ InstallsHandler \/ EntersUvicorn
Runs == BuildsApplication \/ BuildFails \/ OpensPool \/ PoolFails \/ Binds \/ BindFails
          \/ Serves \/ StopsServing \/ CleansUp \/ Unwinds \/ ReturnsFromUvicorn
Ends == Reports \/ HandlesProjectError \/ HandlesInterrupt \/ RestoresDefault \/ Completes
          \/ ClosesLifecycle \/ ReadsLog \/ RendersNothing \/ Truncates \/ WritesSummary
          \/ WriteFails \/ Exits

Next == Starts \/ Runs \/ Ends \/ Sigterm \/ SigintIsCaptured \/ SigintIsRaised \/ Ended

Spec == Init /\ [][Next]_vars

-----------------------------------------------------------------------------
(* Properties                                                              *)

Places == {"configuring", "starting", "entering", "building", "opening", "binding",
  "serving", "cleaning", "unwinding", "returned", "reporting", "handling", "finally",
  "completing", "closing", "flushing", "rendering", "writing", "leaving"}
Lines == {"environment", "server_starting", "application_built", "building_failed",
  "startup_initiated", "startup_failed", "requests", "shutdown_initiated",
  "services_cleaned_up", "cleanup_pool_failed", "shutdown_completed",
  "application_stopped", "shutdown_complete", "lifecycle_summary", "trace_summary"}

\* The process is always at a known statement, with a known disposition of
\* SIGTERM, and no more signals are captured than were sent.
TypeOK ==
  /\ at \in Places
  /\ sent \in 0..MaxSignals
  /\ disposition \in {"default", "remember", "uvicorn"}
  /\ saved \in {"default", "remember"}
  /\ captured \in Seq({"SIGINT", "SIGTERM"}) /\ Len(captured) <= sent
  /\ received \in BOOLEAN /\ lifespan \in BOOLEAN /\ started \in BOOLEAN
  /\ pool \in {"absent", "unopened", "opening", "open", "closed"}
  /\ raised \in {"none", "ProjectError", "OSError", "KeyboardInterrupt", "SystemExit1", "SystemExit3"}
  /\ status \in {"none", "stopped", "failed"}
  /\ outcome \in {"none", "ok", "server_error", "cancelled"}
  /\ log \subseteq Lines /\ read \subseteq Lines
  /\ exit \in {"running", "killed", "0", "1", "3"}

\* lifecycle.py's finally clause: once uvicorn.run has returned or raised, a
\* pool whose opening was begun has been closed, whether the server served,
\* failed to start, lost its port, or was stopped during its startup.
PoolIsClosed ==
  at \in {"returned", "reporting", "finally", "completing", "closing", "flushing",
          "rendering", "writing", "leaving"}
    => pool \notin {"opening", "open"} /\ ~lifespan

\* Installing a handler before uvicorn.run: from that statement to the end
\* of main()'s try block no SIGTERM ends the process, neither one that
\* arrives nor one that uvicorn raises again.
TermIsSurvivable ==
  [][exit' = "killed" =>
       at \notin {"entering", "building", "opening", "binding", "serving", "cleaning",
                 "unwinding", "returned", "reporting"}]_vars

\* A server that got a SIGTERM while it ran says so, and its lifecycle span is
\* not closed as a plain return: at any moment of its life, with a SIGINT before
\* it or one after it.  The one exception is an operator who interrupts twice
\* after the SIGTERM.
TermIsReported ==
  outcome = "ok" /\ status # "stopped" =>
    \A i \in 1..Len(captured) : captured[i] = "SIGTERM" => Overtaken(i)

\* Exit code 0 means that the server ran or that an operator interrupted it;
\* a refused configuration, a failed build, a pool that did not open and a
\* taken port all end in another code, and never in an outcome "ok".
FailureIsNotSuccess ==
  /\ exit = "0" => started \/ raised = "KeyboardInterrupt" \/ status = "stopped"
  /\ outcome = "ok" => started \/ status = "stopped"

\* What a process says of its end is what happened to it: the span, the
\* summary and the exit code of a stop and of a failure.
OutcomeIsTrue == TermIsReported /\ FailureIsNotSuccess

\* What main.py:210-212 says the report is for: the lifecycle summary says why
\* the process stopped, and no stop looks like a plain return.
StopIsNamed == outcome = "ok" => status = "stopped"

\* Whatever leaves the log was read before, so it can be written back: no
\* line is written between reading the file and emptying it.
WrittenBackIsAll == [][log \subseteq log' \/ log \subseteq read]_vars

\* What main.py:41-43 says the handler is for: no SIGTERM kills the process
\* while the trace summary is being written into the log file.
NotKilledMidWrite == [][at = "writing" => exit' # "killed"]_vars
=============================================================================
