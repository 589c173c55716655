----------------------------- MODULE LauncherProofs ----------------------------
(***************************************************************************)
(* What the launcher promises under any number of signals, proved: from    *)
(* the installation of its handler to the end of uvicorn.run no SIGTERM    *)
(* ends the process, the pool is closed whichever way the server ends, and *)
(* the span, the summary and the exit code tell how it ended.              *)
(***************************************************************************)
EXTENDS Launcher, TLAPS

\* Where uvicorn's handlers are in place, and what they will give way to.
Guarded ==
  /\ at \in {"entering", "returned", "reporting"} => disposition = "remember"
  /\ at \in {"building", "opening", "binding", "serving", "unwinding"}
       => disposition = "uvicorn"
  /\ at = "cleaning" => disposition \in {"uvicorn", "remember"}
  /\ at \in {"building", "opening", "binding", "serving", "cleaning", "unwinding"}
       => saved = "remember"

\* The places where a lifespan may be entered, or its pool open.
InLifespan == at \in {"binding", "serving", "cleaning", "unwinding"}

\* Only inside a lifespan, and when uvicorn unwinds only in one that it is
\* about to cancel.
PoolIsHeld ==
  /\ ~InLifespan => pool \notin {"opening", "open"} /\ ~lifespan
  /\ at \in {"binding", "serving"} => lifespan
  /\ at = "unwinding" /\ ~lifespan => pool \notin {"opening", "open"}

IInv == Guarded /\ PoolIsHeld

\* A process at its first line, with nothing installed and nothing open.
LEMMA InitHolds == Init => IInv
  BY DEF Init, IInv, Guarded, PoolIsHeld, InLifespan

\* Every statement before uvicorn.run keeps the invariant.
LEMMA StartsKeep == ASSUME IInv, Starts PROVE IInv'
<1>1. CASE Configures
  BY <1>1 DEF Configures, GoesTo, IInv, Guarded, PoolIsHeld, InLifespan, signals, server
<1>2. CASE RefusesConfiguration
  BY <1>2 DEF RefusesConfiguration, IInv, Guarded, PoolIsHeld, InLifespan, signals, server
<1>3. CASE InstallsHandler
  BY <1>3 DEF InstallsHandler, GoesTo, IInv, Guarded, PoolIsHeld, InLifespan, server
<1>4. CASE EntersUvicorn
  BY <1>4 DEF EntersUvicorn, GoesTo, IInv, Guarded, PoolIsHeld, InLifespan, server
<1> QED BY <1>1, <1>2, <1>3, <1>4 DEF Starts

\* Every step inside uvicorn.run keeps it.
LEMMA RunsKeep == ASSUME IInv, Runs PROVE IInv'
<1>1. CASE BuildsApplication
  BY <1>1 DEF BuildsApplication, GoesTo, IInv, Guarded, PoolIsHeld, InLifespan, signals, server
<1>2. CASE BuildFails
  BY <1>2 DEF BuildFails, GoesTo, IInv, Guarded, PoolIsHeld, InLifespan, server
<1>3. CASE OpensPool
  BY <1>3 DEF OpensPool, GoesTo, IInv, Guarded, PoolIsHeld, InLifespan, signals
<1>4. CASE PoolFails
  BY <1>4 DEF PoolFails, GoesTo, IInv, Guarded, PoolIsHeld, InLifespan, signals
<1>5. CASE Binds
  BY <1>5 DEF Binds, GoesTo, IInv, Guarded, PoolIsHeld, InLifespan, signals
<1>6. CASE BindFails
  BY <1>6 DEF BindFails, GoesTo, IInv, Guarded, PoolIsHeld, InLifespan, signals, server
<1>7. CASE Serves
  BY <1>7 DEF Serves, GoesTo, IInv, Guarded, PoolIsHeld, InLifespan, signals, server
<1>8. CASE StopsServing
  BY <1>8 DEF StopsServing, GoesTo, IInv, Guarded, PoolIsHeld, InLifespan, signals, server
<1>9. CASE CleansUp
  BY <1>9 DEF CleansUp, GoesTo, IInv, Guarded, PoolIsHeld, InLifespan, signals
<1>10. CASE Unwinds
  BY <1>10 DEF Unwinds, IInv, Guarded, PoolIsHeld, InLifespan, server
<1>11. CASE ReturnsFromUvicorn
  BY <1>11 DEF ReturnsFromUvicorn, IInv, Guarded, PoolIsHeld, InLifespan, signals, server
<1> QED
  BY <1>1, <1>2, <1>3, <1>4, <1>5, <1>6, <1>7, <1>8, <1>9, <1>10, <1>11 DEF Runs

\* So does every statement after it.
LEMMA EndsKeep == ASSUME IInv, Ends PROVE IInv'
<1>1. CASE Reports
  BY <1>1 DEF Reports, GoesTo, IInv, Guarded, PoolIsHeld, InLifespan, signals, server
<1>2. CASE HandlesProjectError
  BY <1>2 DEF HandlesProjectError, GoesTo, IInv, Guarded, PoolIsHeld, InLifespan, signals, server
<1>3. CASE HandlesInterrupt
  BY <1>3 DEF HandlesInterrupt, GoesTo, IInv, Guarded, PoolIsHeld, InLifespan, signals, server
<1>4. CASE RestoresDefault
  BY <1>4 DEF RestoresDefault, GoesTo, IInv, Guarded, PoolIsHeld, InLifespan, server
<1>5. CASE Completes
  BY <1>5 DEF Completes, GoesTo, IInv, Guarded, PoolIsHeld, InLifespan, signals, server
<1>6. CASE ClosesLifecycle
  BY <1>6 DEF ClosesLifecycle, GoesTo, IInv, Guarded, PoolIsHeld, InLifespan, signals, server
<1>7. CASE ReadsLog
  BY <1>7 DEF ReadsLog, GoesTo, IInv, Guarded, PoolIsHeld, InLifespan, signals, server
<1>8. CASE RendersNothing
  BY <1>8 DEF RendersNothing, GoesTo, IInv, Guarded, PoolIsHeld, InLifespan, signals, server
<1>9. CASE Truncates
  BY <1>9 DEF Truncates, GoesTo, IInv, Guarded, PoolIsHeld, InLifespan, signals, server
<1>10. CASE WritesSummary
  BY <1>10 DEF WritesSummary, GoesTo, IInv, Guarded, PoolIsHeld, InLifespan, signals, server
<1>11. CASE WriteFails
  BY <1>11 DEF WriteFails, GoesTo, IInv, Guarded, PoolIsHeld, InLifespan, signals, server
<1>12. CASE Exits
  BY <1>12 DEF Exits, GoesTo, IInv, Guarded, PoolIsHeld, InLifespan, signals, server
<1> QED
  BY <1>1, <1>2, <1>3, <1>4, <1>5, <1>6, <1>7, <1>8, <1>9, <1>10, <1>11, <1>12 DEF Ends

\* A signal moves no handler, and where it raises KeyboardInterrupt there is
\* no lifespan to leave.
LEMMA SignalsKeep == ASSUME IInv, Sigterm \/ SigintIsCaptured \/ SigintIsRaised PROVE IInv'
<1>1. CASE Sigterm
  BY <1>1 DEF Sigterm, IInv, Guarded, PoolIsHeld, InLifespan, server
<1>2. CASE SigintIsCaptured
  BY <1>2 DEF SigintIsCaptured, IInv, Guarded, PoolIsHeld, InLifespan, server
<1>3. CASE SigintIsRaised
  BY <1>3 DEF SigintIsRaised, IInv, Guarded, PoolIsHeld, InLifespan, server
<1> QED BY <1>1, <1>2, <1>3

\* A step in which nothing changes changes nothing here.
LEMMA StutterKeeps == ASSUME IInv, UNCHANGED vars PROVE IInv'
  BY DEF vars, signals, server, IInv, Guarded, PoolIsHeld, InLifespan

\* So every step of main(), of uvicorn or of the operator keeps it.
LEMMA NextKeeps == ASSUME IInv, [Next]_vars PROVE IInv'
<1>1. CASE Ended
  BY <1>1, StutterKeeps DEF Ended
<1> QED
  BY <1>1, StartsKeep, RunsKeep, EndsKeep, SignalsKeep, StutterKeeps DEF Next

\* In every reachable state the handlers are in place where uvicorn runs, and
\* the pool is held only inside a lifespan.
THEOREM Invariance == Spec => []IInv
<1>1. Init => IInv
  BY InitHolds
<1>2. IInv /\ [Next]_vars => IInv'
  BY NextKeeps
<1> QED BY <1>1, <1>2, PTL DEF Spec

\* lifecycle.py: past uvicorn.run no pool is open and no lifespan entered,
\* whether the server served, failed to start or was stopped half way.
THEOREM PoolClosed == Spec => []PoolIsClosed
<1>1. IInv => PoolIsClosed
  BY DEF IInv, PoolIsHeld, InLifespan, PoolIsClosed
<1> QED BY <1>1, Invariance, PTL

\* The only steps that can kill are a SIGTERM under the default disposition
\* and uvicorn's raising of one; neither happens while the handler of main()
\* or uvicorn's own is in place.
THEOREM TermSurvived == Spec => TermIsSurvivable
<1> DEFINE Protected == at \in {"entering", "building", "opening", "binding", "serving",
                                "cleaning", "unwinding", "returned", "reporting"}
<1>1. ASSUME IInv, Next, exit' = "killed", Protected PROVE UNCHANGED vars
  <2>1. ~Starts
    BY <1>1 DEF Starts, GoesTo, Configures, RefusesConfiguration, InstallsHandler, EntersUvicorn
  <2>2. ~Runs
    <3>1. ~Unwinds
      BY <1>1 DEF Unwinds, IInv, Guarded
    <3>2. ~(BuildsApplication \/ BuildFails \/ OpensPool \/ PoolFails \/ Binds \/ BindFails)
      BY <1>1 DEF GoesTo, BuildsApplication, BuildFails, OpensPool, PoolFails, Binds, BindFails
    <3>3. ~(Serves \/ StopsServing \/ CleansUp \/ ReturnsFromUvicorn)
      BY <1>1 DEF GoesTo, Serves, StopsServing, CleansUp, ReturnsFromUvicorn
    <3> QED BY <3>1, <3>2, <3>3 DEF Runs
  <2>3. ~Ends
    BY <1>1 DEF Ends, GoesTo, Reports, HandlesProjectError, HandlesInterrupt, RestoresDefault,
                Completes, ClosesLifecycle, ReadsLog, RendersNothing, Truncates,
                WritesSummary, WriteFails, Exits
  <2>4. ~Sigterm
    BY <1>1 DEF Sigterm, Sends, IInv, Guarded
  <2>5. ~SigintIsCaptured /\ ~SigintIsRaised
    BY <1>1 DEF SigintIsCaptured, SigintIsRaised, Sends
  <2> QED BY <2>1, <2>2, <2>3, <2>4, <2>5, <1>1 DEF Next, Ended
<1>2. IInv /\ [Next]_vars =>
       [exit' = "killed" =>
          at \notin {"entering", "building", "opening", "binding", "serving", "cleaning",
                    "unwinding", "returned", "reporting"}]_vars
  BY <1>1
<1> QED BY <1>2, Invariance, PTL DEF Spec, TermIsSurvivable

-----------------------------------------------------------------------------
\* uvicorn caught a SIGTERM that it will raise again, or has.
Terminated ==
  \E i \in 1..Len(captured) : captured[i] = "SIGTERM" /\ ~Overtaken(i)

\* What may end as a success: it served or was asked to stop, and says so if
\* it was a SIGTERM that asked.
Good == (started \/ status = "stopped") /\ (Terminated => status = "stopped")

\* From the finally clause of main() on.
Late == {"finally", "completing", "closing", "flushing", "rendering", "writing", "leaving"}

\* What main() knows of the end at each statement: that uvicorn's last signal
\* reached its own handler, that a clause was entered by an exception, and that
\* only a good end gets to the finally clause without one.
Told ==
  /\ at \in {"configuring", "starting", "handling"} \cup Late => disposition # "uvicorn"
  /\ at \in {"returned", "reporting"} \/ (at = "cleaning" /\ disposition = "remember")
       => (raised = "none" /\ Terminated => received)
  /\ at = "reporting" => raised = "none" /\ started
  /\ at = "handling" => raised # "none"
  /\ at \in Late /\ raised = "none" => Good
  /\ outcome # "none" => at \in {"flushing", "rendering", "writing", "leaving"}
  /\ outcome = "ok" => Good
  /\ exit = "0" => started \/ raised = "KeyboardInterrupt" \/ status = "stopped"

\* Nothing has been told at the first line.
LEMMA InitTold == Init => Told
  BY DEF Init, Told, Late

\* The statements before uvicorn.run tell nothing but a refusal.
LEMMA StartsTell == ASSUME IInv, Told, Starts PROVE Told'
<1>1. CASE Configures
  BY <1>1 DEF Configures, Told, Terminated, Overtaken, Good, Late, IInv, Guarded, GoesTo, signals, server, ending
<1>2. CASE RefusesConfiguration
  BY <1>2 DEF RefusesConfiguration, Told, Terminated, Overtaken, Good, Late, IInv, Guarded, GoesTo, signals, server, ending
<1>3. CASE InstallsHandler
  BY <1>3 DEF InstallsHandler, Told, Terminated, Overtaken, Good, Late, IInv, Guarded, GoesTo, signals, server, ending
<1>4. CASE EntersUvicorn
  BY <1>4 DEF EntersUvicorn, Told, Terminated, Overtaken, Good, Late, IInv, Guarded, GoesTo, signals, server, ending
<1> QED
  BY <1>1, <1>2, <1>3, <1>4 DEF Starts

\* Inside uvicorn.run the signals are handed on.
LEMMA RunsTell == ASSUME IInv, Told, Runs PROVE Told'
<1>1. CASE BuildsApplication
  BY <1>1 DEF BuildsApplication, Told, Terminated, Overtaken, Good, Late, IInv, Guarded, GoesTo, signals, server, ending
<1>2. CASE BuildFails
  BY <1>2 DEF BuildFails, Told, Terminated, Overtaken, Good, Late, IInv, Guarded, GoesTo, signals, server, ending
<1>3. CASE OpensPool
  BY <1>3 DEF OpensPool, Told, Terminated, Overtaken, Good, Late, IInv, Guarded, GoesTo, signals, server, ending
<1>4. CASE PoolFails
  BY <1>4 DEF PoolFails, Told, Terminated, Overtaken, Good, Late, IInv, Guarded, GoesTo, signals, server, ending
<1>5. CASE Binds
  BY <1>5 DEF Binds, Told, Terminated, Overtaken, Good, Late, IInv, Guarded, GoesTo, signals, server, ending
<1>6. CASE BindFails
  BY <1>6 DEF BindFails, Told, Terminated, Overtaken, Good, Late, IInv, Guarded, GoesTo, signals, server, ending
<1>7. CASE Serves
  BY <1>7 DEF Serves, Told, Terminated, Overtaken, Good, Late, IInv, Guarded, GoesTo, signals, server, ending
<1>8. CASE StopsServing
  BY <1>8 DEF StopsServing, Told, Terminated, Overtaken, Good, Late, IInv, Guarded, GoesTo, signals, server, ending
<1>9. CASE CleansUp
  BY <1>9 DEF CleansUp, Told, Terminated, Overtaken, Good, Late, IInv, Guarded, GoesTo, signals, server, ending
<1>10. CASE Unwinds
  <2>1. /\ at = "unwinding" /\ at' \in {"cleaning", "returned"}
        /\ raised' = raised /\ outcome' = outcome
        /\ status' = status /\ started' = started /\ captured' = captured
        /\ saved = "remember" /\ disposition' = "remember" /\ exit' = "running"
    BY <1>10 DEF Unwinds, IInv, Guarded, server, ending
  <2>2. Terminated' <=> Terminated
    BY <2>1 DEF Terminated, Overtaken
  <2>3. raised = "none" /\ Terminated => received'
    <3> DEFINE again == raised = "none" /\ \E i \in 1..Len(captured) :
                                            captured[i] = "SIGTERM" /\ RaisedAgain(i)
    <3>1. again /\ saved = "remember" => received'
      BY <1>10 DEF Unwinds
    <3>2. raised = "none" /\ Terminated => again
      BY Zenon DEF RaisedAgain, Terminated
    <3> HIDE DEF again
    <3> QED
      BY <2>1, <3>1, <3>2
  <2> QED
    BY <2>1, <2>2, <2>3 DEF Told, Good, Late
<1>11. CASE ReturnsFromUvicorn
  BY <1>11 DEF ReturnsFromUvicorn, Told, Terminated, Overtaken, Good, Late, IInv, Guarded, GoesTo, signals, server, ending
<1> QED
  BY <1>1, <1>2, <1>3, <1>4, <1>5, <1>6, <1>7, <1>8, <1>9, <1>10, <1>11 DEF Runs

\* After it each clause of main() names what it met.
LEMMA EndsTell == ASSUME IInv, Told, Ends PROVE Told'
<1>1. CASE Reports
  BY <1>1 DEF Reports, Told, Terminated, Overtaken, Good, Late, IInv, Guarded, GoesTo, signals, server, ending
<1>2. CASE HandlesProjectError
  BY <1>2 DEF HandlesProjectError, Told, Terminated, Overtaken, Good, Late, IInv, Guarded, GoesTo, signals, server, ending
<1>3. CASE HandlesInterrupt
  BY <1>3 DEF HandlesInterrupt, Told, Terminated, Overtaken, Good, Late, IInv, Guarded, GoesTo, signals, server, ending
<1>4. CASE RestoresDefault
  BY <1>4 DEF RestoresDefault, Told, Terminated, Overtaken, Good, Late, IInv, Guarded, GoesTo, signals, server, ending
<1>5. CASE Completes
  BY <1>5 DEF Completes, Told, Terminated, Overtaken, Good, Late, IInv, Guarded, GoesTo, signals, server, ending
<1>6. CASE ClosesLifecycle
  BY <1>6 DEF ClosesLifecycle, Told, Terminated, Overtaken, Good, Late, IInv, Guarded, GoesTo, signals, server, ending, OutcomeOf
<1>7. CASE ReadsLog
  BY <1>7 DEF ReadsLog, Told, Terminated, Overtaken, Good, Late, IInv, Guarded, GoesTo, signals, server, ending
<1>8. CASE RendersNothing
  BY <1>8 DEF RendersNothing, Told, Terminated, Overtaken, Good, Late, IInv, Guarded, GoesTo, signals, server, ending
<1>9. CASE Truncates
  BY <1>9 DEF Truncates, Told, Terminated, Overtaken, Good, Late, IInv, Guarded, GoesTo, signals, server, ending
<1>10. CASE WritesSummary
  BY <1>10 DEF WritesSummary, Told, Terminated, Overtaken, Good, Late, IInv, Guarded, GoesTo, signals, server, ending
<1>11. CASE WriteFails
  BY <1>11 DEF WriteFails, Told, Terminated, Overtaken, Good, Late, IInv, Guarded, GoesTo, signals, server, ending
<1>12. CASE Exits
  BY <1>12 DEF Exits, Told, Terminated, Overtaken, Good, Late, IInv, Guarded, GoesTo, signals, server, ending, ExitCode
<1> QED
  BY <1>1, <1>2, <1>3, <1>4, <1>5, <1>6, <1>7, <1>8, <1>9, <1>10, <1>11, <1>12 DEF Ends

\* A signal is captured only while uvicorn has the handlers, and one that
\* raises leaves an exception behind.
LEMMA SignalsTell ==
  ASSUME IInv, Told, Sigterm \/ SigintIsCaptured \/ SigintIsRaised PROVE Told'
<1>1. CASE Sigterm
  BY <1>1 DEF Sigterm, Told, Terminated, Overtaken, Good, Late, IInv, Guarded, GoesTo, signals, server, ending, Sends
<1>2. CASE SigintIsCaptured
  BY <1>2 DEF SigintIsCaptured, Told, Terminated, Overtaken, Good, Late, IInv, Guarded, GoesTo, signals, server, ending, Sends
<1>3. CASE SigintIsRaised
  BY <1>3 DEF SigintIsRaised, Told, Terminated, Overtaken, Good, Late, IInv, Guarded, GoesTo, signals, server, ending, Sends
<1> QED
  BY <1>1, <1>2, <1>3

\* So every step keeps what was told true.
LEMMA NextTells == ASSUME IInv, Told, [Next]_vars PROVE Told'
<1>1. ASSUME UNCHANGED vars PROVE Told'
  BY <1>1 DEF vars, signals, server, ending, Told, Terminated, Overtaken, Good, Late
<1> QED
  BY <1>1, StartsTell, RunsTell, EndsTell, SignalsTell DEF Next, Ended

\* main.py: whatever ends the process and however many signals arrive, the
\* outcome "ok" and exit code 0 are those of a server that served or was asked
\* to stop, and one that got a SIGTERM says so, unless two SIGINTs followed it.
THEOREM OutcomeTold == Spec => []OutcomeIsTrue
<1>1. Init => Told
  BY InitTold
<1>2. IInv /\ Told /\ [Next]_vars => Told'
  BY NextTells
<1>3. Told => OutcomeIsTrue
  BY DEF Told, Good, Terminated, OutcomeIsTrue, TermIsReported, FailureIsNotSuccess
<1> QED BY <1>1, <1>2, <1>3, Invariance, PTL DEF Spec
=============================================================================
