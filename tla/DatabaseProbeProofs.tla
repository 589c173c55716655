------------------------- MODULE DatabaseProbeProofs -------------------------
(***************************************************************************)
(* Theorems about DatabaseProbe, for any number of concurrent checks, any  *)
(* pool and any history of the schema: single flight, no orphans and, when *)
(* migrations only go forward, verdicts that were true when they were read. *)
(***************************************************************************)
EXTENDS DatabaseProbe, TLAPS

\* An undone probe is the registered one, a probe whose callback is queued is
\* done, and a waiting request waits for a probe.  The first part is what a
\* new check relies on when it looks at the registration only.
SingleFlight ==
  /\ state \in [Probes -> States]
  /\ pc \in [Requests -> {"idle", "waiting", "woken"}]
  /\ mine \in [Requests -> Probes \cup {None}]
  /\ Undone \subseteq {registered}
  /\ \A p \in settling : p \in Probes => state[p] = "done"
  /\ \A r \in Requests : pc[r] # "idle" <=> mine[r] # None

\* With no probe there is nothing to be orphaned.
LEMMA SingleFlightInit == Init => SingleFlight /\ NoOrphanProbe
BY ProbeAssumption DEF ProbeAssumption, Init, SingleFlight, NoOrphanProbe, Undone, States

\* Each callback, timer and cancellation of health.py keeps both invariants.
LEMMA SingleFlightStep ==
  SingleFlight /\ NoOrphanProbe /\ [Next]_vars => SingleFlight' /\ NoOrphanProbe'
<1> SUFFICES ASSUME SingleFlight, NoOrphanProbe, [Next]_vars
             PROVE  SingleFlight' /\ NoOrphanProbe'
  OBVIOUS
<1> USE ProbeAssumption DEF ProbeAssumption, SingleFlight, NoOrphanProbe, Undone, States
<1>1. ASSUME NEW r \in Requests, MigrationsUnreadable(r)
      PROVE  SingleFlight' /\ NoOrphanProbe'
  BY <1>1 DEF MigrationsUnreadable, Answer, probeVars
<1>2. ASSUME NEW r \in Requests, RefuseWhileInFlight(r)
      PROVE  SingleFlight' /\ NoOrphanProbe'
  BY <1>2 DEF RefuseWhileInFlight, Answer, probeVars
<1>3. ASSUME NEW r \in Requests, NEW p \in Probes, StartProbe(r, p)
      PROVE  SingleFlight' /\ NoOrphanProbe'
  <2>1. Undone = {} /\ Undone' = {p} /\ p \notin settling
    BY <1>3 DEF StartProbe, Unused
  <2> QED
    BY <1>3, <2>1 DEF StartProbe
<1>4. ASSUME NEW r \in Requests, TimerFires(r) \/ ProbeWakes(r)
      PROVE  SingleFlight' /\ NoOrphanProbe'
  BY <1>4 DEF TimerFires, ProbeWakes, probeVars
<1>5. ASSUME NEW r \in Requests, ReadVerdict(r)
      PROVE  SingleFlight' /\ NoOrphanProbe'
  <2>1. PICK verdict : Answer(r, verdict)
    BY <1>5 DEF ReadVerdict
  <2> QED
    BY <1>5, <2>1 DEF ReadVerdict, Answer, probeVars
<1>6. ASSUME NEW r \in Requests, GiveUp(r) \/ RequestCancelled(r)
      PROVE  SingleFlight' /\ NoOrphanProbe'
  <2>1. PICK verdict : Answer(r, verdict)
    BY <1>6 DEF GiveUp, RequestCancelled
  <2>2. cancelled' = cancelled \cup ({mine[r]} \cap Undone)
    BY <1>6 DEF GiveUp, RequestCancelled
  <2>3. UNCHANGED <<registered, state, settling>>
    BY <1>6 DEF GiveUp, RequestCancelled
  <2> QED
    BY <2>1, <2>2, <2>3 DEF Answer
<1>7. ASSUME NEW p \in Probes,
             GetConnection(p) \/ CheckPasses(p) \/ CheckFails(p) \/ VersionTableExists(p)
      PROVE  SingleFlight' /\ NoOrphanProbe'
  <2>1. /\ p \in Undone
        /\ \E s \in {"acquiring", "checking", "asking_table", "asking_version"} :
             state' = [state EXCEPT ![p] = s]
        /\ UNCHANGED <<registered, cancelled, settling, pc, mine>>
    BY <1>7 DEF GetConnection, CheckPasses, CheckFails, VersionTableExists, requestVars
  <2> QED
    BY <2>1
<1>8. ASSUME NEW p \in Probes,
             NoVersionTable(p) \/ ReadVersion(p) \/ ConnectionLost(p) \/ CancelDelivered(p)
      PROVE  SingleFlight' /\ NoOrphanProbe'
  <2>1. /\ state' = [state EXCEPT ![p] = "done"]
        /\ settling' = settling \cup {p}
        /\ UNCHANGED <<registered, cancelled, pc, mine>>
    BY <1>8 DEF NoVersionTable, ReadVersion, ConnectionLost, CancelDelivered, Ends, requestVars
  <2> QED
    BY <2>1
<1>9. ASSUME NEW p \in Probes, Settled(p)
      PROVE  SingleFlight' /\ NoOrphanProbe'
  BY <1>9 DEF Settled, requestVars
<1>10. CASE UNCHANGED <<probeVars, requestVars>>
  BY <1>10 DEF probeVars, requestVars
<1>11. CASE UNCHANGED vars
  BY <1>10, <1>11 DEF vars
<1>12. ASSUME ServerFreezes \/ ServerAnswersAgain \/ SchemaMoves
                \/ OtherRequestTakes \/ OtherRequestReturns
       PROVE  SingleFlight' /\ NoOrphanProbe'
  BY <1>10, <1>12
     DEF ServerFreezes, ServerAnswersAgain, SchemaMoves, OtherRequestTakes, OtherRequestReturns
<1> QED
  BY <1>1, <1>2, <1>3, <1>4, <1>5, <1>6, <1>7, <1>8, <1>9, <1>11, <1>12
     DEF Next, Poll, Resume, Responds

\* At most one probe task per pool is undone, in every interleaving of polls,
\* timers, completions and done callbacks (_active_db_probes).
THEOREM OneProbe == Spec => []OneProbeAtATime
<1>1. SingleFlight => OneProbeAtATime
  BY DEF SingleFlight, OneProbeAtATime
<1> QED
  BY <1>1, SingleFlightInit, SingleFlightStep, PTL DEF Spec

\* Every undone probe has a request waiting for it or has been cancelled.
THEOREM NoOrphans == Spec => []NoOrphanProbe
BY SingleFlightInit, SingleFlightStep, PTL DEF Spec

-----------------------------------------------------------------------------
\* Migrations only go forward: once every revision this code expects has been
\* stamped, the database is at it or at a release this code does not know; and
\* it gets to such a release only through this code's own revision.
ForwardOnly ==
  \A i \in DOMAIN Schemas :
    Schemas[i] # {} /\ Schemas[i] \cap Malformed = {} =>
      /\ Expected \subseteq UNION {Schemas[j] : j \in 1..i}
           => Schemas[i] = Expected \/ ~(Schemas[i] \subseteq Known)
      /\ Schemas[i] = Expected \/ ~(Schemas[i] \subseteq Known)
           => \E j \in 1..i : Schemas[j] = Expected

\* Then the code's comparison with the revisions it ships tells where the
\* database is in its history.
LEMMA VerdictTellsHistory ==
  ASSUME ForwardOnly, NEW i \in DOMAIN Schemas
  PROVE  Verdict(Schemas[i]) = TrueVerdict(i)
<1>1. CASE Schemas[i] = {} \/ Schemas[i] \cap Malformed # {}
  BY <1>1 DEF Verdict, TrueVerdict
<1>2. CASE Schemas[i] # {} /\ Schemas[i] \cap Malformed = {}
  <2> DEFINE reached == UNION {Schemas[j] : j \in 1..i}
  <2>1. Schemas[i] = Expected \/ ~(Schemas[i] \subseteq Known) => Expected \subseteq reached
    BY <1>2 DEF ForwardOnly
  <2>2. Expected \subseteq reached => Schemas[i] = Expected \/ ~(Schemas[i] \subseteq Known)
    BY <1>2 DEF ForwardOnly
  <2>3. Verdict(Schemas[i]) =
          IF Schemas[i] # Expected /\ Schemas[i] \subseteq Known THEN "behind" ELSE "healthy"
    BY <1>2 DEF Verdict
  <2>4. TrueVerdict(i) = IF Expected \subseteq reached THEN "healthy" ELSE "behind"
    BY <1>2 DEF TrueVerdict
  <2> HIDE DEF reached
  <2> QED
    BY <2>1, <2>2, <2>3, <2>4
<1> QED
  BY <1>1, <1>2

\* What a request will be told was read after it came in: the revisions its probe
\* holds are of a schema between the one it found and the present one.
Fresh ==
  /\ schema \in DOMAIN Schemas
  /\ asked \in [Requests -> Nat] /\ readAt \in [Probes -> Nat]
  /\ outcome \in [Probes -> Outcomes] /\ answer \in [Requests -> Verdicts]
  /\ \A r \in Requests :
       /\ asked[r] <= schema
       /\ mine[r] # None /\ outcome[mine[r]] = "revisions" => readAt[mine[r]] \in asked[r]..schema
       /\ mine[r] # None => asked[r] >= 1

\* No request has been told anything yet.
LEMMA FreshInit == Init => Fresh /\ VerdictIsTrue
BY ProbeAssumption
   DEF ProbeAssumption, Init, Fresh, VerdictIsTrue, Outcomes, Verdicts, ReadVerdicts

\* Asking, answering, reading and migrating in any order keep it so.
LEMMA FreshStep ==
  ASSUME ForwardOnly, SingleFlight, Fresh, VerdictIsTrue, [Next]_vars
  PROVE  Fresh' /\ VerdictIsTrue'
<1>0. Len(Schemas) \in Nat /\ DOMAIN Schemas = 1..Len(Schemas) /\ None \notin Probes
  BY ProbeAssumption DEF ProbeAssumption
<1> USE <1>0 DEF SingleFlight, Fresh, VerdictIsTrue
<1>1. ASSUME NEW r \in Requests,
             MigrationsUnreadable(r) \/ RefuseWhileInFlight(r)
      PROVE  Fresh' /\ VerdictIsTrue'
  <2>1. /\ \E v \in {"unreadable", "timed_out"} : Answer(r, v)
        /\ asked' = [asked EXCEPT ![r] = schema]
        /\ UNCHANGED <<schema, readAt, outcome>>
    BY <1>1 DEF MigrationsUnreadable, RefuseWhileInFlight, probeVars, worldVars
  <2> QED
    BY <2>1 DEF Answer, Verdicts, ReadVerdicts
<1>2. ASSUME NEW r \in Requests, NEW p \in Probes, StartProbe(r, p)
      PROVE  Fresh' /\ VerdictIsTrue'
  BY <1>2 DEF StartProbe, Verdicts, ReadVerdicts, Outcomes, worldVars
<1>3. ASSUME NEW r \in Requests, TimerFires(r) \/ ProbeWakes(r)
      PROVE  Fresh' /\ VerdictIsTrue'
  BY <1>3 DEF TimerFires, ProbeWakes, probeVars, worldVars
<1>4. ASSUME NEW r \in Requests, ReadVerdict(r)
      PROVE  Fresh' /\ VerdictIsTrue'
  <2>1. mine[r] \in Probes /\ mine[r] # None
    BY <1>4 DEF ReadVerdict
  <2>2. /\ UNCHANGED <<schema, readAt, outcome, asked>>
        /\ \E v \in Verdicts : Answer(r, v) /\
              (v \in ReadVerdicts => \E i \in asked[r]..schema : v = TrueVerdict(i))
    <3>1. UNCHANGED <<schema, readAt, outcome, asked>>
      BY <1>4 DEF ReadVerdict, probeVars, worldVars
    <3>2. CASE outcome[mine[r]] = "revisions"
      <4> DEFINE i == readAt[mine[r]]
      <4>1. i \in asked[r]..schema /\ i \in DOMAIN Schemas
        BY <2>1, <3>2
      <4>2. Answer(r, Verdict(Schemas[i]))
        BY <1>4, <3>2 DEF ReadVerdict
      <4>3. Verdict(Schemas[i]) \in Verdicts
        BY DEF Verdict, Verdicts
      <4>4. Verdict(Schemas[i]) = TrueVerdict(i)
        BY <4>1, VerdictTellsHistory
      <4> QED
        BY <3>1, <4>1, <4>2, <4>3, <4>4
    <3>3. CASE outcome[mine[r]] # "revisions"
      <4>1. Answer(r, "failed") \/ Answer(r, "dropped")
        BY <1>4, <3>3 DEF ReadVerdict
      <4> QED
        BY <3>1, <4>1 DEF Verdicts, ReadVerdicts
    <3> QED
      BY <3>2, <3>3
  <2> QED
    BY <2>2 DEF Answer
<1>5. ASSUME NEW r \in Requests, GiveUp(r) \/ RequestCancelled(r)
      PROVE  Fresh' /\ VerdictIsTrue'
  <2>1. /\ \E v \in {"timed_out", "dropped"} : Answer(r, v)
        /\ UNCHANGED <<schema, readAt, outcome, asked>>
    BY <1>5 DEF GiveUp, RequestCancelled, worldVars
  <2> QED
    BY <2>1 DEF Answer, Verdicts, ReadVerdicts
<1>6. ASSUME NEW p \in Probes, NoVersionTable(p) \/ ReadVersion(p)
      PROVE  Fresh' /\ VerdictIsTrue'
  <2>1. /\ outcome' = [outcome EXCEPT ![p] = "revisions"]
        /\ readAt' = [readAt EXCEPT ![p] = schema]
        /\ UNCHANGED <<schema, asked, answer, mine, pc>>
    BY <1>6 DEF NoVersionTable, ReadVersion, Ends, requestVars, worldVars
  <2> QED
    BY <2>1 DEF Outcomes
<1>7. ASSUME NEW p \in Probes, ConnectionLost(p) \/ CancelDelivered(p)
      PROVE  Fresh' /\ VerdictIsTrue'
  <2>1. /\ \E how \in {"error", "cancelled"} : outcome' = [outcome EXCEPT ![p] = how]
        /\ UNCHANGED <<readAt, schema, asked, answer, mine, pc>>
    BY <1>7 DEF ConnectionLost, CancelDelivered, Ends, requestVars, worldVars
  <2> QED
    BY <2>1 DEF Outcomes
<1>8. ASSUME NEW p \in Probes,
             \/ GetConnection(p) \/ CheckPasses(p) \/ CheckFails(p)
             \/ VersionTableExists(p) \/ Settled(p)
      PROVE  Fresh' /\ VerdictIsTrue'
  <2>1. UNCHANGED <<readAt, outcome, schema, asked, answer, mine, pc>>
    BY <1>8 DEF GetConnection, CheckPasses, CheckFails, VersionTableExists, Settled,
                requestVars, worldVars
  <2> QED
    BY <2>1
<1>9. CASE SchemaMoves
  BY <1>9 DEF SchemaMoves, probeVars, requestVars
<1>10. CASE ServerFreezes \/ ServerAnswersAgain \/ OtherRequestTakes \/ OtherRequestReturns
  BY <1>10 DEF ServerFreezes, ServerAnswersAgain, OtherRequestTakes, OtherRequestReturns,
               probeVars, requestVars
<1>11. CASE UNCHANGED vars
  BY <1>11 DEF vars, probeVars, requestVars, worldVars
<1> QED
  BY <1>1, <1>2, <1>3, <1>4, <1>5, <1>6, <1>7, <1>8, <1>9, <1>10, <1>11
     DEF Next, Poll, Resume, Responds

\* A verdict was true at some moment between the arrival of its request and its
\* answer, however checks, timers, cancellations and migrations interleave.
THEOREM VerdictsAreTrue ==
  ASSUME ForwardOnly
  PROVE  Spec => []VerdictIsTrue
<1> DEFINE Inv == SingleFlight /\ NoOrphanProbe /\ Fresh /\ VerdictIsTrue
<1>1. Init => Inv
  BY SingleFlightInit, FreshInit
<1>2. Inv /\ [Next]_vars => Inv'
  BY SingleFlightStep, FreshStep
<1> QED
  BY <1>1, <1>2, PTL DEF Spec
=============================================================================
