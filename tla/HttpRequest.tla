------------------------------ MODULE HttpRequest -----------------------------
(***************************************************************************)
(* One HTTP request from the logging middleware (AILoggingMiddleware) over *)
(* an endpoint, its spans and its calls of the LLM provider with retries   *)
(* (_call_llm_with_retry), to the exception handlers, the answer the       *)
(* client gets and the records of the log.  The endpoint is any program of *)
(* a vertical: it opens and closes spans, calls the provider, raises,      *)
(* catches, streams, returns, and may be cancelled at any await.  A request *)
(* is a task with its own copies of the context variables and its own      *)
(* trace, so one request stands for all.  Each action runs to the next     *)
(* await, or to the next point where vertical code runs.                   *)
(***************************************************************************)
EXTENDS TraceTree

CONSTANTS
  MaxAttempts,   \* max_llm_call_retries: attempts of one provider call
  Enabled,       \* bound: the sets of levels a deployment may write
  MaxSpans,      \* bound: child spans a request opens
  MaxCalls,      \* bound: provider calls a request makes
  MaxCatches     \* bound: exceptions the endpoint catches

ASSUME HttpRequestAssumption ==
  /\ MaxAttempts \in Nat \ {0}
  /\ Enabled \subseteq {{"INFO"}, {"DEBUG", "INFO"}}
  /\ MaxSpans \in Nat
  /\ MaxCalls \in Nat
  /\ MaxCatches \in Nat

VARIABLES
  enabled,    \* the levels this process writes
  pc,         \* where each request is
  frames,     \* its open spans, outermost first: the context variables' tokens
  opened,     \* how many spans it has opened
  counts,     \* its root span's counters
  log,        \* the records it wrote, in order
  exc,        \* the exception in flight, or "none"
  observed,   \* the observer's status_code, 0 for None
  answer,     \* the status of the response to be sent next
  got,        \* the response start the client got
  attempts,   \* attempts of the provider call in progress
  calls,      \* provider calls made so far
  catches,    \* exceptions caught so far
  cause,      \* history: where the exception in flight, then the answer, came from
  ended       \* history: how the application left the request

requestVars == <<pc, frames, opened, counts, log>>
answerVars == <<exc, observed, answer, got, cause, ended>>
budgetVars == <<attempts, calls, catches>>
vars == <<enabled, requestVars, answerVars, budgetVars>>

NoAnswer == [status |-> 0, id |-> FALSE]
Statuses == {0, 200, 400, 413, 500, 502, 503}
Places == {"idle", "app", "calling", "pausing", "raising", "escaping",
           "answering", "returning", "handling", "sending500", "done"}

\* One type invariant for the requests, their spans and their records.
TypeOK ==
  /\ enabled \in Enabled
  /\ pc \in Places
  /\ frames \in Seq(Frame)
  /\ opened \in Nat
  /\ counts \in [spans: Nat, filtered: Nat, errors: Nat, llm: Nat]
  /\ exc \in Exceptions \cup {"none"}
  /\ observed \in Statuses
  /\ answer \in Statuses
  /\ got \in [status: Statuses, id: BOOLEAN]
  /\ attempts \in 0..MaxAttempts
  /\ calls \in 0..MaxCalls
  /\ catches \in 0..MaxCatches
  /\ cause \in {"none", "app", "provider"}
  /\ ended \in {"none", "returned", "raised", "interrupted", "unlogged"}

Init ==
  /\ enabled \in Enabled
  /\ pc = "idle"
  /\ frames = <<>>
  /\ opened = 0
  /\ counts = NoCounts
  /\ log = <<>>
  /\ exc = "none"
  /\ observed = 0
  /\ answer = 0
  /\ got = NoAnswer
  /\ attempts = 0
  /\ calls = 0
  /\ catches = 0
  /\ cause = "none"
  /\ ended = "none"

-----------------------------------------------------------------------------
(* The context of a request's task *)

Goes(place) == pc' = place

Top == frames[Len(frames)]

\* get_current_span: the innermost open span, or none of the request's own.
CurrentSpan == IF frames = <<>> THEN NoSpan ELSE Top.id

Child(kind) ==
  [id |-> opened + 1, parent |-> CurrentSpan, kind |-> kind,
   emit |-> LevelOf(kind) \in enabled]

\* The middleware holds the trace_id from before the root span to after it.
Writes(records) ==
  log' = log \o Traced(records, TRUE)

\* span.__enter__
Opens(kind) ==
  /\ frames' = Append(frames, Child(kind))
  /\ opened' = opened + 1

Closes ==
  frames' = SubSeq(frames, 1, Len(frames) - 1)

\* Is the endpoint inside a span of its own?
InChild == Len(frames) > 1

-----------------------------------------------------------------------------
(* The middleware lets the request in *)

\* A liveness ping that is not sampled goes straight to the application.
Ping ==
  /\ pc = "idle"
  /\ Goes("done")
  /\ got' = [status |-> 200, id |-> FALSE]
  /\ ended' = "unlogged"
  /\ UNCHANGED <<enabled, frames, opened, counts, log, exc, observed,
                 answer, cause, budgetVars>>

\* The trace id is set, the root span opened, and the application called.
Arrives ==
  /\ pc = "idle"
  /\ Goes("app")
  /\ Opens("root")
  /\ Writes(StartRecords(Child("root")))
  /\ UNCHANGED <<enabled, counts, answerVars, budgetVars>>

\* A declared body over the limit is answered inside the span, before the application.
RefusesBody ==
  /\ pc = "idle"
  /\ Goes("answering")
  /\ Opens("root")
  /\ Writes(StartRecords(Child("root"))
               \o LeafRecords("client_error", Child("root").id))
  /\ answer' = 413
  /\ UNCHANGED <<enabled, counts, exc, observed, got, cause, ended,
                 budgetVars>>

-----------------------------------------------------------------------------
(* The endpoint *)

OpensSpan(kind) ==
  /\ pc = "app" /\ opened <= MaxSpans
  /\ Opens(kind)
  /\ Writes(StartRecords(Child(kind)))
  /\ UNCHANGED <<enabled, pc, counts, answerVars, budgetVars>>

ClosesSpan ==
  /\ pc = "app" /\ InChild
  /\ Writes(FinishRecords(Top))
  /\ counts' = CountFinished(counts, Top)
  /\ Closes
  /\ UNCHANGED <<enabled, pc, opened, answerVars, budgetVars>>

\* Vertical code raises; HTTPException comes from the router and from the limited
\* receive, which run in no span but the request's.
Raises(e) ==
  /\ pc = "app"
  /\ e \in {"rejection", "external", "bug"} \/ (e \in {"http", "http5xx"} /\ ~InChild)
  /\ Goes("raising")
  /\ exc' = e
  /\ cause' = "app"
  /\ UNCHANGED <<enabled, frames, opened, counts, log, observed, answer,
                 got, ended, budgetVars>>

\* A streaming endpoint sends the start of its response and works on.
Streams(status) ==
  /\ pc = "app" /\ ~InChild /\ observed = 0
  /\ status \in {200, 503}
  /\ observed' = status
  /\ got' = [status |-> status, id |-> TRUE]
  /\ UNCHANGED <<enabled, requestVars, exc, answer, cause, ended, budgetVars>>

\* The endpoint returns, and its response is sent, unless it streams and has begun.
\* The status is its own to choose: readiness_check says 503 and raises nothing, so
\* neither a handler nor a span leaves a record of it.
Returns(status) ==
  /\ pc = "app" /\ ~InChild
  /\ status \in {200, 400, 503}
  /\ IF observed = 0
     THEN /\ Goes("answering")
          /\ answer' = status
     ELSE /\ Goes("returning")
          /\ UNCHANGED answer
  /\ UNCHANGED <<enabled, frames, opened, counts, log, exc, observed, got,
                 cause, ended, budgetVars>>

\* An except clause of the vertical takes the exception; no except Exception
\* takes an interruption.
Catches ==
  /\ pc = "raising" /\ exc # "interrupt"
  /\ catches < MaxCatches
  /\ Goes("app")
  /\ exc' = "none"
  /\ cause' = "none"
  /\ catches' = catches + 1
  /\ UNCHANGED <<enabled, frames, opened, counts, log, observed, answer,
                 got, ended, attempts, calls>>

\* The exception leaves the innermost child span.
LeavesSpan ==
  /\ pc = "raising" /\ InChild
  /\ Writes(ErrorRecords(Top, exc))
  /\ counts' = CountFailed(counts, Top, exc)
  /\ Closes
  /\ UNCHANGED <<enabled, pc, opened, answerVars, budgetVars>>

\* The server cancels the task (graceful shutdown) at an await.
Interrupted ==
  /\ pc \in {"app", "calling", "pausing", "answering", "returning"}
  /\ Goes("raising")
  /\ exc' = "interrupt"
  /\ cause' = "none"
  /\ attempts' = 0
  /\ UNCHANGED <<enabled, frames, opened, counts, log, observed, answer,
                 got, ended, calls, catches>>

-----------------------------------------------------------------------------
(* LLMService.call in live mode: one tenacity loop around the provider *)

\* What a provider's answer to one attempt can be.
Replies == {"good", "invalid", "transient", "auth", "refused", "other"}

\* What leaves the loop: a request the provider refuses (400, 404, 409, 422) is a bug
\* of ours and surfaces raw; everything else is an ExternalServiceError.
Translated(reply) == IF reply = "refused" THEN "bug" ELSE "external"

\* stop_after_attempt, and the four exception types the loop retries.
TriesRemain(reply) == reply = "transient" /\ attempts < MaxAttempts

CallsProvider ==
  /\ pc = "app" /\ calls < MaxCalls
  /\ Goes("calling")
  /\ calls' = calls + 1
  /\ attempts' = 1
  /\ UNCHANGED <<enabled, frames, opened, counts, log, answerVars, catches>>

\* A good reply is recorded and returned.
ProviderReplies ==
  /\ pc = "calling"
  /\ Goes("app")
  /\ Writes(LeafRecords("llm.call", CurrentSpan))
  /\ counts' = CountLlmCall(counts)
  /\ attempts' = 0
  /\ UNCHANGED <<enabled, frames, opened, answerVars, calls, catches>>

\* A 200 that cannot be read is not retried, and the attempt leaves no record.
ReplyIsInvalid ==
  /\ pc = "calling"
  /\ Goes("raising")
  /\ exc' = Translated("invalid")
  /\ cause' = "provider"
  /\ attempts' = 0
  /\ UNCHANGED <<enabled, frames, opened, counts, log, observed, answer,
                 got, ended, calls, catches>>

\* Rate limits, timeouts, connection failures and 5xx are tried again after a pause
\* while attempts remain; whatever fails for good leaves the loop translated.
AttemptFails(reply) ==
  /\ pc = "calling"
  /\ reply \in {"transient", "auth", "refused", "other"}
  /\ Writes(LeafRecords("llm.call", CurrentSpan)
               \o LeafRecords("error", CurrentSpan))
  /\ counts' = CountLlmCall(counts)
  /\ IF TriesRemain(reply)
     THEN /\ Goes("pausing")
          /\ UNCHANGED <<exc, cause, attempts>>
     ELSE /\ Goes("raising")
          /\ exc' = Translated(reply)
          /\ cause' = "provider"
          /\ attempts' = 0
  /\ UNCHANGED <<enabled, frames, opened, observed, answer, got, ended, calls, catches>>

TriesAgain ==
  /\ pc = "pausing"
  /\ Goes("calling")
  /\ attempts' = attempts + 1
  /\ UNCHANGED <<enabled, frames, opened, counts, log, answerVars, calls,
                 catches>>

-----------------------------------------------------------------------------
(* The exception handlers: ExceptionMiddleware, below the logging middleware *)

\* The exceptions that have a handler of their own.
Handled == {"rejection", "external", "http", "http5xx"}

\* _project_error_status, by the type of the error, and an HTTPException's own
\* status; any 4xx is 400 here.
HandledStatus(e) ==
  CASE e = "external" -> 502
    [] e = "http5xx" -> 503
    [] OTHER -> 400

\* The record asks what the span asked of the same exception, or its status.
HandlerRecord(e) ==
  IF IsClientRejection(e) \/ e = "http" THEN "client_error" ELSE "error"

\* A ProjectError or an HTTPException is rendered by its handler, unless the response
\* has started: then Starlette raises a RuntimeError in its place.
MeetsHandlers ==
  /\ pc = "raising" /\ ~InChild
  /\ \/ /\ exc \in Handled /\ observed = 0
        /\ Goes("answering")
        /\ Writes(LeafRecords(HandlerRecord(exc), CurrentSpan))
        /\ answer' = HandledStatus(exc)
        /\ exc' = "none"
     \/ /\ exc \in Handled /\ observed # 0
        /\ Goes("escaping")
        /\ exc' = "bug"
        /\ UNCHANGED <<log, answer>>
     \/ /\ exc \in {"bug", "interrupt"}
        /\ Goes("escaping")
        /\ UNCHANGED <<log, answer, exc>>
  /\ UNCHANGED <<enabled, frames, opened, counts, observed, got, cause,
                 ended, budgetVars>>

\* The observing send notes the status and stamps the request id.
Answers ==
  /\ pc = "answering"
  /\ Goes("returning")
  /\ observed' = answer
  /\ got' = [status |-> answer, id |-> TRUE]
  /\ UNCHANGED <<enabled, frames, opened, counts, log, exc, answer, cause,
                 ended, budgetVars>>

-----------------------------------------------------------------------------
(* The root span closes *)

\* Mutant: an exception that escapes leaves the status unset.
StatusOfEscapeUnset == observed

\* Before the response has started an unhandled exception will be a 500.
StatusOfEscape == IF observed = 0 THEN 500 ELSE observed

\* The application has returned.
Finishes ==
  /\ pc = "returning"
  /\ Goes("done")
  /\ Writes(FinishRecords(Top)
               \o SummaryRecords(Top, ClassifyRequestOutcome(observed),
                                 observed, counts))
  /\ Closes
  /\ ended' = "returned"
  /\ UNCHANGED <<enabled, opened, counts, exc, observed, answer, got, cause,
                 budgetVars>>

\* An exception passes the root span: its summary says server_error.
Fails ==
  /\ pc = "escaping" /\ exc # "interrupt"
  /\ Goes("handling")
  /\ LET failed == CountFailed(counts, Top, exc)
     IN  /\ Writes(ErrorRecords(Top, exc)
                      \o SummaryRecords(Top, "server_error", StatusOfEscape, failed))
         /\ counts' = failed
  /\ Closes
  /\ observed' = StatusOfEscape
  /\ ended' = "raised"
  /\ UNCHANGED <<enabled, opened, exc, answer, got, cause, budgetVars>>

\* An interruption passes it: its summary says cancelled, with no status.
IsCutShort ==
  /\ pc = "escaping" /\ exc = "interrupt"
  /\ Goes("done")
  /\ Writes(ErrorRecords(Top, "interrupt")
               \o SummaryRecords(Top, "cancelled", 0, counts))
  /\ Closes
  /\ exc' = "none"
  /\ ended' = "interrupted"
  /\ UNCHANGED <<enabled, opened, counts, observed, answer, got, cause,
                 budgetVars>>

-----------------------------------------------------------------------------
(* _handle_generic_exception, in ServerErrorMiddleware: outside the logging one *)

\* Mutant: the handler writes its record without the trace id of the request.
CriticalRecordUntraced == Traced(LeafRecords("critical", NoSpan), FALSE)

\* The trace id was reset with the span; the handler restores it for its record.
CriticalRecord == Traced(LeafRecords("critical", NoSpan), TRUE)

HandlesEscaped ==
  /\ pc = "handling"
  /\ log' = log \o CriticalRecord
  /\ exc' = "none"
  /\ Goes(IF got.status = 0 THEN "sending500" ELSE "done")
  /\ UNCHANGED <<enabled, frames, opened, counts, observed, answer, got,
                 cause, ended, budgetVars>>

\* The 500 is stamped with the id that request.state kept.
Sends500 ==
  /\ pc = "sending500"
  /\ Goes("done")
  /\ got' = [status |-> 500, id |-> TRUE]
  /\ UNCHANGED <<enabled, frames, opened, counts, log, exc, observed, answer,
                 cause, ended, budgetVars>>

\* The task is cancelled while the 500 is being sent.
LosesThe500 ==
  /\ pc = "sending500"
  /\ Goes("done")
  /\ UNCHANGED <<enabled, frames, opened, counts, log, answerVars, budgetVars>>

-----------------------------------------------------------------------------
EndpointSteps ==
  \/ \E kind \in ChildKinds : OpensSpan(kind)
  \/ ClosesSpan
  \/ \E e \in Exceptions : Raises(e)
  \/ \E status \in Statuses : Streams(status)
  \/ \E status \in Statuses : Returns(status)
  \/ Catches
  \/ LeavesSpan

ProviderSteps ==
  \/ CallsProvider
  \/ ProviderReplies
  \/ ReplyIsInvalid
  \/ \E reply \in Replies : AttemptFails(reply)
  \/ TriesAgain

ServerSteps ==
  \/ Ping
  \/ Arrives
  \/ RefusesBody
  \/ Interrupted
  \/ MeetsHandlers
  \/ Answers
  \/ Finishes
  \/ Fails
  \/ IsCutShort
  \/ HandlesEscaped
  \/ Sends500
  \/ LosesThe500

\* The only state in which nothing is left to do.
Over ==
  /\ pc = "done"
  /\ UNCHANGED vars

Next == EndpointSteps \/ ProviderSteps \/ ServerSteps \/ Over

Spec == Init /\ [][Next]_vars

-----------------------------------------------------------------------------
(* Properties: what the log says of a request against what happened to it. *)

\* The middleware logged the request, and it is over.
IsLogged == pc = "done" /\ ended # "unlogged"

\* What `make format-trace` works from.
Trace == ParseEvents(log)

RootId == 1

Having(events, event) == {i \in DOMAIN events : events[i].event = event}

\* The one request.summary of a request that is over says what the client got:
\* its outcome and status are those of the response, 500 if an exception escaped
\* before any was sent; an exception that escapes later is a server_error beside
\* the status already sent; an interrupted request is cancelled.  Whatever the
\* client got carries the request id (middleware.py, logger.span).
SummaryMatchesAnswer ==
  /\ Cardinality(Summaries(Trace)) =
       IF ended \in {"returned", "raised", "interrupted"} THEN 1 ELSE 0
  /\ \A i \in Summaries(Trace) :
       LET summary == Trace[i].body
       IN  /\ ended = "returned" =>
                /\ summary.status = got.status
                /\ summary.outcome = ClassifyRequestOutcome(got.status)
           /\ ended = "raised" =>
                /\ summary.outcome = "server_error"
                /\ summary.status = IF got.status = 0 THEN 500 ELSE got.status
           /\ ended = "interrupted" => summary.outcome = "cancelled"
  /\ IsLogged /\ got.status # 0 => got.id

\* The counters of the summary are those of the tree a reader builds: the spans
\* that are in it, those the level filter kept out of it, the spans that failed
\* and the calls of the model (logger.py, the stats of span).
CountsMatchTheTree ==
  IsLogged =>
    LET shown == SpanNodes(Trace) \ {RootId}
        counted == Trace[CHOOSE i \in Summaries(Trace) : TRUE].body.counts
    IN  /\ counted.spans = Cardinality(shown)
        /\ counted.filtered = Cardinality((2..opened) \ shown)
        /\ counted.llm = Cardinality(Having(Trace, "llm.call"))
        /\ counted.errors = Cardinality({i \in Having(Trace, "span.error") :
                                            Trace[i].body.level = "ERROR"})

\* Every llm.call, error, rejection and critical record of a request that is over
\* is in its trace and is shown, one written after the span has closed included;
\* and a request that failed is marked failed: one an exception escaped from, and
\* one that ran to its end and answered 5xx, whether or not anything was raised
\* for it.  An interrupted request is cancelled, whatever it had begun to answer
\* (trace_tree.py `orphans`, trace_formatter.py `trace_failed`).
FailuresAreShown ==
  IsLogged =>
    /\ Cardinality(Shown(Trace)) = Cardinality(LeavesOf(log))
    /\ ended = "raised" => Having(Trace, "critical") # {}
    /\ ended = "raised" \/ (ended = "returned" /\ got.status >= 500) => TraceFailed(Trace)

\* What the provider did wrong is never put on the caller: once such a failure
\* has escaped the endpoint, no 4xx is answered and no client_error is written
\* for it, whatever the attempts were (llm_service_live.py, exception_handlers.py).
ProviderFailureIsNotTheCallers ==
  pc = "done" /\ cause = "provider" =>
    /\ got.status < 400 \/ got.status >= 500
    /\ Having(log, "client_error") = {}

\* A trace is one tree: every span of a request that is over hangs from its
\* http_request span.
NoDetachedSpans == IsLogged => TreeRoots(Trace) = {RootId}
=============================================================================
