-------------------------------- MODULE SpanLog -------------------------------
(***************************************************************************)
(* What the semantic logger writes and counts (core/logging): the records  *)
(* of a span, the judgement of the exception that ends it, and the         *)
(* counters of the root span it belongs to.  A span is the record that     *)
(* logger.span keeps while it is open, a frame; 0 stands for no span.      *)
(***************************************************************************)
EXTENDS Naturals, Sequences

NoSpan == 0

\* Kinds of span: the root of a request, a call of a tool or of a repository
\* (written at INFO), and one left at its default level (DEBUG).
ChildKinds == {"tool", "plain"}
Kinds == {"root"} \cup ChildKinds

LevelOf(kind) == IF kind = "plain" THEN "DEBUG" ELSE "INFO"

\* Exceptions, by what the logger and the handlers tell apart: a client
\* rejection (ProjectError, not external), an ExternalServiceError, an
\* HTTPException of 4xx and one of 5xx, anything else that is an Exception, and
\* an interruption (CancelledError), which is not one.
Exceptions == {"rejection", "external", "http", "http5xx", "bug", "interrupt"}

\* Mutant: every domain error is a rejection, the provider's failures too.
IsClientRejectionOfAny(e) == e \in {"rejection", "external"}

\* is_client_rejection, which the logger and the handlers both ask.
IsClientRejection(e) == e = "rejection"

\* The level of a span.error record.
ErrorLevel(e) ==
  IF IsClientRejection(e) \/ e = "interrupt" THEN "WARNING" ELSE "ERROR"

NoCounts == [spans |-> 0, filtered |-> 0, errors |-> 0, llm |-> 0]

Frame == [id: Nat \ {0}, parent: Nat, kind: Kinds, emit: BOOLEAN]

\* A child that finished is counted where its records are: among the written
\* ones or among those the level filter swallowed.
CountFinished(counts, frame) ==
  CASE frame.kind = "root" -> counts
    [] frame.kind # "root" /\ frame.emit -> [counts EXCEPT !.spans = @ + 1]
    [] OTHER -> [counts EXCEPT !.filtered = @ + 1]

\* Mutant: the filter is counted when the span opens, so a filtered span that
\* fails is counted twice.
CountFailedTwice(counts, frame, e) ==
  [counts EXCEPT
     !.spans = IF frame.kind = "root" THEN @ ELSE @ + 1,
     !.filtered = IF frame.emit THEN @ ELSE @ + 1,
     !.errors = IF ErrorLevel(e) = "ERROR" THEN @ + 1 ELSE @]

\* A child that failed is always written and always counted; only a failure that
\* is neither a rejection nor an interruption is an error.
CountFailed(counts, frame, e) ==
  [counts EXCEPT
     !.spans = IF frame.kind = "root" THEN @ ELSE @ + 1,
     !.errors = IF ErrorLevel(e) = "ERROR" THEN @ + 1 ELSE @]

CountLlmCall(counts) == [counts EXCEPT !.llm = @ + 1]

-----------------------------------------------------------------------------
(* Records.  Whether a record has a trace_id is decided when it is written. *)

Traced(records, hasTrace) ==
  [i \in DOMAIN records |->
     [event |-> records[i].event, span |-> records[i].span, has |-> hasTrace,
      body |-> records[i].body]]

NoBody == [parent |-> NoSpan, kind |-> "none", level |-> "none",
           outcome |-> "none", status |-> 0, counts |-> NoCounts]

Record(event, span, body) == [event |-> event, span |-> span, body |-> body]

SpanBody(frame, level) ==
  [NoBody EXCEPT !.parent = frame.parent, !.kind = frame.kind, !.level = level]

\* The start and finish of a span are built only if its level is enabled.
StartRecords(frame) ==
  IF frame.emit
  THEN <<Record("span.start", frame.id, SpanBody(frame, LevelOf(frame.kind)))>>
  ELSE <<>>

FinishRecords(frame) ==
  IF frame.emit
  THEN <<Record("span.finish", frame.id, SpanBody(frame, LevelOf(frame.kind)))>>
  ELSE <<>>

ErrorRecords(frame, e) ==
  <<Record("span.error", frame.id, SpanBody(frame, ErrorLevel(e)))>>

SummaryRecords(frame, outcome, status, counts) ==
  <<Record("request.summary", frame.id,
           [NoBody EXCEPT !.outcome = outcome, !.status = status,
                          !.counts = counts])>>

\* llm.call, error.*, client_error.* and critical.*: what the reader shows as leaves.
LeafEvents == {"llm.call", "error", "client_error", "critical"}

LeafRecords(event, span) == <<Record(event, span, NoBody)>>

\* classify_request_outcome: 0 stands for a span without a status.
ClassifyRequestOutcome(status) ==
  CASE status < 400 -> "ok"
    [] status >= 400 /\ status < 500 -> "client_error"
    [] OTHER -> "server_error"
=============================================================================
