--------------------------- MODULE HttpRequestProofs --------------------------
(***************************************************************************)
(* Theorems about HttpRequest, for every endpoint, any number of attempts, *)
(* spans and calls, and whatever levels are written: what the log says of  *)
(* a request is what happened to it, and what a reader sees is all of it.  *)
(***************************************************************************)
EXTENDS HttpRequest, FiniteSetTheorems, SequenceTheorems, TLAPS

(* What a record can be *)

Counts == [spans: Nat, filtered: Nat, errors: Nat, llm: Nat]

Body == [parent: Nat, kind: Kinds \cup {"none"},
         level: {"none", "DEBUG", "INFO", "WARNING", "ERROR"},
         outcome: {"none", "ok", "client_error", "server_error", "cancelled"},
         status: Statuses, counts: Counts]

Events == {"span.start", "span.finish", "span.error", "request.summary"}
             \cup LeafEvents

PlainRecords == [event: Events, span: Nat, body: Body]

LogRecords == [event: Events, span: Nat, has: {TRUE}, body: Body]

-----------------------------------------------------------------------------
(* The inductive invariant *)

Typing ==
  /\ TypeOK
  /\ log \in Seq(LogRecords)

\* The endpoint has the request, and an exception it may still catch.
Inside == pc \in {"app", "calling", "pausing"} \/ (pc = "raising" /\ exc # "interrupt")

Logged == {"returned", "raised", "interrupted"}

\* What each place of the code says of the exception and of the end.
Placed ==
  /\ ended = "none" <=> pc \notin {"handling", "sending500", "done"}
  /\ pc \in {"handling", "sending500"} => ended = "raised"
  /\ pc = "sending500" => got.status = 0
  /\ pc = "pausing" => attempts < MaxAttempts
  /\ pc = "raising" => exc # "none"
  /\ pc = "escaping" => exc \in {"bug", "interrupt"}
  /\ pc = "idle" => /\ frames = <<>> /\ opened = 0 /\ log = <<>>
                    /\ counts = NoCounts /\ got.status = 0 /\ cause = "none"
  /\ ended = "unlogged" => opened = 0 /\ log = <<>>

\* The open spans: the root below, each one opened after those around it.
Stacked ==
  /\ ended # "none" => frames = <<>>
  /\ ended = "none" /\ pc # "idle" => frames # <<>>
  /\ pc \in {"answering", "returning", "escaping"} => Len(frames) = 1
  /\ \A i \in DOMAIN frames : frames[i].id \in 1..opened
  /\ \A i, j \in DOMAIN frames : i < j => frames[i].id < frames[j].id
  /\ \A i \in DOMAIN frames : frames[i].kind = "root" <=> i = 1
  /\ frames # <<>> => /\ frames[1].id = RootId
                      /\ frames[1].parent = NoSpan
                      /\ frames[1].emit

\* The observer knows what the client got, and what escaped has left its record.
Answered ==
  /\ ended = "none" => observed = got.status
  /\ Inside => observed \in {0, 200, 503}
  /\ got.status # 0 /\ ended # "unlogged" => got.id
  /\ ended = "raised" /\ pc # "handling" => Having(log, "critical") # {}

\* A client_error is written by a request that leaves its endpoint with a rejection,
\* and one that leaves it with the provider's failure is on the way to a 5xx.
Blamed ==
  /\ cause = "provider" \/ Inside => Having(log, "client_error") = {}
  /\ cause = "provider" =>
       /\ pc \notin {"app", "calling", "pausing"}
       /\ exc \in {"none", "bug", "external"}
       /\ pc = "answering" => answer = 502
       /\ got.status \in {0, 200, 500, 502, 503}

\* The root's node is made when it closes, and by one record; a span that is not
\* written has none while it is open.
Noded ==
  /\ SpanNodes(log) \subseteq 1..opened
  /\ \A i \in DOMAIN frames : frames[i].emit \/ frames[i].id \notin SpanNodes(log)
  /\ ended = "none" => NodeRecords(log, RootId) = {}
  /\ ended \in Logged =>
       \E k \in DOMAIN log : /\ NodeRecords(log, RootId) = {k}
                             /\ log[k].body.parent = NoSpan

\* The summary is written when the root closes, once.
Summarised ==
  /\ ended \notin Logged => Summaries(log) = {}
  /\ ended \in Logged =>
       \E k \in DOMAIN log :
         /\ Summaries(log) = {k}
         /\ log[k].body.counts = counts
         /\ ended = "returned" =>
              /\ log[k].body.status = got.status
              /\ log[k].body.outcome = ClassifyRequestOutcome(got.status)
         /\ ended = "raised" =>
              /\ log[k].body.outcome = "server_error"
              /\ got.status \in {0, log[k].body.status}
              /\ got.status = 0 => log[k].body.status = 500
         /\ ended = "interrupted" => log[k].body.outcome = "cancelled"

\* The spans of the endpoint that are no longer open.
OpenIds == {frames[i].id : i \in DOMAIN frames}

Closed == (2..opened) \ OpenIds

Failures(records) ==
  {i \in Having(records, "span.error") : records[i].body.level = "ERROR"}

\* The counters count what has closed, by whether it has a node, and what was written.
Counted ==
  /\ counts.spans = Cardinality(Closed \cap SpanNodes(log))
  /\ counts.filtered = Cardinality(Closed \ SpanNodes(log))
  /\ counts.errors = Cardinality(Failures(log))
  /\ counts.llm = Cardinality(Having(log, "llm.call"))

IInv ==
  /\ Typing
  /\ Placed
  /\ Stacked
  /\ Answered
  /\ Blamed
  /\ Noded
  /\ Summarised
  /\ Counted

-----------------------------------------------------------------------------
(* What one more record changes *)

\* Inside a trace a record is written as it is, marked with the trace.
LEMMA TracedIs ==
  ASSUME NEW recs \in Seq(PlainRecords)
  PROVE  /\ Traced(recs, TRUE) \in Seq(LogRecords)
         /\ Len(Traced(recs, TRUE)) = Len(recs)
         /\ \A i \in 1..Len(recs) : Traced(recs, TRUE)[i] =
              [event |-> recs[i].event, span |-> recs[i].span, has |-> TRUE,
               body |-> recs[i].body]
         /\ \A i \in 1..Len(recs) : /\ Traced(recs, TRUE)[i].event = recs[i].event
                                   /\ Traced(recs, TRUE)[i].span = recs[i].span
                                   /\ Traced(recs, TRUE)[i].body = recs[i].body
<1> DEFINE n == Len(recs)
           t == Traced(recs, TRUE)
           q(r) == [event |-> r.event, span |-> r.span, has |-> TRUE, body |-> r.body]
<1>1. n \in Nat /\ DOMAIN recs = 1..n /\ \A i \in 1..n : recs[i] \in PlainRecords
  BY LenProperties, ElementOfSeq
<1>2. \A i \in 1..n : q(recs[i]) \in LogRecords
  BY <1>1 DEF PlainRecords, LogRecords
<1>3. t = [i \in 1..n |-> q(recs[i])]
  BY <1>1 DEF Traced
<1>a. \A r : q(r).event = r.event /\ q(r).span = r.span /\ q(r).body = r.body
  OBVIOUS
<1> HIDE DEF n, t, q
<1>4. t \in [1..n -> LogRecords]
  BY <1>2, <1>3
<1>5. t \in Seq(LogRecords)
  BY <1>1, <1>4, SeqDef
<1>6. Len(t) = n
  BY <1>1, <1>4, <1>5, LenProperties
<1>7. \A i \in 1..n : t[i] = q(recs[i])
  BY <1>3
<1>8. \A i \in 1..n : /\ t[i].event = recs[i].event
                      /\ t[i].span = recs[i].span
                      /\ t[i].body = recs[i].body
  BY <1>7, <1>a
<1> QED
  BY <1>5, <1>6, <1>7, <1>8 DEF n, t, q

\* Nothing to write leaves nothing.
LEMMA TracedNone == Traced(<<>>, TRUE) = <<>>
<1>1. <<>> \in Seq(PlainRecords) /\ Len(<<>>) = 0
  BY EmptySeq
<1>2. Traced(<<>>, TRUE) \in Seq(LogRecords) /\ Len(Traced(<<>>, TRUE)) = 0
  BY <1>1, TracedIs
<1> QED
  BY <1>2, EmptySeq

\* Two batches of records written at once, and one after the other.
LEMMA TracedTwo ==
  ASSUME NEW l \in Seq(LogRecords), NEW a \in Seq(PlainRecords),
         NEW b \in Seq(PlainRecords)
  PROVE  /\ a \o b \in Seq(PlainRecords)
         /\ l \o Traced(a, TRUE) \in Seq(LogRecords)
         /\ l \o Traced(a \o b, TRUE) = (l \o Traced(a, TRUE)) \o Traced(b, TRUE)
<1>1. /\ a \o b \in Seq(PlainRecords)
      /\ Len(a \o b) = Len(a) + Len(b)
      /\ \A i \in 1..(Len(a) + Len(b)) :
           (a \o b)[i] = IF i <= Len(a) THEN a[i] ELSE b[i - Len(a)]
      /\ Len(a) \in Nat /\ Len(b) \in Nat
  BY ConcatProperties, LenProperties
<1> DEFINE ta == Traced(a, TRUE)
           tb == Traced(b, TRUE)
           tab == Traced(a \o b, TRUE)
           q(r) == [event |-> r.event, span |-> r.span, has |-> TRUE, body |-> r.body]
<1>2. /\ ta \in Seq(LogRecords) /\ tb \in Seq(LogRecords) /\ tab \in Seq(LogRecords)
      /\ Len(ta) = Len(a) /\ Len(tb) = Len(b) /\ Len(tab) = Len(a) + Len(b)
      /\ \A i \in 1..Len(a) : ta[i] = q(a[i])
      /\ \A i \in 1..Len(b) : tb[i] = q(b[i])
      /\ \A i \in 1..(Len(a) + Len(b)) : tab[i] = q((a \o b)[i])
  <2>1. /\ ta \in Seq(LogRecords) /\ Len(ta) = Len(a)
        /\ \A i \in 1..Len(a) : ta[i] = q(a[i])
    BY TracedIs
  <2>2. /\ tb \in Seq(LogRecords) /\ Len(tb) = Len(b)
        /\ \A i \in 1..Len(b) : tb[i] = q(b[i])
    BY TracedIs
  <2>3. /\ tab \in Seq(LogRecords) /\ Len(tab) = Len(a \o b)
        /\ \A i \in 1..Len(a \o b) : tab[i] = q((a \o b)[i])
    BY <1>1, TracedIs
  <2> QED
    BY <1>1, <2>1, <2>2, <2>3
<1> HIDE DEF ta, tb, tab, q
<1>s. ta \in Seq(LogRecords) /\ tb \in Seq(LogRecords)
  BY <1>2
<1>3. /\ ta \o tb \in Seq(LogRecords)
      /\ Len(ta \o tb) = Len(a) + Len(b)
      /\ \A i \in 1..(Len(a) + Len(b)) :
           (ta \o tb)[i] = IF i <= Len(a) THEN ta[i] ELSE tb[i - Len(a)]
  <2>1. /\ ta \o tb \in Seq(LogRecords)
        /\ Len(ta \o tb) = Len(ta) + Len(tb)
        /\ \A i \in 1..(Len(ta) + Len(tb)) :
             (ta \o tb)[i] = IF i <= Len(ta) THEN ta[i] ELSE tb[i - Len(ta)]
    BY <1>s, ConcatProperties, Zenon
  <2> QED
    BY <1>2, <2>1
<1>4. ASSUME NEW i \in 1..(Len(a) + Len(b))
      PROVE  tab[i] = (ta \o tb)[i]
  <2>1. CASE i <= Len(a)
    BY <1>1, <1>2, <1>3, <2>1
  <2>2. CASE ~(i <= Len(a))
    <3>1. i - Len(a) \in 1..Len(b)
      BY <1>1, <2>2
    <3>2. (a \o b)[i] = b[i - Len(a)] /\ (ta \o tb)[i] = tb[i - Len(a)]
      BY <1>1, <1>3, <2>2
    <3>3. tab[i] = q((a \o b)[i]) /\ tb[i - Len(a)] = q(b[i - Len(a)])
      BY <1>2, <3>1
    <3> QED
      BY <3>2, <3>3
  <2> QED
    BY <2>1, <2>2
<1>5. tab = ta \o tb
  BY <1>2, <1>3, <1>4, SeqEqual
<1>6. l \o tab = (l \o ta) \o tb
  <2>1. \A s, t, u \in Seq(LogRecords) : (s \o t) \o u = s \o (t \o u)
    BY ConcatAssociative
  <2>2. (l \o ta) \o tb = l \o (ta \o tb)
    BY <1>s, <2>1, Zenon
  <2> QED
    BY <1>5, <2>2
<1>7. l \o ta \in Seq(LogRecords)
  BY <1>s, ConcatProperties, Zenon
<1> QED
  BY <1>1, <1>6, <1>7 DEF ta, tb, tab

\* A record is added behind the others.
Adds(l, r, l2) ==
  /\ l2 \in Seq(LogRecords)
  /\ DOMAIN l2 = DOMAIN l \cup {Len(l) + 1}
  /\ Len(l) + 1 \notin DOMAIN l
  /\ Len(l) \in Nat
  /\ \A i \in DOMAIN l : l2[i] = l[i]
  /\ l2[Len(l) + 1].event = r.event
  /\ l2[Len(l) + 1].span = r.span
  /\ l2[Len(l) + 1].body = r.body

\* One record written is added at the end of the log.
LEMMA WriteOne ==
  ASSUME NEW l \in Seq(LogRecords), NEW r \in PlainRecords, NEW l2,
         l2 = l \o Traced(<<r>>, TRUE)
  PROVE  Adds(l, r, l2)
<1> DEFINE t == Traced(<<r>>, TRUE)
           Same(s) == s.event = r.event /\ s.span = r.span /\ s.body = r.body
<1>1. <<r>> \in Seq(PlainRecords)
  OBVIOUS
<1>a. Len(<<r>>) = 1 /\ <<r>>[1] = r
  BY SMT
<1>b. ASSUME NEW one \in Seq(PlainRecords), Len(one) = 1, one[1] = r
      PROVE  LET u == Traced(one, TRUE)
             IN  u \in Seq(LogRecords) /\ Len(u) = 1 /\ Same(u[1])
  <2> DEFINE u == Traced(one, TRUE)
  <2>1. /\ u \in Seq(LogRecords) /\ Len(u) = Len(one)
        /\ \A i \in 1..Len(one) : /\ u[i].event = one[i].event
                                 /\ u[i].span = one[i].span
                                 /\ u[i].body = one[i].body
    BY TracedIs
  <2> HIDE DEF u
  <2>2. u \in Seq(LogRecords) /\ Len(u) = 1 /\ Same(u[1])
    BY <1>b, <2>1
  <2> QED
    BY <2>2 DEF u
<1>2. t \in Seq(LogRecords) /\ Len(t) = 1 /\ Same(t[1])
  BY <1>1, <1>a, <1>b
<1> HIDE DEF t, Same
<1>3. /\ l2 \in Seq(LogRecords)
      /\ Len(l2) = Len(l) + 1
      /\ \A i \in 1..(Len(l) + 1) : l2[i] = IF i <= Len(l) THEN l[i] ELSE t[i - Len(l)]
  <2>1. /\ l \o t \in Seq(LogRecords)
        /\ Len(l \o t) = Len(l) + Len(t)
        /\ \A i \in 1..(Len(l) + Len(t)) :
             (l \o t)[i] = IF i <= Len(l) THEN l[i] ELSE t[i - Len(l)]
    BY <1>2, ConcatProperties, Zenon
  <2>2. l2 = l \o t
    BY DEF t
  <2> QED
    BY <1>2, <2>1, <2>2
<1>4. DOMAIN l = 1..Len(l) /\ DOMAIN l2 = 1..(Len(l) + 1) /\ Len(l) \in Nat
  BY <1>3, LenProperties
<1>5. \A i \in 1..Len(l) : l2[i] = l[i]
  BY <1>3, <1>4
<1>6. Same(l2[Len(l) + 1])
  <2>1. /\ Len(l) + 1 \in 1..(Len(l) + 1)
        /\ ~(Len(l) + 1 <= Len(l))
        /\ (Len(l) + 1) - Len(l) = 1
    BY <1>4
  <2>2. l2[Len(l) + 1] = t[(Len(l) + 1) - Len(l)]
    BY <1>3, <2>1, Zenon
  <2> QED
    BY <1>2, <2>1, <2>2, Zenon
<1>7. 1..(Len(l) + 1) = (1..Len(l)) \cup {Len(l) + 1} /\ Len(l) + 1 \notin 1..Len(l)
  BY <1>4
<1> QED
  BY <1>3, <1>4, <1>5, <1>6, <1>7 DEF Same, Adds

\* Every view of the log gains it or not.
Gains(l, r, l2) ==
  /\ \A e \in Events : Having(l2, e) =
        Having(l, e) \cup (IF r.event = e THEN {Len(l) + 1} ELSE {})
  /\ SpanNodes(l2) = SpanNodes(l) \cup (IF MakesNode(r) THEN {r.span} ELSE {})
  /\ \A id \in Nat : NodeRecords(l2, id) = NodeRecords(l, id) \cup
        (IF MakesNode(r) /\ r.span = id THEN {Len(l) + 1} ELSE {})
  /\ Summaries(l2) = Summaries(l) \cup
        (IF r.event = "request.summary" THEN {Len(l) + 1} ELSE {})
  /\ Failures(l2) = Failures(l) \cup
        (IF r.event = "span.error" /\ r.body.level = "ERROR"
         THEN {Len(l) + 1} ELSE {})

\* What one record added changes of each view of the log that the invariant takes.
LEMMA WriteViews ==
  ASSUME NEW l \in Seq(LogRecords), NEW r \in PlainRecords, NEW l2,
         Adds(l, r, l2)
  PROVE  Gains(l, r, l2)
<1> DEFINE n == Len(l) + 1
<1>1. /\ DOMAIN l2 = DOMAIN l \cup {n}
      /\ n \notin DOMAIN l
      /\ \A i \in DOMAIN l : l2[i] = l[i]
  BY DEF Adds
<1>0. l2[n].event = r.event /\ l2[n].span = r.span /\ l2[n].body = r.body
  BY DEF Adds
<1> HIDE DEF n
<1>2. \A e \in Events : Having(l2, e) =
        Having(l, e) \cup (IF r.event = e THEN {n} ELSE {})
  BY <1>0, <1>1 DEF Having
<1>3. /\ \A i \in DOMAIN l : MakesNode(l2[i]) <=> MakesNode(l[i])
      /\ MakesNode(l2[n]) <=> MakesNode(r)
  BY <1>0, <1>1 DEF MakesNode
<1>4. SpanNodes(l2) = SpanNodes(l) \cup (IF MakesNode(r) THEN {r.span} ELSE {})
  BY <1>0, <1>1, <1>3 DEF SpanNodes
<1>5. \A id \in Nat : NodeRecords(l2, id) = NodeRecords(l, id) \cup
        (IF MakesNode(r) /\ r.span = id THEN {n} ELSE {})
  BY <1>0, <1>1, <1>3 DEF NodeRecords
<1>6. Summaries(l2) = Summaries(l) \cup
        (IF r.event = "request.summary" THEN {n} ELSE {})
  BY <1>0, <1>1 DEF Summaries
<1>7. Failures(l2) = Failures(l) \cup
        (IF r.event = "span.error" /\ r.body.level = "ERROR" THEN {n} ELSE {})
  BY <1>0, <1>1 DEF Failures, Having
<1> QED
  BY <1>2, <1>4, <1>5, <1>6, <1>7 DEF n, Gains

\* Every view is a finite set of places of the log, so a record a view gains is
\* one more of it.
LEMMA ViewsAreFinite ==
  ASSUME NEW l \in Seq(LogRecords)
  PROVE  /\ \A e \in Events : /\ IsFiniteSet(Having(l, e))
                             /\ Cardinality(Having(l, e)) \in Nat
                             /\ Len(l) + 1 \notin Having(l, e)
                             /\ Cardinality(Having(l, e) \cup {Len(l) + 1})
                                  = Cardinality(Having(l, e)) + 1
         /\ IsFiniteSet(Failures(l))
         /\ Cardinality(Failures(l)) \in Nat
         /\ Cardinality(Failures(l) \cup {Len(l) + 1}) = Cardinality(Failures(l)) + 1
<1>1. IsFiniteSet(1..Len(l)) /\ DOMAIN l = 1..Len(l) /\ Len(l) \in Nat
  BY FS_Interval
<1>2. ASSUME NEW S, S \subseteq 1..Len(l)
      PROVE  /\ IsFiniteSet(S) /\ Cardinality(S) \in Nat
             /\ Len(l) + 1 \notin S
             /\ Cardinality(S \cup {Len(l) + 1}) = Cardinality(S) + 1
  <2>1. IsFiniteSet(S)
    BY <1>1, <1>2, FS_Subset
  <2>2. Len(l) + 1 \notin S
    BY <1>1, <1>2
  <2> QED
    BY <2>1, <2>2, FS_CardinalityType, FS_AddElement
<1>3. \A e : Having(l, e) \subseteq 1..Len(l)
  BY <1>1 DEF Having
<1>4. Failures(l) \subseteq 1..Len(l)
  BY <1>3 DEF Failures
<1>5. ASSUME NEW e \in Events
      PROVE  /\ IsFiniteSet(Having(l, e))
             /\ Cardinality(Having(l, e)) \in Nat
             /\ Len(l) + 1 \notin Having(l, e)
             /\ Cardinality(Having(l, e) \cup {Len(l) + 1}) = Cardinality(Having(l, e)) + 1
  BY <1>2, <1>3
<1>6. /\ IsFiniteSet(Failures(l))
      /\ Cardinality(Failures(l)) \in Nat
      /\ Cardinality(Failures(l) \cup {Len(l) + 1}) = Cardinality(Failures(l)) + 1
  BY <1>2, <1>4
<1> QED
  BY <1>5, <1>6

-----------------------------------------------------------------------------
(* The records of the model, one by one *)

StartOf(frame) ==
  Record("span.start", frame.id, SpanBody(frame, LevelOf(frame.kind)))

FinishOf(frame) ==
  Record("span.finish", frame.id, SpanBody(frame, LevelOf(frame.kind)))

ErrorOf(frame, e) ==
  Record("span.error", frame.id, SpanBody(frame, ErrorLevel(e)))

SummaryBody(outcome, status, c) ==
  [NoBody EXCEPT !.outcome = outcome, !.status = status, !.counts = c]

SummaryOf(frame, outcome, status, c) ==
  Record("request.summary", frame.id, SummaryBody(outcome, status, c))

LeafOf(event, span) == Record(event, span, NoBody)

\* The empty body is a body.
LEMMA NoBodyIs == NoBody \in Body
BY DEF NoBody, Body, NoSpan, NoCounts, Counts, Statuses

\* The body of a span's record names the span's parent, kind and level.
LEMMA SpanBodyIs ==
  ASSUME NEW frame \in Frame, NEW level \in {"DEBUG", "INFO", "WARNING", "ERROR"}
  PROVE  /\ SpanBody(frame, level) \in Body
         /\ SpanBody(frame, level).parent = frame.parent
         /\ SpanBody(frame, level).kind = frame.kind
         /\ SpanBody(frame, level).level = level
<1> DEFINE b1 == [NoBody EXCEPT !.parent = frame.parent]
           b2 == [b1 EXCEPT !.kind = frame.kind]
           b3 == [b2 EXCEPT !.level = level]
<1>1. frame.parent \in Nat /\ frame.kind \in Kinds
  BY DEF Frame
<1>2. b3 = SpanBody(frame, level)
  BY DEF SpanBody
<1>3. b1 \in Body /\ b1.parent = frame.parent
  BY NoBodyIs, <1>1 DEF Body
<1> HIDE DEF b1
<1>4. b2 \in Body /\ b2.parent = frame.parent /\ b2.kind = frame.kind
  BY <1>1, <1>3 DEF Body
<1> HIDE DEF b2
<1>5. b3 \in Body /\ b3.parent = frame.parent /\ b3.kind = frame.kind /\ b3.level = level
  BY <1>4 DEF Body
<1> HIDE DEF b3
<1> QED
  BY <1>2, <1>5

\* The body of a summary holds the outcome, the status and the counts.
LEMMA SummaryBodyIs ==
  ASSUME NEW outcome \in {"ok", "client_error", "server_error", "cancelled"},
         NEW status \in Statuses, NEW c \in Counts
  PROVE  /\ SummaryBody(outcome, status, c) \in Body
         /\ SummaryBody(outcome, status, c).outcome = outcome
         /\ SummaryBody(outcome, status, c).status = status
         /\ SummaryBody(outcome, status, c).counts = c
<1> DEFINE b1 == [NoBody EXCEPT !.outcome = outcome]
           b2 == [b1 EXCEPT !.status = status]
           b3 == [b2 EXCEPT !.counts = c]
<1>1. b3 = SummaryBody(outcome, status, c)
  BY DEF SummaryBody
<1>2. b1 \in Body /\ b1.outcome = outcome
  BY NoBodyIs DEF Body
<1> HIDE DEF b1
<1>3. b2 \in Body /\ b2.outcome = outcome /\ b2.status = status
  BY <1>2 DEF Body
<1> HIDE DEF b2
<1>4. b3 \in Body /\ b3.outcome = outcome /\ b3.status = status /\ b3.counts = c
  BY <1>3 DEF Body
<1> HIDE DEF b3
<1> QED
  BY <1>1, <1>4

\* The records of a span's start, end and failure.
LEMMA SpanRecords ==
  ASSUME NEW frame \in Frame
  PROVE  /\ StartOf(frame) \in PlainRecords
         /\ StartOf(frame).event = "span.start"
         /\ StartOf(frame).span = frame.id
         /\ StartOf(frame).body.kind = frame.kind
         /\ FinishOf(frame) \in PlainRecords
         /\ FinishOf(frame).event = "span.finish"
         /\ FinishOf(frame).span = frame.id
         /\ FinishOf(frame).body.parent = frame.parent
         /\ \A e : /\ ErrorOf(frame, e) \in PlainRecords
                  /\ ErrorOf(frame, e).event = "span.error"
                  /\ ErrorOf(frame, e).span = frame.id
                  /\ ErrorOf(frame, e).body.parent = frame.parent
                  /\ ErrorOf(frame, e).body.level = ErrorLevel(e)
<1>1. LevelOf(frame.kind) \in {"DEBUG", "INFO", "WARNING", "ERROR"}
  BY DEF LevelOf
<1>2. \A e : ErrorLevel(e) \in {"DEBUG", "INFO", "WARNING", "ERROR"}
  BY DEF ErrorLevel
<1>3. frame.id \in Nat
  BY DEF Frame
<1>4. ASSUME NEW event \in Events, NEW level \in {"DEBUG", "INFO", "WARNING", "ERROR"}
      PROVE  LET r == Record(event, frame.id, SpanBody(frame, level))
             IN  /\ r \in PlainRecords
                 /\ r.event = event /\ r.span = frame.id
                 /\ r.body.kind = frame.kind /\ r.body.parent = frame.parent
                 /\ r.body.level = level
  <2> DEFINE b == SpanBody(frame, level)
  <2>1. b \in Body /\ b.parent = frame.parent /\ b.kind = frame.kind /\ b.level = level
    BY SpanBodyIs
  <2> HIDE DEF b
  <2>2. Record(event, frame.id, b) \in PlainRecords
    BY <1>3, <2>1 DEF Record, PlainRecords
  <2> QED
    BY <2>1, <2>2 DEF b, Record
<1>5. {"span.start", "span.finish", "span.error"} \subseteq Events
  BY DEF Events
<1> QED
  BY <1>1, <1>2, <1>4, <1>5 DEF StartOf, FinishOf, ErrorOf

\* The records of leaf events, and the summary.
LEMMA OtherRecords ==
  /\ \A event \in LeafEvents, span \in Nat :
       /\ LeafOf(event, span) \in PlainRecords
       /\ LeafOf(event, span).event = event
  /\ \A frame \in Frame, status \in Statuses, c \in Counts,
        outcome \in {"ok", "client_error", "server_error", "cancelled"} :
       LET s == SummaryOf(frame, outcome, status, c)
       IN  /\ s \in PlainRecords
           /\ s.event = "request.summary"
           /\ s.body.outcome = outcome /\ s.body.status = status /\ s.body.counts = c
<1>1. ASSUME NEW event \in LeafEvents, NEW span \in Nat
      PROVE  LeafOf(event, span) \in PlainRecords /\ LeafOf(event, span).event = event
  BY NoBodyIs DEF LeafOf, Record, PlainRecords, Events
<1>2. ASSUME NEW frame \in Frame, NEW status \in Statuses, NEW c \in Counts,
             NEW outcome \in {"ok", "client_error", "server_error", "cancelled"}
      PROVE  LET s == SummaryOf(frame, outcome, status, c)
             IN  /\ s \in PlainRecords
                 /\ s.event = "request.summary"
                 /\ s.body.outcome = outcome /\ s.body.status = status
                 /\ s.body.counts = c
  <2> DEFINE b == SummaryBody(outcome, status, c)
  <2>1. b \in Body /\ b.outcome = outcome /\ b.status = status /\ b.counts = c
    BY SummaryBodyIs
  <2>2. SummaryOf(frame, outcome, status, c) = [event |-> "request.summary",
                                                span |-> frame.id, body |-> b]
    BY DEF SummaryOf, Record
  <2> HIDE DEF b
  <2> QED
    BY <2>1, <2>2 DEF PlainRecords, Events, Frame
<1> QED
  BY <1>1, <1>2

\* What is written for a span is one of these records, or nothing.
LEMMA WhatIsWritten ==
  ASSUME NEW frame
  PROVE  /\ StartRecords(frame) = IF frame.emit THEN <<StartOf(frame)>> ELSE <<>>
         /\ FinishRecords(frame) = IF frame.emit THEN <<FinishOf(frame)>> ELSE <<>>
         /\ \A e : ErrorRecords(frame, e) = <<ErrorOf(frame, e)>>
         /\ \A o, s, c : SummaryRecords(frame, o, s, c) = <<SummaryOf(frame, o, s, c)>>
         /\ \A event, span : LeafRecords(event, span) = <<LeafOf(event, span)>>
BY Zenon DEF StartRecords, FinishRecords, ErrorRecords, SummaryRecords, LeafRecords,
       StartOf, FinishOf, ErrorOf, SummaryOf, SummaryBody, LeafOf

\* A step's views of the log before and after a leaf: the tree is the same.
SameTree(l, l2) ==
  /\ SpanNodes(l2) = SpanNodes(l)
  /\ \A id \in Nat : NodeRecords(l2, id) = NodeRecords(l, id)
  /\ Summaries(l2) = Summaries(l)
  /\ Failures(l2) = Failures(l)
  /\ \A i \in DOMAIN l : i \in DOMAIN l2 /\ l2[i] = l[i]

\* What one leaf does: the view of its event gains a place, and no other.
Leafed(l, event, l2) ==
  /\ l2 \in Seq(LogRecords)
  /\ SameTree(l, l2)
  /\ \A e \in Events :
       Having(l2, e) = Having(l, e) \cup (IF e = event THEN {Len(l) + 1} ELSE {})

\* A leaf event that is written adds itself and leaves the tree as it was.
LEMMA WriteLeaf ==
  ASSUME NEW l \in Seq(LogRecords), NEW event \in LeafEvents, NEW span \in Nat,
         NEW l2, l2 = l \o Traced(LeafRecords(event, span), TRUE)
  PROVE  Leafed(l, event, l2)
<1> DEFINE r == LeafOf(event, span)
<1>1. r \in PlainRecords /\ r.event = event
  BY OtherRecords
<1>2. ~MakesNode(r) /\ event # "request.summary" /\ event # "span.error"
  BY <1>1 DEF MakesNode, LeafEvents
<1>3. l2 = l \o Traced(<<r>>, TRUE)
  BY WhatIsWritten
<1> HIDE DEF r
<1>4. Adds(l, r, l2)
  BY <1>1, <1>3, WriteOne
<1>5. Gains(l, r, l2)
  BY <1>1, <1>4, WriteViews, Zenon
<1>6. SameTree(l, l2)
  <2>1. SpanNodes(l2) = SpanNodes(l)
    BY <1>2, <1>5 DEF Gains
  <2>2. \A id \in Nat : NodeRecords(l2, id) = NodeRecords(l, id)
    BY <1>2, <1>5 DEF Gains
  <2>3. Summaries(l2) = Summaries(l) /\ Failures(l2) = Failures(l)
    BY <1>1, <1>2, <1>5 DEF Gains
  <2>4. \A i \in DOMAIN l : i \in DOMAIN l2 /\ l2[i] = l[i]
    BY <1>4 DEF Adds
  <2> QED
    BY <2>1, <2>2, <2>3, <2>4 DEF SameTree
<1> QED
  BY <1>1, <1>4, <1>5, <1>6 DEF Adds, Gains, Leafed

\* Both lemmas on one record at once.
LEMMA Write ==
  ASSUME NEW l \in Seq(LogRecords), NEW r \in PlainRecords, NEW l2,
         l2 = l \o Traced(<<r>>, TRUE)
  PROVE  Adds(l, r, l2) /\ Gains(l, r, l2)
<1>1. Adds(l, r, l2)
  BY WriteOne
<1> QED
  BY <1>1, WriteViews

-----------------------------------------------------------------------------
(* Steps that write nothing *)

\* What a step that writes nothing leaves as it was.
LEMMA Quiet ==
  ASSUME Noded, Summarised, Counted, UNCHANGED <<frames, opened, counts, log>>,
         \/ ended' = ended
         \/ ended = "none" /\ ended' = "unlogged",
         ended \in Logged => \/ got' = got
                             \/ ended = "raised" /\ got.status = 0 /\ got'.status = 500
  PROVE  Noded' /\ Summarised' /\ Counted'
<1>1. Noded'
  BY DEF Noded, Logged
<1>2. Summarised'
  BY DEF Summarised, Logged
<1>3. Counted'
  BY DEF Counted, Closed, OpenIds
<1> QED
  BY <1>1, <1>2, <1>3

\* The probe that is answered outside every trace.
LEMMA PingStep == IInv /\ Ping => IInv'
<1> SUFFICES ASSUME IInv, Ping PROVE IInv'
  OBVIOUS
<1> USE DEF IInv
<1>1. Typing'
  BY DEF Ping, Goes, Typing, TypeOK, Statuses, Places, budgetVars
<1>2. Placed' /\ Stacked'
  BY DEF Ping, Goes, Typing, TypeOK, Placed, Stacked, budgetVars
<1>3. Answered' /\ Blamed'
  BY DEF Ping, Goes, Answered, Blamed, Placed, Inside, Having, budgetVars
<1>4. Noded' /\ Summarised' /\ Counted'
  BY Quiet DEF Ping, Goes, Placed, Logged
<1> QED
  BY <1>1, <1>2, <1>3, <1>4

\* A raise gives the request an exception it may still catch.
LEMMA RaisesStep == IInv /\ (\E e \in Exceptions : Raises(e)) => IInv'
<1> SUFFICES ASSUME IInv, \E e \in Exceptions : Raises(e) PROVE IInv'
  OBVIOUS
<1> USE DEF IInv
<1>1. Typing'
  BY HttpRequestAssumption
  DEF HttpRequestAssumption, Raises, Goes, Typing, TypeOK, Placed, Statuses, Places, Exceptions,
      Translated, requestVars, answerVars, budgetVars
<1>2. Placed' /\ Stacked'
  BY DEF Raises, Goes, Typing, TypeOK, Placed, Stacked, InChild, Exceptions, Translated,
         requestVars, answerVars, budgetVars
<1>3. Answered' /\ Blamed'
  BY DEF Raises, Goes, Typing, TypeOK, Answered, Blamed, Placed, Inside, Exceptions, Translated,
         requestVars, answerVars, budgetVars
<1>4. Noded' /\ Summarised' /\ Counted'
  BY Quiet DEF Raises, Placed, Logged, requestVars, answerVars, budgetVars
<1> QED
  BY <1>1, <1>2, <1>3, <1>4

\* The start of a stream is no 4xx.
LEMMA StreamsStep == IInv /\ (\E status \in Statuses : Streams(status)) => IInv'
<1> SUFFICES ASSUME IInv, \E status \in Statuses : Streams(status) PROVE IInv'
  OBVIOUS
<1> USE DEF IInv
<1>1. Typing'
  BY HttpRequestAssumption
  DEF HttpRequestAssumption, Streams, Goes, Typing, TypeOK, Placed, Statuses, Places, Exceptions,
      Translated, requestVars, answerVars, budgetVars
<1>2. Placed' /\ Stacked'
  BY DEF Streams, Goes, Typing, TypeOK, Placed, Stacked, InChild, Exceptions, Translated,
         requestVars, answerVars, budgetVars
<1>3. Answered' /\ Blamed'
  BY DEF Streams, Goes, Typing, TypeOK, Answered, Blamed, Placed, Inside, Exceptions, Translated,
         requestVars, answerVars, budgetVars
<1>4. Noded' /\ Summarised' /\ Counted'
  BY Quiet DEF Streams, Placed, Logged, requestVars, answerVars, budgetVars
<1> QED
  BY <1>1, <1>2, <1>3, <1>4

\* A return is answered with a status of the endpoint's own, or has been.
LEMMA ReturnsStep == IInv /\ (\E status \in Statuses : Returns(status)) => IInv'
<1> SUFFICES ASSUME IInv, \E status \in Statuses : Returns(status) PROVE IInv'
  OBVIOUS
<1> USE DEF IInv
<1>1. Typing'
  BY HttpRequestAssumption
  DEF HttpRequestAssumption, Returns, Goes, Typing, TypeOK, Placed, Statuses, Places, Exceptions,
      Translated, requestVars, answerVars, budgetVars
<1>l. Len(frames) = 1
  <2>1. frames \in Seq(Frame) /\ frames # <<>> /\ ~(Len(frames) > 1)
    BY DEF Returns, InChild, Typing, TypeOK, Stacked, Placed
  <2>2. Len(frames) \in Nat \ {0}
    BY <2>1, EmptySeq
  <2>3. \A n \in Nat \ {0} : ~(n > 1) => n = 1
    OBVIOUS
  <2> QED
    BY <2>1, <2>2, <2>3, Zenon
<1>2. Placed' /\ Stacked'
  BY <1>l DEF Returns, Goes, Typing, TypeOK, Placed, Stacked, InChild, Exceptions, Translated,
         requestVars, answerVars, budgetVars
<1>3. Answered' /\ Blamed'
  BY DEF Returns, Goes, Typing, TypeOK, Answered, Blamed, Placed, Inside, Exceptions, Translated,
         requestVars, answerVars, budgetVars
<1>4. Noded' /\ Summarised' /\ Counted'
  BY Quiet DEF Returns, Placed, Logged, requestVars, answerVars, budgetVars
<1> QED
  BY <1>1, <1>2, <1>3, <1>4

\* What is caught has done nothing yet.
LEMMA CatchesStep == IInv /\ Catches => IInv'
<1> SUFFICES ASSUME IInv, Catches PROVE IInv'
  OBVIOUS
<1> USE DEF IInv
<1>1. Typing'
  BY HttpRequestAssumption
  DEF HttpRequestAssumption, Catches, Goes, Typing, TypeOK, Placed, Statuses, Places, Exceptions,
      Translated, requestVars, answerVars, budgetVars
<1>2. Placed' /\ Stacked'
  BY DEF Catches, Goes, Typing, TypeOK, Placed, Stacked, InChild, Exceptions, Translated,
         requestVars, answerVars, budgetVars
<1>3. Answered' /\ Blamed'
  BY DEF Catches, Goes, Typing, TypeOK, Answered, Blamed, Placed, Inside, Exceptions, Translated,
         requestVars, answerVars, budgetVars
<1>4. Noded' /\ Summarised' /\ Counted'
  BY Quiet DEF Catches, Placed, Logged, requestVars, answerVars, budgetVars
<1> QED
  BY <1>1, <1>2, <1>3, <1>4

\* An interruption is nobody's failure.
LEMMA InterruptedStep == IInv /\ Interrupted => IInv'
<1> SUFFICES ASSUME IInv, Interrupted PROVE IInv'
  OBVIOUS
<1> USE DEF IInv
<1>1. Typing'
  BY HttpRequestAssumption
  DEF HttpRequestAssumption, Interrupted, Goes, Typing, TypeOK, Placed, Statuses, Places, Exceptions,
      Translated, requestVars, answerVars, budgetVars
<1>2. Placed' /\ Stacked'
  BY DEF Interrupted, Goes, Typing, TypeOK, Placed, Stacked, InChild, Exceptions, Translated,
         requestVars, answerVars, budgetVars
<1>3. Answered' /\ Blamed'
  BY DEF Interrupted, Goes, Typing, TypeOK, Answered, Blamed, Placed, Inside, Exceptions, Translated,
         requestVars, answerVars, budgetVars
<1>4. Noded' /\ Summarised' /\ Counted'
  BY Quiet DEF Interrupted, Placed, Logged, requestVars, answerVars, budgetVars
<1> QED
  BY <1>1, <1>2, <1>3, <1>4

\* A call of the provider begins.
LEMMA CallsProviderStep == IInv /\ CallsProvider => IInv'
<1> SUFFICES ASSUME IInv, CallsProvider PROVE IInv'
  OBVIOUS
<1> USE DEF IInv
<1>1. Typing'
  BY HttpRequestAssumption
  DEF HttpRequestAssumption, CallsProvider, Goes, Typing, TypeOK, Placed, Statuses, Places, Exceptions,
      Translated, requestVars, answerVars, budgetVars
<1>2. Placed' /\ Stacked'
  BY DEF CallsProvider, Goes, Typing, TypeOK, Placed, Stacked, InChild, Exceptions, Translated,
         requestVars, answerVars, budgetVars
<1>3. Answered' /\ Blamed'
  BY DEF CallsProvider, Goes, Typing, TypeOK, Answered, Blamed, Placed, Inside, Exceptions, Translated,
         requestVars, answerVars, budgetVars
<1>4. Noded' /\ Summarised' /\ Counted'
  BY Quiet DEF CallsProvider, Placed, Logged, requestVars, answerVars, budgetVars
<1> QED
  BY <1>1, <1>2, <1>3, <1>4

\* What leaves the loop is never a rejection.
LEMMA ReplyIsInvalidStep == IInv /\ ReplyIsInvalid => IInv'
<1> SUFFICES ASSUME IInv, ReplyIsInvalid PROVE IInv'
  OBVIOUS
<1> USE DEF IInv
<1>1. Typing'
  BY HttpRequestAssumption
  DEF HttpRequestAssumption, ReplyIsInvalid, Goes, Typing, TypeOK, Placed, Statuses, Places, Exceptions,
      Translated, requestVars, answerVars, budgetVars
<1>2. Placed' /\ Stacked'
  BY DEF ReplyIsInvalid, Goes, Typing, TypeOK, Placed, Stacked, InChild, Exceptions, Translated,
         requestVars, answerVars, budgetVars
<1>3. Answered' /\ Blamed'
  BY DEF ReplyIsInvalid, Goes, Typing, TypeOK, Answered, Blamed, Placed, Inside, Exceptions, Translated,
         requestVars, answerVars, budgetVars
<1>4. Noded' /\ Summarised' /\ Counted'
  BY Quiet DEF ReplyIsInvalid, Placed, Logged, requestVars, answerVars, budgetVars
<1> QED
  BY <1>1, <1>2, <1>3, <1>4

\* The pause ends.
LEMMA TriesAgainStep == IInv /\ TriesAgain => IInv'
<1> SUFFICES ASSUME IInv, TriesAgain PROVE IInv'
  OBVIOUS
<1> USE DEF IInv
<1>1. Typing'
  BY HttpRequestAssumption
  DEF HttpRequestAssumption, TriesAgain, Goes, Typing, TypeOK, Placed, Statuses, Places, Exceptions,
      Translated, requestVars, answerVars, budgetVars
<1>2. Placed' /\ Stacked'
  BY DEF TriesAgain, Goes, Typing, TypeOK, Placed, Stacked, InChild, Exceptions, Translated,
         requestVars, answerVars, budgetVars
<1>3. Answered' /\ Blamed'
  BY DEF TriesAgain, Goes, Typing, TypeOK, Answered, Blamed, Placed, Inside, Exceptions, Translated,
         requestVars, answerVars, budgetVars
<1>4. Noded' /\ Summarised' /\ Counted'
  BY Quiet DEF TriesAgain, Placed, Logged, requestVars, answerVars, budgetVars
<1> QED
  BY <1>1, <1>2, <1>3, <1>4

\* The answer becomes what the client got.
LEMMA AnswersStep == IInv /\ Answers => IInv'
<1> SUFFICES ASSUME IInv, Answers PROVE IInv'
  OBVIOUS
<1> USE DEF IInv
<1>1. Typing'
  BY HttpRequestAssumption
  DEF HttpRequestAssumption, Answers, Goes, Typing, TypeOK, Placed, Statuses, Places, Exceptions,
      Translated, requestVars, answerVars, budgetVars
<1>2. Placed' /\ Stacked'
  BY DEF Answers, Goes, Typing, TypeOK, Placed, Stacked, InChild, Exceptions, Translated,
         requestVars, answerVars, budgetVars
<1>3. Answered' /\ Blamed'
  BY DEF Answers, Goes, Typing, TypeOK, Answered, Blamed, Placed, Inside, Exceptions, Translated,
         requestVars, answerVars, budgetVars
<1>4. Noded' /\ Summarised' /\ Counted'
  BY Quiet DEF Answers, Placed, Logged, requestVars, answerVars, budgetVars
<1> QED
  BY <1>1, <1>2, <1>3, <1>4

\* The 500 is got after the summary foresaw it.
LEMMA Sends500Step == IInv /\ Sends500 => IInv'
<1> SUFFICES ASSUME IInv, Sends500 PROVE IInv'
  OBVIOUS
<1> USE DEF IInv
<1>1. Typing'
  BY HttpRequestAssumption
  DEF HttpRequestAssumption, Sends500, Goes, Typing, TypeOK, Placed, Statuses, Places, Exceptions,
      Translated, requestVars, answerVars, budgetVars
<1>2. Placed' /\ Stacked'
  BY DEF Sends500, Goes, Typing, TypeOK, Placed, Stacked, InChild, Exceptions, Translated,
         requestVars, answerVars, budgetVars
<1>3. Answered' /\ Blamed'
  BY DEF Sends500, Goes, Typing, TypeOK, Answered, Blamed, Placed, Inside, Exceptions, Translated,
         requestVars, answerVars, budgetVars
<1>4. Noded' /\ Summarised' /\ Counted'
  BY Quiet DEF Sends500, Placed, Logged, requestVars, answerVars, budgetVars
<1> QED
  BY <1>1, <1>2, <1>3, <1>4

\* The 500 is lost.
LEMMA LosesThe500Step == IInv /\ LosesThe500 => IInv'
<1> SUFFICES ASSUME IInv, LosesThe500 PROVE IInv'
  OBVIOUS
<1> USE DEF IInv
<1>1. Typing'
  BY HttpRequestAssumption
  DEF HttpRequestAssumption, LosesThe500, Goes, Typing, TypeOK, Placed, Statuses, Places, Exceptions,
      Translated, requestVars, answerVars, budgetVars
<1>2. Placed' /\ Stacked'
  BY DEF LosesThe500, Goes, Typing, TypeOK, Placed, Stacked, InChild, Exceptions, Translated,
         requestVars, answerVars, budgetVars
<1>3. Answered' /\ Blamed'
  BY DEF LosesThe500, Goes, Typing, TypeOK, Answered, Blamed, Placed, Inside, Exceptions, Translated,
         requestVars, answerVars, budgetVars
<1>4. Noded' /\ Summarised' /\ Counted'
  <2>1. UNCHANGED <<frames, opened, counts, log>>
    BY DEF LosesThe500
  <2>2. ended' = ended /\ got' = got
    BY DEF LosesThe500, answerVars
  <2> QED
    BY <2>1, <2>2, Quiet
<1> QED
  BY <1>1, <1>2, <1>3, <1>4

-----------------------------------------------------------------------------
(* Steps that write a leaf *)

\* The tree, the summary and the counters of spans stand while leaves are written.
LEMMA TreeKept ==
  ASSUME Noded, Summarised, SameTree(log, log'), UNCHANGED <<frames, opened>>,
         ended' = ended, ended \in Logged => got' = got /\ counts' = counts
  PROVE  Noded' /\ Summarised'
<1>1. Noded'
  BY DEF Noded, Logged, SameTree, RootId
<1>2. Summarised'
  BY DEF Summarised, Logged, SameTree
<1> QED
  BY <1>1, <1>2

\* Only a call of the model moves a counter.
LEMMA LeafCounted ==
  ASSUME Counted, SameTree(log, log'), UNCHANGED <<frames, opened>>, Typing,
         \/ /\ Having(log', "llm.call") = Having(log, "llm.call")
            /\ counts' = counts
         \/ /\ Having(log', "llm.call") = Having(log, "llm.call") \cup {Len(log) + 1}
            /\ counts' = CountLlmCall(counts)
  PROVE  Counted'
<1>1. /\ Closed' = Closed
      /\ SpanNodes(log') = SpanNodes(log)
      /\ Failures(log') = Failures(log)
  BY DEF Closed, OpenIds, SameTree
<1>2. /\ Cardinality(Having(log, "llm.call")) \in Nat
      /\ Cardinality(Having(log, "llm.call") \cup {Len(log) + 1})
           = Cardinality(Having(log, "llm.call")) + 1
  BY ViewsAreFinite DEF Typing, Events, LeafEvents
<1>3. CASE counts' = counts /\ Having(log', "llm.call") = Having(log, "llm.call")
  BY <1>1, <1>3 DEF Counted
<1>4. CASE /\ Having(log', "llm.call") = Having(log, "llm.call") \cup {Len(log) + 1}
           /\ counts' = CountLlmCall(counts)
  <2>1. /\ counts'.spans = counts.spans /\ counts'.filtered = counts.filtered
        /\ counts'.errors = counts.errors /\ counts'.llm = counts.llm + 1
    BY <1>4 DEF CountLlmCall, Typing, TypeOK
  <2> QED
    BY <1>1, <1>2, <1>4, <2>1 DEF Counted
<1> QED
  BY <1>3, <1>4

\* One LLM call more keeps the counts' type.
LEMMA CountsLlm == ASSUME NEW c \in Counts PROVE CountLlmCall(c) \in Counts
BY DEF CountLlmCall, Counts

\* The span a record is written in is one of the request's own, or none.
LEMMA TopIsOpen ==
  ASSUME Typing, Stacked
  PROVE  /\ CurrentSpan \in Nat
         /\ frames # <<>> => /\ Len(frames) \in DOMAIN frames
                             /\ Len(frames) \in Nat \ {0}
                             /\ Top = frames[Len(frames)]
                             /\ Top \in Frame
                             /\ Top.id \in 1..opened
<1>1. frames \in Seq(Frame) /\ opened \in Nat
  BY DEF Typing, TypeOK
<1>2. ASSUME frames # <<>>
      PROVE  /\ Len(frames) \in DOMAIN frames
             /\ Len(frames) \in Nat \ {0}
             /\ Top = frames[Len(frames)]
             /\ Top \in Frame
             /\ Top.id \in 1..opened
  <2>1. Len(frames) \in Nat \ {0} /\ DOMAIN frames = 1..Len(frames)
    BY <1>1, <1>2, EmptySeq, LenProperties
  <2>2. Len(frames) \in DOMAIN frames
    BY <2>1
  <2>3. frames[Len(frames)] \in Frame
    BY <1>1, <2>1, <2>2, ElementOfSeq
  <2> QED
    BY <2>1, <2>2, <2>3 DEF Top, Stacked
<1> QED
  BY <1>1, <1>2 DEF CurrentSpan, NoSpan

\* A reply of the model is one llm.call, and one more in the counter.
LEMMA ProviderRepliesStep == IInv /\ ProviderReplies => IInv'
<1> SUFFICES ASSUME IInv, ProviderReplies PROVE IInv'
  OBVIOUS
<1> USE DEF IInv
<1>1. /\ log' \in Seq(LogRecords)
      /\ SameTree(log, log')
      /\ \A e \in Events :
           Having(log', e) = Having(log, e) \cup (IF e = "llm.call" THEN {Len(log) + 1} ELSE {})
  <2>1. CurrentSpan \in Nat
    BY TopIsOpen
  <2>2. log' = log \o Traced(LeafRecords("llm.call", CurrentSpan), TRUE)
    BY DEF ProviderReplies, Writes
  <2>3. log \in Seq(LogRecords) /\ "llm.call" \in LeafEvents
    BY DEF Typing, LeafEvents
  <2>4. Leafed(log, "llm.call", log')
    BY <2>1, <2>2, <2>3, WriteLeaf
  <2> QED
    BY <2>4 DEF Leafed
<1>2. Typing'
  <2>1. counts' \in [spans: Nat, filtered: Nat, errors: Nat, llm: Nat]
    BY CountsLlm DEF ProviderReplies, Typing, TypeOK, Counts
  <2> QED
    BY <1>1, <2>1, HttpRequestAssumption
    DEF HttpRequestAssumption, ProviderReplies, Goes, Typing, TypeOK, Places, answerVars
<1>3. Placed' /\ Stacked'
  BY DEF ProviderReplies, Goes, Placed, Stacked, answerVars
<1>4. Answered' /\ Blamed'
  BY <1>1 DEF ProviderReplies, Goes, Answered, Blamed, Placed, Inside, Events, LeafEvents,
              answerVars
<1>5. Noded' /\ Summarised'
  BY <1>1, TreeKept DEF ProviderReplies, Placed, Logged, answerVars
<1>6. Counted'
  BY <1>1, LeafCounted DEF ProviderReplies, Events, LeafEvents
<1> QED
  BY <1>2, <1>3, <1>4, <1>5, <1>6

\* What a leaf event writes are records.
LEMMA LeafIsPlain ==
  ASSUME NEW event \in LeafEvents, NEW span \in Nat
  PROVE  LeafRecords(event, span) \in Seq(PlainRecords)
<1>1. LeafOf(event, span) \in PlainRecords
  BY OtherRecords
<1>2. LeafRecords(event, span) = <<LeafOf(event, span)>>
  BY WhatIsWritten
<1> QED
  BY <1>1, <1>2

\* A failed attempt is an llm.call and an error.
LEMMA AttemptFailsStep == IInv /\ (\E reply \in Replies : AttemptFails(reply)) => IInv'
<1> SUFFICES ASSUME IInv, NEW reply \in Replies, AttemptFails(reply) PROVE IInv'
  OBVIOUS
<1> USE DEF IInv
<1> DEFINE m == log \o Traced(LeafRecords("llm.call", CurrentSpan), TRUE)
<1>1. /\ log' \in Seq(LogRecords)
      /\ SameTree(log, log')
      /\ Having(log', "llm.call") = Having(log, "llm.call") \cup {Len(log) + 1}
      /\ Having(log', "error") # {}
      /\ Having(log', "client_error") = Having(log, "client_error")
      /\ Having(log', "critical") = Having(log, "critical")
  <2>1. CurrentSpan \in Nat /\ log \in Seq(LogRecords)
    BY TopIsOpen DEF Typing
  <2>2. "llm.call" \in LeafEvents /\ "error" \in LeafEvents
    BY DEF LeafEvents
  <2>a. /\ LeafRecords("llm.call", CurrentSpan) \in Seq(PlainRecords)
        /\ LeafRecords("error", CurrentSpan) \in Seq(PlainRecords)
    BY <2>1, <2>2, LeafIsPlain
  <2>b. log' = log \o Traced(LeafRecords("llm.call", CurrentSpan)
                                \o LeafRecords("error", CurrentSpan), TRUE)
    BY DEF AttemptFails, Writes
  <2>3. log' = m \o Traced(LeafRecords("error", CurrentSpan), TRUE)
    BY <2>1, <2>a, <2>b, TracedTwo
  <2>4. Leafed(log, "llm.call", m)
    BY <2>1, <2>2, WriteLeaf
  <2> HIDE DEF m
  <2>5. m \in Seq(LogRecords)
    BY <2>4 DEF Leafed
  <2>6. Leafed(m, "error", log')
    BY <2>1, <2>2, <2>3, <2>5, WriteLeaf
  <2>7. SameTree(log, log')
    BY <2>4, <2>6 DEF Leafed, SameTree
  <2> QED
    BY <2>4, <2>6, <2>7 DEF Leafed, Events, LeafEvents
<1>2. Typing'
  <2>1. counts' \in [spans: Nat, filtered: Nat, errors: Nat, llm: Nat]
    BY CountsLlm DEF AttemptFails, Typing, TypeOK, Counts
  <2> QED
    BY <1>1, <2>1, HttpRequestAssumption
    DEF HttpRequestAssumption, AttemptFails, Goes, Typing, TypeOK, Places, Translated, Exceptions
<1>3. Placed' /\ Stacked'
  BY DEF AttemptFails, Goes, Placed, Stacked, Translated, TriesRemain
<1>4. Answered' /\ Blamed'
  BY <1>1 DEF AttemptFails, Goes, Answered, Blamed, Placed, Inside, Translated
<1>5. Noded' /\ Summarised'
  BY <1>1, TreeKept DEF AttemptFails, Placed, Logged
<1>6. Counted'
  BY <1>1, LeafCounted DEF AttemptFails
<1> QED
  BY <1>2, <1>3, <1>4, <1>5, <1>6

\* A handler writes what the status it answers with means, and neither for a bug.
LEMMA MeetsHandlersStep == IInv /\ MeetsHandlers => IInv'
<1> SUFFICES ASSUME IInv, MeetsHandlers PROVE IInv'
  OBVIOUS
<1> USE DEF IInv
<1>l. Len(frames) = 1
  <2>1. frames \in Seq(Frame) /\ frames # <<>> /\ ~(Len(frames) > 1)
    BY DEF MeetsHandlers, InChild, Typing, TypeOK, Stacked, Placed
  <2>2. Len(frames) \in Nat \ {0}
    BY <2>1, EmptySeq
  <2>3. \A n \in Nat \ {0} : ~(n > 1) => n = 1
    OBVIOUS
  <2> QED
    BY <2>1, <2>2, <2>3, Zenon
<1>1. CASE /\ exc \in Handled /\ observed = 0
           /\ Goes("answering")
           /\ Writes(LeafRecords(HandlerRecord(exc), CurrentSpan))
           /\ answer' = HandledStatus(exc)
           /\ exc' = "none"
  <2>1. Leafed(log, HandlerRecord(exc), log')
    <3>1. CurrentSpan \in Nat /\ log \in Seq(LogRecords)
      BY TopIsOpen DEF Typing
    <3>2. HandlerRecord(exc) \in LeafEvents
      BY DEF HandlerRecord, LeafEvents
    <3>3. log' = log \o Traced(LeafRecords(HandlerRecord(exc), CurrentSpan), TRUE)
      BY <1>1 DEF Writes
    <3> QED
      BY <3>1, <3>2, <3>3, WriteLeaf
  <2>2. /\ log' \in Seq(LogRecords) /\ SameTree(log, log')
        /\ Having(log', "llm.call") = Having(log, "llm.call")
        /\ Having(log', "critical") = Having(log, "critical")
        /\ exc = "external" => Having(log', "client_error") = Having(log, "client_error")
    BY <1>1, <2>1 DEF Leafed, HandlerRecord, IsClientRejection, Events, LeafEvents
  <2>3. Typing'
    BY <1>1, <2>2
    DEF MeetsHandlers, Goes, Typing, TypeOK, Places, Handled, HandledStatus, Statuses,
        budgetVars
  <2>4. Placed' /\ Stacked'
    BY <1>1, <1>l DEF MeetsHandlers, Goes, Placed, Stacked, budgetVars
  <2>5. Answered' /\ Blamed'
    BY <1>1, <2>2
    DEF MeetsHandlers, Goes, Answered, Blamed, Placed, Inside, Handled, HandledStatus,
        budgetVars
  <2>6. Noded' /\ Summarised'
    BY <1>1, <2>2, TreeKept DEF MeetsHandlers, Placed, Logged
  <2>7. Counted'
    BY <1>1, <2>2, LeafCounted DEF MeetsHandlers
  <2> QED
    BY <2>3, <2>4, <2>5, <2>6, <2>7
<1>2. CASE /\ Goes("escaping")
           /\ \/ exc \in Handled /\ observed # 0 /\ exc' = "bug"
              \/ exc \in {"bug", "interrupt"} /\ exc' = exc
           /\ UNCHANGED <<log, answer>>
  <2>1. Typing'
    BY <1>2 DEF MeetsHandlers, Goes, Typing, TypeOK, Places, Exceptions, Handled, budgetVars
  <2>2. Placed' /\ Stacked'
    BY <1>2, <1>l DEF MeetsHandlers, Goes, Placed, Stacked, Handled, budgetVars
  <2>3. Answered' /\ Blamed'
    BY <1>2 DEF MeetsHandlers, Goes, Answered, Blamed, Placed, Inside, Handled, budgetVars
  <2>4. Noded' /\ Summarised' /\ Counted'
    BY <1>2, Quiet DEF MeetsHandlers, Placed, Logged
  <2> QED
    BY <2>1, <2>2, <2>3, <2>4
<1> QED
  BY <1>1, <1>2 DEF MeetsHandlers

\* The handler of the last resort writes its critical record after the summary.
LEMMA HandlesEscapedStep == IInv /\ HandlesEscaped => IInv'
<1> SUFFICES ASSUME IInv, HandlesEscaped PROVE IInv'
  OBVIOUS
<1> USE DEF IInv
<1>1. Leafed(log, "critical", log')
  <2>1. log \in Seq(LogRecords) /\ NoSpan \in Nat /\ "critical" \in LeafEvents
    BY DEF Typing, NoSpan, LeafEvents
  <2>2. log' = log \o Traced(LeafRecords("critical", NoSpan), TRUE)
    BY DEF HandlesEscaped, CriticalRecord
  <2> QED
    BY <2>1, <2>2, WriteLeaf
<1>2. /\ log' \in Seq(LogRecords) /\ SameTree(log, log')
      /\ Having(log', "critical") # {}
      /\ Having(log', "llm.call") = Having(log, "llm.call")
      /\ Having(log', "error") = Having(log, "error")
      /\ Having(log', "client_error") = Having(log, "client_error")
  BY <1>1 DEF Leafed, Events, LeafEvents
<1>3. Typing'
  BY <1>2 DEF HandlesEscaped, Goes, Typing, TypeOK, Places, budgetVars
<1>4. Placed' /\ Stacked'
  BY DEF HandlesEscaped, Goes, Placed, Stacked, budgetVars
<1>5. Answered' /\ Blamed'
  BY <1>2 DEF HandlesEscaped, Goes, Answered, Blamed, Placed, Inside, budgetVars
<1>6. Noded' /\ Summarised'
  BY <1>2, TreeKept DEF HandlesEscaped
<1>7. Counted'
  BY <1>2, LeafCounted DEF HandlesEscaped
<1> QED
  BY <1>3, <1>4, <1>5, <1>6, <1>7

-----------------------------------------------------------------------------
(* Spans open and close *)

\* Whatever is written of a span, the leaves and what was written before stand.
Prolongs(l, l2) ==
  /\ l2 \in Seq(LogRecords)
  /\ \A e \in LeafEvents : Having(l2, e) = Having(l, e)
  /\ \A i \in DOMAIN l : i \in DOMAIN l2 /\ l2[i] = l[i]

\* A record of a span or a summary leaves every leaf event as it stands.
LEMMA Prolonged ==
  ASSUME NEW l \in Seq(LogRecords), NEW r \in PlainRecords, NEW l2,
         Adds(l, r, l2), Gains(l, r, l2), r.event \notin LeafEvents
  PROVE  Prolongs(l, l2)
<1>1. \A e \in LeafEvents : Having(l2, e) = Having(l, e)
  <2>1. SUFFICES ASSUME NEW e \in LeafEvents PROVE Having(l2, e) = Having(l, e)
    OBVIOUS
  <2>2. e \in Events /\ r.event # e
    BY DEF Events
  <2>3. Having(l2, e) = Having(l, e) \cup (IF r.event = e THEN {Len(l) + 1} ELSE {})
    BY <2>2 DEF Gains
  <2> QED
    BY <2>2, <2>3
<1>2. \A i \in DOMAIN l : i \in DOMAIN l2 /\ l2[i] = l[i]
  BY DEF Adds
<1> QED
  BY <1>1, <1>2 DEF Prolongs, Adds

\* A record adds a node to no span but its own.
LEMMA NodesElsewhere ==
  ASSUME NEW l, NEW r, NEW l2, Gains(l, r, l2)
  PROVE  \A id \in Nat : id # r.span \/ ~MakesNode(r) =>
           NodeRecords(l2, id) = NodeRecords(l, id)
<1>1. ASSUME NEW id \in Nat, id # r.span \/ ~MakesNode(r)
      PROVE  NodeRecords(l2, id) = NodeRecords(l, id)
  <2>1. NodeRecords(l2, id) = NodeRecords(l, id) \cup
          (IF MakesNode(r) /\ r.span = id THEN {Len(l) + 1} ELSE {})
    BY DEF Gains
  <2> QED
    BY <1>1, <2>1
<1> QED
  BY <1>1

\* A record that makes a node adds its place to its span's nodes.
LEMMA NodeHere ==
  ASSUME NEW l, NEW r, NEW l2, NEW id \in Nat, Gains(l, r, l2), MakesNode(r), r.span = id
  PROVE  NodeRecords(l2, id) = NodeRecords(l, id) \cup {Len(l) + 1}
BY DEF Gains

\* A record that is no summary and no error of a span adds to neither view.
LEMMA NoSummary ==
  ASSUME NEW l, NEW r, NEW l2, Gains(l, r, l2)
  PROVE  /\ r.event # "request.summary" => Summaries(l2) = Summaries(l)
         /\ r.event # "span.error" => Failures(l2) = Failures(l)
<1>1. Summaries(l2) = Summaries(l) \cup
        (IF r.event = "request.summary" THEN {Len(l) + 1} ELSE {})
  BY DEF Gains
<1>2. Failures(l2) = Failures(l) \cup
        (IF r.event = "span.error" /\ r.body.level = "ERROR" THEN {Len(l) + 1} ELSE {})
  BY DEF Gains
<1> QED
  BY <1>1, <1>2

\* A start makes a node only of a tool that is written.
Started(l, frame, l2) ==
  /\ Prolongs(l, l2)
  /\ Summaries(l2) = Summaries(l)
  /\ Failures(l2) = Failures(l)
  /\ SpanNodes(l2) = SpanNodes(l) \cup
       (IF frame.emit /\ frame.kind = "tool" THEN {frame.id} ELSE {})
  /\ \A id \in Nat : id # frame.id \/ frame.kind # "tool" =>
       NodeRecords(l2, id) = NodeRecords(l, id)

\* A finish makes a node of a span that is written.
Finished(l, frame, l2) ==
  /\ Prolongs(l, l2)
  /\ Summaries(l2) = Summaries(l)
  /\ Failures(l2) = Failures(l)
  /\ SpanNodes(l2) = SpanNodes(l) \cup (IF frame.emit THEN {frame.id} ELSE {})
  /\ \A id \in Nat : id # frame.id => NodeRecords(l2, id) = NodeRecords(l, id)
  /\ frame.emit =>
       /\ NodeRecords(l2, frame.id) = NodeRecords(l, frame.id) \cup {Len(l) + 1}
       /\ Len(l) + 1 \in DOMAIN l2
       /\ l2[Len(l) + 1].body.parent = frame.parent

\* An error makes a node of any span.
Errored(l, frame, e, l2) ==
  /\ Prolongs(l, l2)
  /\ Summaries(l2) = Summaries(l)
  /\ Failures(l2) = Failures(l) \cup
       (IF ErrorLevel(e) = "ERROR" THEN {Len(l) + 1} ELSE {})
  /\ SpanNodes(l2) = SpanNodes(l) \cup {frame.id}
  /\ \A id \in Nat : id # frame.id => NodeRecords(l2, id) = NodeRecords(l, id)
  /\ NodeRecords(l2, frame.id) = NodeRecords(l, frame.id) \cup {Len(l) + 1}
  /\ Len(l) + 1 \in DOMAIN l2
  /\ l2[Len(l) + 1].body.parent = frame.parent

\* A summary makes none.
Summed(l, outcome, status, c, l2) ==
  /\ Prolongs(l, l2)
  /\ Summaries(l2) = Summaries(l) \cup {Len(l) + 1}
  /\ Failures(l2) = Failures(l)
  /\ SpanNodes(l2) = SpanNodes(l)
  /\ \A id \in Nat : NodeRecords(l2, id) = NodeRecords(l, id)
  /\ Len(l) + 1 \in DOMAIN l2
  /\ l2[Len(l) + 1].body.outcome = outcome
  /\ l2[Len(l) + 1].body.status = status
  /\ l2[Len(l) + 1].body.counts = c

\* Writing nothing leaves the log.
LEMMA EmptyWrite ==
  ASSUME NEW l \in Seq(LogRecords)
  PROVE  l \o Traced(<<>>, TRUE) = l
BY TracedNone, ConcatEmptySeq

\* A span's start, written only when its level is enabled.
LEMMA WriteStart ==
  ASSUME NEW l \in Seq(LogRecords), NEW frame \in Frame, NEW l2,
         l2 = l \o Traced(StartRecords(frame), TRUE)
  PROVE  Started(l, frame, l2)
<1> DEFINE r == StartOf(frame)
<1>1. CASE frame.emit
  <2>1. r \in PlainRecords /\ r.event = "span.start" /\ r.span = frame.id
        /\ r.body.kind = frame.kind
    BY SpanRecords
  <2>2. l2 = l \o Traced(<<r>>, TRUE)
    BY <1>1, WhatIsWritten
  <2> HIDE DEF r
  <2>3. Adds(l, r, l2) /\ Gains(l, r, l2)
    BY <2>1, <2>2, Write
  <2>4. Prolongs(l, l2)
    BY <2>1, <2>3, Prolonged DEF LeafEvents
  <2>5. MakesNode(r) <=> frame.kind = "tool"
    BY <2>1 DEF MakesNode
  <2>6. Summaries(l2) = Summaries(l) /\ Failures(l2) = Failures(l)
    BY <2>1, <2>3, NoSummary
  <2>7. SpanNodes(l2) = SpanNodes(l) \cup (IF frame.kind = "tool" THEN {frame.id} ELSE {})
    BY <2>1, <2>3, <2>5 DEF Gains
  <2>8. \A id \in Nat : id # frame.id \/ frame.kind # "tool" =>
          NodeRecords(l2, id) = NodeRecords(l, id)
    <3>1. \A id \in Nat : id # r.span \/ ~MakesNode(r) => NodeRecords(l2, id) = NodeRecords(l, id)
      BY ONLY <2>3, NodesElsewhere
    <3>2. r.span = frame.id
      BY <2>1
    <3> QED
      BY ONLY <2>5, <3>1, <3>2
  <2> QED
    BY <1>1, <2>4, <2>6, <2>7, <2>8 DEF Started
<1>2. CASE ~frame.emit
  <2>1. l2 = l
    BY <1>2, WhatIsWritten, EmptyWrite
  <2> QED
    BY <1>2, <2>1 DEF Started, Prolongs
<1> QED
  BY <1>1, <1>2

\* A span's end, written only when its level is enabled.
LEMMA WriteFinish ==
  ASSUME NEW l \in Seq(LogRecords), NEW frame \in Frame, NEW l2,
         l2 = l \o Traced(FinishRecords(frame), TRUE)
  PROVE  Finished(l, frame, l2)
<1> DEFINE r == FinishOf(frame)
<1>0. frame.id \in Nat
  BY DEF Frame
<1>1. CASE frame.emit
  <2>1. r \in PlainRecords /\ r.event = "span.finish" /\ r.span = frame.id
        /\ r.body.parent = frame.parent
    BY SpanRecords
  <2>2. l2 = l \o Traced(<<r>>, TRUE)
    BY <1>1, WhatIsWritten
  <2> HIDE DEF r
  <2>3. Adds(l, r, l2) /\ Gains(l, r, l2)
    BY <2>1, <2>2, Write
  <2>4. Prolongs(l, l2)
    BY <2>1, <2>3, Prolonged DEF LeafEvents
  <2>5. MakesNode(r)
    BY <2>1 DEF MakesNode
  <2>6. Summaries(l2) = Summaries(l) /\ Failures(l2) = Failures(l)
    BY <2>1, <2>3, NoSummary
  <2>7. SpanNodes(l2) = SpanNodes(l) \cup {frame.id}
    BY <2>1, <2>3, <2>5 DEF Gains
  <2>a. r.span = frame.id
    BY <2>1
  <2>b. \A id \in Nat : id # r.span \/ ~MakesNode(r) => NodeRecords(l2, id) = NodeRecords(l, id)
    BY ONLY <2>3, NodesElsewhere
  <2>8. \A id \in Nat : id # frame.id => NodeRecords(l2, id) = NodeRecords(l, id)
    BY ONLY <2>a, <2>b
  <2>9. NodeRecords(l2, frame.id) = NodeRecords(l, frame.id) \cup {Len(l) + 1}
    BY ONLY <1>0, <2>3, <2>5, <2>a, NodeHere
  <2>10. Len(l) + 1 \in DOMAIN l2 /\ l2[Len(l) + 1].body.parent = frame.parent
    BY <2>1, <2>3 DEF Adds
  <2> QED
    BY <1>1, <2>4, <2>6, <2>7, <2>8, <2>9, <2>10 DEF Finished
<1>2. CASE ~frame.emit
  <2>1. l2 = l
    BY <1>2, WhatIsWritten, EmptyWrite
  <2> QED
    BY <1>2, <2>1 DEF Finished, Prolongs
<1> QED
  BY <1>1, <1>2

\* A span's failure, written whatever levels are enabled.
LEMMA WriteError ==
  ASSUME NEW l \in Seq(LogRecords), NEW frame \in Frame, NEW e, NEW l2,
         l2 = l \o Traced(ErrorRecords(frame, e), TRUE)
  PROVE  Errored(l, frame, e, l2)
<1> DEFINE r == ErrorOf(frame, e)
<1>0. frame.id \in Nat
  BY DEF Frame
<1>1. r \in PlainRecords /\ r.event = "span.error" /\ r.span = frame.id
      /\ r.body.parent = frame.parent /\ r.body.level = ErrorLevel(e)
  BY SpanRecords
<1>2. l2 = l \o Traced(<<r>>, TRUE)
  BY WhatIsWritten
<1> HIDE DEF r
<1>3. Adds(l, r, l2) /\ Gains(l, r, l2)
  BY <1>1, <1>2, Write
<1>4. Prolongs(l, l2)
  BY <1>1, <1>3, Prolonged DEF LeafEvents
<1>5. MakesNode(r)
  BY <1>1 DEF MakesNode
<1>6. Summaries(l2) = Summaries(l)
  BY <1>1, <1>3, NoSummary
<1>7. Failures(l2) = Failures(l) \cup (IF ErrorLevel(e) = "ERROR" THEN {Len(l) + 1} ELSE {})
  BY <1>1, <1>3 DEF Gains
<1>8. SpanNodes(l2) = SpanNodes(l) \cup {frame.id}
  BY <1>1, <1>3, <1>5 DEF Gains
<1>a. r.span = frame.id
  BY <1>1
<1>b. \A id \in Nat : id # r.span \/ ~MakesNode(r) => NodeRecords(l2, id) = NodeRecords(l, id)
  BY ONLY <1>3, NodesElsewhere
<1>9. \A id \in Nat : id # frame.id => NodeRecords(l2, id) = NodeRecords(l, id)
  BY ONLY <1>a, <1>b
<1>10. NodeRecords(l2, frame.id) = NodeRecords(l, frame.id) \cup {Len(l) + 1}
  BY ONLY <1>0, <1>3, <1>5, <1>a, NodeHere
<1>11. Len(l) + 1 \in DOMAIN l2 /\ l2[Len(l) + 1].body.parent = frame.parent
  BY <1>1, <1>3 DEF Adds
<1> QED
  BY <1>4, <1>6, <1>7, <1>8, <1>9, <1>10, <1>11 DEF Errored

\* The request's summary.
LEMMA WriteSummary ==
  ASSUME NEW l \in Seq(LogRecords), NEW frame \in Frame, NEW status \in Statuses,
         NEW outcome \in {"ok", "client_error", "server_error", "cancelled"},
         NEW c \in Counts, NEW l2,
         l2 = l \o Traced(SummaryRecords(frame, outcome, status, c), TRUE)
  PROVE  Summed(l, outcome, status, c, l2)
<1> DEFINE r == SummaryOf(frame, outcome, status, c)
<1>1. r \in PlainRecords /\ r.event = "request.summary"
      /\ r.body.outcome = outcome /\ r.body.status = status /\ r.body.counts = c
  BY OtherRecords
<1>2. l2 = l \o Traced(<<r>>, TRUE)
  BY WhatIsWritten
<1> HIDE DEF r
<1>3. Adds(l, r, l2) /\ Gains(l, r, l2)
  BY <1>1, <1>2, Write
<1>4. Prolongs(l, l2)
  BY <1>1, <1>3, Prolonged DEF LeafEvents
<1>5. ~MakesNode(r)
  BY <1>1 DEF MakesNode
<1>6. Summaries(l2) = Summaries(l) \cup {Len(l) + 1} /\ Failures(l2) = Failures(l)
  BY <1>1, <1>3 DEF Gains
<1>7. SpanNodes(l2) = SpanNodes(l)
  BY <1>3, <1>5 DEF Gains
<1>8. \A id \in Nat : NodeRecords(l2, id) = NodeRecords(l, id)
  BY <1>3, <1>5, NodesElsewhere
<1>9. Len(l) + 1 \in DOMAIN l2 /\ l2[Len(l) + 1].body.outcome = outcome
      /\ l2[Len(l) + 1].body.status = status /\ l2[Len(l) + 1].body.counts = c
  BY <1>1, <1>3 DEF Adds
<1> QED
  BY <1>4, <1>6, <1>7, <1>8, <1>9 DEF Summed

\* A span opened now is a frame under the innermost open one.
LEMMA ChildIsFrame ==
  ASSUME Typing, Stacked, NEW kind \in Kinds
  PROVE  /\ Child(kind) \in Frame
         /\ Child(kind).id = opened + 1 /\ Child(kind).id \in Nat
         /\ Child(kind).parent = CurrentSpan
         /\ Child(kind).kind = kind
         /\ Child(kind).emit = (LevelOf(kind) \in enabled)
<1>1. CurrentSpan \in Nat /\ opened \in Nat
  BY TopIsOpen DEF Typing, TypeOK
<1>2. (LevelOf(kind) \in enabled) \in BOOLEAN
  OBVIOUS
<1> QED
  BY <1>1, <1>2 DEF Child, Frame

\* The request's own span is always enabled.
LEMMA RootIsWritten ==
  ASSUME Typing
  PROVE  LevelOf("root") \in enabled
BY HttpRequestAssumption DEF HttpRequestAssumption, Typing, TypeOK, LevelOf

\* A frame pushed is the innermost span; what was closed is still closed.
LEMMA Pushed ==
  ASSUME Typing, Stacked, NEW kind \in Kinds, Opens(kind), frames # <<>> <=> opened # 0,
         frames = <<>> <=> kind = "root"
  PROVE  /\ frames' \in Seq(Frame)
         /\ opened' = opened + 1 /\ opened \in Nat
         /\ Len(frames') = Len(frames) + 1
         /\ DOMAIN frames' = DOMAIN frames \cup {Len(frames) + 1}
         /\ \A i \in DOMAIN frames : frames'[i] = frames[i]
         /\ frames'[Len(frames) + 1] = Child(kind)
         /\ frames' # <<>>
         /\ Closed' = Closed
         /\ Child(kind).id \notin Closed
         /\ \A i \in DOMAIN frames' : frames'[i].id \in 1..opened'
         /\ \A i, j \in DOMAIN frames' : i < j => frames'[i].id < frames'[j].id
         /\ \A i \in DOMAIN frames' : frames'[i].kind = "root" <=> i = 1
<1> DEFINE c == Child(kind)
           n == Len(frames)
<1>1. frames \in Seq(Frame) /\ opened \in Nat /\ n \in Nat /\ DOMAIN frames = 1..n
  BY LenProperties DEF Typing, TypeOK
<1>2. c \in Frame /\ c.id = opened + 1 /\ c.kind = kind
  BY ChildIsFrame
<1>3. frames' = Append(frames, c) /\ opened' = opened + 1
  BY DEF Opens
<1> HIDE DEF c, n
<1>4. /\ frames' \in Seq(Frame) /\ Len(frames') = n + 1
      /\ \A i \in 1..n : frames'[i] = frames[i]
      /\ frames'[n + 1] = c
  BY <1>1, <1>2, <1>3, AppendProperties DEF n
<1>5. DOMAIN frames' = 1..(n + 1)
  BY <1>4, LenProperties
<1>6. /\ 1..(n + 1) = (1..n) \cup {n + 1} /\ n + 1 \notin 1..n
      /\ DOMAIN frames' = DOMAIN frames \cup {n + 1}
      /\ \A i \in DOMAIN frames : frames'[i] = frames[i]
      /\ frames' # <<>>
  BY <1>1, <1>4, <1>5
<1>7. \A i \in DOMAIN frames' : frames'[i].id \in 1..opened'
  BY <1>1, <1>2, <1>3, <1>4, <1>6 DEF Stacked
<1>8. \A i, j \in DOMAIN frames' : i < j => frames'[i].id < frames'[j].id
  BY <1>1, <1>2, <1>3, <1>4, <1>5, <1>6 DEF Stacked
<1>9. n = 0 <=> frames = <<>>
  BY <1>1, EmptySeq DEF n
<1>10. \A i \in DOMAIN frames' : frames'[i].kind = "root" <=> i = 1
  BY <1>1, <1>2, <1>4, <1>6, <1>9 DEF Stacked
<1>11. OpenIds' = OpenIds \cup {opened + 1}
  BY <1>2, <1>4, <1>6 DEF OpenIds
<1>12. Closed' = Closed /\ opened + 1 \notin Closed
  BY <1>1, <1>3, <1>11 DEF Closed
<1> QED
  BY <1>1, <1>2, <1>3, <1>4, <1>6, <1>7, <1>8, <1>10, <1>12 DEF c, n

\* A frame popped is closed, unless it is the root.
LEMMA Popped ==
  ASSUME Typing, Stacked, frames # <<>>, Closes, opened' = opened
  PROVE  /\ frames' \in Seq(Frame)
         /\ Len(frames) \in Nat \ {0}
         /\ Len(frames') = Len(frames) - 1
         /\ DOMAIN frames = DOMAIN frames' \cup {Len(frames)}
         /\ \A i \in DOMAIN frames' : frames'[i] = frames[i]
         /\ Len(frames) # 1 => 1 \in DOMAIN frames' /\ frames' # <<>>
         /\ Len(frames) = 1 => frames' = <<>> /\ Closed' = 2..opened /\ Closed' = Closed
         /\ Len(frames) > 1 => /\ Top.id \in 2..opened
                               /\ Top.id \notin Closed
                               /\ Closed' = Closed \cup {Top.id}
                               /\ Top.kind # "root"
         /\ \A i \in DOMAIN frames' : frames'[i].id # Top.id
<1> DEFINE n == Len(frames)
<1>1. /\ frames \in Seq(Frame) /\ opened \in Nat /\ n \in Nat \ {0}
      /\ DOMAIN frames = 1..n /\ n \in DOMAIN frames
      /\ Top = frames[n]
  BY TopIsOpen, LenProperties DEF Typing, TypeOK
<1>2. frames' = SubSeq(frames, 1, n - 1)
  BY DEF Closes
<1> HIDE DEF n
<1>3. \A i \in 1..(n - 1) : frames[i] \in Frame
  BY <1>1, ElementOfSeq
<1>4. /\ frames' \in Seq(Frame)
      /\ Len(frames') = n - 1
      /\ \A i \in 1..(n - 1) : frames'[i] = frames[i]
  <2>1. n - 1 \in Int /\ 1 \in Int
    BY <1>1
  <2>2. frames' \in Seq(Frame)
    BY <1>2, <1>3, <2>1, SubSeqProperties
  <2>3. Len(frames') = n - 1
    BY <1>1, <1>2, <1>3, <2>1, SubSeqProperties
  <2>4. \A i \in 1..(n - 1) : frames'[i] = frames[i]
    BY <1>1, <1>2, <1>3, <2>1, SubSeqProperties
  <2> QED
    BY <2>2, <2>3, <2>4
<1>5. DOMAIN frames' = 1..(n - 1)
  BY <1>4, LenProperties
<1>6. 1..n = (1..(n - 1)) \cup {n} /\ n \notin 1..(n - 1)
  BY <1>1
<1>7. n # 1 => 1 \in DOMAIN frames' /\ frames' # <<>>
  BY <1>1, <1>4, <1>5
<1>8. n = 1 => frames' = <<>>
  BY <1>4, EmptySeq
<1>9. ASSUME NEW i \in DOMAIN frames' PROVE frames'[i].id < Top.id
  <2>1. i \in DOMAIN frames /\ i < n /\ frames'[i] = frames[i]
    BY <1>1, <1>4, <1>5, <1>6
  <2> QED
    BY <1>1, <2>1 DEF Stacked
<1>10. \A i \in DOMAIN frames : frames[i].id \in 1..opened
  BY DEF Stacked
<1>11. \A i \in DOMAIN frames' : frames'[i].id # Top.id
  BY <1>1, <1>4, <1>5, <1>6, <1>9, <1>10
<1>12. OpenIds = OpenIds' \cup {Top.id} /\ Top.id \notin OpenIds'
  BY <1>1, <1>4, <1>5, <1>6, <1>11 DEF OpenIds
<1>13. ASSUME n = 1
       PROVE  Closed' = 2..opened /\ Closed' = Closed
  <2>1. OpenIds' = {}
    BY <1>5, <1>13 DEF OpenIds
  <2>2. Top.id = 1
    BY <1>1, <1>13 DEF Stacked, RootId
  <2> QED
    BY <1>1, <1>12, <2>1, <2>2 DEF Closed
<1>14. ASSUME n > 1
       PROVE  /\ Top.id \in 2..opened
              /\ Top.id \notin Closed
              /\ Closed' = Closed \cup {Top.id}
              /\ Top.kind # "root"
  <2>1. 1 \in DOMAIN frames /\ 1 < n /\ frames[1].id = 1
    BY <1>1, <1>14 DEF Stacked, RootId
  <2>2. frames[1].id < Top.id
    BY <1>1, <2>1 DEF Stacked
  <2>3. Top.id \in 2..opened
    BY <1>1, <1>10, <2>1, <2>2
  <2>4. Top.kind # "root"
    BY <1>1, <2>1 DEF Stacked
  <2> QED
    BY <1>12, <2>3, <2>4 DEF Closed
<1> QED
  BY <1>1, <1>4, <1>5, <1>6, <1>7, <1>8, <1>11, <1>13, <1>14 DEF n

\* Opening a span closes none, and only a tool that is written has a node already.
LEMMA Opened ==
  ASSUME Typing, Stacked, Noded, Summarised, Counted, NEW kind \in Kinds, Opens(kind),
         frames # <<>> <=> opened # 0, frames = <<>> <=> kind = "root",
         ended = "none", ended' = "none", counts' = counts,
         NEW m, Started(log, Child(kind), m), SameTree(m, log'),
         Having(log', "llm.call") = Having(log, "llm.call")
  PROVE  Noded' /\ Summarised' /\ Counted'
<1> DEFINE c == Child(kind)
<1>1. /\ c.id = opened + 1 /\ c.kind = kind
      /\ opened \in Nat /\ opened' = opened + 1
      /\ DOMAIN frames' = DOMAIN frames \cup {Len(frames) + 1}
      /\ \A i \in DOMAIN frames : frames'[i] = frames[i]
      /\ frames'[Len(frames) + 1] = c
      /\ Closed' = Closed /\ c.id \notin Closed
  BY Pushed, ChildIsFrame
<1>2. /\ SpanNodes(log') = SpanNodes(log) \cup
           (IF c.emit /\ c.kind = "tool" THEN {c.id} ELSE {})
      /\ Summaries(log') = Summaries(log) /\ Failures(log') = Failures(log)
      /\ \A id \in Nat : id # c.id \/ c.kind # "tool" =>
           NodeRecords(log', id) = NodeRecords(log, id)
  BY DEF Started, SameTree
<1> HIDE DEF c
<1>3. SpanNodes(log') \subseteq 1..opened'
  BY <1>1, <1>2 DEF Noded
<1>4. ASSUME NEW i \in DOMAIN frames'
      PROVE  frames'[i].emit \/ frames'[i].id \notin SpanNodes(log')
  <2>1. CASE i \in DOMAIN frames
    <3>1. frames[i].id \in 1..opened /\ frames'[i] = frames[i]
      BY <1>1, <2>1 DEF Stacked
    <3>2. frames[i].id # c.id
      BY <1>1, <3>1
    <3> QED
      BY <1>2, <2>1, <3>1, <3>2 DEF Noded
  <2>2. CASE i = Len(frames) + 1
    <3>1. frames'[i] = c /\ c.id \notin 1..opened
      BY <1>1, <2>2
    <3> QED
      BY <1>2, <3>1 DEF Noded
  <2> QED
    BY <1>1, <2>1, <2>2
<1>5. NodeRecords(log', RootId) = {}
  <2>1. kind = "tool" => opened # 0
    OBVIOUS
  <2>2. RootId # c.id \/ c.kind # "tool"
    BY <1>1, <2>1 DEF RootId
  <2> QED
    BY <1>2, <2>2 DEF Noded, RootId
<1>6. Noded'
  BY <1>3, <1>4, <1>5 DEF Noded, Logged
<1>7. Summarised'
  BY <1>2 DEF Summarised, Logged
<1>8. /\ Closed \cap SpanNodes(log') = Closed \cap SpanNodes(log)
      /\ Closed \ SpanNodes(log') = Closed \ SpanNodes(log)
  BY <1>1, <1>2
<1>9. Counted'
  BY <1>1, <1>2, <1>8 DEF Counted
<1> QED
  BY <1>6, <1>7, <1>9

\* A log that is only prolonged keeps its leaf events where they are.
LEMMA LeavesStand ==
  ASSUME NEW l, NEW l2, Prolongs(l, l2)
  PROVE  /\ l2 \in Seq(LogRecords)
         /\ Having(l2, "llm.call") = Having(l, "llm.call")
         /\ Having(l2, "error") = Having(l, "error")
         /\ Having(l2, "client_error") = Having(l, "client_error")
         /\ Having(l2, "critical") = Having(l, "critical")
BY DEF Prolongs, LeafEvents

\* A log has its own tree.
LEMMA SameTreeIsReflexive == ASSUME NEW l PROVE SameTree(l, l)
BY DEF SameTree

\* The endpoint opens a span.
LEMMA OpensSpanStep == IInv /\ (\E kind \in ChildKinds : OpensSpan(kind)) => IInv'
<1> SUFFICES ASSUME IInv, NEW kind \in ChildKinds, OpensSpan(kind) PROVE IInv'
  OBVIOUS
<1> USE DEF IInv
<1>1. /\ kind \in Kinds /\ kind # "root" /\ Opens(kind)
      /\ frames # <<>> /\ opened # 0
      /\ ended = "none" /\ ended' = "none" /\ counts' = counts
  <2>1. frames # <<>>
    BY DEF OpensSpan, Stacked, Placed
  <2>2. opened # 0
    BY <2>1, TopIsOpen DEF Stacked, Typing, TypeOK
  <2> QED
    BY <2>1, <2>2 DEF OpensSpan, Placed, answerVars, Kinds, ChildKinds
<1>2. Started(log, Child(kind), log')
  <2>1. Child(kind) \in Frame /\ log \in Seq(LogRecords)
    BY <1>1, ChildIsFrame DEF Typing
  <2>2. log' = log \o Traced(StartRecords(Child(kind)), TRUE)
    BY DEF OpensSpan, Writes
  <2> QED
    BY <2>1, <2>2, WriteStart
<1>3. /\ log' \in Seq(LogRecords)
      /\ Having(log', "llm.call") = Having(log, "llm.call")
      /\ Having(log', "error") = Having(log, "error")
      /\ Having(log', "client_error") = Having(log, "client_error")
      /\ Having(log', "critical") = Having(log, "critical")
  BY <1>2, LeavesStand DEF Started
<1>4. Noded' /\ Summarised' /\ Counted'
  BY <1>1, <1>2, <1>3, SameTreeIsReflexive, Opened
<1>5. /\ frames' \in Seq(Frame)
      /\ opened' = opened + 1 /\ opened \in Nat
      /\ DOMAIN frames' = DOMAIN frames \cup {Len(frames) + 1}
      /\ \A i \in DOMAIN frames : frames'[i] = frames[i]
      /\ frames' # <<>>
      /\ \A i \in DOMAIN frames' : frames'[i].id \in 1..opened'
      /\ \A i, j \in DOMAIN frames' : i < j => frames'[i].id < frames'[j].id
      /\ \A i \in DOMAIN frames' : frames'[i].kind = "root" <=> i = 1
  BY <1>1, Pushed
<1>6. Typing'
  BY <1>3, <1>5 DEF OpensSpan, Typing, TypeOK, answerVars, budgetVars
<1>7. Placed'
  BY <1>1 DEF OpensSpan, Placed, answerVars, budgetVars
<1>8. Stacked'
  <2>1. 1 \in DOMAIN frames
    BY <1>1, EmptySeq, LenProperties DEF Typing, TypeOK
  <2> QED
    BY <1>1, <1>5, <2>1 DEF OpensSpan, Stacked
<1>9. Answered' /\ Blamed'
  BY <1>1, <1>3 DEF OpensSpan, Answered, Blamed, Inside, answerVars
<1> QED
  BY <1>4, <1>6, <1>7, <1>8, <1>9

\* The root is opened first, in no span, and is written.
LEMMA RootOpens ==
  ASSUME Typing, Placed, Stacked, pc = "idle", Opens("root")
  PROVE  /\ ended = "none" /\ opened = 0 /\ frames = <<>> /\ opened' = 1
         /\ Child("root") \in Frame
         /\ Child("root").id = 1
         /\ frames' \in Seq(Frame)
         /\ Len(frames') = 1
         /\ frames' # <<>>
         /\ \A i \in DOMAIN frames' : frames'[i].id \in 1..opened'
         /\ \A i, j \in DOMAIN frames' : i < j => frames'[i].id < frames'[j].id
         /\ \A i \in DOMAIN frames' : frames'[i].kind = "root" <=> i = 1
         /\ frames'[1].id = RootId
         /\ frames'[1].parent = NoSpan
         /\ frames'[1].emit
<1>1. opened = 0 /\ frames = <<>> /\ Len(frames) = 0 /\ ended = "none"
  BY EmptySeq DEF Placed
<1>2. "root" \in Kinds
  BY DEF Kinds
<1>3. /\ Child("root") \in Frame
      /\ Child("root").id = 1
      /\ Child("root").parent = NoSpan
      /\ Child("root").emit
  <2>1. Child("root").emit
    BY <1>2, ChildIsFrame, RootIsWritten, Zenon
  <2> QED
    BY <1>1, <1>2, <2>1, ChildIsFrame DEF CurrentSpan
<1>4. /\ frames' \in Seq(Frame)
      /\ opened' = opened + 1
      /\ Len(frames') = Len(frames) + 1
      /\ frames'[Len(frames) + 1] = Child("root")
      /\ frames' # <<>>
      /\ \A i \in DOMAIN frames' : frames'[i].id \in 1..opened'
      /\ \A i, j \in DOMAIN frames' : i < j => frames'[i].id < frames'[j].id
      /\ \A i \in DOMAIN frames' : frames'[i].kind = "root" <=> i = 1
  BY <1>1, <1>2, Pushed
<1>5. frames'[1] = Child("root") /\ Len(frames') = 1
  BY <1>1, <1>4
<1>6. frames'[1].id = RootId /\ frames'[1].parent = NoSpan /\ frames'[1].emit
  BY <1>3, <1>5 DEF RootId
<1> QED
  BY <1>1, <1>3, <1>4, <1>5, <1>6

\* The request is let in.
LEMMA ArrivesStep == IInv /\ Arrives => IInv'
<1> SUFFICES ASSUME IInv, Arrives PROVE IInv'
  OBVIOUS
<1> USE DEF IInv
<1>1. pc = "idle" /\ Opens("root") /\ "root" \in Kinds /\ counts' = counts /\ ended' = ended
  BY DEF Arrives, answerVars, Kinds
<1>2. /\ ended = "none" /\ opened = 0 /\ frames = <<>> /\ opened' = 1
      /\ Child("root") \in Frame
      /\ frames' \in Seq(Frame)
      /\ frames' # <<>>
      /\ \A i \in DOMAIN frames' : frames'[i].id \in 1..opened'
      /\ \A i, j \in DOMAIN frames' : i < j => frames'[i].id < frames'[j].id
      /\ \A i \in DOMAIN frames' : frames'[i].kind = "root" <=> i = 1
      /\ frames'[1].id = RootId
      /\ frames'[1].parent = NoSpan
      /\ frames'[1].emit
  BY <1>1, RootOpens
<1>3. Started(log, Child("root"), log')
  <2>1. log \in Seq(LogRecords)
    BY DEF Typing
  <2>2. log' = log \o Traced(StartRecords(Child("root")), TRUE)
    BY DEF Arrives, Writes
  <2> QED
    BY <1>2, <2>1, <2>2, WriteStart
<1>4. /\ log' \in Seq(LogRecords)
      /\ Having(log', "llm.call") = Having(log, "llm.call")
      /\ Having(log', "error") = Having(log, "error")
      /\ Having(log', "client_error") = Having(log, "client_error")
      /\ Having(log', "critical") = Having(log, "critical")
  BY <1>3, LeavesStand DEF Started
<1>5. Noded' /\ Summarised' /\ Counted'
  BY <1>1, <1>2, <1>3, <1>4, SameTreeIsReflexive, Opened
<1>6. Typing'
  BY <1>2, <1>4 DEF Arrives, Goes, Places, Typing, TypeOK, answerVars, budgetVars
<1>7. Placed' /\ Stacked'
  BY <1>2 DEF Arrives, Goes, Placed, Stacked, answerVars, budgetVars
<1>8. Answered' /\ Blamed'
  <2>1. Having(log, "client_error") = {} /\ observed = 0 /\ got.status = 0
    BY <1>1, <1>2 DEF Having, Placed, Answered
  <2> QED
    BY <1>1, <1>2, <1>4, <2>1 DEF Arrives, Goes, Answered, Blamed, Inside, Placed, answerVars
<1> QED
  BY <1>5, <1>6, <1>7, <1>8

\* What a span writes are records.
LEMMA SpanIsPlain ==
  ASSUME NEW frame \in Frame
  PROVE  /\ StartRecords(frame) \in Seq(PlainRecords)
         /\ FinishRecords(frame) \in Seq(PlainRecords)
         /\ \A e : ErrorRecords(frame, e) \in Seq(PlainRecords)
<1>1. <<>> \in Seq(PlainRecords)
  BY EmptySeq
<1>2. \A r \in PlainRecords : <<r>> \in Seq(PlainRecords)
  OBVIOUS
<1>3. StartRecords(frame) \in Seq(PlainRecords)
  BY <1>1, <1>2, SpanRecords, WhatIsWritten
<1>4. FinishRecords(frame) \in Seq(PlainRecords)
  BY <1>1, <1>2, SpanRecords, WhatIsWritten
<1>5. ASSUME NEW e PROVE ErrorRecords(frame, e) \in Seq(PlainRecords)
  <2>1. ErrorOf(frame, e) \in PlainRecords
    BY SpanRecords
  <2>2. ErrorRecords(frame, e) = <<ErrorOf(frame, e)>>
    BY WhatIsWritten
  <2> QED
    BY <1>2, <2>1, <2>2
<1> QED
  BY <1>3, <1>4, <1>5

\* A body that is too large is refused in the root span.
LEMMA RefusesBodyStep == IInv /\ RefusesBody => IInv'
<1> SUFFICES ASSUME IInv, RefusesBody PROVE IInv'
  OBVIOUS
<1> USE DEF IInv
<1> DEFINE m == log \o Traced(StartRecords(Child("root")), TRUE)
<1>1. pc = "idle" /\ Opens("root") /\ "root" \in Kinds /\ counts' = counts /\ ended' = ended
  BY DEF RefusesBody, Kinds
<1>2. /\ ended = "none" /\ opened = 0 /\ frames = <<>> /\ opened' = 1
      /\ Child("root") \in Frame
      /\ Child("root").id = 1
      /\ frames' \in Seq(Frame)
      /\ Len(frames') = 1
      /\ frames' # <<>>
      /\ \A i \in DOMAIN frames' : frames'[i].id \in 1..opened'
      /\ \A i, j \in DOMAIN frames' : i < j => frames'[i].id < frames'[j].id
      /\ \A i \in DOMAIN frames' : frames'[i].kind = "root" <=> i = 1
      /\ frames'[1].id = RootId
      /\ frames'[1].parent = NoSpan
      /\ frames'[1].emit
  BY <1>1, RootOpens
<1>3. Started(log, Child("root"), m) /\ Leafed(m, "client_error", log')
  <2>1. log \in Seq(LogRecords) /\ "client_error" \in LeafEvents
    BY DEF Typing, LeafEvents
  <2>2. Started(log, Child("root"), m)
    BY <1>2, <2>1, WriteStart
  <2>3. log' = m \o Traced(LeafRecords("client_error", Child("root").id), TRUE)
    <3>1. /\ StartRecords(Child("root")) \in Seq(PlainRecords)
          /\ LeafRecords("client_error", Child("root").id) \in Seq(PlainRecords)
      BY <1>2, <2>1, SpanIsPlain, LeafIsPlain
    <3>2. log' = log \o Traced(StartRecords(Child("root"))
                                  \o LeafRecords("client_error", Child("root").id), TRUE)
      BY DEF RefusesBody, Writes
    <3> QED
      BY <2>1, <3>1, <3>2, TracedTwo
  <2> HIDE DEF m
  <2>4. m \in Seq(LogRecords)
    BY <2>2 DEF Started, Prolongs
  <2>5. Leafed(m, "client_error", log')
    BY <1>2, <2>1, <2>3, <2>4, WriteLeaf
  <2> QED
    BY <2>2, <2>5
<1> HIDE DEF m
<1>4. /\ log' \in Seq(LogRecords)
      /\ SameTree(m, log')
      /\ Having(log', "llm.call") = Having(log, "llm.call")
      /\ Having(log', "error") = Having(log, "error")
      /\ Having(log', "critical") = Having(log, "critical")
  BY <1>3, LeavesStand DEF Started, Leafed, Events, LeafEvents
<1>5. Noded' /\ Summarised' /\ Counted'
  BY <1>1, <1>2, <1>3, <1>4, Opened
<1>6. Typing'
  BY <1>2, <1>4 DEF RefusesBody, Goes, Places, Statuses, Typing, TypeOK, budgetVars
<1>7. Placed' /\ Stacked'
  BY <1>2 DEF RefusesBody, Goes, Placed, Stacked, budgetVars
<1>8. Answered' /\ Blamed'
  <2>1. observed = 0 /\ got.status = 0
    BY <1>1, <1>2 DEF Placed, Answered
  <2> QED
    BY <1>1, <1>2, <1>4, <2>1 DEF RefusesBody, Goes, Answered, Blamed, Inside, Placed
<1> QED
  BY <1>5, <1>6, <1>7, <1>8

\* A finished span is counted once: as a span when it was written, else as filtered.
LEMMA CountsFinish ==
  ASSUME NEW c \in Counts, NEW frame \in Frame, frame.kind # "root"
  PROVE  /\ CountFinished(c, frame) \in Counts
         /\ CountFinished(c, frame).errors = c.errors
         /\ CountFinished(c, frame).llm = c.llm
         /\ frame.emit => /\ CountFinished(c, frame).spans = c.spans + 1
                          /\ CountFinished(c, frame).filtered = c.filtered
         /\ ~frame.emit => /\ CountFinished(c, frame).spans = c.spans
                           /\ CountFinished(c, frame).filtered = c.filtered + 1
<1>1. CASE frame.emit
  <2>1. CountFinished(c, frame) = [c EXCEPT !.spans = @ + 1]
    BY <1>1 DEF CountFinished
  <2> QED
    BY <1>1, <2>1 DEF Counts
<1>2. CASE ~frame.emit
  <2>1. CountFinished(c, frame) = [c EXCEPT !.filtered = @ + 1]
    BY <1>2 DEF CountFinished
  <2> QED
    BY <1>2, <2>1 DEF Counts
<1> QED
  BY <1>1, <1>2

\* A failed span is counted once, and as an error only at ERROR.
LEMMA CountsFail ==
  ASSUME NEW c \in Counts, NEW frame, NEW e
  PROVE  /\ CountFailed(c, frame, e) \in Counts
         /\ CountFailed(c, frame, e).filtered = c.filtered
         /\ CountFailed(c, frame, e).llm = c.llm
         /\ CountFailed(c, frame, e).spans = IF frame.kind = "root" THEN c.spans ELSE c.spans + 1
         /\ CountFailed(c, frame, e).errors =
              IF ErrorLevel(e) = "ERROR" THEN c.errors + 1 ELSE c.errors
<1> DEFINE d1 == [c EXCEPT !.spans = IF frame.kind = "root" THEN @ ELSE @ + 1]
           d2 == [d1 EXCEPT !.errors = IF ErrorLevel(e) = "ERROR" THEN @ + 1 ELSE @]
<1>1. CountFailed(c, frame, e) = d2
  BY DEF CountFailed
<1>2. /\ d1 \in Counts
      /\ d1.filtered = c.filtered /\ d1.llm = c.llm /\ d1.errors = c.errors
      /\ d1.spans = IF frame.kind = "root" THEN c.spans ELSE c.spans + 1
  BY DEF Counts
<1> HIDE DEF d1
<1>3. /\ d2 \in Counts
      /\ d2.filtered = d1.filtered /\ d2.llm = d1.llm /\ d2.spans = d1.spans
      /\ d2.errors = IF ErrorLevel(e) = "ERROR" THEN d1.errors + 1 ELSE d1.errors
  BY <1>2 DEF Counts
<1> QED
  BY <1>1, <1>2, <1>3

\* A span closed is one more of those that have a node, or of those that have none.
LEMMA OneMoreClosed ==
  ASSUME Typing, NEW N, NEW t, t \notin Closed
  PROVE  /\ Cardinality(Closed \cap N) \in Nat
         /\ Cardinality(Closed \ N) \in Nat
         /\ Cardinality((Closed \cap N) \cup {t}) = Cardinality(Closed \cap N) + 1
         /\ Cardinality((Closed \ N) \cup {t}) = Cardinality(Closed \ N) + 1
<1>1. IsFiniteSet(Closed)
  <2>1. IsFiniteSet(2..opened)
    BY FS_Interval DEF Typing, TypeOK
  <2>2. Closed \subseteq 2..opened
    BY DEF Closed
  <2> QED
    BY <2>1, <2>2, FS_Subset
<1>2. IsFiniteSet(Closed \cap N) /\ IsFiniteSet(Closed \ N)
  <2>1. Closed \cap N \subseteq Closed /\ (Closed \ N) \subseteq Closed
    OBVIOUS
  <2> QED
    BY <1>1, <2>1, FS_Subset
<1>3. t \notin Closed \cap N /\ t \notin (Closed \ N)
  OBVIOUS
<1> QED
  BY <1>2, <1>3, FS_CardinalityType, FS_AddElement

\* What closing a child leaves of the tree and the stack.
LEMMA ChildCloses ==
  ASSUME Typing, Stacked, Noded, Summarised, InChild, Closes, opened' = opened,
         ended = "none", ended' = "none", pc' = pc, pc \in {"app", "raising"},
         Summaries(log') = Summaries(log),
         SpanNodes(log') \subseteq SpanNodes(log) \cup {Top.id},
         \A id \in Nat : id # Top.id => NodeRecords(log', id) = NodeRecords(log, id)
  PROVE  /\ frames' \in Seq(Frame)
         /\ Stacked' /\ Noded' /\ Summarised'
         /\ Top \in Frame /\ Top.kind # "root"
         /\ Top.id \notin Closed /\ Closed' = Closed \cup {Top.id}
         /\ Top.emit \/ Top.id \notin SpanNodes(log)
<1>1. frames # <<>> /\ Len(frames) > 1
  BY EmptySeq DEF InChild
<1>2. /\ frames' \in Seq(Frame)
      /\ Len(frames) \in Nat \ {0}
      /\ DOMAIN frames = DOMAIN frames' \cup {Len(frames)}
      /\ \A i \in DOMAIN frames' : frames'[i] = frames[i]
      /\ Top.id \in 2..opened
      /\ Top.id \notin Closed
      /\ Closed' = Closed \cup {Top.id}
      /\ Top.kind # "root"
      /\ \A i \in DOMAIN frames' : frames'[i].id # Top.id
      /\ frames' # <<>>
      /\ 1 \in DOMAIN frames'
  BY <1>1, Popped
<1>3. Top \in Frame /\ Top = frames[Len(frames)] /\ opened \in Nat
  BY <1>1, TopIsOpen DEF Typing, TypeOK
<1>4. Top.emit \/ Top.id \notin SpanNodes(log)
  BY <1>2, <1>3 DEF Noded
<1>5. Stacked'
  BY <1>2 DEF Stacked
<1>6. Noded'
  <2>1. SpanNodes(log') \subseteq 1..opened'
    <3>1. Top.id \in 1..opened
      BY <1>2, <1>3
    <3>2. SpanNodes(log) \subseteq 1..opened
      BY DEF Noded
    <3> QED
      BY <3>1, <3>2
  <2>2. \A i \in DOMAIN frames' : frames'[i].emit \/ frames'[i].id \notin SpanNodes(log')
    BY <1>2 DEF Noded
  <2>3. NodeRecords(log', RootId) = {}
    <3>1. RootId \in Nat /\ RootId # Top.id
      BY <1>2, <1>3 DEF RootId
    <3>2. NodeRecords(log, RootId) = {}
      BY DEF Noded
    <3> QED
      BY <3>1, <3>2
  <2> QED
    BY <2>1, <2>2, <2>3 DEF Noded, Logged
<1>7. Summarised'
  BY DEF Summarised, Logged
<1> QED
  BY <1>2, <1>3, <1>4, <1>5, <1>6, <1>7

\* The endpoint leaves a span.
LEMMA ClosesSpanStep == IInv /\ ClosesSpan => IInv'
<1> SUFFICES ASSUME IInv, ClosesSpan PROVE IInv'
  OBVIOUS
<1> USE DEF IInv
<1>1. /\ InChild /\ Closes /\ opened' = opened /\ ended = "none" /\ ended' = "none"
      /\ pc' = pc /\ pc = "app" /\ frames # <<>>
  BY EmptySeq DEF ClosesSpan, Placed, Stacked, answerVars
<1>2. Top \in Frame /\ log \in Seq(LogRecords) /\ counts \in Counts
  BY <1>1, TopIsOpen DEF Typing, TypeOK, Counts
<1>3. Finished(log, Top, log')
  <2>1. log' = log \o Traced(FinishRecords(Top), TRUE)
    BY DEF ClosesSpan, Writes
  <2> QED
    BY <1>2, <2>1, WriteFinish
<1>4. /\ log' \in Seq(LogRecords)
      /\ Having(log', "llm.call") = Having(log, "llm.call")
      /\ Having(log', "error") = Having(log, "error")
      /\ Having(log', "client_error") = Having(log, "client_error")
      /\ Having(log', "critical") = Having(log, "critical")
  BY <1>3, LeavesStand DEF Finished
<1>5. /\ Summaries(log') = Summaries(log) /\ Failures(log') = Failures(log)
      /\ SpanNodes(log') = SpanNodes(log) \cup (IF Top.emit THEN {Top.id} ELSE {})
      /\ SpanNodes(log') \subseteq SpanNodes(log) \cup {Top.id}
      /\ \A id \in Nat : id # Top.id => NodeRecords(log', id) = NodeRecords(log, id)
  BY <1>3 DEF Finished
<1>6. /\ frames' \in Seq(Frame)
      /\ Stacked' /\ Noded' /\ Summarised'
      /\ Top.kind # "root"
      /\ Top.id \notin Closed /\ Closed' = Closed \cup {Top.id}
      /\ Top.emit \/ Top.id \notin SpanNodes(log)
  BY <1>1, <1>5, ChildCloses
<1>7. /\ counts' \in Counts
      /\ counts'.errors = counts.errors
      /\ counts'.llm = counts.llm
      /\ Top.emit => counts'.spans = counts.spans + 1 /\ counts'.filtered = counts.filtered
      /\ ~Top.emit => counts'.spans = counts.spans /\ counts'.filtered = counts.filtered + 1
  BY <1>2, <1>6, CountsFinish DEF ClosesSpan
<1>8. Typing'
  <2>1. counts' \in [spans: Nat, filtered: Nat, errors: Nat, llm: Nat]
    BY <1>7 DEF Counts
  <2> QED
    BY <1>4, <1>6, <2>1 DEF ClosesSpan, Typing, TypeOK, answerVars, budgetVars
<1>9. Placed'
  BY <1>1 DEF ClosesSpan, Placed, answerVars, budgetVars
<1>10. Answered' /\ Blamed'
  BY <1>1, <1>4 DEF ClosesSpan, Answered, Blamed, Inside, answerVars
<1>11. Counted'
  <2>1. CASE Top.emit
    <3>1. /\ Closed' \cap SpanNodes(log') = (Closed \cap SpanNodes(log)) \cup {Top.id}
          /\ Closed' \ SpanNodes(log') = Closed \ SpanNodes(log)
      BY <1>5, <1>6, <2>1
    <3>2. Cardinality((Closed \cap SpanNodes(log)) \cup {Top.id})
            = Cardinality(Closed \cap SpanNodes(log)) + 1
      BY <1>6, OneMoreClosed
    <3> QED
      BY <1>4, <1>5, <1>7, <2>1, <3>1, <3>2 DEF Counted
  <2>2. CASE ~Top.emit
    <3>1. /\ Closed' \cap SpanNodes(log') = Closed \cap SpanNodes(log)
          /\ Closed' \ SpanNodes(log') = (Closed \ SpanNodes(log)) \cup {Top.id}
      BY <1>5, <1>6, <2>2
    <3>2. Cardinality((Closed \ SpanNodes(log)) \cup {Top.id})
            = Cardinality(Closed \ SpanNodes(log)) + 1
      BY <1>6, OneMoreClosed
    <3> QED
      BY <1>4, <1>5, <1>7, <2>2, <3>1, <3>2 DEF Counted
  <2> QED
    BY <2>1, <2>2
<1> QED
  BY <1>6, <1>8, <1>9, <1>10, <1>11

\* A set of failures gains the record of a failure that is an error, and no other.
LEMMA FailuresCounted ==
  ASSUME NEW l \in Seq(LogRecords), NEW l2, NEW e,
         Failures(l2) = Failures(l) \cup (IF ErrorLevel(e) = "ERROR" THEN {Len(l) + 1} ELSE {})
  PROVE  /\ Cardinality(Failures(l)) \in Nat
         /\ Cardinality(Failures(l2)) =
              IF ErrorLevel(e) = "ERROR" THEN Cardinality(Failures(l)) + 1
                                         ELSE Cardinality(Failures(l))
<1>1. /\ Cardinality(Failures(l)) \in Nat
      /\ Cardinality(Failures(l) \cup {Len(l) + 1}) = Cardinality(Failures(l)) + 1
  BY ViewsAreFinite
<1>2. CASE ErrorLevel(e) = "ERROR"
  BY <1>1, <1>2
<1>3. CASE ErrorLevel(e) # "ERROR"
  <2>1. Failures(l2) = Failures(l)
    BY <1>3
  <2> QED
    BY <1>1, <1>3, <2>1
<1> QED
  BY <1>2, <1>3

\* An exception leaves a span.
LEMMA LeavesSpanStep == IInv /\ LeavesSpan => IInv'
<1> SUFFICES ASSUME IInv, LeavesSpan PROVE IInv'
  OBVIOUS
<1> USE DEF IInv
<1>1. /\ InChild /\ Closes /\ opened' = opened /\ ended = "none" /\ ended' = "none"
      /\ pc' = pc /\ pc = "raising" /\ frames # <<>>
  BY EmptySeq DEF LeavesSpan, Placed, Stacked, answerVars
<1>2. Top \in Frame /\ log \in Seq(LogRecords) /\ counts \in Counts
  BY <1>1, TopIsOpen DEF Typing, TypeOK, Counts
<1>3. Errored(log, Top, exc, log')
  <2>1. log' = log \o Traced(ErrorRecords(Top, exc), TRUE)
    BY DEF LeavesSpan, Writes
  <2> QED
    BY <1>2, <2>1, WriteError
<1>4. /\ log' \in Seq(LogRecords)
      /\ Having(log', "llm.call") = Having(log, "llm.call")
      /\ Having(log', "error") = Having(log, "error")
      /\ Having(log', "client_error") = Having(log, "client_error")
      /\ Having(log', "critical") = Having(log, "critical")
  BY <1>3, LeavesStand DEF Errored
<1>5. /\ Summaries(log') = Summaries(log)
      /\ SpanNodes(log') = SpanNodes(log) \cup {Top.id}
      /\ \A id \in Nat : id # Top.id => NodeRecords(log', id) = NodeRecords(log, id)
      /\ Failures(log') = Failures(log) \cup
           (IF ErrorLevel(exc) = "ERROR" THEN {Len(log) + 1} ELSE {})
  BY <1>3 DEF Errored
<1>6. /\ frames' \in Seq(Frame)
      /\ Stacked' /\ Noded' /\ Summarised'
      /\ Top.kind # "root"
      /\ Top.id \notin Closed /\ Closed' = Closed \cup {Top.id}
  BY <1>1, <1>5, ChildCloses
<1>7. /\ counts' \in Counts
      /\ counts'.filtered = counts.filtered
      /\ counts'.llm = counts.llm
      /\ counts'.spans = counts.spans + 1
      /\ counts'.errors = IF ErrorLevel(exc) = "ERROR" THEN counts.errors + 1 ELSE counts.errors
  BY <1>2, <1>6, CountsFail DEF LeavesSpan
<1>8. Typing'
  <2>1. counts' \in [spans: Nat, filtered: Nat, errors: Nat, llm: Nat]
    BY <1>7 DEF Counts
  <2> QED
    BY <1>4, <1>6, <2>1 DEF LeavesSpan, Typing, TypeOK, answerVars, budgetVars
<1>9. Placed'
  BY <1>1 DEF LeavesSpan, Placed, answerVars, budgetVars
<1>10. Answered' /\ Blamed'
  BY <1>1, <1>4 DEF LeavesSpan, Answered, Blamed, Inside, answerVars
<1>11. Counted'
  <2>1. /\ Closed' \cap SpanNodes(log') = (Closed \cap SpanNodes(log)) \cup {Top.id}
        /\ Closed' \ SpanNodes(log') = Closed \ SpanNodes(log)
    BY <1>5, <1>6
  <2>2. counts'.spans = Cardinality(Closed' \cap SpanNodes(log'))
    BY <1>6, <1>7, <2>1, OneMoreClosed DEF Counted
  <2>3. counts'.errors = Cardinality(Failures(log'))
    BY <1>2, <1>5, <1>7, FailuresCounted DEF Counted
  <2> QED
    BY <1>4, <1>7, <2>1, <2>2, <2>3 DEF Counted
<1> QED
  BY <1>6, <1>8, <1>9, <1>10, <1>11

-----------------------------------------------------------------------------
(* The root closes *)

\* When the last open frame closes, it is the request's own span.
LEMMA RootCloses ==
  ASSUME Typing, Stacked, Len(frames) = 1, Closes, opened' = opened
  PROVE  /\ frames' = <<>> /\ Closed' = Closed /\ 1 \notin Closed
         /\ opened \in Nat \ {0}
         /\ Top \in Frame
         /\ Top.id = 1 /\ Top.parent = NoSpan /\ Top.kind = "root" /\ Top.emit
<1>1. frames # <<>>
  BY EmptySeq
<1>2. /\ Top = frames[1] /\ Top \in Frame /\ 1 \in DOMAIN frames
      /\ Top.id \in 1..opened /\ opened \in Nat
  BY <1>1, TopIsOpen DEF Typing, TypeOK
<1>3. frames' = <<>> /\ Closed' = Closed /\ Closed' = 2..opened
  BY <1>1, Popped
<1>4. Top.id = 1 /\ Top.parent = NoSpan /\ Top.kind = "root" /\ Top.emit
  BY <1>1, <1>2 DEF Stacked, RootId
<1>5. opened # 0 /\ 1 \notin 2..opened
  BY <1>2, <1>4
<1> QED
  BY <1>2, <1>3, <1>4, <1>5

\* The record that makes the root's node.
RootNode(l, m) ==
  /\ Prolongs(l, m)
  /\ Summaries(m) = Summaries(l)
  /\ SpanNodes(m) = SpanNodes(l) \cup {RootId}
  /\ NodeRecords(m, RootId) = NodeRecords(l, RootId) \cup {Len(l) + 1}
  /\ Len(l) + 1 \in DOMAIN m
  /\ m[Len(l) + 1].body.parent = NoSpan

\* The root's node and then the summary: one of each.
LEMMA RootEnds ==
  ASSUME Typing, Noded, Summarised, ended = "none", ended' \in Logged, frames' = <<>>,
         opened' = opened, opened \in Nat \ {0}, 1 \notin Closed, Closed' = Closed,
         NEW m, RootNode(log, m),
         NEW outcome, NEW status, NEW c, Summed(m, outcome, status, c, log')
  PROVE  /\ log' \in Seq(LogRecords)
         /\ Noded'
         /\ Closed' \cap SpanNodes(log') = Closed \cap SpanNodes(log)
         /\ Closed' \ SpanNodes(log') = Closed \ SpanNodes(log)
         /\ Failures(log') = Failures(m)
         /\ Having(log', "llm.call") = Having(log, "llm.call")
         /\ Having(log', "error") = Having(log, "error")
         /\ Having(log', "client_error") = Having(log, "client_error")
         /\ Having(log', "critical") = Having(log, "critical")
         /\ \E k \in DOMAIN log' :
              /\ Summaries(log') = {k}
              /\ log'[k].body.outcome = outcome
              /\ log'[k].body.status = status
              /\ log'[k].body.counts = c
<1>1. Prolongs(log, m) /\ Prolongs(m, log')
  BY DEF RootNode, Summed
<1>2. SpanNodes(log') = SpanNodes(log) \cup {1}
  BY DEF RootNode, Summed, RootId
<1>3. /\ NodeRecords(log', RootId) = {Len(log) + 1}
      /\ Len(log) + 1 \in DOMAIN log'
      /\ log'[Len(log) + 1].body.parent = NoSpan
  <2>1. NodeRecords(log', RootId) = NodeRecords(m, RootId)
    BY DEF Summed, RootId
  <2>2. NodeRecords(log, RootId) = {}
    BY DEF Noded
  <2>3. Len(log) + 1 \in DOMAIN m /\ m[Len(log) + 1].body.parent = NoSpan
    BY DEF RootNode
  <2>4. Len(log) + 1 \in DOMAIN log' /\ log'[Len(log) + 1] = m[Len(log) + 1]
    BY <1>1, <2>3 DEF Prolongs
  <2> QED
    BY <2>1, <2>2, <2>3, <2>4 DEF RootNode
<1>4. Noded'
  <2>1. SpanNodes(log') \subseteq 1..opened'
    <3>1. 1 \in 1..opened
      OBVIOUS
    <3> QED
      BY <1>2, <3>1 DEF Noded
  <2>2. DOMAIN frames' = {}
    OBVIOUS
  <2>3. ended' # "none"
    BY DEF Logged
  <2> QED
    BY <1>3, <2>1, <2>2, <2>3 DEF Noded
<1>5. /\ Closed' \cap SpanNodes(log') = Closed \cap SpanNodes(log)
      /\ Closed' \ SpanNodes(log') = Closed \ SpanNodes(log)
  BY <1>2
<1>6. Summaries(log') = {Len(m) + 1}
  <2>1. Summaries(log) = {}
    BY DEF Summarised, Logged
  <2> QED
    BY <2>1 DEF RootNode, Summed
<1>7. /\ Len(m) + 1 \in DOMAIN log'
      /\ log'[Len(m) + 1].body.outcome = outcome
      /\ log'[Len(m) + 1].body.status = status
      /\ log'[Len(m) + 1].body.counts = c
  BY DEF Summed
<1>8. Failures(log') = Failures(m)
  BY DEF Summed
<1> QED
  BY <1>1, <1>4, <1>5, <1>6, <1>7, <1>8, LeavesStand

\* Every status has an outcome.
LEMMA OutcomeIs ==
  ASSUME NEW status \in Statuses
  PROVE  ClassifyRequestOutcome(status) \in {"ok", "client_error", "server_error", "cancelled"}
BY DEF Statuses, ClassifyRequestOutcome

\* What a summary writes are records.
LEMMA SummaryIsPlain ==
  ASSUME NEW frame \in Frame, NEW status \in Statuses, NEW c \in Counts,
         NEW outcome \in {"ok", "client_error", "server_error", "cancelled"}
  PROVE  SummaryRecords(frame, outcome, status, c) \in Seq(PlainRecords)
<1>1. SummaryOf(frame, outcome, status, c) \in PlainRecords
  BY OtherRecords
<1>2. SummaryRecords(frame, outcome, status, c) = <<SummaryOf(frame, outcome, status, c)>>
  BY WhatIsWritten
<1> QED
  BY <1>1, <1>2

\* The application has returned.
LEMMA FinishesStep == IInv /\ Finishes => IInv'
<1> SUFFICES ASSUME IInv, Finishes PROVE IInv'
  OBVIOUS
<1> USE DEF IInv
<1> DEFINE m == log \o Traced(FinishRecords(Top), TRUE)
           o == ClassifyRequestOutcome(observed)
<1>1. /\ pc = "returning" /\ pc' = "done" /\ ended = "none" /\ ended' = "returned"
      /\ Closes /\ opened' = opened /\ counts' = counts
      /\ Len(frames) = 1
      /\ observed' = observed /\ got' = got /\ exc' = exc /\ cause' = cause
      /\ observed = got.status
  BY DEF Finishes, Goes, Placed, Stacked, Answered
<1>2. /\ frames' = <<>> /\ Closed' = Closed /\ 1 \notin Closed /\ opened \in Nat \ {0}
      /\ Top \in Frame
      /\ Top.id = 1 /\ Top.parent = NoSpan /\ Top.kind = "root" /\ Top.emit
  BY <1>1, RootCloses
<1>3. /\ log \in Seq(LogRecords) /\ counts \in Counts /\ observed \in Statuses
      /\ o \in {"ok", "client_error", "server_error", "cancelled"}
  BY OutcomeIs DEF Typing, TypeOK, Counts
<1>4. Finished(log, Top, m)
  BY <1>2, <1>3, WriteFinish
<1>5. log' = m \o Traced(SummaryRecords(Top, o, observed, counts), TRUE)
  <2>1. /\ FinishRecords(Top) \in Seq(PlainRecords)
        /\ SummaryRecords(Top, o, observed, counts) \in Seq(PlainRecords)
    BY <1>2, <1>3, SpanIsPlain, SummaryIsPlain
  <2>2. log' = log \o Traced(FinishRecords(Top)
                                \o SummaryRecords(Top, o, observed, counts), TRUE)
    BY DEF Finishes, Writes
  <2> QED
    BY <1>3, <2>1, <2>2, TracedTwo
<1> HIDE DEF m, o
<1>6. RootNode(log, m)
  BY <1>2, <1>4 DEF Finished, RootNode, RootId
<1>7. Summed(m, o, observed, counts, log')
  <2>1. m \in Seq(LogRecords)
    BY <1>4 DEF Finished, Prolongs
  <2> QED
    BY <1>2, <1>3, <1>5, <2>1, WriteSummary
<1>8. /\ log' \in Seq(LogRecords)
      /\ Noded'
      /\ Closed' \cap SpanNodes(log') = Closed \cap SpanNodes(log)
      /\ Closed' \ SpanNodes(log') = Closed \ SpanNodes(log)
      /\ Failures(log') = Failures(m)
      /\ Having(log', "llm.call") = Having(log, "llm.call")
      /\ Having(log', "error") = Having(log, "error")
      /\ Having(log', "client_error") = Having(log, "client_error")
      /\ \E k \in DOMAIN log' :
           /\ Summaries(log') = {k}
           /\ log'[k].body.outcome = o
           /\ log'[k].body.status = observed
           /\ log'[k].body.counts = counts
  BY <1>1, <1>2, <1>6, <1>7, RootEnds DEF Logged
<1>9. Typing'
  BY <1>2, <1>8, EmptySeq DEF Finishes, Goes, Places, Typing, TypeOK, budgetVars
<1>10. Placed' /\ Stacked'
  BY <1>1, <1>2 DEF Finishes, Placed, Stacked, budgetVars
<1>11. Answered' /\ Blamed'
  BY <1>1, <1>8 DEF Answered, Blamed, Inside
<1>12. Summarised'
  BY <1>1, <1>8 DEF Summarised, Logged, o
<1>13. Counted'
  BY <1>1, <1>4, <1>8 DEF Counted, Finished
<1> QED
  BY <1>8, <1>9, <1>10, <1>11, <1>12, <1>13

\* An exception passes the root.
LEMMA FailsStep == IInv /\ Fails => IInv'
<1> SUFFICES ASSUME IInv, Fails PROVE IInv'
  OBVIOUS
<1> USE DEF IInv
<1> DEFINE m == log \o Traced(ErrorRecords(Top, exc), TRUE)
           o == "server_error"
<1>1. /\ pc = "escaping" /\ pc' = "handling" /\ ended = "none" /\ ended' = "raised"
      /\ exc = "bug" /\ exc' = exc
      /\ Closes /\ opened' = opened /\ counts' = CountFailed(counts, Top, exc)
      /\ Len(frames) = 1
      /\ observed' = StatusOfEscape /\ got' = got /\ cause' = cause
      /\ observed = got.status
  BY DEF Fails, Goes, Placed, Stacked, Answered
<1>2. /\ frames' = <<>> /\ Closed' = Closed /\ 1 \notin Closed /\ opened \in Nat \ {0}
      /\ Top \in Frame
      /\ Top.id = 1 /\ Top.parent = NoSpan /\ Top.kind = "root" /\ Top.emit
  BY <1>1, RootCloses
<1>3. /\ log \in Seq(LogRecords) /\ counts \in Counts
      /\ observed \in Statuses /\ StatusOfEscape \in Statuses
  BY DEF Typing, TypeOK, Counts, StatusOfEscape, Statuses
<1>4. /\ counts' \in Counts
      /\ counts'.filtered = counts.filtered
      /\ counts'.llm = counts.llm
      /\ counts'.spans = counts.spans
      /\ counts'.errors = IF ErrorLevel(exc) = "ERROR" THEN counts.errors + 1 ELSE counts.errors
  BY <1>1, <1>2, <1>3, CountsFail
<1>5. Errored(log, Top, exc, m)
  BY <1>2, <1>3, WriteError
<1>6. log' = m \o Traced(SummaryRecords(Top, o, StatusOfEscape, counts'), TRUE)
  <2>1. /\ ErrorRecords(Top, exc) \in Seq(PlainRecords)
        /\ SummaryRecords(Top, o, StatusOfEscape, counts') \in Seq(PlainRecords)
    BY <1>2, <1>3, <1>4, SpanIsPlain, SummaryIsPlain
  <2>2. log' = log \o Traced(ErrorRecords(Top, exc)
                                \o SummaryRecords(Top, o, StatusOfEscape, counts'), TRUE)
    BY DEF Fails, Writes
  <2> QED
    BY <1>3, <2>1, <2>2, TracedTwo
<1> HIDE DEF m
<1>7. RootNode(log, m)
  BY <1>2, <1>5 DEF Errored, RootNode, RootId
<1>8. Summed(m, o, StatusOfEscape, counts', log')
  <2>1. m \in Seq(LogRecords)
    BY <1>5 DEF Errored, Prolongs
  <2> QED
    BY <1>2, <1>3, <1>4, <1>6, <2>1, WriteSummary
<1>9. /\ log' \in Seq(LogRecords)
      /\ Noded'
      /\ Closed' \cap SpanNodes(log') = Closed \cap SpanNodes(log)
      /\ Closed' \ SpanNodes(log') = Closed \ SpanNodes(log)
      /\ Failures(log') = Failures(m)
      /\ Having(log', "llm.call") = Having(log, "llm.call")
      /\ Having(log', "error") = Having(log, "error")
      /\ Having(log', "client_error") = Having(log, "client_error")
      /\ \E k \in DOMAIN log' :
           /\ Summaries(log') = {k}
           /\ log'[k].body.outcome = o
           /\ log'[k].body.status = StatusOfEscape
           /\ log'[k].body.counts = counts'
  BY <1>1, <1>2, <1>7, <1>8, RootEnds DEF Logged
<1>10. Typing'
  <2>1. counts' \in [spans: Nat, filtered: Nat, errors: Nat, llm: Nat]
    BY <1>4 DEF Counts
  <2> QED
    BY <1>1, <1>2, <1>3, <1>9, <2>1, EmptySeq DEF Fails, Places, Typing, TypeOK, budgetVars
<1>11. Placed' /\ Stacked'
  BY <1>1, <1>2 DEF Fails, Placed, Stacked, budgetVars
<1>12. Answered' /\ Blamed'
  BY <1>1, <1>9 DEF Answered, Blamed, Inside
<1>13. Summarised'
  BY <1>1, <1>9 DEF Summarised, Logged, StatusOfEscape
<1>14. Counted'
  <2>1. Failures(m) = Failures(log) \cup
          (IF ErrorLevel(exc) = "ERROR" THEN {Len(log) + 1} ELSE {})
    BY <1>5 DEF Errored
  <2>a. Cardinality(Failures(m)) = IF ErrorLevel(exc) = "ERROR"
                                   THEN Cardinality(Failures(log)) + 1
                                   ELSE Cardinality(Failures(log))
    BY <1>3, <2>1, FailuresCounted
  <2>b. counts.errors = Cardinality(Failures(log))
    BY DEF Counted
  <2>c. Failures(log') = Failures(m)
    BY <1>9
  <2>2. counts'.errors = Cardinality(Failures(log'))
    BY <1>4, <2>a, <2>b, <2>c
  <2> QED
    BY <1>4, <1>9, <2>2 DEF Counted
<1> QED
  BY <1>9, <1>10, <1>11, <1>12, <1>13, <1>14

\* An interruption passes it.
LEMMA IsCutShortStep == IInv /\ IsCutShort => IInv'
<1> SUFFICES ASSUME IInv, IsCutShort PROVE IInv'
  OBVIOUS
<1> USE DEF IInv
<1> DEFINE m == log \o Traced(ErrorRecords(Top, "interrupt"), TRUE)
           o == "cancelled"
<1>1. /\ pc = "escaping" /\ pc' = "done" /\ ended = "none" /\ ended' = "interrupted"
      /\ exc = "interrupt" /\ exc' = "none"
      /\ Closes /\ opened' = opened /\ counts' = counts
      /\ Len(frames) = 1
      /\ observed' = observed /\ got' = got /\ cause' = cause
      /\ observed = got.status
  BY DEF IsCutShort, Goes, Placed, Stacked, Answered
<1>2. /\ frames' = <<>> /\ Closed' = Closed /\ 1 \notin Closed /\ opened \in Nat \ {0}
      /\ Top \in Frame
      /\ Top.id = 1 /\ Top.parent = NoSpan /\ Top.kind = "root" /\ Top.emit
  BY <1>1, RootCloses
<1>3. log \in Seq(LogRecords) /\ counts \in Counts /\ 0 \in Statuses
  BY DEF Typing, TypeOK, Counts, Statuses
<1>4. Errored(log, Top, "interrupt", m)
  BY <1>2, <1>3, WriteError
<1>5. log' = m \o Traced(SummaryRecords(Top, o, 0, counts), TRUE)
  <2>1. /\ ErrorRecords(Top, "interrupt") \in Seq(PlainRecords)
        /\ SummaryRecords(Top, o, 0, counts) \in Seq(PlainRecords)
    BY <1>2, <1>3, SpanIsPlain, SummaryIsPlain
  <2>2. log' = log \o Traced(ErrorRecords(Top, "interrupt")
                                \o SummaryRecords(Top, o, 0, counts), TRUE)
    BY DEF IsCutShort, Writes
  <2> QED
    BY <1>3, <2>1, <2>2, TracedTwo
<1> HIDE DEF m
<1>6. RootNode(log, m)
  BY <1>2, <1>4 DEF Errored, RootNode, RootId
<1>7. Summed(m, o, 0, counts, log')
  <2>1. m \in Seq(LogRecords)
    BY <1>4 DEF Errored, Prolongs
  <2> QED
    BY <1>2, <1>3, <1>5, <2>1, WriteSummary
<1>8. /\ log' \in Seq(LogRecords)
      /\ Noded'
      /\ Closed' \cap SpanNodes(log') = Closed \cap SpanNodes(log)
      /\ Closed' \ SpanNodes(log') = Closed \ SpanNodes(log)
      /\ Failures(log') = Failures(m)
      /\ Having(log', "llm.call") = Having(log, "llm.call")
      /\ Having(log', "error") = Having(log, "error")
      /\ Having(log', "client_error") = Having(log, "client_error")
      /\ \E k \in DOMAIN log' :
           /\ Summaries(log') = {k}
           /\ log'[k].body.outcome = o
           /\ log'[k].body.status = 0
           /\ log'[k].body.counts = counts
  BY <1>1, <1>2, <1>6, <1>7, RootEnds DEF Logged
<1>9. Typing'
  BY <1>2, <1>8, EmptySeq DEF IsCutShort, Goes, Places, Typing, TypeOK, budgetVars
<1>10. Placed' /\ Stacked'
  BY <1>1, <1>2 DEF IsCutShort, Placed, Stacked, budgetVars
<1>11. Answered' /\ Blamed'
  BY <1>1, <1>8 DEF Answered, Blamed, Inside
<1>12. Summarised'
  BY <1>1, <1>8 DEF Summarised, Logged
<1>13. Counted'
  <2>1. ErrorLevel("interrupt") # "ERROR"
    BY DEF ErrorLevel
  <2>2. Failures(log') = Failures(log)
    BY <1>4, <1>8, <2>1 DEF Errored
  <2> QED
    BY <1>1, <1>8, <2>2 DEF Counted
<1> QED
  BY <1>8, <1>9, <1>10, <1>11, <1>12, <1>13

-----------------------------------------------------------------------------
(* The invariant holds *)

\* The invariant holds before the first request.
LEMMA InitInv == Init => IInv
<1> SUFFICES ASSUME Init PROVE IInv
  OBVIOUS
<1>1. /\ pc = "idle" /\ frames = <<>> /\ opened = 0 /\ counts = NoCounts /\ log = <<>>
      /\ exc = "none" /\ observed = 0 /\ got = NoAnswer /\ cause = "none" /\ ended = "none"
      /\ answer = 0
  BY DEF Init
<1>2. DOMAIN log = {} /\ DOMAIN frames = {} /\ log \in Seq(LogRecords) /\ frames \in Seq(Frame)
  BY <1>1, EmptySeq
<1>3. Typing
  BY <1>1, <1>2, HttpRequestAssumption
     DEF Init, Typing, TypeOK, Places, Statuses, NoAnswer, NoCounts
<1>4. Placed /\ Stacked
  BY <1>1, <1>2 DEF Placed, Stacked, NoAnswer
<1>5. /\ SpanNodes(log) = {} /\ NodeRecords(log, RootId) = {} /\ Summaries(log) = {}
      /\ \A event : Having(log, event) = {}
      /\ Failures(log) = {}
  BY <1>2 DEF SpanNodes, NodeRecords, Summaries, Having, Failures
<1>6. Answered /\ Blamed
  BY <1>1, <1>5 DEF Answered, Blamed, Inside, NoAnswer
<1>7. Noded /\ Summarised
  BY <1>1, <1>2, <1>5 DEF Noded, Summarised, Logged
<1>8. Counted
  <2>1. Closed \cap SpanNodes(log) = {} /\ Closed \ SpanNodes(log) = {}
    BY <1>1, <1>5 DEF Closed
  <2> QED
    BY <1>1, <1>5, <2>1, FS_EmptySet DEF Counted, NoCounts
<1> QED
  BY <1>3, <1>4, <1>6, <1>7, <1>8 DEF IInv

\* A step that changes nothing keeps it.
LEMMA StuttersStep == IInv /\ UNCHANGED vars => IInv'
<1> SUFFICES ASSUME IInv, UNCHANGED vars PROVE IInv'
  OBVIOUS
<1> USE DEF IInv
<1>1. UNCHANGED <<enabled, pc, frames, opened, counts, log, exc, observed, answer,
                  got, cause, ended, attempts, calls, catches>>
  BY DEF vars, requestVars, answerVars, budgetVars
<1>2. Typing' /\ Placed' /\ Stacked'
  BY <1>1 DEF Typing, TypeOK, Placed, Stacked
<1>3. Answered' /\ Blamed'
  BY <1>1 DEF Answered, Blamed, Inside
<1>4. Noded' /\ Summarised' /\ Counted'
  BY <1>1, Quiet
<1> QED
  BY <1>2, <1>3, <1>4

\* Every step keeps it.
LEMMA NextInv == IInv /\ [Next]_vars => IInv'
<1> SUFFICES ASSUME IInv, [Next]_vars PROVE IInv'
  OBVIOUS
<1>1. CASE EndpointSteps
  BY <1>1, OpensSpanStep, ClosesSpanStep, RaisesStep, StreamsStep, ReturnsStep,
     CatchesStep, LeavesSpanStep DEF EndpointSteps
<1>2. CASE ProviderSteps
  BY <1>2, CallsProviderStep, ProviderRepliesStep, ReplyIsInvalidStep,
     AttemptFailsStep, TriesAgainStep DEF ProviderSteps
<1>3. CASE ServerSteps
  BY <1>3, PingStep, ArrivesStep, RefusesBodyStep, InterruptedStep, MeetsHandlersStep,
     AnswersStep, FinishesStep, FailsStep, IsCutShortStep, HandlesEscapedStep,
     Sends500Step, LosesThe500Step DEF ServerSteps
<1>4. CASE Over \/ UNCHANGED vars
  BY <1>4, StuttersStep DEF Over
<1> QED
  BY <1>1, <1>2, <1>3, <1>4 DEF Next

\* What the theorems below rest on holds in every state a request can reach.
LEMMA Invariance == Spec => []IInv
<1> QED
  BY InitInv, NextInv, PTL DEF Spec

-----------------------------------------------------------------------------
(* What follows from it *)

\* What a provider did wrong is never put on the caller: for any number of attempts
\* and calls, and whatever the endpoint catches and raises again, a request that the
\* provider's failure ended is answered no 4xx and leaves no client_error.
THEOREM ProvidersFault == Spec => []ProviderFailureIsNotTheCallers
<1>1. IInv => ProviderFailureIsNotTheCallers
  BY DEF IInv, Blamed, ProviderFailureIsNotTheCallers
<1> QED
  BY <1>1, Invariance, PTL

\* Every record of a request carries its trace id, so the reader works from the log.
LEMMA TraceIsLog ==
  ASSUME Typing
  PROVE  /\ DOMAIN Trace = DOMAIN log
         /\ \A i \in DOMAIN log : Trace[i] = log[i]
         /\ DOMAIN log = 1..Len(log) /\ Len(log) \in Nat
<1>1. \A i \in DOMAIN log : log[i] \in LogRecords
  BY ElementOfSeq, LenProperties DEF Typing
<1>2. \A i \in DOMAIN log : log[i].has = TRUE
  BY <1>1 DEF LogRecords
<1>3. {j \in DOMAIN log : log[j].has} = DOMAIN log
  BY <1>2
<1>4. Trace = [i \in DOMAIN log |-> log[i]]
  BY <1>3 DEF Trace, ParseEvents
<1> QED
  BY <1>4, LenProperties DEF Typing

\* So the views a property takes of the trace are those the invariant takes of the log.
LEMMA TraceViews ==
  ASSUME Typing
  PROVE  /\ Summaries(Trace) = Summaries(log)
         /\ SpanNodes(Trace) = SpanNodes(log)
         /\ LeavesOf(Trace) = LeavesOf(log)
         /\ \A event : Having(Trace, event) = Having(log, event)
         /\ \A id : NodeRecords(Trace, id) = NodeRecords(log, id)
         /\ {i \in Having(Trace, "span.error") : Trace[i].body.level = "ERROR"}
              = Failures(log)
<1>1. /\ DOMAIN Trace = DOMAIN log
      /\ \A i \in DOMAIN log : Trace[i] = log[i]
  BY TraceIsLog
<1>2. Summaries(Trace) = Summaries(log) /\ LeavesOf(Trace) = LeavesOf(log)
  BY <1>1 DEF Summaries, LeavesOf
<1>3. \A event : Having(Trace, event) = Having(log, event)
  BY <1>1 DEF Having
<1>4. \A id : NodeRecords(Trace, id) = NodeRecords(log, id)
  BY <1>1 DEF NodeRecords
<1>5. {i \in Having(Trace, "span.error") : Trace[i].body.level = "ERROR"} = Failures(log)
  BY <1>1, <1>3 DEF Failures, Having
<1>6. SpanNodes(Trace) = SpanNodes(log)
  BY <1>1 DEF SpanNodes
<1> QED
  BY <1>2, <1>3, <1>4, <1>5, <1>6

\* The one summary of a request that is over says what the client got, and what the
\* client got carries the request id: in every order the endpoint, the handlers, the
\* cancellation and the send of the 500 can come.
THEOREM SummaryIsTrue == Spec => []SummaryMatchesAnswer
<1>1. ASSUME IInv PROVE SummaryMatchesAnswer
  <2> USE <1>1 DEF IInv
  <2>1. Summaries(Trace) = Summaries(log) /\ \A i \in DOMAIN log : Trace[i] = log[i]
    BY TraceIsLog, TraceViews
  <2>2. IsLogged /\ got.status # 0 => got.id
    BY DEF Answered, IsLogged
  <2>3. CASE ended \notin Logged
    <3>1. Summaries(Trace) = {}
      BY <2>1, <2>3 DEF Summarised
    <3> QED
      BY <2>2, <2>3, <3>1, FS_EmptySet DEF SummaryMatchesAnswer, Logged
  <2>4. CASE ended \in Logged
    <3>1. PICK k \in DOMAIN log :
            /\ Summaries(log) = {k}
            /\ ended = "returned" =>
                 /\ log[k].body.status = got.status
                 /\ log[k].body.outcome = ClassifyRequestOutcome(got.status)
            /\ ended = "raised" =>
                 /\ log[k].body.outcome = "server_error"
                 /\ got.status \in {0, log[k].body.status}
                 /\ got.status = 0 => log[k].body.status = 500
            /\ ended = "interrupted" => log[k].body.outcome = "cancelled"
      BY <2>4 DEF Summarised
    <3>2. Summaries(Trace) = {k} /\ Trace[k] = log[k]
      BY <2>1, <3>1
    <3>3. Cardinality(Summaries(Trace)) = 1
      BY <3>2, FS_Singleton
    <3> QED
      BY <2>2, <2>4, <3>1, <3>2, <3>3 DEF SummaryMatchesAnswer, Logged
  <2> QED
    BY <2>3, <2>4
<1> QED
  BY <1>1, Invariance, PTL

\* A request that is over and was not a ping has closed its root.
LEMMA LoggedIsClosed ==
  ASSUME IInv, IsLogged
  PROVE  ended \in Logged /\ frames = <<>>
BY DEF IInv, Typing, TypeOK, Placed, Stacked, IsLogged, Logged

\* The counters of the summary are those of the tree the reader builds, for any number
\* of spans, nested in any way, at any level, closed in any manner.
THEOREM CountsAreTrue == Spec => []CountsMatchTheTree
<1>1. ASSUME IInv, IsLogged
      PROVE  LET shown == SpanNodes(Trace) \ {RootId}
                 counted == Trace[CHOOSE i \in Summaries(Trace) : TRUE].body.counts
             IN  /\ counted.spans = Cardinality(shown)
                 /\ counted.filtered = Cardinality((2..opened) \ shown)
                 /\ counted.llm = Cardinality(Having(Trace, "llm.call"))
                 /\ counted.errors = Cardinality({i \in Having(Trace, "span.error") :
                                                     Trace[i].body.level = "ERROR"})
  <2> USE <1>1 DEF IInv
  <2> DEFINE shown == SpanNodes(Trace) \ {RootId}
             counted == Trace[CHOOSE i \in Summaries(Trace) : TRUE].body.counts
  <2>1. ended \in Logged /\ frames = <<>>
    BY LoggedIsClosed
  <2>2. Closed = 2..opened /\ opened \in Nat
    BY <2>1, EmptySeq DEF Closed, OpenIds, Typing, TypeOK
  <2>3. SpanNodes(Trace) = SpanNodes(log) /\ SpanNodes(log) \subseteq 1..opened
    BY TraceViews DEF Noded
  <2>4. shown = Closed \cap SpanNodes(log) /\ (2..opened) \ shown = Closed \ SpanNodes(log)
    BY <2>2, <2>3 DEF RootId
  <2>5. counted = counts
    <3>1. PICK k \in DOMAIN log : Summaries(log) = {k} /\ log[k].body.counts = counts
      BY <2>1 DEF Summarised
    <3>2. Summaries(Trace) = {k} /\ Trace[k] = log[k]
      BY <3>1, TraceIsLog, TraceViews
    <3>3. (CHOOSE i \in Summaries(Trace) : TRUE) = k
      BY <3>2
    <3> QED
      BY <3>1, <3>2, <3>3
  <2>6. /\ Having(Trace, "llm.call") = Having(log, "llm.call")
        /\ {i \in Having(Trace, "span.error") : Trace[i].body.level = "ERROR"} = Failures(log)
    BY TraceViews
  <2> HIDE DEF shown, counted
  <2>7. /\ counted.spans = Cardinality(shown)
        /\ counted.filtered = Cardinality((2..opened) \ shown)
        /\ counted.llm = Cardinality(Having(Trace, "llm.call"))
        /\ counted.errors = Cardinality({i \in Having(Trace, "span.error") :
                                            Trace[i].body.level = "ERROR"})
    BY <2>4, <2>5, <2>6 DEF Counted
  <2> QED
    BY <2>7 DEF shown, counted
<1>2. IInv => CountsMatchTheTree
  BY <1>1 DEF CountsMatchTheTree
<1> QED
  BY <1>2, Invariance, PTL

\* The root of a request that is over is a root of the reader's tree.
LEMMA RootIsShown ==
  ASSUME IInv, IsLogged
  PROVE  RootId \in TreeRoots(Trace)
<1> USE DEF IInv
<1>1. PICK k \in DOMAIN log : NodeRecords(log, RootId) = {k} /\ log[k].body.parent = NoSpan
  BY LoggedIsClosed DEF Noded
<1>2. NodeRecords(Trace, RootId) = {k} /\ Trace[k] = log[k] /\ k \in Nat
  BY <1>1, TraceViews, TraceIsLog
<1>3. SeqOf(Trace, RootId) = k
  <2>1. Max({k}) = k
    BY <1>2 DEF Max
  <2> QED
    BY <1>2, <2>1 DEF SeqOf
<1>4. ParentOf(Trace, RootId) = NoSpan
  BY <1>1, <1>2, <1>3 DEF ParentOf
<1>5. RootId \in SpanNodes(Trace)
  <2>1. k \in NodeRecords(log, RootId)
    BY <1>1
  <2>2. RootId \in SpanNodes(log)
    BY <2>1 DEF NodeRecords, SpanNodes
  <2> QED
    BY <2>2, TraceViews
<1>6. NoSpan \notin SpanNodes(Trace)
  BY TraceViews DEF Noded, NoSpan, Typing, TypeOK
<1> QED
  BY <1>4, <1>5, <1>6 DEF TreeRoots

\* Every leaf of a request that is over is shown, one written after its span has
\* closed included, and a request that failed is marked failed: one an exception
\* escaped from by the critical record, one that ended by answering 5xx by the outcome
\* of its summary, which is all there is when nothing was raised for that answer.
THEOREM NoFailureIsHidden == Spec => []FailuresAreShown
<1>1. ASSUME IInv, IsLogged
      PROVE  /\ Cardinality(Shown(Trace)) = Cardinality(LeavesOf(log))
             /\ ended = "raised" => Having(Trace, "critical") # {}
             /\ ended = "raised" \/ (ended = "returned" /\ got.status >= 500) =>
                  TraceFailed(Trace)
  <2> USE <1>1 DEF IInv
  <2>1. Shown(Trace) = LeavesOf(log)
    <3>1. TreeRoots(Trace) # {}
      BY RootIsShown
    <3> QED
      BY <3>1, TraceViews DEF Shown
  <2>2. ended = "raised" => Having(Trace, "critical") # {}
    BY TraceViews DEF Answered, IsLogged
  <2>3. Having(Trace, "critical") # {} => TraceFailed(Trace)
    BY DEF Having, TraceFailed
  <2>4. ASSUME ended = "returned", got.status >= 500
        PROVE  TraceFailed(Trace)
    <3>1. PICK k \in DOMAIN log :
            /\ Summaries(log) = {k}
            /\ log[k].body.outcome = ClassifyRequestOutcome(got.status)
      BY <2>4 DEF Summarised, Logged
    <3>2. Summaries(Trace) = {k} /\ Trace[k] = log[k] /\ k \in Nat
      BY <3>1, TraceViews, TraceIsLog
    <3>3. Max(Summaries(Trace)) = k
      <4>1. Max({k}) = k
        BY <3>2 DEF Max
      <4> QED
        BY <3>2, <4>1
    <3>4. got.status \in Nat
      BY DEF Typing, TypeOK, Statuses
    <3>5. ClassifyRequestOutcome(got.status) = "server_error"
      BY <2>4, <3>4 DEF ClassifyRequestOutcome
    <3> QED
      BY <3>1, <3>2, <3>3, <3>5 DEF TraceFailed
  <2> QED
    BY <2>1, <2>2, <2>3, <2>4
<1>2. IInv => FailuresAreShown
  BY <1>1 DEF FailuresAreShown
<1> QED
  BY <1>2, Invariance, PTL
=============================================================================
