------------------------------- MODULE TraceTree ------------------------------
(***************************************************************************)
(* What a reader of the log sees (core/logging/trace_tree.py and           *)
(* trace_formatter.py): from the records of one trace, in the order they   *)
(* were written, a tree of spans with the other records as leaves, and a   *)
(* mark that says whether the request failed.                              *)
(***************************************************************************)
EXTENDS SpanLog, FiniteSets, FiniteSetsExt

\* _parse_events keeps the records that carry the trace's id, each at its place in
\* the log: nothing a reader does depends on more than their order.
ParseEvents(log) == [i \in {j \in DOMAIN log : log[j].has} |-> log[i]]

\* The records that make a node: a finish, an error, and the start of a tool call,
\* so that a call which never returned is still shown.
MakesNode(rec) ==
  \/ rec.event \in {"span.finish", "span.error"}
  \/ rec.event = "span.start" /\ rec.body.kind = "tool"

NodeRecords(events, id) ==
  {i \in DOMAIN events : MakesNode(events[i]) /\ events[i].span = id}

SpanNodes(events) ==
  {events[i].span : i \in {j \in DOMAIN events : MakesNode(events[j])}}

\* A node's place in the order and its parent are those of its last record.
SeqOf(events, id) == Max(NodeRecords(events, id))

ParentOf(events, id) == events[SeqOf(events, id)].body.parent

\* A span whose parent is not in this trace is a root of it.
TreeRoots(events) ==
  {id \in SpanNodes(events) : ParentOf(events, id) \notin SpanNodes(events)}

LeavesOf(events) == {i \in DOMAIN events : events[i].event \in LeafEvents}

\* A leaf is shown under its span; one outside any span of the trace is shown
\* under the first root, and nothing is shown of a trace without one.
Shown(events) ==
  {i \in LeavesOf(events) : \/ events[i].span \in SpanNodes(events)
                            \/ TreeRoots(events) # {}}

Summaries(events) == {i \in DOMAIN events : events[i].event = "request.summary"}

\* Mutant: the mark is decided from the records alone, as if whatever fails were raised.
TraceFailedByRecords(events) ==
  \E i \in DOMAIN events :
     \/ events[i].event \in {"critical", "error"}
     \/ events[i].event = "span.error" /\ events[i].body.level # "WARNING"

\* format_trace_for_llm's trace_failed, the mark of the root; trace_inventory counts
\* by the same rule.
TraceFailed(events) ==
  \/ \E i \in DOMAIN events :
       \/ events[i].event \in {"critical", "error"}
       \/ events[i].event = "span.error" /\ events[i].body.level # "WARNING"
  \/ /\ Summaries(events) # {}
     /\ events[Max(Summaries(events))].body.outcome = "server_error"
=============================================================================
