------------------------------ MODULE AgentTurn -------------------------------
(***************************************************************************)
(* The mock language model and the agent loops written over it: LLMService *)
(* in mock mode (bind_tools, call), the reply it computes from the         *)
(* conversation (LLMServiceMockMixin), run_tool, and PromptLLMAdapter over *)
(* the same shared service.                                                *)
(*                                                                         *)
(* The service keeps nothing between two calls: which tools a turn has     *)
(* used is worked out again from the messages at every reply.  The loop    *)
(* itself is the vertical's: it asks, runs the tool the reply names, hands *)
(* back the result or the error, and may give a turn up in the middle.     *)
(***************************************************************************)
EXTENDS Naturals, Sequences, FiniteSets, SequencesExt

CONSTANTS
  Agents,      \* loops that share the service, each with a binding of its own
  Tools,       \* tools there are
  Schema,      \* tool -> "model", "dict" (no Pydantic schema) or "lost" (its
               \* fields do not reach the provider)
  Offered,     \* agent -> the tools it asks to bind, in order
  Names,       \* agents whose loop writes the tool's name into its result
  MaxTurns,    \* bound: questions per agent
  MaxMessages  \* bound: messages of a conversation, more than any turn needs

NoName == "none"

ASSUME AgentAssumption ==
  /\ Schema \in [Tools -> {"model", "dict", "lost"}]
  /\ Offered \in [Agents -> Seq(Tools)] /\ \A a \in Agents : IsInjective(Offered[a])
  /\ "shared" \notin Agents /\ NoName \notin Tools
  /\ Names \subseteq Agents /\ MaxTurns \in Nat \ {0} /\ MaxMessages \in Nat

VARIABLES
  mockTools,   \* agent or "shared" -> the tools bound to its service
  bound,       \* agent -> "no", "yes" or "refused"
  conv,        \* agent -> messages, oldest first
  stage,       \* agent -> "idle", "call", "run", "answered"
  turns,       \* agent -> questions asked
  prompt       \* last answer of the adapter over the shared service

turnVars == <<mockTools, bound, conv, stage, turns, prompt>>

\* A message: `calls` of an AI message is the call it makes or <<>>; `name` of a
\* tool message may be left out by the loop that wrote it (NoName).
Human == [role |-> "human"]
AskFor(tool, id) == [role |-> "ai", calls |-> <<[id |-> id, name |-> tool]>>]
Final(lines) == [role |-> "ai", calls |-> <<>>, lines |-> lines]
ToolMessage(id, name) == [role |-> "tool", id |-> id, name |-> name]

-----------------------------------------------------------------------------
\* Mutant: the whole conversation counts.
WholeConversation(messages) == messages

\* Everything after the last human message, or all of it.
CurrentTurn(messages) ==
  LET asked == {i \in DOMAIN messages : messages[i].role = "human"}
      last == CHOOSE i \in asked : \A j \in asked : j <= i
  IN  IF asked = {} THEN messages ELSE SubSeq(messages, last + 1, Len(messages))

\* "human", "tool", "call" (an AI message that asks for a tool) or "ai".
Kind(m) == IF m.role = "ai" /\ m.calls # <<>> THEN "call" ELSE m.role

\* The messages of one kind, in their order.
OfKind(messages, kind) ==
  LET upTo[n \in 0..Len(messages)] ==
        IF n = 0 THEN <<>>
        ELSE IF Kind(messages[n]) = kind THEN Append(upTo[n - 1], messages[n]) ELSE upTo[n - 1]
  IN  upTo[Len(messages)]

CollectToolMessages(turn) == OfKind(turn, "tool")

\* Call id -> tool name, of the calls this turn has made.
CallsOf(turn) == UNION {Range(m.calls) : m \in {x \in Range(turn) : x.role = "ai"}}

\* Mutant: only the result's own field is read.
OwnNameOnly(message, calls) == message.name

\* The tool a result answers, by its own field or by the call it answers.
ToolNameOf(message, calls) ==
  IF message.name # NoName THEN message.name
  ELSE IF \E c \in calls : c.id = message.id
       THEN (CHOOSE c \in calls : c.id = message.id).name
       ELSE NoName

AnsweredToolNames(turn) ==
  {ToolNameOf(m, CallsOf(turn)) : m \in Range(CollectToolMessages(turn))} \ {NoName}

\* The bound tools, by their place, that have no result yet.
Uncalled(tools, turn) == {i \in DOMAIN tools : tools[i] \notin AnsweredToolNames(turn)}

\* Call ids are made of the number of messages, so a conversation repeats none.
MockResponse(tools, turn, length) ==
  LET left == Uncalled(tools, turn)
      results == CollectToolMessages(turn)
  IN  IF left # {} THEN AskFor(tools[Min(left)], length)
      ELSE Final([i \in DOMAIN results |-> ToolNameOf(results[i], CallsOf(turn))])

-----------------------------------------------------------------------------
\* Mutant: the tools are set on the service itself, and then it is copied.
BindToolsInPlace(a) ==
  /\ bound[a] = "no"
  /\ bound' = [bound EXCEPT ![a] = "yes"]
  /\ mockTools' = [mockTools EXCEPT !["shared"] = Offered[a], ![a] = Offered[a]]
  /\ UNCHANGED <<conv, stage, turns, prompt>>

\* bind_tools: refused when a tool's arguments cannot reach the provider, or
\* cannot be checked; else a copy of the shared service with these tools.
BindTools(a) ==
  /\ bound[a] = "no"
  /\ IF \A t \in Range(Offered[a]) : Schema[t] = "model"
     THEN /\ bound' = [bound EXCEPT ![a] = "yes"]
          /\ mockTools' = [mockTools EXCEPT ![a] = Offered[a]]
     ELSE bound' = [bound EXCEPT ![a] = "refused"] /\ UNCHANGED mockTools
  /\ UNCHANGED <<conv, stage, turns, prompt>>

Question(a) ==
  /\ bound[a] = "yes" /\ stage[a] \in {"idle", "answered"} /\ turns[a] < MaxTurns
  /\ turns' = [turns EXCEPT ![a] = @ + 1]
  /\ conv' = [conv EXCEPT ![a] = Append(@, Human)]
  /\ stage' = [stage EXCEPT ![a] = "call"]
  /\ UNCHANGED <<mockTools, bound, prompt>>

\* LLMService.call in mock mode: one reply, appended to the conversation.
Call(a) ==
  /\ stage[a] = "call" /\ Len(conv[a]) < MaxMessages
  /\ \E turn \in {CurrentTurn(conv[a])} :
       LET reply == MockResponse(mockTools[a], turn, Len(conv[a]))
       IN  /\ conv' = [conv EXCEPT ![a] = Append(@, reply)]
           /\ stage' = [stage EXCEPT ![a] = IF reply.calls = <<>> THEN "answered" ELSE "run"]
  /\ UNCHANGED <<mockTools, bound, turns, prompt>>

\* run_tool: a schema it cannot check and arguments that do not fit it raise
\* before the tool runs, the tool itself may raise, or it returns.
RunToolOutcomes(tool) == IF Schema[tool] = "model" THEN {"result", "error"} ELSE {"error"}

\* The loop hands back what run_tool returned, or what it raised; or it lets the
\* error end the turn, with the call unanswered.
RunTool(a) ==
  /\ stage[a] = "run"
  /\ LET call == Last(conv[a]).calls[1]
     IN  \E outcome \in RunToolOutcomes(call.name) :
           \/ /\ conv' = [conv EXCEPT ![a] =
                   Append(@, ToolMessage(call.id, IF a \in Names THEN call.name ELSE NoName))]
              /\ stage' = [stage EXCEPT ![a] = "call"]
           \/ /\ outcome = "error"
              /\ stage' = [stage EXCEPT ![a] = "idle"] /\ UNCHANGED conv
  /\ UNCHANGED <<mockTools, bound, turns, prompt>>

\* PromptLLMAdapter.call: a conversation of one message on the shared service.
\* _as_text of a reply that asks for a tool is the empty string.
Prompt ==
  /\ prompt' = IF MockResponse(mockTools["shared"], CurrentTurn(<<Human>>), 1).calls = <<>> THEN "text" ELSE "empty"
  /\ UNCHANGED <<mockTools, bound, conv, stage, turns>>

TurnInit ==
  /\ mockTools = [s \in Agents \cup {"shared"} |-> <<>>]
  /\ bound = [a \in Agents |-> "no"]
  /\ conv = [a \in Agents |-> <<>>]
  /\ stage = [a \in Agents |-> "idle"]
  /\ turns = [a \in Agents |-> 0]
  /\ prompt = "unasked"

TurnNext ==
  \/ \E a \in Agents : BindTools(a) \/ Question(a) \/ Call(a) \/ RunTool(a)
  \/ Prompt

TurnSpec == TurnInit /\ [][TurnNext]_turnVars

\* A loop that has asked goes on: the vertical awaits each step.
FairTurnSpec == TurnSpec /\ \A a \in Agents : WF_turnVars(Call(a)) /\ WF_turnVars(RunTool(a))

-----------------------------------------------------------------------------
\* The tools the current turn has asked for, in order.
ToolsOf(turn) == LET asking == OfKind(turn, "call") IN [i \in DOMAIN asking |-> asking[i].calls[1].name]
Asked(a) == ToolsOf(CurrentTurn(conv[a]))

(* Within one question the model asks for the agent's own bound tools, each   *)
(* once and in binding order, and it answers only after all of them: no tool  *)
(* is forgotten, repeated, left over from the question before, or another     *)
(* agent's.                                                                   *)
EachToolOncePerTurn ==
  \A a \in Agents :
    /\ IsPrefix(Asked(a), Offered[a])
    /\ stage[a] = "answered" => /\ Asked(a) = Offered[a]
                             /\ Last(conv[a]).lines = Offered[a]

(* A prompt sent through the adapter is answered in text: no vertical's tools *)
(* are bound to the service the others share.                                 *)
PromptGetsText == prompt # "empty"

(* Every question is answered, or given up by its own loop: a reply computed  *)
(* from the messages alone never asks for ever.                               *)
EveryTurnEnds == \A a \in Agents : stage[a] = "call" ~> stage[a] \in {"idle", "answered"}
=============================================================================
