----------------------------- MODULE MCAgentTurn ------------------------------
(***************************************************************************)
(* Instances of AgentTurn: an agent with three tools, one with two of them *)
(* in another order, and one whose tools are refused.                      *)
(***************************************************************************)
EXTENDS AgentTurn

MCSchema == [t \in Tools |-> IF t = "charge" THEN "lost" ELSE "model"]
MCOffered == [a \in Agents |-> CASE a = "clerk" -> <<"search", "fetch", "count">>
                                 [] a = "scout" -> <<"count", "search">>
                                 [] OTHER       -> <<"search", "charge">>]
=============================================================================
