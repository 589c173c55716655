------------------------------- MODULE MCGates --------------------------------
(***************************************************************************)
(* The template's wiring with its two endpoints, and a file of every kind  *)
(* a layer rule reads.  The statements include a package taken from        *)
(* `project`, relative imports of both depths and one beyond the top, and  *)
(* the three forms of a call.                                              *)
(***************************************************************************)
EXTENDS Gates, TLC

P(rest) == <<"project">> \o rest
File(layer, name) == <<"project", layer, name>>
Import(name) == [kind |-> "import", name |-> name]
From(level, module, taken) == [kind |-> "from", level |-> level, module |-> module, taken |-> taken]
Call(name, known, literal) == [kind |-> "call", name |-> name, known |-> known, literal |-> literal]

MCImports ==
  <<"project", "__init__">> :> {} @@ File("domain", "__init__") :> {} @@ File("domain", "task") :> {}
    @@ File("application", "service") :> {From(0, P(<<"domain">>), "task")}
    @@ File("infrastructure", "__init__") :> {}
    @@ File("infrastructure", "adapter") :> {Import(<<"psycopg">>)}
    @@ File("core", "composition_root") :> {From(0, P(<<"infrastructure">>), "adapter")}

MCStatements ==
  {Import(<<"typing">>), Import(<<"psycopg">>), From(0, <<"psycopg">>, "connect"),
   Import(P(<<"domain", "task">>)), Import(P(<<"core", "composition_root">>)),
   From(0, P(<<>>), "infrastructure"), From(0, P(<<>>), "domain"),
   From(0, P(<<"core">>), "composition_root"), From(0, P(<<"infrastructure">>), "*"),
   From(1, <<>>, "task"), From(2, <<>>, "infrastructure"), From(2, <<"infrastructure">>, "adapter"),
   From(2, <<"core">>, "composition_root"), From(4, <<"infrastructure">>, "adapter"),
   Call(<<"psycopg">>, TRUE, TRUE), Call(<<"psycopg">>, FALSE, TRUE), Call(<<"psycopg">>, TRUE, FALSE)}

Dict(entries) == [registry |-> TRUE, entries |-> entries]
Handler(router, parameters) == [router |-> router, parameters |-> parameters]
Endpoint(handlers) ==
  [parse |-> "ok", routers |-> {"router"}, handlers |-> handlers, uses |-> {}]

MCWiring ==
  [registries   |-> <<[parse |-> "ok", literal |-> Dict("health_service" :> Opaque), returned |-> {}],
                      [parse |-> "ok", literal |-> Dict("task_service" :> "TaskService"), returned |-> {}]>>,
   dependencies |-> [parse   |-> "ok",
                     getters |-> "get_task_service" :> [shape |-> "canonical", key |-> "task_service"],
                     aliases |-> "TaskDep" :> "get_task_service"],
   registration |-> [parse |-> "ok", imports |-> {"health", "tasks"},
                     includes |-> {<<"health", "router">>, <<"tasks", "router">>}],
   endpoints    |-> "health" :> Endpoint({Handler("router", {})})
                    @@ "tasks" :> Endpoint({Handler("router",
                         {[annotation |-> "TaskDep", depends |-> FALSE, imported |-> TRUE]})})]

MCCheckout == [imports |-> MCImports, wiring |-> MCWiring]
=============================================================================
