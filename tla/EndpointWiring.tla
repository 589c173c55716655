---------------------------- MODULE EndpointWiring ----------------------------
(***************************************************************************)
(* scripts/validate_endpoint_wiring.py: the chain from an endpoint to its  *)
(* service, read from the source of the wiring files.  Beside it stands    *)
(* what the application does with the same files: router_registration.py   *)
(* and dependencies.py at run time.                                        *)
(*                                                                         *)
(* The wiring of a checkout is a record                                    *)
(*   registries    the two files that register services, each [parse,      *)
(*                 literal (the dict bound to `services`), returned (dicts *)
(*                 its functions return)]                                  *)
(*   dependencies  [parse, getters, aliases]: getter -> [shape, key], alias*)
(*                 -> getter                                               *)
(*   registration  [parse, imports (endpoint modules), includes (routers)] *)
(*   endpoints     module -> [parse, routers, handlers, uses]              *)
(* with parse "ok", "broken" (syntax or encoding) or "missing".  A dict is *)
(* [registry |-> its values can be services, entries |-> key -> class].    *)
(***************************************************************************)
EXTENDS Naturals, Sequences, FiniteSets, SequencesExt

CONSTANTS
  ApplicationClasses,   \* classes under project.application
  Opaque                \* a value that is no constructor call

Issue(rule, place) == <<rule, place>>

\* _parse: what an unreadable file gives; a missing one parses as nothing.
Unreadable(file, place) == IF file.parse = "broken" THEN {Issue("syntax_error", place)} ELSE {}

\* Mutant: any dict a function returns registers services.
AnyDict(file) == {file.literal} \cup file.returned

\* The literal bound to `services`, and what a function returns that looks like one.
RegistryDicts(file) == {file.literal} \cup {d \in file.returned : d.registry}

\* Service key -> class, of both files; a later entry replaces an earlier one.
Services(wiring) ==
  LET dicts(file) == IF file.parse = "ok" THEN RegistryDicts(file) ELSE {}
      all == UNION {{<<d, i>> : d \in dicts(wiring.registries[i])} : i \in DOMAIN wiring.registries}
      keys == UNION {DOMAIN p[1].entries : p \in all}
      last(k) == CHOOSE p \in all : /\ k \in DOMAIN p[1].entries
                                    /\ \A q \in all : k \in DOMAIN q[1].entries => q[2] <= p[2]
  IN  [k \in keys |-> last(k)[1].entries[k]]

ServiceClasses(wiring) == {Services(wiring)[k] : k \in DOMAIN Services(wiring)} \cap ApplicationClasses

\* Getters in one of the two shapes the validator reads; aliases over Depends.
Getters(wiring) ==
  LET file == wiring.dependencies
  IN  IF file.parse = "ok" THEN {g \in DOMAIN file.getters : file.getters[g].shape # "other"} ELSE {}
Aliases(wiring) == IF wiring.dependencies.parse = "ok" THEN DOMAIN wiring.dependencies.aliases ELSE {}
GetterOf(wiring, alias) == wiring.dependencies.aliases[alias]
KeyOf(wiring, getter) == wiring.dependencies.getters[getter].key

\* alias_service_key: TRUE where the chain does not break.
Resolves(wiring, alias) ==
  /\ GetterOf(wiring, alias) \in Getters(wiring)
  /\ KeyOf(wiring, GetterOf(wiring, alias)) \in DOMAIN Services(wiring)

ReadWiringFacts(wiring) ==
  UNION {Unreadable(wiring.registries[i], "registry") : i \in DOMAIN wiring.registries}
    \cup Unreadable(wiring.dependencies, "dependencies")

Missing(wiring, module) == module \notin DOMAIN wiring.endpoints \/ wiring.endpoints[module].parse = "missing"

\* _chain_issues: links that break whether or not a route uses them.
ChainIssues(wiring) ==
  {Issue("wiring_chain_broken", a) : a \in {b \in Aliases(wiring) : GetterOf(wiring, b) \notin Getters(wiring)}}
    \cup {Issue("wiring_chain_broken", g) :
            g \in {h \in Getters(wiring) : KeyOf(wiring, h) \notin DOMAIN Services(wiring)}}
    \cup IF wiring.registration.parse # "ok" THEN {}
         ELSE {Issue("router_module_missing", m) : m \in {n \in wiring.registration.imports : Missing(wiring, n)}}

\* Mutant: a router that is imported counts as included.
ImportedRouters(wiring) ==
  IF wiring.registration.parse # "ok" THEN {}
  ELSE UNION {{<<m, r>> : r \in wiring.endpoints[m].routers} :
                m \in wiring.registration.imports \cap DOMAIN wiring.endpoints}

\* collect_registered_router_qualnames.
RegisteredRouters(wiring) ==
  IF wiring.registration.parse # "ok" THEN {} ELSE wiring.registration.includes

\* A parameter: [annotation, depends], annotated with a name or something "composite".
ParameterIssues(wiring, module, p) ==
  LET plain == p.annotation # "composite"
      aliased == plain /\ p.annotation \in Aliases(wiring)
      direct == plain /\ ~aliased /\ p.annotation \in ServiceClasses(wiring)
  IN  UNION {
        IF ~aliased /\ p.depends THEN {Issue("no_depends_without_alias", module)} ELSE {},
        IF aliased /\ ~Resolves(wiring, p.annotation) THEN {Issue("alias_chain_invalid", module)} ELSE {},
        IF direct THEN {Issue("no_direct_service_annotation", module)} ELSE {},
        IF plain /\ ~aliased /\ ~direct /\ p.imported
        THEN {Issue("alias_chain_invalid", module)} ELSE {}}

\* Handlers of routers this module defines.
RouteHandlers(endpoint) == {h \in endpoint.handlers : h.router \in endpoint.routers}

\* A router with handlers that is never included.
DeadRouters(wiring, module) ==
  {Issue("router_not_registered", <<module, h.router>>) :
     h \in {i \in RouteHandlers(wiring.endpoints[module]) : <<module, i.router>> \notin RegisteredRouters(wiring)}}

\* A service imported or built in the endpoint module itself.
DirectUses(wiring, module) ==
  {Issue("no_direct_service_" \o u.how, module) :
     u \in {v \in wiring.endpoints[module].uses : v.class \in ServiceClasses(wiring)}}

ValidateEndpointModule(wiring, module) ==
  LET endpoint == wiring.endpoints[module] IN
  IF endpoint.parse # "ok" THEN Unreadable(endpoint, module)
  ELSE DirectUses(wiring, module) \cup DeadRouters(wiring, module)
         \cup UNION {ParameterIssues(wiring, module, p) :
                       p \in UNION {h.parameters : h \in RouteHandlers(endpoint)}}

EndpointWiringIssues(wiring) ==
  ReadWiringFacts(wiring) \cup ChainIssues(wiring)
    \cup UNION {ValidateEndpointModule(wiring, m) : m \in DOMAIN wiring.endpoints}

-----------------------------------------------------------------------------
\* At run time: the files that must import for the application to start.  An
\* alias over a function that is not there is a NameError at import.
Starts(wiring) ==
  /\ \A i \in DOMAIN wiring.registries : wiring.registries[i].parse = "ok"
  /\ wiring.dependencies.parse = "ok" /\ wiring.registration.parse = "ok"
  /\ \A a \in DOMAIN wiring.dependencies.aliases :
       wiring.dependencies.aliases[a] \in DOMAIN wiring.dependencies.getters
  /\ \A m \in wiring.registration.imports : m \in DOMAIN wiring.endpoints /\ wiring.endpoints[m].parse = "ok"

\* include_application_routers: where a request to this handler arrives.
Routed(wiring, module, handler) == <<module, handler.router>> \in wiring.registration.includes

\* app.state.services, with every subsystem on.
Registered(wiring) ==
  UNION {DOMAIN d.entries : d \in UNION {{wiring.registries[i].literal} \cup
           {e \in wiring.registries[i].returned : e.registry} : i \in DOMAIN wiring.registries}}

\* _get_service: the parameter's service is found, or the getter may return None.
Served(wiring, p) ==
  LET getter == wiring.dependencies.getters[wiring.dependencies.aliases[p.annotation]]
  IN  p.annotation \in DOMAIN wiring.dependencies.aliases =>
        getter.shape = "nullable" \/ getter.key \in Registered(wiring)
=============================================================================
