-------------------------------- MODULE Gates ---------------------------------
(***************************************************************************)
(* The two validators of `make quality-gates` that say what the code of a  *)
(* checkout may depend on, run in their order on a checkout a developer    *)
(* changes one edit at a time; and what a green run is worth: what Python  *)
(* loads, and what the started application does.  Init, Next and Spec have *)
(* names of their own, for GateProofs reads this module beside another.    *)
(***************************************************************************)
EXTENDS Architecture, EndpointWiring

CONSTANTS
  Checkout,     \* the imports and the wiring of the template
  Statements,   \* import statements a developer may write
  MaxEdits      \* bound: edits of a behaviour

\* The files lie below `project`, whose own file imports nothing; the domain is a
\* package; every endpoint has a router, and its handlers are of its routers.
IsStatement(s) ==
  IF s.kind = "from" THEN s.level \in Nat /\ s.module \in Seq(Segments) /\ s.taken \in Segments \cup {"*"}
  ELSE s.kind \in {"import", "call"} /\ s.name \in Seq(Segments)

IsSource(files) ==
  /\ IsFiniteSet(DOMAIN files)
  /\ \A f \in DOMAIN files :
       /\ f \in Seq(Segments) /\ Len(f) >= 2 /\ f[1] = "project" /\ f # <<"project", "domain">>
       /\ \A s \in files[f] : IsStatement(s)
       /\ f = <<"project", "__init__">> => files[f] = {}

Readable(file) == "parse" \in DOMAIN file /\ file.parse \in {"ok", "broken"}
IsEndpoint(e) ==
  /\ DOMAIN e = {"parse", "routers", "handlers", "uses"} /\ e.parse \in {"ok", "broken", "missing"}
  /\ "router" \in e.routers /\ \A h \in e.handlers : h.router \in e.routers

IsWiring(w) ==
  /\ DOMAIN w = {"registries", "dependencies", "registration", "endpoints"}
  /\ \A i \in DOMAIN w.registries : Readable(w.registries[i])
  /\ Readable(w.dependencies) /\ Readable(w.registration)
  /\ \A m \in DOMAIN w.endpoints : IsEndpoint(w.endpoints[m])

ASSUME CheckoutAssumption ==
  /\ IsSource(Checkout.imports) /\ IsWiring(Checkout.wiring)
  /\ \A s \in Statements : IsStatement(s)

VARIABLES
  imports,   \* file -> its import statements
  wiring,    \* the wiring files and the endpoints
  gate,      \* "not run", "architecture passed", "green" or "red"
  edits

gatesVars == <<imports, wiring, gate, edits>>

\* validate_python_source reads every file of project/, those of the wiring too.
AllParse ==
  /\ \A i \in DOMAIN wiring.registries : wiring.registries[i].parse # "broken"
  /\ wiring.dependencies.parse # "broken" /\ wiring.registration.parse # "broken"
  /\ \A m \in DOMAIN wiring.endpoints : wiring.endpoints[m].parse # "broken"

ValidateArchitecture ==
  /\ gate = "not run"
  /\ gate' = IF ArchitectureIssues(imports) = {} /\ AllParse THEN "architecture passed" ELSE "red"
  /\ UNCHANGED <<imports, wiring, edits>>

ValidateEndpointWiring ==
  /\ gate = "architecture passed"
  /\ gate' = IF EndpointWiringIssues(wiring) = {} THEN "green" ELSE "red"
  /\ UNCHANGED <<imports, wiring, edits>>

-----------------------------------------------------------------------------
Edited == edits < MaxEdits /\ edits' = edits + 1 /\ gate' = "not run"

\* In a package below `project`; the file of that package itself has no layer.
WriteImport(file, stmt) ==
  /\ Edited /\ Len(file) > 2 /\ stmt \notin imports[file]
  /\ imports' = [imports EXCEPT ![file] = @ \cup {stmt}]
  /\ UNCHANGED wiring

Rewire(new) == Edited /\ new # wiring /\ wiring' = new /\ UNCHANGED imports

Restrict1(f, x) == [y \in DOMAIN f \ {x} |-> f[y]]
Renamed(f, x, z) == [y \in (DOMAIN f \ {x}) \cup {z} |-> IF y = z THEN f[x] ELSE f[y]]
Keys == {"health_service", "task_service", "typo"}

\* A registry loses or renames an entry, or a function next to it returns a body.
EditRegistry(i) ==
  LET entries == wiring.registries[i].literal.entries
      with(new) == [wiring EXCEPT !.registries[i].literal.entries = new]
  IN  \/ \E k \in DOMAIN entries : Rewire(with(Restrict1(entries, k)))
      \/ \E k \in DOMAIN entries, j \in Keys : Rewire(with(Renamed(entries, k, j)))
      \/ \E k \in Keys, looks \in BOOLEAN :
           Rewire([wiring EXCEPT !.registries[i].returned =
                     {[registry |-> looks, entries |-> [x \in {k} |-> Opaque]]}])

\* A getter changes its key or its shape or goes; an alias changes its getter.
EditDependencies ==
  LET getters == wiring.dependencies.getters IN
  \/ \E g \in DOMAIN getters, k \in Keys :
       Rewire([wiring EXCEPT !.dependencies.getters[g].key = k])
  \/ \E g \in DOMAIN getters, shape \in {"canonical", "nullable", "other"} :
       Rewire([wiring EXCEPT !.dependencies.getters[g].shape = shape])
  \/ \E g \in DOMAIN getters :
       Rewire([wiring EXCEPT !.dependencies.getters = Restrict1(getters, g)])
  \/ \E a \in DOMAIN wiring.dependencies.aliases :
       Rewire([wiring EXCEPT !.dependencies.aliases = Restrict1(@, a)])

\* router_registration.py loses an include or an import of a module.
EditRegistration ==
  \/ \E q \in wiring.registration.includes :
       Rewire([wiring EXCEPT !.registration.includes = @ \ {q}])
  \/ \E m \in wiring.registration.imports :
       Rewire([wiring EXCEPT !.registration.imports = @ \ {m},
                             !.registration.includes = {q \in @ : q[1] # m}])

\* An endpoint gets a router with a handler, a parameter, or a direct use.
EditEndpoint(m) ==
  \/ Rewire([wiring EXCEPT !.endpoints[m].routers = @ \cup {"second"},
                           !.endpoints[m].handlers = @ \cup {[router |-> "second", parameters |-> {}]}])
  \/ \E p \in [annotation : {"TaskDep", "GoneDep", "TaskService", "composite"},
               depends : BOOLEAN, imported : {FALSE}]
              \cup {[annotation |-> "GoneDep", depends |-> FALSE, imported |-> TRUE]} :
       Rewire([wiring EXCEPT !.endpoints[m].handlers =
                 @ \cup {[router |-> "router", parameters |-> {p}]}])
  \/ \E how \in {"import", "construction"} :
       Rewire([wiring EXCEPT !.endpoints[m].uses = @ \cup {[how |-> how, class |-> "TaskService"]}])

\* A file no longer parses; an endpoint module goes.  (A wiring file that is
\* gone parses as nothing, which this gate does not report.)
BreakFile ==
  \/ \E i \in DOMAIN wiring.registries : Rewire([wiring EXCEPT !.registries[i].parse = "broken"])
  \/ Rewire([wiring EXCEPT !.dependencies.parse = "broken"])
  \/ Rewire([wiring EXCEPT !.registration.parse = "broken"])
  \/ \E m \in DOMAIN wiring.endpoints, parse \in {"broken", "missing"} :
       Rewire([wiring EXCEPT !.endpoints[m].parse = parse])

GatesInit == imports = Checkout.imports /\ wiring = Checkout.wiring /\ gate = "not run" /\ edits = 0

GatesNext ==
  \/ ValidateArchitecture \/ ValidateEndpointWiring
  \/ \E file \in DOMAIN imports, stmt \in Statements : WriteImport(file, stmt)
  \/ \E i \in DOMAIN wiring.registries : EditRegistry(i)
  \/ EditDependencies \/ EditRegistration \/ BreakFile
  \/ \E m \in DOMAIN wiring.endpoints : EditEndpoint(m)

GatesSpec == GatesInit /\ [][GatesNext]_gatesVars

-----------------------------------------------------------------------------
(* A module of the domain that passes loads the standard library and the     *)
(* domain, through any chain of imports; one of the other layers writes no   *)
(* import that loads what its layer forbids.  For the imports a reader of    *)
(* the file can see, and a package `project` that itself imports nothing.    *)
GreenMeansLayered ==
  gate \in {"architecture passed", "green"} =>
    \A file \in DOMAIN imports : (\A s \in imports[file] : Visible(s)) =>
      /\ LayerFromPath(file) = "domain" /\ (\A f \in DOMAIN imports : \A s \in imports[f] : Visible(s)) =>
           \A m \in Reached(imports, file) : IsAllowedImport(m) \/ m = <<"project">>
      /\ LayerFromPath(file) \in DOMAIN ForbiddenPrefixes =>
           \A m \in Loads(imports, file), prefix \in ForbiddenPrefixes[LayerFromPath(file)] :
             ~MatchesPrefix(m, prefix)

(* After a green gate the application starts, and every route of an endpoint *)
(* is one a request can reach.                                               *)
GreenMeansRouted ==
  gate = "green" =>
    /\ Starts(wiring)
    /\ \A m \in DOMAIN wiring.endpoints : \A h \in wiring.endpoints[m].handlers :
         wiring.endpoints[m].parse = "ok" => Routed(wiring, m, h)

(* After a green gate no request finds a service missing that its handler    *)
(* asks for by an alias, with every subsystem of the service on.             *)
GreenMeansServed ==
  gate = "green" =>
    \A m \in DOMAIN wiring.endpoints : \A h \in wiring.endpoints[m].handlers : \A p \in h.parameters :
      Served(wiring, p)
=============================================================================
