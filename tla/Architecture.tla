----------------------------- MODULE Architecture -----------------------------
(***************************************************************************)
(* scripts/validate_architecture.py and the calls it reads through         *)
(* validation_support/dynamic_imports.py: which imports a module of a      *)
(* layer may write.  Beside the validator stands what Python itself loads, *)
(* written from the language's rules and not from the validator.           *)
(*                                                                         *)
(* A dotted name is a sequence of its segments.  A checkout maps each file *)
(* of project/ to the statements in it:                                    *)
(*   import a.b             [kind |-> "import", name |-> <<a, b>>]         *)
(*   from ..m import n      [kind |-> "from", level |-> 2, module |-> m,   *)
(*                           taken |-> n], "*" for a star                  *)
(*   import_module("a.b")   [kind |-> "call", name |-> <<a, b>>,           *)
(*                           known |-> the name is importlib's here,       *)
(*                           literal |-> the argument is a literal]        *)
(***************************************************************************)
EXTENDS Naturals, Sequences, FiniteSets, SequencesExt

CONSTANTS
  Segments,   \* what a dotted name is made of
  Stdlib      \* first segments of the standard library's modules

ASSUME NamesAssumption ==
  /\ {"project", "domain", "infrastructure", "core", "launcher",
      "composition_root", "service_registration", "lifecycle"} \subseteq Segments
  /\ "*" \notin Segments /\ "project" \notin Stdlib

\* _LAYER_RULES.
DomainAllowedPrefixes == {<<"project", "domain">>}
ForbiddenPrefixes ==
  [application    |-> {<<"project", "infrastructure">>},
   infrastructure |-> {<<"project", "core", "composition_root">>,
                       <<"project", "core", "service_registration">>,
                       <<"project", "core", "lifecycle">>,
                       <<"project", "launcher">>}]

\* A file directly in project/ keeps its suffix, and so names no layer.
LayerFromPath(file) == IF Len(file) > 2 THEN file[2] ELSE "none"

\* The directory of the file, and one package up for every further dot.  Beyond the
\* top the end of the slice is negative, and counts from the back of the directory.
ResolveRelative(file, level, module) ==
  LET end == Len(file) - level
  IN  SubSeq(file, 1, IF end < 0 THEN Len(file) - 1 + end ELSE end) \o module

\* Mutant: the module of a `from` is looked at, and not what is taken from it.
ResolveModuleOnly(file, stmt) ==
  IF stmt.kind = "import" THEN {<<stmt.name, stmt.name>>}
  ELSE LET module == IF stmt.level = 0 THEN stmt.module
                     ELSE ResolveRelative(file, stmt.level, stmt.module)
       IN  IF module = <<>> THEN {} ELSE {<<module, module>>}

\* Pairs of the module a statement names and what it takes from it, absolute.
ResolveImportNames(file, stmt) ==
  IF stmt.kind = "import" THEN {<<stmt.name, stmt.name>>}
  ELSE LET module == IF stmt.level = 0 THEN stmt.module
                     ELSE ResolveRelative(file, stmt.level, stmt.module)
       IN  IF module = <<>> THEN {}
           ELSE {<<module, IF stmt.taken = "*" THEN module ELSE Append(module, stmt.taken)>>}

\* A call counts when its name is bound to importlib and its argument a literal.
DynamicImportTargets(stmts) ==
  {<<s.name, s.name>> : s \in {t \in stmts : t.kind = "call" /\ t.known /\ t.literal}}

Imported(file, stmts) ==
  DynamicImportTargets(stmts)
    \cup UNION {ResolveImportNames(file, s) : s \in {t \in stmts : t.kind # "call"}}

MatchesPrefix(name, prefix) == IsPrefix(prefix, name)

IsAllowedImport(name) ==
  \/ Head(name) \in Stdlib
  \/ \E prefix \in DomainAllowedPrefixes : MatchesPrefix(name, prefix)

\* _validate_import: TRUE when the import crosses the layer's boundary.
ValidateImport(layer, module, target) ==
  IF layer = "domain" THEN ~IsAllowedImport(module) /\ ~IsAllowedImport(target)
  ELSE /\ layer \in DOMAIN ForbiddenPrefixes
       /\ \E prefix \in ForbiddenPrefixes[layer], named \in {module, target} : MatchesPrefix(named, prefix)

ValidatePythonSource(file, stmts) ==
  {pair \in Imported(file, stmts) : ValidateImport(LayerFromPath(file), pair[1], pair[2])}

\* The files with an issue.  A file that cannot be read or parsed is one.
ArchitectureIssues(checkout) ==
  {file \in DOMAIN checkout : ValidatePythonSource(file, checkout[file]) # {}}

-----------------------------------------------------------------------------
\* What Python loads.  A package is the file __init__ in its directory; a name
\* loads every package above it first.
Package(file) == SubSeq(file, 1, Len(file) - 1)
ModuleOf(file) == IF Last(file) = "__init__" THEN Package(file) ELSE file
Modules(checkout) == {ModuleOf(file) : file \in DOMAIN checkout}

WithPackages(name) == {SubSeq(name, 1, n) : n \in 1..Len(name)}

\* `from` loads what it takes when that is a submodule, and nothing from beyond the top.
LoadedBy(checkout, file, stmt) ==
  IF stmt.kind \in {"import", "call"} THEN WithPackages(stmt.name)
  ELSE IF stmt.level >= Len(file) THEN {}
  ELSE LET base == IF stmt.level = 0 THEN <<>> ELSE SubSeq(file, 1, Len(file) - stmt.level)
           module == base \o stmt.module
       IN  WithPackages(module) \cup
             IF Append(module, stmt.taken) \in Modules(checkout) THEN {Append(module, stmt.taken)} ELSE {}

Loads(checkout, file) == UNION {LoadedBy(checkout, file, s) : s \in checkout[file]}

\* And what the files of those modules load.
Onward(checkout, modules) ==
  modules \cup UNION {Loads(checkout, f) : f \in {g \in DOMAIN checkout : ModuleOf(g) \in modules}}

\* Every module a file's import brings in, through any chain of imports.
Reached(checkout, file) ==
  LET n == Cardinality(DOMAIN checkout)
      reach[k \in 0..n] == IF k = 0 THEN Loads(checkout, file) ELSE Onward(checkout, reach[k - 1])
  IN  reach[n]

Visible(stmt) == stmt.kind = "call" => stmt.known /\ stmt.literal
=============================================================================
