----------------------------- MODULE MutationRun ------------------------------
(***************************************************************************)
(* scripts/run_mutations.py: plant one defect at a time in the checkout,   *)
(* run every tier of tests against it, put the file back, and compare what *)
(* each tier noticed with a recorded baseline; and the part of             *)
(* scripts/run_all_tests.py a tier is made of, a Compose project brought   *)
(* up and taken down.                                                      *)
(*                                                                         *)
(* Covered: a kill (no `finally`) and an interrupt (one `finally`) at any  *)
(* step and inside any write; a tier that hangs and is abandoned with its  *)
(* stack up; infrastructure that fails under a tier; a developer who edits *)
(* or reverts a file, or changes the tests, between two runs.              *)
(* Not covered: two runs in one checkout, an edit made while a run is      *)
(* alive, the lines of a report.                                           *)
(***************************************************************************)
EXTENDS Naturals, Sequences, FiniteSets, SequencesExt

CONSTANTS
  Defects,     \* ids of the catalogue's entries
  FileOf,      \* the file each entry changes
  Tiers,       \* the tiers, cheapest first
  E2E,         \* the tier that runs on the Compose stack
  MaxStops,    \* bound: kills and interrupts of a behaviour
  MaxTouches   \* bound: steps of the developer in a behaviour

ASSUME CatalogueAssumption ==
  /\ Tiers \in Seq(STRING) /\ Tiers # <<>> /\ E2E \in Range(Tiers)
  /\ IsFiniteSet(Defects) /\ MaxStops \in Nat /\ MaxTouches \in Nat

Files == {FileOf[d] : d \in Defects}
FilesOf(ds) == {FileOf[d] : d \in ds}

\* What a file holds: the commit's text, one planted defect, a local edit, or
\* the beginning of a text whose write was cut short.
Contents == Defects \cup {"head", "edit", "torn"}

VARIABLES
  disk,       \* file -> contents
  backup,     \* file -> contents of its .mutation-backup, or "absent"
  catches,    \* defect -> the tiers with a test that fails on it
  baseline,   \* defect -> recorded verdict, or NoVerdict
  whole,      \* FALSE: the write of the catalogue was cut short
  pc,         \* step of the run, "idle" when there is none
  selected,   \* defects of this run
  record,     \* --record
  todo,       \* defects still to measure
  original,   \* text of the target, read before it was changed
  results,    \* states of the tiers run in this phase
  observed,   \* defect -> verdict of this run
  inTier,     \* the end-to-end tier is between `up` and `down`
  stack,      \* the Compose project of this checkout: "down" or "up"
  orphan,     \* an abandoned end-to-end tier goes on by itself
  ended,      \* how the last run ended
  stops, touches

tree == <<disk, backup>>
judged == <<catches, baseline, whole>>
compose == <<inTier, stack, orphan>>
run == <<selected, record, todo, original, results, observed>>
bounds == <<stops, touches>>
vars == <<tree, judged, pc, run, compose, ended, bounds>>

NoVerdict == <<"none">>

\* Mutant: any FAILED line makes a tier red.
RedIfFailed(raw) ==
  CASE raw.hung -> "timeout" [] raw.ok -> "green" [] raw.failed -> "red" [] OTHER -> "inconclusive"

\* What a tier did, by run_tier: the exit status and the FAILED and ERROR lines.
State(raw) ==
  CASE raw.hung                     -> "timeout"
    [] raw.ok                       -> "green"
    [] raw.failed /\ ~raw.errored   -> "red"
    [] OTHER                        -> "inconclusive"

\* The cheapest tier that caught it, unless one before it could not say.
Verdict(res) ==
  LET said == {i \in DOMAIN res : res[i] # "green"}
      first == CHOOSE i \in said : \A j \in said : i <= j
  IN  IF said = {} THEN <<"missed">>
      ELSE <<IF res[first] = "red" THEN "caught" ELSE "inconclusive", Tiers[first]>>

Rank(verdict) ==
  IF verdict[1] = "caught" THEN CHOOSE i \in DOMAIN Tiers : Tiers[i] = verdict[2]
  ELSE Len(Tiers) + 1

\* Defects this run catches later, or not at all.
Regressions ==
  {d \in DOMAIN observed : /\ observed[d][1] # "inconclusive"
                           /\ baseline[d] # NoVerdict
                           /\ Rank(observed[d]) > Rank(baseline[d])}

Inconclusive == {d \in DOMAIN observed : observed[d][1] = "inconclusive"}

-----------------------------------------------------------------------------
\* A tier on the code that is on disk.  A test body fails for a defect its tier
\* catches; a text cut short does not import.  An edit counts as one no tier notices:
\* any other fails the control.
Named == [hung : {FALSE}, ok : {FALSE}, failed : BOOLEAN, errored : BOOLEAN]
Green == [hung |-> FALSE, ok |-> TRUE, failed |-> FALSE, errored |-> FALSE]
Red == [hung |-> FALSE, ok |-> FALSE, failed |-> TRUE, errored |-> FALSE]
Hung == [hung |-> TRUE, ok |-> FALSE, failed |-> FALSE, errored |-> FALSE]
\* The daemon is down, the database never started or went away mid-run.
Trouble == Named \ {Red}

OnCode(tier) ==
  LET code == {disk[f] : f \in Files}
      caught == \E d \in code \cap Defects : tier \in catches[d]
  IN  CASE "torn" \in code              -> {r \in Named : r.errored}
        [] "torn" \notin code /\ caught -> {Red}
        [] OTHER                        -> {Green}

Phases == {"control", "measure", "after"}
NextTier == Tiers[Len(results) + 1]
TierDue == pc \in Phases /\ Len(results) < Len(Tiers)

\* local-suites: one pytest process, no stack.
RunLocalSuites ==
  /\ TierDue /\ NextTier # E2E
  /\ \E raw \in OnCode(NextTier) \cup Trouble \cup {Hung} :
       results' = Append(results, State(raw))
  /\ UNCHANGED <<tree, judged, pc, selected, record, todo, original, observed, compose, ended, bounds>>

\* docker compose up: a project of this name that is already there is reused.
StackUp ==
  /\ TierDue /\ NextTier = E2E /\ ~inTier
  /\ inTier' = TRUE
  /\ stack' = "up"
  /\ UNCHANGED <<tree, judged, pc, run, orphan, ended, bounds>>

\* The suite ends and `down -v` removes project and volume whatever happened.
\* Without its stack nothing passes.  Rows an earlier stack left change nothing:
\* tests/functional/conftest.py truncates the tables before each test.
RunFunctionalStep ==
  /\ TierDue /\ inTier
  /\ \E raw \in Trouble \cup IF stack = "up" THEN OnCode(E2E) ELSE {} :
       results' = Append(results, State(raw))
  /\ inTier' = FALSE /\ stack' = "down"
  /\ UNCHANGED <<tree, judged, pc, selected, record, todo, original, observed, orphan, ended, bounds>>

\* The ceiling kills `make`; what it started goes on, stack and all.
TierTimesOut ==
  /\ TierDue /\ inTier
  /\ results' = Append(results, State(Hung))
  /\ inTier' = FALSE /\ orphan' = TRUE
  /\ UNCHANGED <<stack, tree, judged, pc, selected, record, todo, original, observed, ended, bounds>>

\* The abandoned tier comes to its own `down -v`: the project of that name goes.
OrphanEnds ==
  /\ orphan
  /\ orphan' = FALSE /\ stack' = "down"
  /\ UNCHANGED <<tree, judged, pc, run, inTier, ended, bounds>>

-----------------------------------------------------------------------------
\* The process ends, and what it held in memory with it.
Exit(how) ==
  /\ pc' = "idle" /\ ended' = how
  /\ record' = FALSE /\ todo' = {} /\ original' = "head" /\ results' = <<>> /\ observed' = <<>>
  /\ UNCHANGED selected

\* The file comes back from its backup, by a rename.
Restored(fs) == [f \in Files |-> IF f \in fs /\ backup[f] # "absent" THEN backup[f] ELSE disk[f]]

Dirty(fs, d) == \E f \in fs : d[f] # "head"

\* Mutant: local edits are looked for before the leftovers come back.
UnfitBefore(fs) == Dirty(fs, disk)

Unfit(fs) == Dirty(fs, Restored(fs))

\* main, up to the first control tier: leftovers back, then the local edits.
Start(ids, rec) ==
  LET fs == FilesOf(ids) IN
  /\ pc = "idle" /\ whole
  /\ disk' = Restored(fs)
  /\ backup' = [f \in Files |-> IF f \in fs THEN "absent" ELSE backup[f]]
  /\ selected' = ids
  /\ IF Unfit(fs)
     THEN ended' = "refused" /\ UNCHANGED <<pc, record, todo>>
     ELSE ended' = "running" /\ pc' = "control" /\ record' = rec /\ todo' = ids
  /\ UNCHANGED <<judged, original, results, observed, compose, bounds>>

NextDefect == CHOOSE d \in todo : TRUE
Target == FileOf[NextDefect]

\* Every tier green on the clean code first.
ControlDone ==
  /\ pc = "control" /\ Len(results) = Len(Tiers)
  /\ IF \A i \in DOMAIN results : results[i] = "green"
     THEN /\ pc' = "backup" /\ results' = <<>>
          /\ UNCHANGED <<selected, record, todo, original, observed, ended>>
     ELSE Exit("exit")
  /\ UNCHANGED <<tree, judged, compose, bounds>>

WriteBackup ==
  /\ pc = "backup" /\ pc' = "mutate"
  /\ original' = disk[Target]
  /\ backup' = [backup EXCEPT ![Target] = disk[Target]]
  /\ UNCHANGED <<disk, judged, selected, record, todo, results, observed, compose, ended, bounds>>

WriteMutant ==
  /\ pc = "mutate" /\ pc' = "measure"
  /\ disk' = [disk EXCEPT ![Target] = NextDefect]
  /\ UNCHANGED <<backup, judged, run, compose, ended, bounds>>

MeasureDone ==
  /\ pc = "measure" /\ Len(results) = Len(Tiers)
  /\ pc' = "restore"
  /\ UNCHANGED <<tree, judged, run, compose, ended, bounds>>

\* measure_one's finally.
Restore ==
  /\ pc = "restore" /\ pc' = "unlink"
  /\ disk' = [disk EXCEPT ![Target] = original]
  /\ UNCHANGED <<backup, judged, run, compose, ended, bounds>>

\* The backup goes; the interrupt that brought the run here is raised again.
Unlink ==
  /\ pc = "unlink"
  /\ backup' = [backup EXCEPT ![Target] = "absent"]
  /\ IF ended = "interrupted"
     THEN Exit("interrupted")
     ELSE /\ observed' = [d \in DOMAIN observed \cup {NextDefect} |->
                            IF d = NextDefect THEN Verdict(results) ELSE observed[d]]
          /\ todo' = todo \ {NextDefect}
          /\ pc' = IF todo' = {} THEN "after" ELSE "backup"
          /\ results' = <<>>
          /\ UNCHANGED <<selected, record, original, ended>>
  /\ UNCHANGED <<disk, judged, compose, bounds>>

\* A baseline is written only from a run that measured everything.
MayRecord == /\ record
             /\ Regressions = {}
             /\ Inconclusive = {}
             /\ \A i \in DOMAIN results : results[i] = "green"

\* Mutant: the new baseline is this run's result.
MergedAway == [d \in Defects |-> IF d \in DOMAIN observed THEN observed[d] ELSE NoVerdict]

\* A run of a few defects keeps what is recorded of the others.
Merged == [d \in Defects |-> IF d \in DOMAIN observed THEN observed[d] ELSE baseline[d]]

Report ==
  /\ pc = "after" /\ Len(results) = Len(Tiers)
  /\ baseline' = IF MayRecord THEN Merged ELSE baseline
  /\ Exit("exit")
  /\ UNCHANGED <<tree, catches, whole, compose, bounds>>

-----------------------------------------------------------------------------
\* What a stop leaves of the file being written, besides all and nothing of it.
TornBy(step) ==
  /\ disk' = IF step \in {"mutate", "restore"} THEN [disk EXCEPT ![Target] = "torn"] ELSE disk
  /\ backup' = IF step = "backup" THEN [backup EXCEPT ![Target] = "torn"] ELSE backup

CatalogueCut ==
  whole' \in IF pc = "after" /\ Len(results) = Len(Tiers) /\ MayRecord THEN BOOLEAN ELSE {whole}

\* A stopped end-to-end tier: its processes live on, or die with the stack up.
AbandonTier ==
  /\ inTier' = FALSE
  /\ orphan' \in IF inTier THEN {orphan, TRUE} ELSE {orphan}
  /\ UNCHANGED stack

\* SIGKILL, a closed terminal, a power cut: no finally runs.
Kill ==
  /\ pc # "idle" /\ stops < MaxStops
  /\ TornBy(pc) \/ UNCHANGED tree
  /\ Exit("killed") /\ stops' = stops + 1
  /\ CatalogueCut /\ AbandonTier
  /\ UNCHANGED <<catches, baseline, touches>>

\* Mutant: the defect is written before the `try`.
FinallyFromMeasure == pc = "measure"

HasFinally == pc \in {"mutate", "measure"}

\* Ctrl-C or SIGTERM: from the write of the defect on, the finally runs.
Interrupt ==
  /\ pc # "idle" /\ stops < MaxStops
  /\ stops' = stops + 1
  /\ IF HasFinally
     THEN pc' = "restore" /\ ended' = "interrupted" /\ UNCHANGED run
     ELSE Exit(IF pc \in {"backup", "restore", "unlink"} THEN "killed" ELSE "interrupted")
  /\ TornBy(pc) \/ UNCHANGED tree
  /\ CatalogueCut /\ AbandonTier
  /\ UNCHANGED <<catches, baseline, touches>>

\* Between two runs the developer edits, takes an edit back (git checkout), or
\* changes what the tests notice.
Touch ==
  /\ pc = "idle" /\ touches < MaxTouches
  /\ touches' = touches + 1
  /\ \/ \E f \in Files, c \in {"edit", "head"} :
          disk' = [disk EXCEPT ![f] = c] /\ UNCHANGED catches
     \/ \E d \in Defects, ts \in SUBSET Range(Tiers) :
          catches' = [catches EXCEPT ![d] = ts] /\ UNCHANGED disk
  /\ ended' = "touched"
  /\ UNCHANGED <<backup, baseline, whole, pc, run, compose, stops>>

\* A catalogue that is no longer JSON stops every run until git gives it back.
CheckoutCatalogue ==
  /\ ~whole /\ whole' = TRUE
  /\ UNCHANGED <<tree, catches, baseline, pc, run, compose, ended, bounds>>

-----------------------------------------------------------------------------
\* The tier that really catches a defect first.
TrueVerdict(d) ==
  LET ts == {i \in DOMAIN Tiers : Tiers[i] \in catches[d]}
  IN  IF ts = {} THEN <<"missed">> ELSE <<"caught", Tiers[CHOOSE i \in ts : \A j \in ts : i <= j]>>

Init ==
  /\ disk = [f \in Files |-> "head"] /\ backup = [f \in Files |-> "absent"]
  /\ catches \in [Defects -> SUBSET Range(Tiers)]
  /\ \/ baseline = [d \in Defects |-> NoVerdict]
     \/ baseline = [d \in Defects |-> TrueVerdict(d)]
  /\ whole = TRUE /\ pc = "idle" /\ ended = "touched"
  /\ selected = {} /\ record = FALSE /\ todo = {} /\ original = "head"
  /\ results = <<>> /\ observed = <<>>
  /\ inTier = FALSE /\ stack = "down" /\ orphan = FALSE
  /\ stops = 0 /\ touches = 0

Next ==
  \/ \E ids \in (SUBSET Defects) \ {{}}, rec \in BOOLEAN : Start(ids, rec)
  \/ RunLocalSuites \/ StackUp \/ RunFunctionalStep \/ TierTimesOut \/ OrphanEnds
  \/ ControlDone \/ WriteBackup \/ WriteMutant \/ MeasureDone \/ Restore \/ Unlink \/ Report
  \/ Kill \/ Interrupt \/ Touch \/ CheckoutCatalogue

Spec == Init /\ [][Next]_vars

TypeOK ==
  /\ disk \in [Files -> Contents] /\ backup \in [Files -> Contents \cup {"absent"}]
  /\ pc \in {"idle", "backup", "mutate", "restore", "unlink"} \cup Phases
  /\ stack \in {"down", "up"} /\ DOMAIN observed \subseteq Defects
  /\ todo \subseteq selected /\ Len(results) <= Len(Tiers)

-----------------------------------------------------------------------------
(* A run of the whole catalogue measures the commit's code with exactly one  *)
(* defect in it, and its controls the commit's code, whatever earlier runs   *)
(* left behind: leftovers come back before local edits are looked for.       *)
MeasuresOneDefect ==
  pc \in Phases /\ selected = Defects =>
    \A f \in Files : disk[f] = IF pc = "measure" /\ f = Target THEN NextDefect ELSE "head"

(* A run that ends by itself, or by one interrupt, leaves every file it was   *)
(* asked to change as the commit has it and no backup of it.                  *)
EndsWhereItBegan ==
  pc = "idle" /\ ended \in {"exit", "interrupted"} =>
    \A f \in FilesOf(selected) : disk[f] = "head" /\ backup[f] = "absent"

(* A verdict that enters the baseline is what the tests really do to that     *)
(* defect: no tier that broke, hung, or ran over another run's stack or rows  *)
(* is written down as a catch or a miss.                                      *)
RecordsTheTruth ==
  [][\A d \in Defects : baseline'[d] # baseline[d] => baseline'[d] = TrueVerdict(d)]_vars

(* The baseline never gives up a catch: a defect it has caught by a tier is   *)
(* never recorded as caught by a later one, or missed.                        *)
NeverForgetsACatch ==
  [][\A d \in Defects : baseline[d] # NoVerdict => Rank(baseline'[d]) <= Rank(baseline[d])]_vars

(* "Refuse to measure when any target file has local edits": a run never      *)
(* writes over an edit the developer made.                                    *)
LocalEditsSurvive ==
  [][\A f \in Files : disk[f] = "edit" /\ disk'[f] # "edit" => touches' # touches]_vars
=============================================================================
