------------------------------ MODULE Extraction ------------------------------
(***************************************************************************)
(* scripts/extract_reference_vertical.py: take the reference vertical out  *)
(* of a project made from the template; and check_product_from_template.py,*)
(* which makes a throwaway project and looks at what the extraction left.  *)
(*                                                                         *)
(* The plan is computed as a whole, from the files as they are, before the *)
(* first write: every cut must fit its file and take exactly the text the  *)
(* template shipped.  It is then carried out file by file.                 *)
(*                                                                         *)
(* Covered: a developer who edits the vertical's files, adds and removes   *)
(* lines anywhere in the shared ones, puts files into the directories of   *)
(* the template's tools, starts a vertical of the project's own, replaces  *)
(* the identity in two steps, or brings the template's tools back; a run   *)
(* that is killed between any two files.                                   *)
(* Not covered: a write cut short inside one file, the layout of a line    *)
(* (ruff formats what was written), the wording of README.                 *)
(***************************************************************************)
EXTENDS Naturals, Sequences, FiniteSets, SequencesExt

CONSTANTS
  SampleFiles,   \* the vertical's own files, in the order they are copied
  Tools,         \* TEMPLATE_ONLY, this script among them
  ToolDirs,      \* those of them that are directories
  Script,
  Deletes,       \* samples and tools in the order they are deleted (sorted)
  Shared,        \* text files outside tests/: every vertical adds lines to some of them
  Python,        \* the modules among them
  Context,       \* docs/project_context.json; its lines are sentences of "notes"
  Shipped,       \* shared file -> its lines in the template
  Cuts,          \* spans to cut: [file, first, last (None: to the end), put]
  Vertical,      \* the lines the reference vertical added to shared files
  Sentences,     \* sentences that speak of the reference vertical
  OldPaths,      \* lines that name a sample file at its place
  Pointed,       \* such a line with its copy's place in the scaffold
  Mine,          \* lines a project writes
  Blank,         \* an empty line
  None,
  LineLimit,     \* lines a project may inherit
  MaxEdits,      \* bound: steps of the developer
  MaxKills       \* bound: killed runs

ASSUME ExtractionAssumption ==
  /\ SampleFiles \in Seq(STRING) /\ Deletes \in Seq(STRING)
  /\ Range(Deletes) = Range(SampleFiles) \cup Tools /\ Script \in Tools
  /\ IsFiniteSet(ToolDirs) /\ ToolDirs \subseteq Tools \cap STRING
  /\ Python \subseteq Shared /\ Mine \subseteq STRING \ Vertical /\ Blank \in STRING \ (Vertical \cup OldPaths)
  /\ OldPaths \subseteq STRING /\ Pointed \in [OldPaths -> STRING \ (OldPaths \cup Vertical)]
  /\ IsFiniteSet(Shared) /\ Shipped \in [Shared -> Seq(STRING)]
  /\ Cuts \in Seq([file : Shared, first : STRING, last : STRING \cup {None}, put : Seq(STRING)])
  /\ MaxEdits \in Nat /\ MaxKills \in Nat

VARIABLES
  identity,  \* "template", "unnamed" (is_template false, the old name) or "project"
  sample,    \* sample file -> "shipped", "edited" or "gone"
  tools,     \* the template's own tools that are here
  own,       \* the project has a file of a vertical of its own
  text,      \* shared file -> lines
  notes,     \* files of the project's in these directories: <<directory, git knows it>>
  scaffold,  \* sample files that have a copy in the scaffold
  drop,      \* the migration that drops the table is here
  remaining, \* file operations of the plan still to carry out
  said,      \* what the last run printed
  edits, kills

extractionVars == <<identity, sample, tools, own, text, notes, scaffold, drop, remaining, said, edits, kills>>

-----------------------------------------------------------------------------
\* The elements of a sequence that are in a set, in their order.
Only(seq, set) ==
  LET upTo[n \in 0..Len(seq)] ==
        IF n = 0 THEN <<>>
        ELSE IF seq[n] \in set THEN Append(upTo[n - 1], seq[n]) ELSE upTo[n - 1]
  IN  upTo[Len(seq)]

\* _apply_cut: the span from the one line equal to `first` through the first
\* later one equal to `last`; a refusal when there is no such span.
Starts(lines, cut) == {i \in DOMAIN lines : lines[i] = cut.first}
Ends(lines, cut, start) ==
  IF cut.last = None THEN {Len(lines)}
  ELSE {i \in DOMAIN lines : i >= start /\ lines[i] = cut.last}

ApplyCut(lines, cut) ==
  LET starts == Starts(lines, cut)
      start == CHOOSE i \in starts : TRUE
      ends == Ends(lines, cut, start)
      end == CHOOSE i \in ends : \A j \in ends : i <= j
  IN  IF Cardinality(starts) # 1 THEN [fits |-> FALSE]
      ELSE IF ends = {} THEN [fits |-> FALSE]
      ELSE [fits  |-> TRUE,
            taken |-> SubSeq(lines, start, end),
            left  |-> SubSeq(lines, 1, start - 1) \o cut.put \o SubSeq(lines, end + 1, Len(lines))]

\* One cut more, on what the ones before it left of its file.
MakeCut(so, cut) ==
  LET one == ApplyCut(so.texts[cut.file], cut)
  IN  IF ~so.fits THEN so
      ELSE IF ~one.fits THEN [so EXCEPT !.fits = FALSE]
      ELSE [fits |-> TRUE, texts |-> [so.texts EXCEPT ![cut.file] = one.left],
            taken |-> Append(so.taken, one.taken)]

\* Every cut in its order.
AfterCuts(texts) ==
  LET after[n \in 0..Len(Cuts)] ==
        IF n = 0 THEN [fits |-> TRUE, texts |-> texts, taken |-> <<>>]
        ELSE MakeCut(after[n - 1], Cuts[n])
  IN  after[Len(Cuts)]

\* cut_digests: what each cut takes from the template's files.
CutDigests == AfterCuts(Shipped).taken

\* Does a file have a line of these.
Has(lines, set) == \E i \in DOMAIN lines : lines[i] \in set

\* The cuts fit the template they were written for, and take the whole vertical.
ASSUME ShippedAssumption ==
  /\ AfterCuts(Shipped).fits
  /\ \A f \in Shared : ~Has(AfterCuts(Shipped).texts[f], Vertical)

\* Mutant: a cut that fits is taken as it is, as before 2026-09-25.
AnythingIsOurs(taken) == TRUE

\* _text_digest: without the blank lines at the end.
Trimmed(lines) ==
  LET ends == {n \in 0..Len(lines) : \A i \in (n + 1)..Len(lines) : lines[i] = Blank}
  IN  SubSeq(lines, 1, CHOOSE n \in ends : \A m \in ends : n <= m)

\* Anything but the shipped text refuses.
IsOurs(taken) == \A n \in DOMAIN Cuts : Trimmed(taken[n]) = Trimmed(CutDigests[n])

-----------------------------------------------------------------------------
AllGone == \A s \in Range(SampleFiles) : sample[s] = "gone"
SamplesAreShipped == \A s \in Range(SampleFiles) : sample[s] = "shipped"

\* A file of the project's own, the drop migration of a run before among them.
OwnVerticalFiles == own \/ drop

\* What it prints when it will not act.
Reasons == {"kept: the template", "kept: already done", "kept: not as shipped",
            "kept: a cut does not fit", "kept: lines of the project's own"}

ASSUME ReasonsAssumption == None \notin Reasons

\* build_plan, up to the cuts: the reason it will not act.
Refusal ==
  LET cut == AfterCuts(text)
  IN  IF identity = "template" THEN "kept: the template"
      ELSE IF AllGone /\ scaffold # {} THEN "kept: already done"
      ELSE IF identity = "unnamed" \/ ~SamplesAreShipped \/ OwnVerticalFiles THEN "kept: not as shipped"
      ELSE IF ~cut.fits THEN "kept: a cut does not fit"
      ELSE IF ~IsOurs(cut.taken) THEN "kept: lines of the project's own"
      ELSE None

Op(kind, path) == [kind |-> kind, path |-> path]
Ops(kind, paths) == [i \in DOMAIN paths |-> Op(kind, paths[i])]

\* Every mention of a moved file names its copy.
Point(line) == IF line \in OldPaths THEN Pointed[line] ELSE line
PointAll(lines) == [i \in DOMAIN lines |-> Point(lines[i])]

\* _project_context: whoever wrote it, such a sentence goes.
WithoutSentences(f, lines) == IF f = Context THEN Only(lines, STRING \ Sentences) ELSE lines

\* Mutant: every cut is made in the file as it was, so the last one of a file wins.
EachCutOnTheOriginal ==
  LET last(f) == CHOOSE n \in DOMAIN Cuts :
                   Cuts[n].file = f /\ \A k \in (n + 1)..Len(Cuts) : Cuts[k].file # f
      cut(f) == \E n \in DOMAIN Cuts : Cuts[n].file = f
  IN  [f \in Shared |-> PointAll(WithoutSentences(f,
         IF cut(f) THEN ApplyCut(text[f], Cuts[last(f)]).left ELSE text[f]))]

\* The shared files as the plan writes them, the project's lines in them too.
EditedFiles == [f \in Shared |-> PointAll(WithoutSentences(f, AfterCuts(text).texts[f]))]

\* What the deletions name: git's files in a directory of the template's are
\* taken as one, the project's among them.
Deleted == Range(SampleFiles) \cup tools \cup {d \in ToolDirs : <<d, TRUE>> \in notes}

\* The order apply_plan works in: copies, README and migration, edited files,
\* then the deletions, the script's own among them, and at last whatever else is
\* in a directory of the template's.
Plan ==
  LET cut == EditedFiles
      edited == SetToSeq({f \in Shared : cut[f] # text[f]})
  IN  Ops("copy", SampleFiles) \o <<Op("drop", None)>>
      \o [i \in DOMAIN edited |-> [kind |-> "write", path |-> edited[i], lines |-> cut[edited[i]]]]
      \o Ops("delete", Only(Deletes, Deleted))
      \o Ops("sweep", SetToSeq(ToolDirs))
      \o <<Op("follow", None)>>

\* `make init-project`: only while the script is here.
RunInit ==
  /\ remaining = <<>> /\ Script \in tools
  /\ IF Refusal = None THEN remaining' = Plan /\ said' = "working"
     ELSE said' = Refusal /\ UNCHANGED remaining
  /\ UNCHANGED <<identity, sample, tools, own, text, notes, scaffold, drop, edits, kills>>

Copy(op) ==
  /\ op.kind = "copy" /\ scaffold' = scaffold \cup {op.path}
  /\ UNCHANGED <<sample, tools, text, notes, drop, said>>
WriteDrop(op) ==
  /\ op.kind = "drop" /\ drop' = TRUE
  /\ UNCHANGED <<sample, tools, text, notes, scaffold, said>>
WriteShared(op) ==
  /\ op.kind = "write" /\ text' = [text EXCEPT ![op.path] = op.lines]
  /\ UNCHANGED <<sample, tools, notes, scaffold, drop, said>>
Delete(op) ==
  /\ op.kind = "delete"
  /\ tools' = tools \ {op.path} /\ notes' = notes \ {<<op.path, TRUE>>}
  /\ sample' = [s \in Range(SampleFiles) |-> IF s = op.path THEN "gone" ELSE sample[s]]
  /\ UNCHANGED <<text, scaffold, drop, said>>
\* Files git never knew are removed as well.
Sweep(op) ==
  /\ op.kind = "sweep"
  /\ tools' = tools \ {op.path} /\ notes' = notes \ ({op.path} \X BOOLEAN)
  /\ UNCHANGED <<sample, text, scaffold, drop, said>>
\* ruff, the generated docs, git add: a failure is reported and undoes nothing.
FollowUp(op) ==
  /\ op.kind = "follow" /\ said' \in {"taken out", "taken out, follow-up failed"}
  /\ UNCHANGED <<sample, tools, text, notes, scaffold, drop>>

ApplyPlan ==
  /\ remaining # <<>>
  /\ remaining' = Tail(remaining)
  /\ LET op == Head(remaining)
     IN  Copy(op) \/ WriteDrop(op) \/ WriteShared(op) \/ Delete(op) \/ Sweep(op) \/ FollowUp(op)
  /\ UNCHANGED <<identity, own, edits, kills>>

KillExtraction ==
  /\ remaining # <<>> /\ kills < MaxKills
  /\ kills' = kills + 1 /\ remaining' = <<>> /\ said' = "killed"
  /\ UNCHANGED <<identity, sample, tools, own, text, notes, scaffold, drop, edits>>

-----------------------------------------------------------------------------
Edit ==
  /\ remaining = <<>> /\ edits < MaxEdits
  /\ edits' = edits + 1 /\ said' = "edited"
  /\ \/ \E s \in Range(SampleFiles) :
          sample[s] = "shipped" /\ sample' = [sample EXCEPT ![s] = "edited"]
          /\ UNCHANGED <<tools, own, text, notes>>
     \/ \E f \in Shared : \E i \in 0..Len(text[f]) : \E line \in Mine :
          text' = [text EXCEPT ![f] = SubSeq(@, 1, i) \o <<line>> \o SubSeq(@, i + 1, Len(@))]
          /\ UNCHANGED <<sample, tools, own, notes>>
     \/ \E f \in Shared : \E i \in DOMAIN text[f] :
          text' = [text EXCEPT ![f] = RemoveAt(@, i)] /\ UNCHANGED <<sample, tools, own, notes>>
     \/ \E d \in ToolDirs, tracked \in BOOLEAN :
          notes' = notes \cup {<<d, tracked>>} /\ UNCHANGED <<sample, tools, own, text>>
     \/ own' = TRUE /\ UNCHANGED <<sample, tools, text, notes>>
     \/ tools' = Tools /\ UNCHANGED <<sample, own, text, notes>>
  /\ UNCHANGED <<identity, scaffold, drop, remaining, kills>>

\* .agents/skills/initialize-project: is_template, then the name, or both at once.
ReplaceIdentity ==
  /\ remaining = <<>> /\ identity # "project"
  /\ identity' \in {"unnamed", "project"}
  /\ said' = "edited"
  /\ UNCHANGED <<sample, tools, own, text, notes, scaffold, drop, remaining, edits, kills>>

ExtractionInit ==
  /\ identity = "template"
  /\ sample = [s \in Range(SampleFiles) |-> "shipped"] /\ tools = Tools
  /\ own = FALSE /\ text = Shipped /\ notes = {}
  /\ scaffold = {} /\ drop = FALSE /\ remaining = <<>> /\ said = "nothing" /\ edits = 0 /\ kills = 0

ExtractionNext == RunInit \/ ApplyPlan \/ KillExtraction \/ Edit \/ ReplaceIdentity

ExtractionSpec == ExtractionInit /\ [][ExtractionNext]_extractionVars

-----------------------------------------------------------------------------
\* check_product_from_template: what it asks of a project it has just made.
Leftovers == \E f \in Shared : Has(text[f], Vertical)
CountPythonLines ==
  Len(Only(FlattenSeq([i \in 1..Cardinality(Python) |-> text[SetToSeq(Python)[i]]]), STRING \ {Blank}))
ProductPasses == said = "taken out" /\ ~Leftovers /\ CountPythonLines <= LineLimit

\* The vertical runs as the template shipped it, or is out of the application
\* with everything that goes with it.
Untouched == (\A s \in Range(SampleFiles) : sample[s] # "gone") /\ ~drop /\ scaffold = {}
TakenOut == /\ AllGone /\ drop /\ scaffold = Range(SampleFiles)
            /\ \A f \in Shared : ~Has(text[f], Vertical)

\* A run has come to its end: nothing of the template's tools is left, nor what a
\* project put among them, and no file names a sample at the place it had.
Finished == said \in {"taken out", "taken out, follow-up failed"}
Swept == tools = {} /\ notes = {} /\ \A f \in Shared : ~Has(text[f], OldPaths)

\* What the cuts take and what they put in its place, blank lines, and sentences
\* on the vertical; all other lines are the project's, with the place of a moved
\* file brought up to date in them.
Theirs == (UNION {Range(t) : t \in Range(CutDigests) \cup {c.put : c \in Range(Cuts)}})
          \cup Sentences \cup {Blank}
Kept(lines) == Only(PointAll(lines), STRING \ {Point(line) : line \in Theirs})

(* The extraction, killed or not, takes no line a project wrote from a shared *)
(* file, unless it is a sentence on the vertical, and changes nothing in one  *)
(* but the place of a moved file; the lines stay in their order. An edited    *)
(* file of the vertical stays. A file in the template's own directories goes. *)
KeepsTheProjectsWork ==
  [][remaining # <<>> =>
       /\ \A f \in Shared : Kept(text'[f]) = Kept(text[f])
       /\ \A s \in Range(SampleFiles) : sample[s] = "edited" => sample'[s] = "edited"]_extractionVars

(* Unless a run is killed, the vertical is there with all it needs or gone   *)
(* with all that imports it; a project that passes the product check has it  *)
(* gone. What a run leaves that came to its end is swept.                    *)
WholeUnlessKilled ==
  remaining = <<>> =>
    /\ kills = 0 => (Untouched \/ TakenOut) /\ (ProductPasses => TakenOut)
    /\ Finished => Swept

(* "Once, all or nothing": between two runs the vertical is there as a whole *)
(* or gone as a whole.                                                       *)
AllOrNothing == remaining = <<>> => Untouched \/ TakenOut
=============================================================================
