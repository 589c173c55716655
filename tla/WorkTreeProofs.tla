---------------------------- MODULE WorkTreeProofs ----------------------------
(***************************************************************************)
(* What the two tools that rewrite a working tree promise, proved.  The    *)
(* mutation runner, for any catalogue, any tiers and any number of kills,  *)
(* interrupts and edits: what a run measures, the tree it leaves, and that *)
(* the baseline it records is true and forgets no catch.  The extraction   *)
(* of the reference vertical, for any files, cuts, edits and kills: it     *)
(* takes nothing of the project's own, and leaves no half of the vertical. *)
(***************************************************************************)
EXTENDS MutationRun, Extraction, FiniteSetTheorems, SequenceTheorems, WellFoundedInduction, TLAPS

\* A defect's file has been backed up and may hold the defect.
Planting == {"mutate", "measure", "restore", "unlink"}

\* What a tier can be said to have done, and what can be said of a defect.
TierStates == {"green", "red", "timeout", "inconclusive"}
Verdicts == {<<"missed">>} \cup {"caught", "inconclusive"} \X Range(Tiers)

\* The steps of a run and what each has at hand: a defect to plant, results only
\* while they are used, and "interrupted" only on the way through the finally.
Typing ==
  /\ disk \in [Files -> Contents] /\ backup \in [Files -> Contents \cup {"absent"}]
  /\ catches \in [Defects -> SUBSET Range(Tiers)]
  /\ baseline \in [Defects -> Verdicts \cup {NoVerdict}]
  /\ pc \in {"idle", "backup"} \cup Planting \cup Phases
  /\ stack \in {"down", "up"}
  /\ selected \in SUBSET Defects /\ todo \in SUBSET selected
  /\ results \in Seq(TierStates) /\ Len(results) <= Len(Tiers)

Steps ==
  /\ pc = "idle" => todo = {} /\ results = <<>> /\ observed = <<>>
  /\ pc \in {"control", "backup"} \cup Planting => todo # {}
  /\ pc \in {"backup", "mutate"} => results = <<>>
  /\ pc \in {"control", "measure", "after", "backup", "mutate"} => ended = "running"
  /\ pc \in {"restore", "unlink"} =>
       ended = "interrupted" \/ (ended = "running" /\ Len(results) = Len(Tiers))
  /\ inTier => TierDue /\ NextTier = E2E

\* While a run lives, the files it was asked to change are the commit's and have
\* no backup, but for the one defect being planted.
Tree ==
  /\ pc \in Planting => original = "head"
  /\ pc # "idle" => \A f \in FilesOf(selected) :
       /\ pc \in {"control", "after", "backup", "mutate", "unlink"} \/ f # Target
            => disk[f] = "head"
       /\ pc \in {"control", "after", "backup"} \/ f # Target => backup[f] = "absent"
  /\ pc = "measure" => disk[Target] = NextDefect
  /\ EndsWhereItBegan

\* Code on which tier i has nothing to say.
Quiet(code, i) == code # "torn" /\ (code \in Defects => Tiers[i] \notin catches[code])
Inert(code) == \A i \in DOMAIN Tiers : Quiet(code, i)

\* A green control tier has nothing to say of what is on disk; so, from the
\* first defect on, nothing else on disk does, the planted file apart.
Controlled ==
  /\ pc = "control" =>
       \A i \in DOMAIN results, f \in Files : results[i] = "green" => Quiet(disk[f], i)
  /\ pc \in {"backup"} \cup Planting =>
       /\ Inert("head")
       /\ \A f \in Files : pc \in {"backup", "mutate", "unlink"} \/ f # Target
            => Inert(disk[f])

\* Green and red are the planted defect's own.
Measured ==
  pc \in {"measure", "restore", "unlink"} =>
    \A i \in DOMAIN results :
      /\ results[i] = "green" => Tiers[i] \notin catches[NextDefect]
      /\ results[i] = "red" => Tiers[i] \in catches[NextDefect]

\* What a run has observed so far, where it can say, is what the tests do.
Observed ==
  /\ DOMAIN observed \subseteq Defects
  /\ \A d \in DOMAIN observed :
       /\ observed[d] \in Verdicts
       /\ observed[d][1] # "inconclusive" => observed[d] = TrueVerdict(d)

IInv == Typing /\ Steps /\ Tree /\ Controlled /\ Measured /\ Observed

-----------------------------------------------------------------------------
\* A set of indices that is not empty has a first one: what Verdict, Rank and
\* TrueVerdict choose exists.
LEMMA FirstExists ==
  ASSUME NEW n \in Nat, NEW S \in SUBSET (1..n), S # {}
  PROVE  \E m \in S : \A j \in S : m <= j
<1> DEFINE Below(i) == {j \in S : j < i}
           Belows == {Below(i) : i \in S}
<1>1. Belows \subseteq FiniteSubsetsOf(1..n)
  <2>1. \A i \in S : Below(i) \in SUBSET (1..n)
    OBVIOUS
  <2>2. IsFiniteSet(1..n)
    BY FS_Interval
  <2>3. \A i \in S : IsFiniteSet(Below(i))
    BY <2>1, <2>2, FS_Subset
  <2> QED BY <2>1, <2>3 DEF FiniteSubsetsOf
<1>2. PICK B \in Belows : \A A \in Belows : <<A, B>> \notin StrictSubsetOrdering(1..n)
  <2>1. Belows # {}
    OBVIOUS
  <2> HIDE DEF Belows
  <2> QED BY <1>1, <2>1, FS_StrictSubsetOrderingWellFounded, WFMin
<1>3. PICK m \in S : B = Below(m)
  BY <1>2
<1>4. ASSUME NEW j \in S, j < m PROVE FALSE
  <2>1. Below(j) \subseteq Below(m) /\ Below(j) # Below(m)
    <3>1. j \in Below(m) /\ j \notin Below(j)
      BY <1>4
    <3>2. ASSUME NEW k \in Below(j) PROVE k \in Below(m)
      <4>1. k \in Nat /\ j \in Nat /\ m \in Nat /\ k < j /\ j < m
        BY <1>4
      <4> QED BY <4>1
    <3> HIDE DEF Below
    <3> QED BY <3>1, <3>2
  <2>2. Below(j) \in SUBSET (1..n) /\ Below(m) \in SUBSET (1..n)
    OBVIOUS
  <2>3. Below(j) \in Belows
    OBVIOUS
  <2> HIDE DEF Below, Belows
  <2>4. <<Below(j), Below(m)>> \in StrictSubsetOrdering(1..n)
    BY <2>1, <2>2 DEF StrictSubsetOrdering
  <2> QED BY <1>2, <1>3, <2>3, <2>4
<1> QED BY <1>4

\* The tiers have an index each, and at least one of them exists.
LEMMA TiersAreIndexed ==
  /\ Len(Tiers) \in Nat /\ Len(Tiers) > 0
  /\ DOMAIN Tiers = 1..Len(Tiers)
  /\ \A i \in DOMAIN Tiers : Tiers[i] \in Range(Tiers)
<1>1. Tiers \in Seq(STRING) /\ Tiers # <<>>
  BY CatalogueAssumption DEF CatalogueAssumption
<1> QED
  BY <1>1 DEF Range

\* A defect that is due is one of the run's, and its file one of theirs.
LEMMA DueIsSelected ==
  ASSUME Typing, todo # {}
  PROVE  NextDefect \in todo /\ NextDefect \in Defects /\ Target \in FilesOf(selected) /\ Target \in Files
<1>1. NextDefect \in todo
  BY DEF NextDefect
<1> QED
  BY <1>1 DEF Typing, Target, FilesOf, Files

\* The defect being measured stays the same until the list of those to do changes.
LEMMA SameDefect ==
  ASSUME todo' = todo PROVE NextDefect' = NextDefect /\ Target' = Target
BY DEF Target, NextDefect

\* What the tests would say stays the same until the tests change.
LEMMA SameTruth ==
  ASSUME catches' = catches, NEW d PROVE TrueVerdict(d)' = TrueVerdict(d)
BY DEF TrueVerdict

\* What a tier's state says of the code it ran on.
Judges(s) ==
  /\ s = "green" => \A f \in Files :
       disk[f] # "torn" /\ (disk[f] \in Defects => NextTier \notin catches[disk[f]])
  /\ s = "red" => \E f \in Files : disk[f] \in Defects /\ NextTier \in catches[disk[f]]

\* A tier that named failures or errors is red only when all it named are failures.
LEMMA NamedState ==
  ASSUME NEW raw \in Named
  PROVE  /\ State(raw) \in {"red", "inconclusive"}
         /\ raw # Red => State(raw) = "inconclusive"
<1>1. PICK f \in BOOLEAN, e \in BOOLEAN :
        raw = [hung |-> FALSE, ok |-> FALSE, failed |-> f, errored |-> e]
  <2>1. raw = [hung |-> FALSE, ok |-> FALSE, failed |-> raw.failed, errored |-> raw.errored]
        /\ raw.failed \in BOOLEAN /\ raw.errored \in BOOLEAN
    BY DEF Named
  <2> QED
    BY <2>1
<1>2. CASE f = TRUE /\ e = TRUE
  BY <1>1, <1>2 DEF State
<1>3. CASE f = TRUE /\ e = FALSE
  BY <1>1, <1>3 DEF State, Red
<1>4. CASE f = FALSE
  BY <1>1, <1>4 DEF State
<1> QED
  BY <1>2, <1>3, <1>4

\* Broken infrastructure and a tier that hangs are neither green nor red.
LEMMA TroubleSaysNothing ==
  ASSUME NEW raw \in Trouble \cup {Hung}
  PROVE  State(raw) \in {"timeout", "inconclusive"}
<1>1. CASE raw \in Trouble
  BY <1>1, NamedState DEF Trouble
<1>2. CASE raw = Hung
  BY <1>2 DEF Hung, State
<1> QED
  BY <1>1, <1>2

\* A tier that ran is green only if it saw nothing, and red only if it saw a defect.
LEMMA CodeSpeaks ==
  ASSUME TierDue, NEW raw \in OnCode(NextTier)
  PROVE  State(raw) \in TierStates /\ Judges(State(raw))
<1> DEFINE code == {disk[f] : f \in Files}
<1>1. CASE "torn" \in code
  <2>1. raw \in Named /\ raw.errored
    BY <1>1 DEF OnCode
  <2>2. raw # Red
    <3>1. ~Red.errored
      BY DEF Red
    <3> QED
      BY <2>1, <3>1
  <2>3. State(raw) = "inconclusive"
    BY <2>1, <2>2, NamedState
  <2> QED
    BY <2>3 DEF Judges, TierStates
<1>2. CASE "torn" \notin code /\ \E d \in code \cap Defects : NextTier \in catches[d]
  <2>1. raw = Red
    BY <1>2 DEF OnCode
  <2>2. State(raw) = "red"
    BY <2>1 DEF Red, State
  <2>3. \E f \in Files : disk[f] \in Defects /\ NextTier \in catches[disk[f]]
    BY <1>2
  <2> QED
    BY <2>2, <2>3 DEF Judges, TierStates
<1>3. CASE "torn" \notin code /\ ~\E d \in code \cap Defects : NextTier \in catches[d]
  <2>1. raw = Green
    BY <1>3 DEF OnCode
  <2>2. State(raw) = "green"
    BY <2>1 DEF Green, State
  <2>3. \A f \in Files :
          disk[f] # "torn" /\ (disk[f] \in Defects => NextTier \notin catches[disk[f]])
    BY <1>3
  <2> QED
    BY <2>2, <2>3 DEF Judges, TierStates
<1> QED
  BY <1>1, <1>2, <1>3

\* A tier's end, whichever way it comes.
TierEnds == RunLocalSuites \/ RunFunctionalStep \/ TierTimesOut

\* Every tier appends a state that its code or its trouble accounts for.
LEMMA TierSpeaks ==
  ASSUME IInv, TierEnds
  PROVE  /\ TierDue /\ inTier' = FALSE /\ stack' \in {"down", "up"}
         /\ \E s \in TierStates : results' = Append(results, s) /\ Judges(s)
         /\ UNCHANGED <<disk, backup, catches, baseline, pc, selected, todo,
                        original, observed, ended>>
<1>1. CASE RunLocalSuites
  <2>1. PICK raw \in OnCode(NextTier) \cup Trouble \cup {Hung} :
          results' = Append(results, State(raw))
    BY <1>1 DEF RunLocalSuites
  <2>2. State(raw) \in TierStates /\ Judges(State(raw))
    BY <1>1, TroubleSaysNothing, CodeSpeaks DEF Judges, TierStates, RunLocalSuites
  <2> QED
    BY <1>1, <2>1, <2>2
       DEF RunLocalSuites, IInv, Typing, Steps, tree, judged, compose
<1>2. CASE RunFunctionalStep
  <2>1. NextTier = E2E
    BY <1>2 DEF RunFunctionalStep, IInv, Steps
  <2>2. PICK raw \in Trouble \cup OnCode(NextTier) : results' = Append(results, State(raw))
    BY <1>2, <2>1 DEF RunFunctionalStep
  <2>3. State(raw) \in TierStates /\ Judges(State(raw))
    BY <1>2, TroubleSaysNothing, CodeSpeaks DEF Judges, TierStates, RunFunctionalStep
  <2> QED
    BY <1>2, <2>2, <2>3 DEF RunFunctionalStep, tree, judged
<1>3. CASE TierTimesOut
  <2>1. State(Hung) \in TierStates /\ Judges(State(Hung))
    BY TroubleSaysNothing DEF Judges, TierStates
  <2> QED
    BY <1>3, <2>1 DEF TierTimesOut, IInv, Typing, tree, judged
<1> QED
  BY <1>1, <1>2, <1>3 DEF TierEnds

\* Steps of the Compose project and of git that a run does not see.
Bystander == StackUp \/ OrphanEnds \/ CheckoutCatalogue

\* They touch neither the tree nor anything the run holds.
LEMMA BystandersPass ==
  ASSUME IInv, Bystander
  PROVE  /\ UNCHANGED <<disk, backup, catches, baseline, pc, selected, todo,
                        original, results, observed, ended>>
         /\ inTier' => TierDue /\ NextTier = E2E
         /\ stack' \in {"down", "up"}
BY DEF Bystander, StackUp, OrphanEnds, CheckoutCatalogue, IInv, Typing, Steps,
       tree, judged, run, compose

-----------------------------------------------------------------------------
\* The first red or first silent tier names the verdict.
LEMMA VerdictIsTyped ==
  ASSUME NEW res \in Seq(TierStates), Len(res) <= Len(Tiers)
  PROVE  Verdict(res) \in Verdicts
<1> DEFINE spoken == {i \in DOMAIN res : res[i] # "green"}
           first == CHOOSE i \in spoken : \A j \in spoken : i <= j
<1>1. CASE spoken = {}
  <2>1. Verdict(res) = <<"missed">>
    BY <1>1 DEF Verdict
  <2> QED
    BY <2>1 DEF Verdicts
<1>2. CASE spoken # {}
  <2>1. spoken \in SUBSET (1..Len(res)) /\ Len(res) \in Nat
    OBVIOUS
  <2>2. \E m \in spoken : \A j \in spoken : m <= j
    BY <1>2, <2>1, FirstExists
  <2>3. first \in spoken
    BY <2>2
  <2>4. Tiers[first] \in Range(Tiers)
    BY <2>1, <2>3, TiersAreIndexed
  <2> HIDE DEF first
  <2>5. Verdict(res) = <<"caught", Tiers[first]>> \/ Verdict(res) = <<"inconclusive", Tiers[first]>>
    BY <1>2 DEF Verdict, first
  <2> QED
    BY <2>4, <2>5 DEF Verdicts
<1> QED
  BY <1>1, <1>2

\* A verdict on every tier that is not "inconclusive" is the tests' own.
LEMMA VerdictIsTrueOf ==
  ASSUME NEW res \in Seq(TierStates), Len(res) = Len(Tiers), NEW d,
         \A i \in DOMAIN res : /\ res[i] = "green" => Tiers[i] \notin catches[d]
                               /\ res[i] = "red" => Tiers[i] \in catches[d],
         Verdict(res)[1] # "inconclusive"
  PROVE  Verdict(res) = TrueVerdict(d)
<1> DEFINE spoken == {i \in DOMAIN res : res[i] # "green"}
           first == CHOOSE i \in spoken : \A j \in spoken : i <= j
           ts == {i \in DOMAIN Tiers : Tiers[i] \in catches[d]}
           least == CHOOSE i \in ts : \A j \in ts : i <= j
<1>0. DOMAIN res = DOMAIN Tiers /\ DOMAIN res = 1..Len(res) /\ Len(res) \in Nat
  BY TiersAreIndexed
<1>1. CASE spoken = {}
  <2>1. ts = {}
    BY <1>0, <1>1
  <2> QED
    BY <1>1, <2>1 DEF Verdict, TrueVerdict
<1>2. CASE spoken # {}
  <2>1. spoken \in SUBSET (1..Len(res))
    BY <1>0
  <2>2. \E m \in spoken : \A j \in spoken : m <= j
    BY <1>0, <1>2, <2>1, FirstExists
  <2>3. first \in spoken /\ \A j \in spoken : first <= j
    BY <2>2
  <2>4. Verdict(res) =
          <<IF res[first] = "red" THEN "caught" ELSE "inconclusive", Tiers[first]>>
    BY <1>2 DEF Verdict
  <2> HIDE DEF first
  <2>5. res[first] = "red"
    BY <2>4
  <2>6. first \in ts
    BY <1>0, <2>3, <2>5
  <2>7. ts \subseteq spoken
    BY <1>0
  <2>8. first \in ts /\ \A j \in ts : first <= j
    BY <2>3, <2>6, <2>7
  <2>9. \A k \in ts : (\A j \in ts : k <= j) => k = first
    <3>1. ts \subseteq Nat
      BY <1>0
    <3> HIDE DEF ts
    <3> QED
      BY <2>8, <3>1
  <2>10. least \in ts /\ \A j \in ts : least <= j
    BY <2>8
  <2>11. least = first
    BY <2>9, <2>10
  <2>12. TrueVerdict(d) = <<"caught", Tiers[least]>>
    BY <2>6 DEF TrueVerdict
  <2> QED
    BY <2>4, <2>5, <2>11, <2>12
<1> QED
  BY <1>1, <1>2

\* What the tests do is a verdict.
LEMMA TruthIsTyped ==
  ASSUME NEW d PROVE TrueVerdict(d) \in Verdicts
<1> DEFINE ts == {i \in DOMAIN Tiers : Tiers[i] \in catches[d]}
           least == CHOOSE i \in ts : \A j \in ts : i <= j
<1>1. CASE ts = {}
  BY <1>1 DEF TrueVerdict, Verdicts
<1>2. CASE ts # {}
  <2>1. ts \in SUBSET (1..Len(Tiers)) /\ Len(Tiers) \in Nat
    BY TiersAreIndexed
  <2>2. \E m \in ts : \A j \in ts : m <= j
    BY <1>2, <2>1, FirstExists
  <2>3. least \in ts
    BY <2>2
  <2>4. Tiers[least] \in Range(Tiers)
    BY <2>3, TiersAreIndexed
  <2>5. TrueVerdict(d) = <<"caught", Tiers[least]>>
    BY <1>2 DEF TrueVerdict
  <2> HIDE DEF least
  <2> QED
    BY <2>4, <2>5 DEF Verdicts
<1> QED
  BY <1>1, <1>2

\* A verdict's rank is a number, so that "not later" is "at most".
LEMMA RankIsNat ==
  ASSUME NEW v \in Verdicts PROVE Rank(v) \in Nat
<1>1. CASE v[1] = "caught"
  <2>1. v[2] \in Range(Tiers)
    BY <1>1 DEF Verdicts
  <2>2. \E i \in DOMAIN Tiers : Tiers[i] = v[2]
    BY <2>1 DEF Range
  <2>3. (CHOOSE i \in DOMAIN Tiers : Tiers[i] = v[2]) \in DOMAIN Tiers
    BY <2>2
  <2> QED
    BY <1>1, <2>3, TiersAreIndexed DEF Rank
<1>2. CASE v[1] # "caught"
  BY <1>2, TiersAreIndexed DEF Rank
<1> QED
  BY <1>1, <1>2

-----------------------------------------------------------------------------
\* Before any run: the commit's files, no backup, a baseline that is empty or true.
LEMMA InitHolds == Init => IInv
<1> SUFFICES ASSUME Init PROVE IInv
  OBVIOUS
<1>1. Typing
  <2>1. baseline \in [Defects -> Verdicts \cup {NoVerdict}]
    BY TruthIsTyped DEF Init
  <2>2. disk \in [Files -> Contents] /\ backup \in [Files -> Contents \cup {"absent"}]
    BY DEF Init, Contents
  <2>3. results \in Seq(TierStates) /\ Len(results) <= Len(Tiers)
    BY TiersAreIndexed DEF Init
  <2> QED
    BY <2>1, <2>2, <2>3 DEF Init, Typing
<1>2. Steps /\ Tree /\ Controlled /\ Measured /\ Observed
  <2>1. DOMAIN observed = {}
    BY DEF Init
  <2>2. EndsWhereItBegan
    BY DEF Init, EndsWhereItBegan
  <2> QED
    BY <2>1, <2>2
       DEF Init, Steps, Tree, Controlled, Measured, Observed, Planting, Phases
<1> QED
  BY <1>1, <1>2 DEF IInv

\* Where nothing runs, all that is left of the invariant is the tree's promise.
LEMMA AtRest ==
  ASSUME Typing', pc' = "idle", todo' = {}, results' = <<>>, observed' = <<>>, ~inTier',
         EndsWhereItBegan'
  PROVE  IInv'
<1>1. DOMAIN observed' = {}
  OBVIOUS
<1> QED
  BY <1>1 DEF IInv, Steps, Tree, Controlled, Measured, Observed, Planting, Phases

\* A process that ends forgets what it held; what is on disk must be typed.
LEMMA ExitIsTyped ==
  ASSUME Typing, NEW how, Exit(how),
         disk' \in [Files -> Contents], backup' \in [Files -> Contents \cup {"absent"}],
         catches' = catches, baseline' \in [Defects -> Verdicts \cup {NoVerdict}],
         stack' = stack
  PROVE  Typing'
<1>1. results' \in Seq(TierStates) /\ Len(results') <= Len(Tiers)
  BY TiersAreIndexed DEF Exit
<1> QED
  BY <1>1 DEF Typing, Exit

\* What a stop tears is still a content.
LEMMA TornIsTyped ==
  ASSUME Typing, TornBy(pc) \/ UNCHANGED tree
  PROVE  disk' \in [Files -> Contents] /\ backup' \in [Files -> Contents \cup {"absent"}]
<1>1. "torn" \in Contents
  BY DEF Contents
<1>2. CASE UNCHANGED tree
  BY <1>2 DEF Typing, tree
<1>3. CASE TornBy(pc)
  <2>1. [disk EXCEPT ![Target] = "torn"] \in [Files -> Contents]
    BY <1>1 DEF Typing
  <2>2. [backup EXCEPT ![Target] = "torn"] \in [Files -> Contents \cup {"absent"}]
    BY <1>1 DEF Typing
  <2> QED
    BY <1>3, <2>1, <2>2 DEF TornBy, Typing
<1> QED
  BY <1>2, <1>3

\* A step of a bystander keeps all of it.
LEMMA BystanderKeeps == ASSUME IInv, Bystander PROVE IInv'
<1>0. /\ UNCHANGED <<disk, backup, catches, baseline, pc, selected, todo,
                     original, results, observed, ended>>
      /\ inTier' => TierDue /\ NextTier = E2E
      /\ stack' \in {"down", "up"}
  BY BystandersPass
<1>1. NextDefect' = NextDefect /\ Target' = Target
  BY <1>0, SameDefect
<1>2. Typing'
  BY <1>0 DEF IInv, Typing
<1>3. Steps'
  BY <1>0 DEF IInv, Steps, TierDue, NextTier, Planting, Phases
<1>4. Tree'
  BY <1>0, <1>1 DEF IInv, Tree, EndsWhereItBegan, Planting
<1>5. Controlled'
  BY <1>0, <1>1 DEF IInv, Controlled, Inert, Quiet, Planting
<1>6. Measured'
  BY <1>0, <1>1 DEF IInv, Measured
<1>7. Observed'
  BY <1>0, SameTruth DEF IInv, Observed
<1> QED
  BY <1>2, <1>3, <1>4, <1>5, <1>6, <1>7 DEF IInv

\* The results of a tier are its own and say what Judges says of the next one.
LEMMA AppendedResult ==
  ASSUME Typing, TierDue, NEW s \in TierStates, results' = Append(results, s)
  PROVE  /\ results' \in Seq(TierStates) /\ Len(results') <= Len(Tiers)
         /\ Len(results) + 1 \in DOMAIN Tiers
         /\ \A i \in DOMAIN results' :
              \/ i \in DOMAIN results /\ results'[i] = results[i]
              \/ i = Len(results) + 1 /\ results'[i] = s /\ Tiers[i] = NextTier
BY TiersAreIndexed DEF Typing, TierDue, NextTier

\* The end of a tier keeps all of it: in the control phase what the tier says
\* is of the code on disk, in the others of the defect that is planted.
LEMMA TierKeeps == ASSUME IInv, TierEnds PROVE IInv'
<1>0. /\ TierDue /\ inTier' = FALSE /\ stack' \in {"down", "up"}
      /\ UNCHANGED <<disk, backup, catches, baseline, pc, selected, todo,
                     original, observed, ended>>
  BY TierSpeaks
<1>s. PICK s \in TierStates : results' = Append(results, s) /\ Judges(s)
  BY TierSpeaks
<1>a. /\ results' \in Seq(TierStates) /\ Len(results') <= Len(Tiers)
      /\ \A i \in DOMAIN results' :
           \/ i \in DOMAIN results /\ results'[i] = results[i]
           \/ i = Len(results) + 1 /\ results'[i] = s /\ Tiers[i] = NextTier
  BY <1>0, <1>s, AppendedResult DEF IInv
<1>1. NextDefect' = NextDefect /\ Target' = Target /\ pc \in Phases
  BY <1>0, SameDefect DEF TierDue
<1>2. Typing'
  BY <1>0, <1>a DEF IInv, Typing
<1>3. Steps'
  BY <1>0, <1>1 DEF IInv, Steps, Planting, Phases
<1>4. Tree'
  BY <1>0, <1>1 DEF IInv, Tree, EndsWhereItBegan, Planting
<1>5. Controlled'
  <2>1. CASE pc = "control"
    <3> SUFFICES ASSUME NEW i \in DOMAIN results', NEW f \in Files, results'[i] = "green"
                 PROVE  Quiet(disk[f], i)
      BY <1>0, <2>1 DEF Controlled, Quiet, Planting
    <3>1. CASE i \in DOMAIN results /\ results'[i] = results[i]
      BY <2>1, <3>1 DEF IInv, Controlled
    <3>2. CASE results'[i] = s /\ Tiers[i] = NextTier
      BY <1>s, <3>2 DEF Judges, Quiet
    <3> QED
      BY <1>a, <3>1, <3>2
  <2>2. CASE pc # "control"
    BY <1>0, <1>1, <2>2 DEF IInv, Controlled, Inert, Quiet, Planting
  <2> QED
    BY <2>1, <2>2
<1>6. Measured'
  <2> SUFFICES ASSUME pc = "measure", NEW i \in DOMAIN results'
               PROVE  /\ results'[i] = "green" => Tiers[i] \notin catches[NextDefect]
                      /\ results'[i] = "red" => Tiers[i] \in catches[NextDefect]
    BY <1>0, <1>1 DEF Measured, Phases
  <2>1. Target \in Files /\ NextDefect \in Defects /\ disk[Target] = NextDefect
    BY DueIsSelected DEF IInv, Steps, Tree, Planting
  <2>2. CASE i \in DOMAIN results /\ results'[i] = results[i]
    BY <2>2 DEF IInv, Measured
  <2>3. CASE i = Len(results) + 1 /\ results'[i] = s /\ Tiers[i] = NextTier
    <3>1. ASSUME s = "green" PROVE Tiers[i] \notin catches[NextDefect]
      BY <1>s, <2>1, <2>3, <3>1 DEF Judges
    <3>2. ASSUME s = "red" PROVE Tiers[i] \in catches[NextDefect]
      <4>1. PICK f \in Files : disk[f] \in Defects /\ NextTier \in catches[disk[f]]
        BY <1>s, <3>2 DEF Judges
      <4>2. i \in DOMAIN Tiers
        BY <1>0, <1>s, <2>3, AppendedResult DEF IInv
      <4>3. CASE f # Target
        BY <2>3, <4>1, <4>2, <4>3 DEF IInv, Controlled, Inert, Quiet, Planting
      <4>4. CASE f = Target
        BY <2>1, <2>3, <4>1, <4>4
      <4> QED
        BY <4>3, <4>4
    <3> QED
      BY <2>3, <3>1, <3>2
  <2> QED
    BY <1>a, <2>2, <2>3
<1>7. Observed'
  BY <1>0, SameTruth DEF IInv, Observed
<1> QED
  BY <1>2, <1>3, <1>4, <1>5, <1>6, <1>7 DEF IInv

-----------------------------------------------------------------------------
\* A run begins on the commit's text or not at all: what was left comes back
\* first, and only then are the files looked at.
LEMMA StartKeeps ==
  ASSUME IInv, NEW ids \in (SUBSET Defects) \ {{}}, NEW rec \in BOOLEAN, Start(ids, rec)
  PROVE  IInv'
<1> DEFINE fs == FilesOf(ids)
<1>0. /\ pc = "idle" /\ results' = <<>> /\ observed' = <<>> /\ ~inTier' /\ selected' = ids
      /\ UNCHANGED <<catches, baseline, original, results, observed, inTier, stack>>
  BY DEF Start, IInv, Steps, judged, compose, TierDue, Phases
<1>1. Typing'
  <2>1. disk' \in [Files -> Contents]
    <3>1. \A f \in Files : Restored(fs)[f] \in Contents
      BY DEF Restored, IInv, Typing
    <3> QED
      BY <3>1 DEF Start, Restored
  <2>2. backup' \in [Files -> Contents \cup {"absent"}]
    BY DEF Start, IInv, Typing
  <2>3. todo' \in SUBSET selected' /\ pc' \in {"idle", "control"}
    BY <1>0 DEF Start, IInv, Typing, Steps
  <2> QED
    BY <1>0, <2>1, <2>2, <2>3 DEF IInv, Typing, Phases
<1>2. CASE Unfit(fs)
  <2>1. pc' = "idle" /\ ended' = "refused" /\ todo' = {}
    BY <1>0, <1>2 DEF Start, IInv, Steps
  <2>2. EndsWhereItBegan'
    BY <2>1 DEF EndsWhereItBegan
  <2> QED
    BY <1>0, <1>1, <2>1, <2>2, AtRest DEF IInv
<1>3. CASE ~Unfit(fs)
  <2>1. pc' = "control" /\ ended' = "running" /\ todo' # {}
    <3>1. pc' = "control" /\ ended' = "running" /\ todo' = ids
      BY <1>3 DEF Start
    <3> QED
      BY <3>1
  <2>2. \A f \in fs : f \in Files /\ disk'[f] = "head" /\ backup'[f] = "absent"
    BY <1>3 DEF Start, Unfit, Dirty, FilesOf, Files
  <2>3. Steps'
    BY <1>0, <2>1 DEF Steps, Planting
  <2>4. Tree'
    BY <1>0, <2>1, <2>2 DEF Tree, EndsWhereItBegan, Planting
  <2>5. Controlled'
    BY <1>0, <2>1 DEF Controlled, Planting
  <2>6. Measured' /\ Observed'
    BY <1>0, <2>1 DEF Measured, Observed
  <2> QED
    BY <1>1, <2>3, <2>4, <2>5, <2>6 DEF IInv
<1> QED
  BY <1>2, <1>3

\* After a control the run goes on only if every tier was green, and then nothing
\* on disk is seen by any tier; otherwise it ends as it began.
LEMMA ControlKeeps == ASSUME IInv, ControlDone PROVE IInv'
<1>0. /\ pc = "control" /\ Len(results) = Len(Tiers) /\ ~inTier
      /\ UNCHANGED <<disk, backup, catches, baseline, inTier, stack>>
  BY DEF ControlDone, IInv, Steps, TierDue, tree, judged, compose
<1>1. \A f \in FilesOf(selected) : f \in Files /\ disk[f] = "head" /\ backup[f] = "absent"
  BY <1>0 DEF IInv, Typing, Tree, FilesOf, Files
<1>2. CASE \A i \in DOMAIN results : results[i] = "green"
  <2>1. /\ pc' = "backup" /\ results' = <<>>
        /\ UNCHANGED <<selected, todo, original, observed, ended>>
    BY <1>2 DEF ControlDone
  <2>2. Typing'
    BY <1>0, <2>1, TiersAreIndexed DEF IInv, Typing
  <2>3. Target' = Target /\ Target \in FilesOf(selected)
    BY <1>0, <2>1, SameDefect, DueIsSelected DEF IInv, Steps
  <2>4. Steps'
    BY <1>0, <2>1 DEF IInv, Steps, Planting, Phases
  <2>5. Tree'
    BY <1>0, <1>1, <2>1 DEF Tree, EndsWhereItBegan, Planting
  <2>6. \A i \in DOMAIN Tiers, f \in Files : Quiet(disk[f], i)
    <3>1. DOMAIN results = DOMAIN Tiers
      BY <1>0, TiersAreIndexed DEF IInv, Typing
    <3> QED
      BY <1>0, <1>2, <3>1 DEF IInv, Controlled
  <2>7. \A f \in Files : Inert(disk[f])
    BY <2>6 DEF Inert
  <2>8. Inert("head")
    BY <1>1, <2>3, <2>7
  <2>9. Controlled'
    BY <1>0, <2>1, <2>7, <2>8 DEF Controlled, Inert, Quiet, Planting
  <2>10. Measured' /\ Observed'
    BY <1>0, <2>1, SameTruth DEF IInv, Measured, Observed
  <2> QED
    BY <2>2, <2>4, <2>5, <2>9, <2>10 DEF IInv
<1>3. CASE ~\A i \in DOMAIN results : results[i] = "green"
  <2>1. Exit("exit")
    BY <1>3 DEF ControlDone
  <2>2. Typing'
    BY <1>0, <2>1, ExitIsTyped DEF IInv, Typing
  <2>3. EndsWhereItBegan'
    BY <1>0, <1>1, <2>1 DEF Exit, EndsWhereItBegan
  <2> QED
    BY <1>0, <2>1, <2>2, <2>3, AtRest DEF Exit
<1> QED
  BY <1>2, <1>3

\* The text that is backed up is the commit's.
LEMMA BackupKeeps == ASSUME IInv, WriteBackup PROVE IInv'
<1>0. /\ pc = "backup" /\ pc' = "mutate" /\ original' = disk[Target] /\ ~inTier
      /\ backup' = [backup EXCEPT ![Target] = disk[Target]]
      /\ UNCHANGED <<disk, catches, baseline, selected, todo, results, observed, inTier, stack, ended>>
  BY DEF WriteBackup, judged, compose, IInv, Steps, TierDue, Phases
<1>1. /\ Target' = Target /\ NextDefect' = NextDefect
      /\ Target \in FilesOf(selected) /\ Target \in Files /\ todo # {}
  BY <1>0, SameDefect, DueIsSelected DEF IInv, Steps
<1>2. Typing'
  BY <1>0, <1>1 DEF IInv, Typing, Planting
<1>3. Steps'
  BY <1>0, <1>1 DEF IInv, Steps, Planting
<1>4. Tree'
  <2>1. \A f \in FilesOf(selected) : f \in Files /\ disk[f] = "head" /\ backup[f] = "absent"
    BY <1>0 DEF IInv, Typing, Tree, FilesOf, Files
  <2> QED
    BY <1>0, <1>1, <2>1 DEF IInv, Typing, Tree, EndsWhereItBegan, Planting
<1>5. Controlled'
  BY <1>0, <1>1 DEF IInv, Controlled, Inert, Quiet, Planting
<1>6. Measured' /\ Observed'
  BY <1>0, SameTruth DEF IInv, Measured, Observed
<1> QED
  BY <1>2, <1>3, <1>4, <1>5, <1>6 DEF IInv

\* The defect goes into its own file and no other.
LEMMA MutantKeeps == ASSUME IInv, WriteMutant PROVE IInv'
<1>0. /\ pc = "mutate" /\ pc' = "measure" /\ ~inTier /\ results = <<>> /\ ended = "running"
      /\ disk' = [disk EXCEPT ![Target] = NextDefect]
      /\ UNCHANGED <<backup, catches, baseline, selected, todo, original, results, observed,
                     inTier, stack, ended>>
  BY DEF WriteMutant, judged, run, compose, IInv, Steps, TierDue, Phases
<1>1. /\ Target' = Target /\ NextDefect' = NextDefect /\ NextDefect \in Defects
      /\ Target \in FilesOf(selected) /\ Target \in Files /\ todo # {}
  BY <1>0, SameDefect, DueIsSelected DEF IInv, Steps, Planting
<1>2. Typing'
  <2>1. NextDefect \in Contents
    BY <1>1 DEF Contents
  <2>2. disk' \in [Files -> Contents]
    BY <1>0, <2>1 DEF IInv, Typing
  <2> QED
    BY <1>0, <1>1, <2>2 DEF IInv, Typing, Phases
<1>3. Steps'
  BY <1>0, <1>1 DEF IInv, Steps, Planting
<1>4. Tree'
  <2>1. \A f \in FilesOf(selected) : f \in Files /\ disk[f] = "head" /\ (f # Target => backup[f] = "absent")
    BY <1>0 DEF IInv, Typing, Tree, FilesOf, Files
  <2> QED
    BY <1>0, <1>1, <2>1 DEF IInv, Typing, Tree, EndsWhereItBegan, Planting
<1>5. Controlled'
  BY <1>0, <1>1 DEF IInv, Typing, Controlled, Inert, Quiet, Planting
<1>6. Measured' /\ Observed'
  BY <1>0, SameTruth DEF IInv, Measured, Observed
<1> QED
  BY <1>2, <1>3, <1>4, <1>5, <1>6 DEF IInv

\* Once every tier has run, what they said stays with the defect.
LEMMA MeasureKeeps == ASSUME IInv, MeasureDone PROVE IInv'
<1>0. /\ pc = "measure" /\ pc' = "restore" /\ ~inTier /\ Len(results) = Len(Tiers) /\ ended = "running"
      /\ UNCHANGED <<disk, backup, catches, baseline, selected, todo, original, results, observed,
                     inTier, stack, ended>>
  BY DEF MeasureDone, tree, judged, run, compose, IInv, Steps, TierDue
<1>1. Target' = Target /\ NextDefect' = NextDefect /\ todo # {}
  BY <1>0, SameDefect DEF IInv, Steps, Planting
<1>2. Typing'
  BY <1>0 DEF IInv, Typing, Planting
<1>3. Steps'
  BY <1>0, <1>1 DEF IInv, Steps, Planting
<1>4. Tree'
  BY <1>0, <1>1 DEF IInv, Tree, EndsWhereItBegan, Planting
<1>5. Controlled'
  BY <1>0, <1>1 DEF IInv, Controlled, Inert, Quiet, Planting
<1>6. Measured' /\ Observed'
  BY <1>0, <1>1, SameTruth DEF IInv, Measured, Observed
<1> QED
  BY <1>2, <1>3, <1>4, <1>5, <1>6 DEF IInv

\* The file gets back the text that was read from it, which is the commit's.
LEMMA RestoreKeeps == ASSUME IInv, Restore PROVE IInv'
<1>0. /\ pc = "restore" /\ pc' = "unlink" /\ ~inTier /\ original = "head"
      /\ disk' = [disk EXCEPT ![Target] = original]
      /\ UNCHANGED <<backup, catches, baseline, selected, todo, original, results, observed,
                     inTier, stack, ended>>
  BY DEF Restore, judged, run, compose, IInv, Steps, Tree, TierDue, Planting, Phases
<1>1. /\ Target' = Target /\ NextDefect' = NextDefect
      /\ Target \in FilesOf(selected) /\ Target \in Files /\ todo # {}
  BY <1>0, SameDefect, DueIsSelected DEF IInv, Steps, Planting
<1>2. Typing'
  <2>1. "head" \in Contents
    BY DEF Contents
  <2>2. disk' \in [Files -> Contents]
    BY <1>0, <2>1 DEF IInv, Typing
  <2> QED
    BY <1>0, <2>2 DEF IInv, Typing, Planting
<1>3. Steps'
  BY <1>0, <1>1 DEF IInv, Steps, Planting
<1>4. Tree'
  <2>1. \A f \in FilesOf(selected) : f \in Files /\ (f # Target => disk[f] = "head" /\ backup[f] = "absent")
    BY <1>0 DEF IInv, Typing, Tree, FilesOf, Files
  <2> QED
    BY <1>0, <1>1, <2>1 DEF IInv, Typing, Tree, EndsWhereItBegan, Planting
<1>5. Controlled'
  BY <1>0, <1>1 DEF IInv, Typing, Controlled, Inert, Quiet, Planting
<1>6. Measured' /\ Observed'
  BY <1>0, <1>1, SameTruth DEF IInv, Measured, Observed
<1> QED
  BY <1>2, <1>3, <1>4, <1>5, <1>6 DEF IInv

\* What a defect's tiers said is kept only when all of them did; then the list
\* goes on with the tree as it was, or the interrupt ends the run.
LEMMA UnlinkKeeps == ASSUME IInv, Unlink PROVE IInv'
<1>0. /\ pc = "unlink" /\ ~inTier /\ original = "head"
      /\ backup' = [backup EXCEPT ![Target] = "absent"]
      /\ UNCHANGED <<disk, catches, baseline, inTier, stack>>
  BY DEF Unlink, judged, compose, IInv, Steps, Tree, TierDue, Planting, Phases
<1>1. NextDefect \in todo /\ NextDefect \in Defects /\ Target \in Files /\ todo # {}
  BY <1>0, DueIsSelected DEF IInv, Steps, Planting
<1>2. backup' \in [Files -> Contents \cup {"absent"}]
  BY <1>0 DEF IInv, Typing
<1>3. \A f \in FilesOf(selected) : f \in Files /\ disk'[f] = "head" /\ backup'[f] = "absent"
  BY <1>0, <1>1 DEF IInv, Typing, Tree, FilesOf, Files
<1>4. CASE ended = "interrupted"
  <2>1. Exit("interrupted")
    BY <1>4 DEF Unlink
  <2>2. Typing'
    BY <1>0, <1>2, <2>1, ExitIsTyped DEF IInv, Typing
  <2>3. EndsWhereItBegan'
    BY <1>0, <1>3, <2>1 DEF Exit, EndsWhereItBegan
  <2> QED
    BY <1>0, <2>1, <2>2, <2>3, AtRest DEF Exit
<1>5. CASE ended # "interrupted"
  <2>0. /\ observed' = [d \in DOMAIN observed \cup {NextDefect} |->
                          IF d = NextDefect THEN Verdict(results) ELSE observed[d]]
        /\ todo' = todo \ {NextDefect} /\ results' = <<>>
        /\ pc' = IF todo' = {} THEN "after" ELSE "backup"
        /\ UNCHANGED <<selected, original, ended>>
    BY <1>5 DEF Unlink
  <2>1. Len(results) = Len(Tiers) /\ ended = "running"
    BY <1>0, <1>5 DEF IInv, Steps
  <2>2. Typing'
    BY <1>0, <1>2, <2>0, TiersAreIndexed DEF IInv, Typing, Phases
  <2>3. Steps'
    BY <1>0, <2>0, <2>1 DEF Steps, Planting
  <2>4. Tree'
    BY <1>0, <1>3, <2>0 DEF Tree, EndsWhereItBegan, Planting
  <2>5. Controlled'
    BY <1>0, <2>0 DEF IInv, Controlled, Inert, Quiet, Planting
  <2>6. Observed'
    <3>1. Verdict(results) \in Verdicts
      BY VerdictIsTyped DEF IInv, Typing
    <3>2. Verdict(results)[1] # "inconclusive" => Verdict(results) = TrueVerdict(NextDefect)
      BY <1>0, <2>1, VerdictIsTrueOf DEF IInv, Typing, Measured
    <3>3. DOMAIN observed' = DOMAIN observed \cup {NextDefect}
      BY <2>0
    <3>4. \A d \in DOMAIN observed' :
            observed'[d] = IF d = NextDefect THEN Verdict(results) ELSE observed[d]
      BY <2>0
    <3>5. \A d \in DOMAIN observed' : TrueVerdict(d)' = TrueVerdict(d)
      BY <1>0, SameTruth
    <3> QED
      BY <1>1, <3>1, <3>2, <3>3, <3>4, <3>5 DEF IInv, Observed
  <2>7. Measured'
    BY <2>0 DEF Measured
  <2> QED
    BY <2>2, <2>3, <2>4, <2>5, <2>6, <2>7 DEF IInv
<1> QED
  BY <1>4, <1>5

\* What would be recorded is what this run observed, the rest as it was.
LEMMA MergedIsTyped == ASSUME IInv PROVE Merged \in [Defects -> Verdicts \cup {NoVerdict}]
BY DEF Merged, IInv, Typing, Observed

\* A report ends the run as it began.
LEMMA ReportKeeps == ASSUME IInv, Report PROVE IInv'
<1>0. /\ pc = "after" /\ ~inTier /\ Exit("exit")
      /\ UNCHANGED <<disk, backup, catches, inTier, stack>>
  BY DEF Report, tree, compose, IInv, Steps, TierDue
<1>1. baseline' \in [Defects -> Verdicts \cup {NoVerdict}]
  BY MergedIsTyped DEF Report, IInv, Typing
<1>2. Typing'
  BY <1>0, <1>1, ExitIsTyped DEF IInv, Typing
<1>3. EndsWhereItBegan'
  BY <1>0 DEF IInv, Tree, Exit, EndsWhereItBegan
<1> QED
  BY <1>0, <1>2, <1>3, AtRest DEF Exit

\* A killed run leaves what it leaves, and nothing in memory.
LEMMA KillKeeps == ASSUME IInv, Kill PROVE IInv'
<1>0. Exit("killed") /\ ~inTier' /\ UNCHANGED <<catches, baseline, stack>>
  BY DEF Kill, AbandonTier
<1>1. disk' \in [Files -> Contents] /\ backup' \in [Files -> Contents \cup {"absent"}]
  BY TornIsTyped DEF Kill, IInv
<1>2. Typing'
  BY <1>0, <1>1, ExitIsTyped DEF IInv, Typing
<1>3. EndsWhereItBegan'
  BY <1>0 DEF Exit, EndsWhereItBegan
<1> QED
  BY <1>0, <1>2, <1>3, AtRest DEF Exit

\* An interrupt goes through the finally from the write of the defect on, and
\* elsewhere counts as a kill or finds every file as the commit has it.
LEMMA InterruptKeeps == ASSUME IInv, Interrupt PROVE IInv'
<1>0. /\ pc # "idle" /\ ~inTier' /\ UNCHANGED <<catches, baseline, stack>>
      /\ TornBy(pc) \/ UNCHANGED tree
  BY DEF Interrupt, AbandonTier
<1>1. disk' \in [Files -> Contents] /\ backup' \in [Files -> Contents \cup {"absent"}]
  BY <1>0, TornIsTyped DEF IInv
<1>2. CASE HasFinally
  <2>0. /\ pc \in {"mutate", "measure"} /\ pc' = "restore" /\ ended' = "interrupted"
        /\ UNCHANGED <<selected, todo, original, results, observed>>
        /\ backup' = backup
        /\ disk' = disk \/ disk' = [disk EXCEPT ![Target] = "torn"]
    BY <1>0, <1>2 DEF Interrupt, HasFinally, run, TornBy, tree
  <2>1. /\ Target' = Target /\ NextDefect' = NextDefect
        /\ Target \in FilesOf(selected) /\ Target \in Files /\ todo # {}
    BY <2>0, SameDefect, DueIsSelected DEF IInv, Steps, Planting
  <2>2. \A f \in Files : f # Target => disk'[f] = disk[f]
    BY <2>0 DEF IInv, Typing
  <2>3. Typing'
    BY <1>0, <1>1, <2>0 DEF IInv, Typing, Planting
  <2>4. Steps'
    BY <1>0, <2>0, <2>1 DEF IInv, Steps, Planting
  <2>5. Tree'
    <3>1. \A f \in FilesOf(selected) : f \in Files /\ (f # Target => disk[f] = "head" /\ backup[f] = "absent")
      BY <2>0 DEF IInv, Typing, Tree, FilesOf, Files
    <3> QED
      BY <2>0, <2>1, <2>2, <3>1 DEF IInv, Tree, EndsWhereItBegan, Planting
  <2>6. Controlled'
    BY <1>0, <2>0, <2>1, <2>2 DEF IInv, Controlled, Inert, Quiet, Planting
  <2>7. Measured'
    BY <1>0, <2>0, <2>1 DEF IInv, Measured, Steps
  <2>8. Observed'
    BY <1>0, <2>0, SameTruth DEF IInv, Observed
  <2> QED
    BY <2>3, <2>4, <2>5, <2>6, <2>7, <2>8 DEF IInv
<1>3. CASE ~HasFinally
  <2>1. Exit(IF pc \in {"backup", "restore", "unlink"} THEN "killed" ELSE "interrupted")
    BY <1>3 DEF Interrupt
  <2>2. Typing'
    BY <1>0, <1>1, <2>1, ExitIsTyped DEF IInv, Typing
  <2>3. EndsWhereItBegan'
    <3>1. CASE pc \in {"backup", "restore", "unlink"}
      BY <2>1, <3>1 DEF Exit, EndsWhereItBegan
    <3>2. CASE pc \in {"control", "after"}
      <4>1. UNCHANGED <<disk, backup>>
        BY <1>0, <3>2 DEF TornBy, tree
      <4> QED
        BY <2>1, <3>2, <4>1 DEF IInv, Tree, Exit, EndsWhereItBegan
    <3> QED
      BY <1>0, <1>3, <3>1, <3>2 DEF HasFinally, IInv, Typing, Planting, Phases
  <2> QED
    BY <1>0, <2>1, <2>2, <2>3, AtRest DEF Exit
<1> QED
  BY <1>2, <1>3

\* Between runs the developer may do what he likes.
LEMMA TouchKeeps == ASSUME IInv, Touch PROVE IInv'
<1>0. /\ pc = "idle" /\ ended' = "touched" /\ ~inTier
      /\ UNCHANGED <<backup, baseline, pc, selected, todo, original, results, observed, inTier, stack>>
  BY DEF Touch, run, compose, IInv, Steps, TierDue, Phases
<1>1. disk' \in [Files -> Contents] /\ catches' \in [Defects -> SUBSET Range(Tiers)]
  BY DEF Touch, IInv, Typing, Contents
<1>2. Typing'
  BY <1>0, <1>1 DEF IInv, Typing
<1>3. EndsWhereItBegan'
  BY <1>0 DEF EndsWhereItBegan
<1> QED
  BY <1>0, <1>2, <1>3, AtRest DEF IInv, Steps

\* Every step keeps the invariant.
LEMMA NextKeeps == ASSUME IInv, [Next]_vars PROVE IInv'
<1>1. CASE Next
  BY <1>1, StartKeeps, BystanderKeeps, TierKeeps, ControlKeeps, BackupKeeps, MutantKeeps,
     MeasureKeeps, RestoreKeeps, UnlinkKeeps, ReportKeeps, KillKeeps, InterruptKeeps, TouchKeeps
     DEF Next, Bystander, TierEnds
<1>2. CASE UNCHANGED vars
  <2>0. UNCHANGED <<disk, backup, catches, baseline, pc, selected, todo, original, results,
                    observed, inTier, stack, ended>>
    BY <1>2 DEF vars, tree, judged, run, compose
  <2>1. Target' = Target /\ NextDefect' = NextDefect
    BY <2>0, SameDefect
  <2>2. Typing' /\ Steps'
    BY <2>0 DEF IInv, Typing, Steps, TierDue, NextTier
  <2>3. Tree' /\ Measured'
    BY <2>0, <2>1 DEF IInv, Tree, EndsWhereItBegan, Measured
  <2>4. Controlled' /\ Observed'
    BY <2>0, <2>1, SameTruth DEF IInv, Controlled, Inert, Quiet, Observed
  <2> QED
    BY <2>2, <2>3, <2>4 DEF IInv
<1> QED
  BY <1>1, <1>2

\* The invariant of the runner.
LEMMA IInvHolds == Spec => []IInv
<1>1. IInv /\ [Next]_vars => IInv'
  BY NextKeeps
<1> QED
  BY InitHolds, <1>1, PTL DEF Spec

-----------------------------------------------------------------------------
(* Whatever earlier runs left behind, a run of the whole catalogue measures   *)
(* the commit's code with exactly one defect in it.                           *)
THEOREM OneDefect == Spec => []MeasuresOneDefect
<1>1. IInv => MeasuresOneDefect
  <2> SUFFICES ASSUME IInv, pc \in Phases, selected = Defects, NEW f \in Files
               PROVE  disk[f] = IF pc = "measure" /\ f = Target THEN NextDefect ELSE "head"
    BY DEF MeasuresOneDefect
  <2>1. f \in FilesOf(selected) /\ pc # "idle"
    BY DEF Files, FilesOf, Phases
  <2> QED
    BY <2>1 DEF IInv, Tree, Phases
<1> QED
  BY IInvHolds, <1>1, PTL

(* A run that ends by itself, or by an interrupt that it noticed, leaves every *)
(* file it was asked to change as the commit has it and no backup of it.       *)
THEOREM TreeRestored == Spec => []EndsWhereItBegan
<1>1. IInv => EndsWhereItBegan
  BY DEF IInv, Tree
<1> QED
  BY IInvHolds, <1>1, PTL

\* Only a report writes the baseline, and only what it may record.
LEMMA BaselineMoves ==
  ASSUME [Next]_vars, baseline' # baseline PROVE MayRecord /\ baseline' = Merged
<1>1. \A ids, rec : ~Start(ids, rec)
  BY DEF Start, judged
<1>2. ~TierEnds /\ ~Bystander
  BY DEF TierEnds, RunLocalSuites, RunFunctionalStep, TierTimesOut,
         Bystander, StackUp, OrphanEnds, CheckoutCatalogue, judged
<1>3. ~ControlDone /\ ~WriteBackup /\ ~WriteMutant /\ ~MeasureDone /\ ~Restore /\ ~Unlink
  BY DEF ControlDone, WriteBackup, WriteMutant, MeasureDone, Restore, Unlink, judged
<1>4. ~Kill /\ ~Interrupt /\ ~Touch /\ ~UNCHANGED vars
  BY DEF Kill, Interrupt, Touch, vars, judged
<1>5. Report
  BY <1>1, <1>2, <1>3, <1>4 DEF Next, TierEnds, Bystander
<1> QED
  BY <1>5 DEF Report

(* A verdict enters the baseline only if the tests really give it: no broken   *)
(* or abandoned tier, no leftover defect, no torn file is written down as a    *)
(* catch or a miss.                                                            *)
THEOREM TruthRecorded == Spec => RecordsTheTruth
<1>1. ASSUME IInv, [Next]_vars
      PROVE  \A d \in Defects : baseline'[d] # baseline[d] => baseline'[d] = TrueVerdict(d)
  <2> SUFFICES ASSUME NEW d \in Defects, baseline'[d] # baseline[d]
               PROVE  baseline'[d] = TrueVerdict(d)
    OBVIOUS
  <2>1. MayRecord /\ baseline' = Merged
    BY <1>1, BaselineMoves
  <2>2. d \in DOMAIN observed /\ baseline'[d] = observed[d]
    BY <2>1 DEF Merged
  <2>3. observed[d][1] # "inconclusive"
    BY <2>1, <2>2 DEF MayRecord, Inconclusive
  <2> QED
    BY <1>1, <2>2, <2>3 DEF IInv, Observed
<1> QED
  BY IInvHolds, <1>1, PTL DEF Spec, RecordsTheTruth

(* What the baseline says was caught by a tier is never recorded as caught by  *)
(* a later one, or missed.                                                     *)
THEOREM CatchesKept == Spec => NeverForgetsACatch
<1>1. ASSUME IInv, [Next]_vars
      PROVE  \A d \in Defects : baseline[d] # NoVerdict => Rank(baseline'[d]) <= Rank(baseline[d])
  <2> SUFFICES ASSUME NEW d \in Defects, baseline[d] # NoVerdict
               PROVE  Rank(baseline'[d]) <= Rank(baseline[d])
    OBVIOUS
  <2>1. baseline[d] \in Verdicts /\ Rank(baseline[d]) \in Nat
    BY <1>1, RankIsNat DEF IInv, Typing
  <2>2. CASE baseline'[d] = baseline[d]
    BY <2>1, <2>2
  <2>3. CASE baseline'[d] # baseline[d]
    <3>1. MayRecord /\ baseline' = Merged
      BY <1>1, <2>3, BaselineMoves
    <3>2. d \in DOMAIN observed /\ baseline'[d] = observed[d]
      BY <2>3, <3>1 DEF Merged
    <3>3. observed[d] \in Verdicts /\ Rank(observed[d]) \in Nat
      BY <1>1, <3>2, RankIsNat DEF IInv, Observed
    <3>4. ~(Rank(observed[d]) > Rank(baseline[d]))
      BY <3>1, <3>2 DEF MayRecord, Inconclusive, Regressions
    <3> QED
      BY <2>1, <3>2, <3>3, <3>4
  <2> QED
    BY <2>2, <2>3
<1> QED
  BY IInvHolds, <1>1, PTL DEF Spec, NeverForgetsACatch

-----------------------------------------------------------------------------
(***************************************************************************)
(* The extraction.                                                         *)
(***************************************************************************)

\* How many of the lines are the reference vertical's.
Verticals(lines) == Len(Only(lines, Vertical))

\* Somewhere in what is left of the plan there is such an operation.
Due(kind, path) == \E op \in Range(remaining) : op.kind = kind /\ op.path = path

\* What a plan is made of.
Operations == [kind : {"copy", "drop", "delete", "sweep", "follow"}, path : STRING \cup {None}]
              \cup [kind : {"write"}, path : Shared, lines : Seq(STRING)]

Places ==
  /\ sample \in [Range(SampleFiles) -> {"shipped", "edited", "gone"}]
  /\ text \in [Shared -> Seq(STRING)]
  /\ scaffold \subseteq Range(SampleFiles) /\ tools \subseteq Tools /\ notes \subseteq ToolDirs \X BOOLEAN
  /\ remaining \in Seq(Operations) /\ kills \in Nat

\* A project removes lines of the vertical and writes none of them again.
NoMoreThanShipped == \A f \in Shared : Verticals(text[f]) <= Verticals(Shipped[f])

\* What a run will still write is the file it saw without the vertical's lines, with
\* all of the project's own, and with no sample named at its old place; and it saw no
\* edited file of the vertical.
PlanFits ==
  /\ remaining # <<>> => \A s \in Range(SampleFiles) : sample[s] # "edited"
  /\ \A op \in Range(remaining) :
       /\ op.kind = "copy" => op.path \in Range(SampleFiles)
       /\ op.kind = "write" => /\ Kept(op.lines) = Kept(text[op.path])
                               /\ Verticals(op.lines) = 0 /\ ~Has(op.lines, OldPaths)

\* Everything a whole extraction has to do is done or still to come.
DoneOrDue ==
  /\ \A s \in Range(SampleFiles) : s \in scaffold \/ Due("copy", s)
  /\ drop \/ Due("drop", None)
  /\ \A f \in Shared : Verticals(text[f]) = 0 \/ Due("write", f)
  /\ \A s \in Range(SampleFiles) : sample[s] = "gone" \/ Due("delete", s)

\* Everything a run sweeps is swept or still to come.
SweptOrDue ==
  /\ \A f \in Shared : ~Has(text[f], OldPaths) \/ Due("write", f)
  /\ \A t \in tools : Due("delete", t)
  /\ \A n \in notes : Due("sweep", n[1])

\* Until a run is killed: no plan has been begun, or nothing of it is forgotten.
WholePlan ==
  kills = 0 => /\ (remaining = <<>> /\ Untouched) \/ DoneOrDue
               /\ said = "taken out" => DoneOrDue

\* While a run is at work, and when it has come to its end.
Sweeping == remaining # <<>> \/ Finished => SweptOrDue

ExtractionInv == Places /\ NoMoreThanShipped /\ PlanFits /\ WholePlan /\ Sweeping

\* Counting up to n, as a set of numbers.
LEMMA CountUp ==
  ASSUME NEW n \in Nat, NEW S, 0 \in S, \A k \in 0..n : k \in S /\ k < n => k + 1 \in S
  PROVE  n \in S
<1> SUFFICES ASSUME n \notin S PROVE FALSE
  OBVIOUS
<1> DEFINE Out == {k \in 1..n : k \notin S}
<1>1. Out \in SUBSET (1..n) /\ Out # {}
  OBVIOUS
<1>2. PICK m \in Out : \A j \in Out : m <= j
  <2> HIDE DEF Out
  <2> QED
    BY <1>1, FirstExists
<1>3. m - 1 \in 0..n /\ m - 1 < n /\ m - 1 \notin Out
  BY <1>2
<1>4. m - 1 \in S
  BY <1>2, <1>3
<1> QED
  BY <1>2, <1>3, <1>4

\* What is picked out of a sequence, place by place.
Picks(seq, set, r) ==
  r = [n \in 0..Len(seq) |->
         IF n = 0 THEN <<>> ELSE IF seq[n] \in set THEN Append(r[n - 1], seq[n]) ELSE r[n - 1]]

\* A function of that form up to k goes on to k + 1.
LEMMA PicksExist ==
  ASSUME NEW S, NEW seq \in Seq(S), NEW set
  PROVE  \E r : Picks(seq, set, r)
<1> DEFINE step(f, n) == IF n = 0 THEN <<>> ELSE IF seq[n] \in set THEN Append(f[n - 1], seq[n]) ELSE f[n - 1]
           Done == {k \in 0..Len(seq) : \E r : r = [n \in 0..k |-> step(r, n)]}
<1>1. Len(seq) \in Nat
  OBVIOUS
<1>2. 0 \in Done
  <2>1. [n \in 0..0 |-> <<>>] = [n \in 0..0 |-> step([m \in 0..0 |-> <<>>], n)]
    OBVIOUS
  <2>2. 0 \in 0..Len(seq)
    BY <1>1
  <2> HIDE DEF step
  <2> QED
    BY <2>1, <2>2
<1>3. ASSUME NEW k \in 0..Len(seq), k \in Done, k < Len(seq) PROVE k + 1 \in Done
  <2>1. PICK r : r = [n \in 0..k |-> step(r, n)]
    BY <1>3
  <2> DEFINE q == [n \in 0..(k + 1) |-> IF n <= k THEN r[n] ELSE step(r, n)]
  <2>2. ASSUME NEW n \in 0..(k + 1) PROVE q[n] = step(q, n)
    <3>1. CASE n = 0
      <4>1. q[n] = r[n] /\ n \in 0..k
        BY <1>3, <3>1
      <4>2. r[n] = step(r, n)
        BY <2>1, <4>1
      <4> QED
        BY <3>1, <4>1, <4>2
    <3>2. CASE n # 0
      <4>1. n - 1 \in 0..k /\ q[n - 1] = r[n - 1]
        BY <1>3, <3>2
      <4>2. step(q, n) = step(r, n)
        BY <3>2, <4>1
      <4>3. q[n] = step(r, n)
        <5>1. CASE n <= k
          <6>1. n \in 0..k /\ q[n] = r[n]
            BY <1>3, <5>1
          <6> QED
            BY <2>1, <6>1
        <5>2. CASE ~(n <= k)
          BY <1>3, <5>2
        <5> QED
          BY <5>1, <5>2
      <4> QED
        BY <4>2, <4>3
    <3> QED
      BY <3>1, <3>2
  <2>3. q = [n \in 0..(k + 1) |-> q[n]]
    OBVIOUS
  <2> HIDE DEF q
  <2>4. q = [n \in 0..(k + 1) |-> step(q, n)]
    BY <2>2, <2>3
  <2>5. k + 1 \in 0..Len(seq)
    BY <1>1, <1>3
  <2> QED
    BY <2>4, <2>5
<1>4. Len(seq) \in Done
  <2> HIDE DEF Done
  <2> QED
    BY <1>1, <1>2, <1>3, CountUp
<1> QED
  BY <1>4 DEF Picks

\* What is picked out of a sequence grows with it, by the places that are in the set.
LEMMA OnlySteps ==
  ASSUME NEW S, NEW seq \in Seq(S), NEW set
  PROVE  \E r : /\ Only(seq, set) = r[Len(seq)] /\ r[0] = <<>>
                /\ \A n \in 1..Len(seq) :
                     r[n] = IF seq[n] \in set THEN Append(r[n - 1], seq[n]) ELSE r[n - 1]
                /\ \A n \in 0..Len(seq) : r[n] \in Seq(S)
<1> DEFINE r == CHOOSE x : Picks(seq, set, x)
           Good == {k \in 0..Len(seq) : r[k] \in Seq(S)}
<1>1. Len(seq) \in Nat /\ \A n \in 1..Len(seq) : seq[n] \in S
  OBVIOUS
<1>2. Picks(seq, set, r)
  BY PicksExist
<1>3. Only(seq, set) = r[Len(seq)]
  BY DEF Only, Picks
<1> HIDE DEF r
<1>4. \A n \in 0..Len(seq) :
        r[n] = IF n = 0 THEN <<>> ELSE IF seq[n] \in set THEN Append(r[n - 1], seq[n]) ELSE r[n - 1]
  BY <1>2 DEF Picks
<1>5. r[0] = <<>>
  BY <1>1, <1>4
<1>6. ASSUME NEW n \in 1..Len(seq)
      PROVE  r[n] = IF seq[n] \in set THEN Append(r[n - 1], seq[n]) ELSE r[n - 1]
  <2>1. n \in 0..Len(seq) /\ n # 0
    OBVIOUS
  <2> QED
    BY <1>4, <2>1
<1>7. 0 \in Good
  <2>1. r[0] \in Seq(S)
    BY <1>5
  <2> QED
    BY <1>1, <2>1
<1>8. ASSUME NEW k \in 0..Len(seq), r[k] \in Seq(S), k < Len(seq) PROVE k + 1 \in 0..Len(seq) /\ r[k + 1] \in Seq(S)
  <2>1. k + 1 \in 1..Len(seq) /\ (k + 1) - 1 = k /\ k + 1 \in 0..Len(seq)
    BY <1>1, <1>8
  <2>2. r[k + 1] = IF seq[k + 1] \in set THEN Append(r[k], seq[k + 1]) ELSE r[k]
    BY <1>6, <2>1
  <2>3. seq[k + 1] \in S
    BY <1>1, <2>1
  <2> QED
    BY <1>8, <2>1, <2>2, <2>3
<1>9. \A n \in 0..Len(seq) : r[n] \in Seq(S)
  <2> SUFFICES ASSUME NEW m \in 0..Len(seq) PROVE m \in Good
    OBVIOUS
  <2>1. m \in Nat /\ \A k \in 0..m : k \in 0..Len(seq) /\ (k < m => k < Len(seq))
    BY <1>1
  <2>2. \A k \in 0..m : k \in Good /\ k < m => k + 1 \in Good
    BY <1>8, <2>1
  <2> HIDE DEF Good
  <2> QED
    BY <1>7, <2>1, <2>2, CountUp
<1> QED
  BY <1>3, <1>5, <1>6, <1>9

\* It is a sequence of the same things.
LEMMA OnlyType ==
  ASSUME NEW S, NEW seq \in Seq(S), NEW set
  PROVE  Only(seq, set) \in Seq(S)
<1>1. Len(seq) \in 0..Len(seq)
  OBVIOUS
<1> QED
  BY <1>1, OnlySteps

\* Out of nothing nothing, out of one element that element or nothing.
LEMMA OnlyNone == ASSUME NEW set PROVE Only(<<>>, set) = <<>>
<1> DEFINE s == <<>>
<1>1. s \in Seq({})
  OBVIOUS
<1>3. Len(s) = 0
  OBVIOUS
<1> HIDE DEF s
<1>2. PICK r : /\ Only(s, set) = r[Len(s)] /\ r[0] = <<>>
               /\ \A n \in 1..Len(s) : r[n] = IF s[n] \in set THEN Append(r[n - 1], s[n]) ELSE r[n - 1]
               /\ \A n \in 0..Len(s) : r[n] \in Seq({})
  BY <1>1, OnlySteps
<1> QED
  BY <1>3, <1>2 DEF s

\* Of one line: it, or nothing.
LEMMA OnlyOne ==
  ASSUME NEW e, NEW set
  PROVE  Only(<<e>>, set) = IF e \in set THEN <<e>> ELSE <<>>
<1> DEFINE s == <<e>>
<1>1. s \in Seq({e}) /\ Len(s) = 1 /\ s[1] = e /\ 1 \in 1..1 /\ 1 - 1 = 0
  OBVIOUS
<1> HIDE DEF s
<1>2. PICK r : /\ Only(s, set) = r[Len(s)] /\ r[0] = <<>>
               /\ \A n \in 1..Len(s) : r[n] = IF s[n] \in set THEN Append(r[n - 1], s[n]) ELSE r[n - 1]
               /\ \A n \in 0..Len(s) : r[n] \in Seq({e})
  BY <1>1, OnlySteps, SMTT(30)
<1>3. r[1] = IF e \in set THEN Append(<<>>, e) ELSE <<>>
  BY <1>1, <1>2
<1>4. Only(s, set) = IF e \in set THEN <<e>> ELSE <<>>
  BY <1>1, <1>2, <1>3
<1> QED
  BY <1>4 DEF s

\* What is picked out of two sequences one after the other is what is picked out of
\* each, one after the other.
LEMMA OnlyConcat ==
  ASSUME NEW S, NEW s \in Seq(S), NEW t \in Seq(S), NEW set
  PROVE  Only(s \o t, set) = Only(s, set) \o Only(t, set)
<1> DEFINE st == s \o t
           m == Len(s)
           l == Len(t)
<1>1. /\ st \in Seq(S) /\ m \in Nat /\ l \in Nat /\ Len(st) = m + l
      /\ \A n \in 1..m : st[n] = s[n] /\ n \in 1..(m + l)
      /\ \A n \in 1..l : st[m + n] = t[n] /\ m + n \in 1..(m + l)
  <2>1. ASSUME NEW n \in 1..l PROVE st[m + n] = t[n] /\ m + n \in 1..(m + l)
    <3>1. m \in Nat /\ l \in Nat /\ m + n \in 1..(m + l) /\ ~(m + n <= m) /\ (m + n) - m = n
      OBVIOUS
    <3> QED
      BY <3>1, ConcatProperties
  <2> QED
    BY <2>1, ConcatProperties
<1>0. st \in Seq(S)
  BY <1>1
<1> HIDE DEF st
<1>2. PICK a : /\ Only(s, set) = a[m] /\ a[0] = <<>>
               /\ \A n \in 1..m : a[n] = IF s[n] \in set THEN Append(a[n - 1], s[n]) ELSE a[n - 1]
               /\ \A n \in 0..m : a[n] \in Seq(S)
  BY OnlySteps
<1>3. PICK b : /\ Only(t, set) = b[l] /\ b[0] = <<>>
               /\ \A n \in 1..l : b[n] = IF t[n] \in set THEN Append(b[n - 1], t[n]) ELSE b[n - 1]
               /\ \A n \in 0..l : b[n] \in Seq(S)
  BY OnlySteps
<1>4. PICK c : /\ Only(st, set) = c[Len(st)] /\ c[0] = <<>>
               /\ \A n \in 1..Len(st) : c[n] = IF st[n] \in set THEN Append(c[n - 1], st[n]) ELSE c[n - 1]
               /\ \A n \in 0..Len(st) : c[n] \in Seq(S)
  BY <1>0, OnlySteps
<1> DEFINE Fore == {k \in 0..m : c[k] = a[k]}
           Aft == {k \in 0..l : c[m + k] = a[m] \o b[k]}
<1>5. m \in Fore
  <2>1. 0 \in Fore
    BY <1>1, <1>2, <1>4
  <2>2. ASSUME NEW k \in 0..m, c[k] = a[k], k < m PROVE k + 1 \in 0..m /\ c[k + 1] = a[k + 1]
    <3>1. k + 1 \in 1..m /\ (k + 1) - 1 = k /\ k + 1 \in 0..m /\ k + 1 \in 1..Len(st)
      BY <1>1, <2>2
    <3>2. c[k + 1] = IF s[k + 1] \in set THEN Append(c[k], s[k + 1]) ELSE c[k]
      BY <1>1, <1>4, <3>1
    <3>3. a[k + 1] = IF s[k + 1] \in set THEN Append(a[k], s[k + 1]) ELSE a[k]
      BY <1>2, <3>1
    <3> QED
      BY <2>2, <3>1, <3>2, <3>3
  <2>3. \A k \in 0..m : k \in Fore /\ k < m => k + 1 \in Fore
    BY <2>2
  <2> HIDE DEF Fore
  <2> QED
    BY <1>1, <2>1, <2>3, CountUp
<1>6. l \in Aft
  <2>1. a[m] \in Seq(S)
    BY <1>1, <1>2
  <2>2. 0 \in Aft
    <3>1. c[m + 0] = a[m] /\ 0 \in 0..l
      BY <1>1, <1>5
    <3>2. a[m] \o b[0] = a[m]
      BY <1>3, <2>1, ConcatEmptySeq
    <3> QED
      BY <3>1, <3>2
  <2>3. ASSUME NEW k \in 0..l, c[m + k] = a[m] \o b[k], k < l
        PROVE  k + 1 \in 0..l /\ c[m + (k + 1)] = a[m] \o b[k + 1]
    <3>1. k + 1 \in 1..l /\ (k + 1) - 1 = k /\ k + 1 \in 0..l /\ m + (k + 1) \in 1..Len(st) /\ (m + (k + 1)) - 1 = m + k
      BY <1>1, <2>3
    <3>2. st[m + (k + 1)] = t[k + 1]
      BY <1>1, <3>1
    <3>3. c[m + (k + 1)] = IF t[k + 1] \in set THEN Append(c[m + k], t[k + 1]) ELSE c[m + k]
      BY <1>4, <3>1, <3>2
    <3>4. b[k + 1] = IF t[k + 1] \in set THEN Append(b[k], t[k + 1]) ELSE b[k]
      BY <1>3, <3>1
    <3>5. b[k] \in Seq(S) /\ t[k + 1] \in S
      BY <1>3, <3>1
    <3>6. Append(a[m] \o b[k], t[k + 1]) = a[m] \o Append(b[k], t[k + 1])
      <4> DEFINE e == t[k + 1]
                 u == a[m]
                 v == b[k]
      <4>0. u \in Seq(S) /\ v \in Seq(S) /\ e \in S
        BY <2>1, <3>5
      <4> HIDE DEF e, u, v
      <4>1. <<e>> \in Seq(S) /\ u \o v \in Seq(S)
        BY <4>0
      <4>2. Append(u \o v, e) = (u \o v) \o <<e>> /\ Append(v, e) = v \o <<e>>
        BY <4>0, <4>1, AppendIsConcat
      <4>3. (u \o v) \o <<e>> = u \o (v \o <<e>>)
        BY <4>0, <4>1, ConcatAssociative, SMTT(30)
      <4> QED
        BY <4>2, <4>3 DEF e, u, v
    <3> QED
      BY <2>3, <3>1, <3>3, <3>4, <3>6
  <2>4. \A k \in 0..l : k \in Aft /\ k < l => k + 1 \in Aft
    BY <2>3
  <2> HIDE DEF Aft
  <2> QED
    BY <1>1, <2>2, <2>4, CountUp
<1> QED
  BY <1>1, <1>2, <1>3, <1>4, <1>6 DEF st

\* How many there are in three sequences in a row.
LEMMA OnlyLen ==
  ASSUME NEW S, NEW s \in Seq(S), NEW t \in Seq(S), NEW u \in Seq(S), NEW set
  PROVE  /\ Len(Only(s \o t \o u, set)) = Len(Only(s, set)) + Len(Only(t, set)) + Len(Only(u, set))
         /\ Len(Only(s, set)) \in Nat /\ Len(Only(t, set)) \in Nat /\ Len(Only(u, set)) \in Nat
<1> DEFINE a == Only(s, set)
           b == Only(t, set)
           c == Only(u, set)
<1>1. a \in Seq(S) /\ b \in Seq(S) /\ c \in Seq(S)
  BY OnlyType
<1>2. Only(s \o t \o u, set) = a \o b \o c
  <2> DEFINE st == s \o t
  <2>1. Only(st, set) = a \o b
    BY OnlyConcat
  <2>2. st \in Seq(S)
    OBVIOUS
  <2> HIDE DEF st
  <2>3. Only(st \o u, set) = Only(st, set) \o Only(u, set)
    BY <2>2, OnlyConcat, SMTT(30)
  <2> QED
    BY <2>1, <2>3 DEF st
<1> HIDE DEF a, b, c
<1>3. a \o b \in Seq(S) /\ Len(a \o b) = Len(a) + Len(b)
  BY <1>1, ConcatProperties
<1> DEFINE ab == a \o b
<1>4. Len(ab \o c) = Len(ab) + Len(c)
  <2>1. ab \in Seq(S)
    BY <1>3
  <2> HIDE DEF ab
  <2> QED
    BY <1>1, <2>1, ConcatProperties
<1>5. Len(Only(s \o t \o u, set)) = Len(a) + Len(b) + Len(c)
  BY <1>2, <1>3, <1>4
<1>6. Len(a) \in Nat /\ Len(b) \in Nat /\ Len(c) \in Nat
  BY <1>1
<1> QED
  BY <1>5, <1>6 DEF a, b, c

\* A sequence taken apart at one place.
LEMMA SplitAt ==
  ASSUME NEW S, NEW s \in Seq(S), NEW i \in 1..Len(s)
  PROVE  /\ SubSeq(s, 1, i - 1) \in Seq(S) /\ <<s[i]>> \in Seq(S) /\ SubSeq(s, i + 1, Len(s)) \in Seq(S)
         /\ s = SubSeq(s, 1, i - 1) \o <<s[i]>> \o SubSeq(s, i + 1, Len(s))
<1> DEFINE a == SubSeq(s, 1, i - 1)
           b == SubSeq(s, i + 1, Len(s))
           l == Len(s)
<1>1. l \in Nat /\ i \in Nat /\ s[i] \in S /\ i >= 1 /\ i <= l
  OBVIOUS
<1>2. a \in Seq(S) /\ b \in Seq(S)
  OBVIOUS
<1>4. SubSeq(s, 1, i) = SubSeq(s, 1, i - 1) \o <<s[i]>>
  <2>1. 1 \in 1..l /\ i \in 1..l
    BY <1>1
  <2> QED
    BY <2>1, SubSeqRecursiveSecond
<1>5. SubSeq(s, 1, i) \o SubSeq(s, i + 1, l) = SubSeq(s, 1, l)
  <2>1. 1 \in 1..l + 1 /\ i \in 1 - 1..l /\ l \in i..l
    BY <1>1
  <2> QED
    BY <2>1, ConcatAdjacentSubSeq
<1>6. SubSeq(s, 1, l) = s
  BY SubSeqFull
<1>7. <<s[i]>> \in Seq(S)
  BY <1>1
<1>8. s = a \o <<s[i]>> \o b
  BY <1>4, <1>5, <1>6
<1> QED
  BY <1>2, <1>7, <1>8

\* What is in a sequence and in the set is picked out of it.
LEMMA OnlyHas ==
  ASSUME NEW S, NEW s \in Seq(S), NEW i \in 1..Len(s), NEW set, s[i] \in set
  PROVE  s[i] \in Range(Only(s, set)) /\ Len(Only(s, set)) > 0
<1> DEFINE x == s[i]
           a == SubSeq(s, 1, i - 1)
           b == SubSeq(s, i + 1, Len(s))
           oa == Only(a, set)
           ob == Only(b, set)
<1>1. <<x>> \in Seq(S) /\ a \in Seq(S) /\ b \in Seq(S) /\ s = a \o <<x>> \o b
  BY SplitAt
<1>0. <<x>> \in Seq(S) /\ a \in Seq(S) /\ b \in Seq(S)
  BY <1>1
<1>2. oa \in Seq(S) /\ ob \in Seq(S)
  <2> HIDE DEF a, b
  <2> QED
    BY <1>1, OnlyType
<1>3. Only(<<x>>, set) = <<x>>
  <2>1. x \in set
    OBVIOUS
  <2> HIDE DEF x
  <2> QED
    BY <2>1, OnlyOne
<1>4. Only(s, set) = oa \o <<x>> \o ob
  <2> DEFINE ax == a \o <<x>>
  <2> HIDE DEF a, b, x
  <2>1. Only(ax, set) = oa \o <<x>>
    <3> DEFINE y == <<x>>
    <3>0. y \in Seq(S)
      BY <1>0
    <3> HIDE DEF y
    <3>1. Only(a \o y, set) = Only(a, set) \o Only(y, set)
      BY <1>0, <3>0, OnlyConcat, SMTT(30)
    <3> QED
      BY <1>3, <3>1 DEF y
  <2>2. ax \in Seq(S)
    BY <1>1
  <2> HIDE DEF ax
  <2>3. Only(ax \o b, set) = Only(ax, set) \o Only(b, set)
    BY <1>0, <2>2, OnlyConcat, SMTT(30)
  <2> QED
    BY <1>1, <2>1, <2>3 DEF ax
<1> HIDE DEF oa, ob, x
<1>5. Len(oa) + 1 \in 1..Len(oa \o <<x>> \o ob) /\ (oa \o <<x>> \o ob)[Len(oa) + 1] = x
  BY <1>1, <1>2
<1>6. Only(s, set) \in Seq(S)
  BY OnlyType
<1>7. DOMAIN Only(s, set) = 1..Len(Only(s, set)) /\ Len(Only(s, set)) \in Nat /\ Len(oa) \in Nat
  BY <1>2, <1>6
<1>8. x \in Range(Only(s, set))
  BY <1>4, <1>5, <1>7 DEF Range
<1>9. Len(Only(s, set)) > 0
  BY <1>4, <1>5, <1>7
<1> QED
  BY <1>8, <1>9 DEF x

\* Nothing is picked out of a sequence that has nothing of the set.
LEMMA OnlyOthers ==
  ASSUME NEW S, NEW s \in Seq(S), NEW set
  PROVE  (\A i \in 1..Len(s) : s[i] \notin set) => Only(s, set) = <<>>
<1>1. PICK r : /\ Only(s, set) = r[Len(s)] /\ r[0] = <<>>
               /\ \A n \in 1..Len(s) : r[n] = IF s[n] \in set THEN Append(r[n - 1], s[n]) ELSE r[n - 1]
               /\ \A n \in 0..Len(s) : r[n] \in Seq(S)
  BY OnlySteps
<1> HAVE \A i \in 1..Len(s) : s[i] \notin set
<1> DEFINE Empty == {k \in 0..Len(s) : r[k] = <<>>}
<1>2. Len(s) \in Nat
  OBVIOUS
<1>3. 0 \in Empty
  BY <1>1, <1>2
<1>4. ASSUME NEW k \in 0..Len(s), r[k] = <<>>, k < Len(s) PROVE k + 1 \in 0..Len(s) /\ r[k + 1] = <<>>
  <2>1. k + 1 \in 1..Len(s) /\ (k + 1) - 1 = k /\ k + 1 \in 0..Len(s)
    BY <1>2, <1>4
  <2> QED
    BY <1>1, <1>4, <2>1
<1>5. \A k \in 0..Len(s) : k \in Empty /\ k < Len(s) => k + 1 \in Empty
  BY <1>4
<1>6. Len(s) \in Empty
  <2> HIDE DEF Empty
  <2> QED
    BY <1>2, <1>3, <1>5, CountUp
<1> QED
  BY <1>1, <1>6

-----------------------------------------------------------------------------
\* What a cut is, and what the files and the spans taken are after some cuts.
CutType == [file : Shared, first : STRING, last : STRING \cup {None}, put : Seq(STRING)]
Progress == [fits : BOOLEAN, texts : [Shared -> Seq(STRING)], taken : Seq(Seq(STRING))]

\* A cut that fits takes the middle of three parts of a file and leaves the others.
LEMMA CutSplits ==
  ASSUME NEW lines \in Seq(STRING), NEW cut \in CutType, ApplyCut(lines, cut).fits
  PROVE  LET one == ApplyCut(lines, cut)
         IN  /\ one.taken \in Seq(STRING) /\ one.left \in Seq(STRING)
             /\ \E a, b \in Seq(STRING) : /\ lines = a \o one.taken \o b
                                          /\ one.left = a \o cut.put \o b
<1> DEFINE starts == Starts(lines, cut)
           start == CHOOSE i \in starts : TRUE
           ends == Ends(lines, cut, start)
           end == CHOOSE i \in ends : \A j \in ends : i <= j
           l == Len(lines)
           a == SubSeq(lines, 1, start - 1)
           t == SubSeq(lines, start, end)
           b == SubSeq(lines, end + 1, l)
<1>0. l \in Nat /\ DOMAIN lines = 1..l /\ cut.put \in Seq(STRING)
  BY DEF CutType
<1>1. Cardinality(starts) = 1 /\ ends # {}
  BY DEF ApplyCut
<1>2. ApplyCut(lines, cut) = [fits |-> TRUE, taken |-> t, left |-> a \o cut.put \o b]
  BY <1>1 DEF ApplyCut
<1>3. start \in 1..l
  <2>1. starts # {}
    <3>1. Cardinality({}) = 0
      BY FS_EmptySet
    <3>2. starts = {} => Cardinality(starts) = 0
      BY <3>1
    <3>3. Cardinality(starts) = 1
      BY <1>1
    <3> HIDE DEF starts
    <3> QED
      BY <3>2, <3>3
  <2>2. starts \subseteq 1..l
    BY <1>0 DEF Starts
  <2> HIDE DEF starts
  <2> QED
    BY <2>1, <2>2
<1> HIDE DEF start
<1>4. ends \in SUBSET (1..l) /\ \A i \in ends : i >= start
  <2>1. CASE cut.last = None
    BY <1>0, <1>3, <2>1 DEF Ends
  <2>2. CASE cut.last # None
    BY <1>0, <2>2 DEF Ends
  <2> QED
    BY <2>1, <2>2
<1> HIDE DEF ends
<1>5. end \in ends
  <2>1. \E m \in ends : \A j \in ends : m <= j
    BY <1>0, <1>1, <1>4, FirstExists
  <2> QED
    BY <2>1
<1> HIDE DEF end
<1>6. end \in 1..l /\ end >= start
  BY <1>4, <1>5
<1>7. a \in Seq(STRING) /\ t \in Seq(STRING) /\ b \in Seq(STRING)
  <2>1. \A i \in 1..l : lines[i] \in STRING
    BY <1>0
  <2>2. \A i \in 1..(start - 1) : lines[i] \in STRING
    BY <1>0, <1>3, <2>1
  <2>3. \A i \in start..end : lines[i] \in STRING
    BY <1>0, <1>3, <1>6, <2>1
  <2>4. \A i \in (end + 1)..l : lines[i] \in STRING
    BY <1>0, <1>6, <2>1
  <2>5. 1 \in Int /\ start - 1 \in Int /\ start \in Int /\ end \in Int /\ end + 1 \in Int /\ l \in Int
    BY <1>0, <1>3, <1>6
  <2> QED
    BY <2>2, <2>3, <2>4, <2>5, SubSeqProperties
<1>8. lines = a \o t \o b
  <2>1. SubSeq(lines, 1, start - 1) \o SubSeq(lines, start, end) = SubSeq(lines, 1, end)
    <3>1. 1 \in 1..l + 1 /\ start - 1 \in 1 - 1..l /\ end \in start - 1..l /\ (start - 1) + 1 = start
      BY <1>0, <1>3, <1>6
    <3> QED
      BY <3>1, ConcatAdjacentSubSeq
  <2>2. SubSeq(lines, 1, end) \o SubSeq(lines, end + 1, l) = SubSeq(lines, 1, l)
    <3>1. 1 \in 1..l + 1 /\ end \in 1 - 1..l /\ l \in end..l
      BY <1>0, <1>6
    <3> QED
      BY <3>1, ConcatAdjacentSubSeq
  <2>3. SubSeq(lines, 1, l) = lines
    BY SubSeqFull
  <2> QED
    BY <2>1, <2>2, <2>3
<1> HIDE DEF a, t, b
<1>9. a \o cut.put \o b \in Seq(STRING)
  BY <1>0, <1>7
<1> DEFINE one == ApplyCut(lines, cut)
<1>10. one.taken = t /\ one.left = a \o cut.put \o b
  BY <1>2
<1> HIDE DEF one
<1> QED
  BY <1>7, <1>8, <1>9, <1>10 DEF one

\* One cut more: a refusal stays one, and a cut that fits changes one file.
LEMMA CutStep ==
  ASSUME NEW so \in Progress, NEW cut \in CutType
  PROVE  LET next == MakeCut(so, cut)
         IN  /\ next \in Progress
             /\ next.fits =>
                  /\ so.fits
                  /\ \E a, b, t \in Seq(STRING) :
                       /\ so.texts[cut.file] = a \o t \o b
                       /\ next.texts = [so.texts EXCEPT ![cut.file] = a \o cut.put \o b]
                       /\ next.taken = Append(so.taken, t)
<1> DEFINE lines == so.texts[cut.file]
           one == ApplyCut(lines, cut)
           next == MakeCut(so, cut)
<1>1. lines \in Seq(STRING) /\ cut.file \in Shared /\ so.taken \in Seq(Seq(STRING))
  BY DEF Progress, CutType
<1>2. CASE ~so.fits
  BY <1>2 DEF MakeCut
<1>3. CASE so.fits /\ ~one.fits
  <2>1. next = [so EXCEPT !.fits = FALSE]
    BY <1>3 DEF MakeCut
  <2> QED
    BY <2>1 DEF Progress
<1>4. CASE so.fits /\ one.fits
  <2>1. next = [fits |-> TRUE, texts |-> [so.texts EXCEPT ![cut.file] = one.left],
                taken |-> Append(so.taken, one.taken)]
    BY <1>4 DEF MakeCut
  <2>2. /\ one.taken \in Seq(STRING) /\ one.left \in Seq(STRING)
        /\ \E a, b \in Seq(STRING) : lines = a \o one.taken \o b /\ one.left = a \o cut.put \o b
    <3>1. lines \in Seq(STRING) /\ one.fits
      BY <1>1, <1>4
    <3> HIDE DEF lines
    <3> QED
      BY <3>1, CutSplits
  <2> HIDE DEF one
  <2>3. next \in Progress
    BY <1>1, <2>1, <2>2 DEF Progress
  <2> HIDE DEF lines
  <2>4. \E a, b, t \in Seq(STRING) :
          /\ lines = a \o t \o b
          /\ next.texts = [so.texts EXCEPT ![cut.file] = a \o cut.put \o b]
          /\ next.taken = Append(so.taken, t)
    <3>1. PICK a, b \in Seq(STRING) : lines = a \o one.taken \o b /\ one.left = a \o cut.put \o b
      BY <2>2
    <3>2. /\ next.texts = [so.texts EXCEPT ![cut.file] = a \o cut.put \o b]
          /\ next.taken = Append(so.taken, one.taken)
      BY <2>1, <3>1
    <3> HIDE DEF next
    <3> QED
      BY <2>2, <3>1, <3>2
  <2> QED
    BY <1>4, <2>3, <2>4 DEF lines
<1> QED
  BY <1>2, <1>3, <1>4

\* What is left and taken cut by cut.
Cutting(texts, r) ==
  r = [n \in 0..Len(Cuts) |->
         IF n = 0 THEN [fits |-> TRUE, texts |-> texts, taken |-> <<>>] ELSE MakeCut(r[n - 1], Cuts[n])]

\* There is one such function, whatever the cuts are.
LEMMA CuttingExists ==
  ASSUME NEW texts
  PROVE  \E r : Cutting(texts, r)
<1> DEFINE step(f, n) == IF n = 0 THEN [fits |-> TRUE, texts |-> texts, taken |-> <<>>] ELSE MakeCut(f[n - 1], Cuts[n])
           Done == {k \in 0..Len(Cuts) : \E r : r = [n \in 0..k |-> step(r, n)]}
<1>1. Len(Cuts) \in Nat
  BY ExtractionAssumption DEF ExtractionAssumption
<1>2. 0 \in Done
  <2> DEFINE none == [n \in 0..0 |-> [fits |-> TRUE, texts |-> texts, taken |-> <<>>]]
  <2>1. none = [n \in 0..0 |-> step(none, n)]
    OBVIOUS
  <2>2. 0 \in 0..Len(Cuts)
    BY <1>1
  <2> HIDE DEF step, none
  <2> QED
    BY <2>1, <2>2
<1>3. ASSUME NEW k \in 0..Len(Cuts), k \in Done, k < Len(Cuts) PROVE k + 1 \in Done
  <2>1. PICK r : r = [n \in 0..k |-> step(r, n)]
    BY <1>3
  <2> DEFINE q == [n \in 0..(k + 1) |-> IF n <= k THEN r[n] ELSE step(r, n)]
  <2>2. ASSUME NEW n \in 0..(k + 1) PROVE q[n] = step(q, n)
    <3>1. CASE n = 0
      <4>1. q[n] = r[n] /\ n \in 0..k
        BY <1>3, <3>1
      <4>2. r[n] = step(r, n)
        BY <2>1, <4>1
      <4> QED
        BY <3>1, <4>1, <4>2
    <3>2. CASE n # 0
      <4>1. n - 1 \in 0..k /\ q[n - 1] = r[n - 1]
        BY <1>3, <3>2
      <4>2. step(q, n) = step(r, n)
        BY <3>2, <4>1
      <4>3. CASE n <= k
        <5>1. n \in 0..k /\ q[n] = r[n]
          BY <1>3, <4>3
        <5> QED
          BY <2>1, <4>2, <5>1
      <4>4. CASE ~(n <= k)
        BY <1>3, <4>2, <4>4
      <4> QED
        BY <4>3, <4>4
    <3> QED
      BY <3>1, <3>2
  <2>3. q = [n \in 0..(k + 1) |-> q[n]]
    OBVIOUS
  <2> HIDE DEF q
  <2>4. q = [n \in 0..(k + 1) |-> step(q, n)]
    BY <2>2, <2>3
  <2>5. k + 1 \in 0..Len(Cuts)
    BY <1>1, <1>3
  <2> QED
    BY <2>4, <2>5
<1>4. Len(Cuts) \in Done
  <2> HIDE DEF Done
  <2> QED
    BY <1>1, <1>2, <1>3, CountUp
<1> QED
  BY <1>4 DEF Cutting

\* Cuts are made one after the other; the spans taken only grow, and a refusal stays.
LEMMA AfterSteps ==
  ASSUME NEW texts \in [Shared -> Seq(STRING)]
  PROVE  \E r : /\ AfterCuts(texts) = r[Len(Cuts)]
                /\ r[0] = [fits |-> TRUE, texts |-> texts, taken |-> <<>>]
                /\ \A n \in 0..Len(Cuts) : r[n] \in Progress /\ (r[n].fits => Len(r[n].taken) = n)
                /\ \A n \in 1..Len(Cuts) : r[n] = MakeCut(r[n - 1], Cuts[n])
<1> DEFINE r == CHOOSE x : Cutting(texts, x)
           N == Len(Cuts)
           Good == {k \in 0..N : r[k] \in Progress /\ (r[k].fits => Len(r[k].taken) = k)}
<1>1. N \in Nat /\ \A n \in 1..N : Cuts[n] \in CutType
  <2>1. Cuts \in Seq(CutType)
    BY ExtractionAssumption DEF ExtractionAssumption, CutType
  <2> QED
    BY <2>1
<1>2. Cutting(texts, r)
  BY CuttingExists
<1>3. AfterCuts(texts) = r[N]
  BY DEF AfterCuts, Cutting
<1> HIDE DEF r, N
<1>4. \A n \in 0..N : r[n] = IF n = 0 THEN [fits |-> TRUE, texts |-> texts, taken |-> <<>>] ELSE MakeCut(r[n - 1], Cuts[n])
  BY <1>2 DEF Cutting, N
<1>5. r[0] = [fits |-> TRUE, texts |-> texts, taken |-> <<>>]
  <2>1. 0 \in 0..N
    BY <1>1
  <2> HIDE DEF N
  <2> QED
    BY <1>4, <2>1
<1>6. ASSUME NEW n \in 1..N PROVE r[n] = MakeCut(r[n - 1], Cuts[n])
  <2>1. n \in 0..N /\ n # 0
    BY <1>1
  <2> QED
    BY <1>4, <2>1
<1>7. 0 \in Good
  <2>1. <<>> \in Seq(Seq(STRING)) /\ Len(<<>>) = 0
    OBVIOUS
  <2>2. r[0] \in Progress
    BY <1>5, <2>1 DEF Progress
  <2>3. r[0].taken = <<>>
    BY <1>5
  <2>4. Len(r[0].taken) = 0
    BY <2>3
  <2> QED
    BY <1>1, <2>2, <2>4
<1>8. ASSUME NEW k \in 0..N, k \in Good, k < N PROVE k + 1 \in Good
  <2> DEFINE so == r[k]
             next == r[k + 1]
             cut == Cuts[k + 1]
  <2>1. so \in Progress /\ (so.fits => Len(so.taken) = k)
    BY <1>8
  <2>2. k + 1 \in 1..N /\ (k + 1) - 1 = k /\ k + 1 \in 0..N
    BY <1>1, <1>8
  <2>3. next = MakeCut(so, cut) /\ cut \in CutType
    BY <1>1, <1>6, <2>2
  <2> HIDE DEF so, next, cut
  <2>4. next \in Progress /\ (next.fits => so.fits /\ \E t \in Seq(STRING) : next.taken = Append(so.taken, t))
    BY <2>1, <2>3, CutStep
  <2>5. so.taken \in Seq(Seq(STRING))
    BY <2>1 DEF Progress
  <2>6. next.fits => Len(next.taken) = k + 1
    BY <2>1, <2>4, <2>5
  <2> QED
    BY <2>2, <2>4, <2>6 DEF next
<1>9. \A n \in 0..N : n \in Good
  <2> SUFFICES ASSUME NEW m \in 0..N PROVE m \in Good
    OBVIOUS
  <2>1. m \in Nat /\ \A k \in 0..m : k \in 0..N /\ (k < m => k < N)
    BY <1>1
  <2>2. \A k \in 0..m : k \in Good /\ k < m => k + 1 \in Good
    BY <1>8, <2>1
  <2> HIDE DEF Good
  <2> QED
    BY <1>7, <2>1, <2>2, CountUp
<1> QED
  BY <1>3, <1>5, <1>6, <1>9 DEF N

\* What comes out of all the cuts.
LEMMA AfterCutsType ==
  ASSUME NEW texts \in [Shared -> Seq(STRING)]
  PROVE  /\ AfterCuts(texts) \in Progress
         /\ AfterCuts(texts).fits => Len(AfterCuts(texts).taken) = Len(Cuts)
<1>1. PICK r : /\ AfterCuts(texts) = r[Len(Cuts)]
               /\ r[0] = [fits |-> TRUE, texts |-> texts, taken |-> <<>>]
               /\ \A n \in 0..Len(Cuts) : r[n] \in Progress /\ (r[n].fits => Len(r[n].taken) = n)
               /\ \A n \in 1..Len(Cuts) : r[n] = MakeCut(r[n - 1], Cuts[n])
  BY AfterSteps
<1>2. Len(Cuts) \in 0..Len(Cuts)
  BY ExtractionAssumption DEF ExtractionAssumption
<1> QED
  BY <1>1, <1>2

\* The template's cuts fit it: each takes a span of its own, and these lines and those
\* put in their place are not the project's.
LEMMA DigestsAre ==
  /\ CutDigests \in Seq(Seq(STRING)) /\ Len(CutDigests) = Len(Cuts)
  /\ \A n \in 1..Len(Cuts) : Range(CutDigests[n]) \subseteq Theirs /\ Range(Cuts[n].put) \subseteq Theirs
<1>1. Shipped \in [Shared -> Seq(STRING)] /\ AfterCuts(Shipped).fits
  BY ExtractionAssumption, ShippedAssumption DEF ExtractionAssumption, ShippedAssumption
<1>2. CutDigests \in Seq(Seq(STRING)) /\ Len(CutDigests) = Len(Cuts)
  BY <1>1, AfterCutsType DEF CutDigests, Progress
<1>3. ASSUME NEW n \in 1..Len(Cuts)
      PROVE  Range(CutDigests[n]) \subseteq Theirs /\ Range(Cuts[n].put) \subseteq Theirs
  <2>1. CutDigests[n] \in Range(CutDigests)
    BY <1>2 DEF Range
  <2>2. Cuts[n] \in Range(Cuts)
    BY ExtractionAssumption DEF ExtractionAssumption, Range
  <2>3. Range(CutDigests[n]) \subseteq Theirs
    BY <2>1 DEF Theirs
  <2>4. Cuts[n].put \in {c.put : c \in Range(Cuts)}
    BY <2>2
  <2>5. Range(Cuts[n].put) \subseteq Theirs
    BY <2>4 DEF Theirs
  <2> QED
    BY <2>3, <2>5
<1> QED
  BY <1>2, <1>3

\* A line that names a sample at its old place becomes one that names its copy, and is
\* no line of the vertical; every other line stays.
LEMMA PointIs ==
  ASSUME NEW line \in STRING
  PROVE  /\ Point(line) \in STRING \ OldPaths
         /\ line \notin OldPaths => Point(line) = line
         /\ line \notin Vertical => Point(line) \notin Vertical
BY ExtractionAssumption DEF ExtractionAssumption, Point

\* Line by line.
LEMMA PointAllIs ==
  ASSUME NEW lines \in Seq(STRING)
  PROVE  /\ PointAll(lines) \in Seq(STRING \ OldPaths) /\ PointAll(lines) \in Seq(STRING)
         /\ Len(PointAll(lines)) = Len(lines)
         /\ \A i \in 1..Len(lines) : PointAll(lines)[i] = Point(lines[i])
<1>1. DOMAIN lines = 1..Len(lines) /\ Len(lines) \in Nat /\ \A i \in 1..Len(lines) : lines[i] \in STRING
  OBVIOUS
<1>2. \A i \in 1..Len(lines) : Point(lines[i]) \in STRING \ OldPaths
  BY <1>1, PointIs
<1>3. PointAll(lines) = [i \in 1..Len(lines) |-> Point(lines[i])]
  BY <1>1 DEF PointAll
<1>4. PointAll(lines) \in [1..Len(lines) -> STRING \ OldPaths] /\ PointAll(lines) \in [1..Len(lines) -> STRING]
  BY <1>2, <1>3
<1>5. PointAll(lines) \in Seq(STRING \ OldPaths) /\ PointAll(lines) \in Seq(STRING)
  BY <1>1, <1>4, SeqDef
<1>6. Len(PointAll(lines)) = Len(lines)
  BY <1>1, <1>3
<1> QED
  BY <1>3, <1>5, <1>6

\* Where no sample is named at its old place nothing changes.
LEMMA PointAllOnce ==
  ASSUME NEW lines \in Seq(STRING), ~Has(lines, OldPaths)
  PROVE  PointAll(lines) = lines
<1>1. DOMAIN lines = 1..Len(lines) /\ \A i \in 1..Len(lines) : lines[i] \in STRING /\ lines[i] \notin OldPaths
  BY DEF Has
<1>2. \A i \in 1..Len(lines) : Point(lines[i]) = lines[i]
  BY <1>1, PointIs
<1>3. lines = [i \in 1..Len(lines) |-> lines[i]]
  OBVIOUS
<1> QED
  BY <1>1, <1>2, <1>3 DEF PointAll

\* One part after the other.
LEMMA PointAllConcat ==
  ASSUME NEW a \in Seq(STRING), NEW b \in Seq(STRING)
  PROVE  PointAll(a \o b) = PointAll(a) \o PointAll(b)
<1> DEFINE pa == PointAll(a)
           pb == PointAll(b)
           ab == a \o b
           pab == PointAll(ab)
<1>1. /\ pa \in Seq(STRING) /\ Len(pa) = Len(a) /\ \A i \in 1..Len(a) : pa[i] = Point(a[i])
      /\ pb \in Seq(STRING) /\ Len(pb) = Len(b) /\ \A i \in 1..Len(b) : pb[i] = Point(b[i])
  BY PointAllIs
<1>2. ab \in Seq(STRING) /\ Len(ab) = Len(a) + Len(b) /\ Len(a) \in Nat /\ Len(b) \in Nat
      /\ \A i \in 1..Len(ab) : ab[i] = IF i <= Len(a) THEN a[i] ELSE b[i - Len(a)]
  BY ConcatProperties
<1> HIDE DEF ab
<1>3. pab \in Seq(STRING) /\ Len(pab) = Len(ab) /\ \A i \in 1..Len(ab) : pab[i] = Point(ab[i])
  BY <1>2, PointAllIs
<1> HIDE DEF pa, pb, pab
<1>4. pa \o pb \in Seq(STRING) /\ Len(pa \o pb) = Len(pa) + Len(pb)
      /\ \A i \in 1..(Len(pa) + Len(pb)) : (pa \o pb)[i] = IF i <= Len(pa) THEN pa[i] ELSE pb[i - Len(pa)]
  <2>1. pa \in Seq(STRING) /\ pb \in Seq(STRING)
    BY <1>1
  <2> QED
    BY <2>1, ConcatProperties
<1>5. ASSUME NEW i \in 1..Len(ab) PROVE pab[i] = (pa \o pb)[i]
  <2>1. i \in 1..(Len(pa) + Len(pb)) /\ pab[i] = Point(ab[i])
    BY <1>1, <1>2, <1>3, <1>4
  <2>2. CASE i <= Len(a)
    <3>1. i \in 1..Len(a)
      BY <1>2, <2>2
    <3>2. ab[i] = a[i] /\ (pa \o pb)[i] = pa[i]
      BY <1>1, <1>2, <1>4, <2>1, <2>2
    <3> QED
      BY <1>1, <2>1, <3>1, <3>2
  <2>3. CASE ~(i <= Len(a))
    <3>1. i - Len(a) \in 1..Len(b)
      BY <1>2, <2>3
    <3>2. ab[i] = b[i - Len(a)] /\ (pa \o pb)[i] = pb[i - Len(a)]
      BY <1>1, <1>2, <1>4, <2>1, <2>3
    <3> QED
      BY <1>1, <2>1, <3>1, <3>2
  <2> QED
    BY <2>2, <2>3
<1>6. Len(pab) = Len(pa \o pb)
  BY <1>1, <1>2, <1>3, <1>4
<1>7. pab = pa \o pb
  <2> DEFINE w == pa \o pb
  <2>1. w \in Seq(STRING) /\ Len(pab) = Len(w) /\ \A i \in 1..Len(pab) : pab[i] = w[i]
    BY <1>3, <1>4, <1>5, <1>6
  <2> HIDE DEF w
  <2>2. pab = w
    BY <1>3, <2>1, SeqEqual
  <2> QED
    BY <2>2 DEF w
<1> QED
  BY <1>7 DEF pa, pb, pab, ab

\* The lines of the project's own: their places brought up to date.
Projects == STRING \ {Point(line) : line \in Theirs}

\* What is kept of two parts is kept of each.
LEMMA KeptConcat ==
  ASSUME NEW a \in Seq(STRING), NEW b \in Seq(STRING)
  PROVE  Kept(a) \in Seq(STRING) /\ Kept(a \o b) = Kept(a) \o Kept(b)
<1> DEFINE pa == PointAll(a)
           pb == PointAll(b)
<1>1. pa \in Seq(STRING) /\ pb \in Seq(STRING) /\ PointAll(a \o b) = pa \o pb
  BY PointAllIs, PointAllConcat
<1> HIDE DEF pa, pb
<1>2. Only(pa \o pb, Projects) = Only(pa, Projects) \o Only(pb, Projects)
  BY <1>1, OnlyConcat, SMTT(30)
<1>3. Only(pa, Projects) \in Seq(STRING)
  BY <1>1, OnlyType
<1> QED
  BY <1>1, <1>2, <1>3 DEF Kept, Projects, pa, pb

\* Nothing is kept of the template's lines.
LEMMA TheirsAreNotKept ==
  ASSUME NEW s \in Seq(STRING), Range(s) \subseteq Theirs
  PROVE  Kept(s) = <<>>
<1> DEFINE p == PointAll(s)
<1>1. p \in Seq(STRING) /\ Len(p) = Len(s) /\ \A i \in 1..Len(s) : p[i] = Point(s[i])
  BY PointAllIs
<1>2. \A i \in 1..Len(s) : s[i] \in Theirs
  BY DEF Range
<1> HIDE DEF p
<1>3. \A i \in 1..Len(p) : p[i] \notin Projects
  BY <1>1, <1>2 DEF Projects
<1>4. Only(p, Projects) = <<>>
  BY <1>1, <1>3, OnlyOthers
<1> QED
  BY <1>4 DEF Kept, Projects, p

\* Leaving out lines of which nothing is kept makes no difference.
LEMMA KeptFiltered ==
  ASSUME NEW lines \in Seq(STRING), NEW set
  PROVE  (\A line \in STRING \ set : line \in Theirs) => Kept(Only(lines, set)) = Kept(lines)
<1> HAVE \A line \in STRING \ set : line \in Theirs
<1>1. PICK r : /\ Only(lines, set) = r[Len(lines)] /\ r[0] = <<>>
               /\ \A n \in 1..Len(lines) : r[n] = IF lines[n] \in set THEN Append(r[n - 1], lines[n]) ELSE r[n - 1]
               /\ \A n \in 0..Len(lines) : r[n] \in Seq(STRING)
  BY OnlySteps
<1> DEFINE l == Len(lines)
           Good == {k \in 0..l : Kept(r[k]) = Kept(SubSeq(lines, 1, k))}
<1>2. l \in Nat /\ DOMAIN lines = 1..l /\ \A i \in 1..l : lines[i] \in STRING
  OBVIOUS
<1>3. 0 \in Good
  <2>1. SubSeq(lines, 1, 0) = r[0]
    BY <1>1, SubSeqEmpty
  <2>2. Kept(r[0]) = Kept(SubSeq(lines, 1, 0))
    BY <2>1, Zenon
  <2> QED
    BY <1>2, <2>2
<1>4. ASSUME NEW k \in 0..l, Kept(r[k]) = Kept(SubSeq(lines, 1, k)), k < l
      PROVE  k + 1 \in 0..l /\ Kept(r[k + 1]) = Kept(SubSeq(lines, 1, k + 1))
  <2> DEFINE m == k + 1
             e == lines[m]
             a == SubSeq(lines, 1, k)
             x == r[k]
  <2>1. m \in 1..l /\ m - 1 = k /\ m \in 0..l /\ 1 \in 1..l
    BY <1>2, <1>4
  <2>2. e \in STRING
    BY <1>2, <2>1
  <2>3. SubSeq(lines, 1, m) = a \o <<e>>
    BY <2>1, SubSeqRecursiveSecond
  <2>4. a \in Seq(STRING)
    BY <1>2, <1>4
  <2>5. x \in Seq(STRING) /\ r[m] = IF e \in set THEN Append(x, e) ELSE x
    BY <1>1, <2>1
  <2> HIDE DEF e, a, x
  <2> DEFINE y == <<e>>
  <2>6. y \in Seq(STRING) /\ Append(x, e) = x \o y
    <3>1. \A S : \A z \in S : <<z>> \in Seq(S)
      OBVIOUS
    <3> QED
      BY <2>2, <2>5, <3>1, AppendIsConcat
  <2>7. e \notin set => Range(y) \subseteq Theirs
    <3>1. Range(y) = {e}
      BY DEF Range
    <3> QED
      BY <2>2, <3>1
  <2> HIDE DEF y
  <2>8. Kept(x) = Kept(a)
    BY <1>4 DEF x, a
  <2>9. Kept(a \o y) = Kept(a) \o Kept(y) /\ Kept(x \o y) = Kept(x) \o Kept(y) /\ Kept(a) \in Seq(STRING)
    BY <2>4, <2>5, <2>6, KeptConcat
  <2>10. Kept(r[m]) = Kept(a \o y)
    <3>1. CASE e \in set
      BY <2>5, <2>6, <2>8, <2>9, <3>1
    <3>2. CASE e \notin set
      <4>1. Kept(y) = <<>>
        BY <2>6, <2>7, <3>2, TheirsAreNotKept
      <4>2. Kept(a) \o <<>> = Kept(a)
        BY <2>9, ConcatEmptySeq
      <4> QED
        BY <2>5, <2>8, <2>9, <3>2, <4>1, <4>2
    <3> QED
      BY <3>1, <3>2
  <2> QED
    BY <2>1, <2>3, <2>10 DEF y, a, e
<1>5. \A k \in 0..l : k \in Good /\ k < l => k + 1 \in Good
  BY <1>4
<1>6. l \in Good
  <2> HIDE DEF Good
  <2> QED
    BY <1>2, <1>3, <1>5, CountUp
<1>7. SubSeq(lines, 1, l) = lines
  BY SubSeqFull
<1> QED
  BY <1>1, <1>6, <1>7

\* Without its blank lines at the end a text has the same lines of the vertical, and
\* nothing else is left out.
LEMMA TrimmedIs ==
  ASSUME NEW lines \in Seq(STRING)
  PROVE  /\ Verticals(lines) = Verticals(Trimmed(lines))
         /\ Range(lines) \subseteq Range(Trimmed(lines)) \cup {Blank}
         /\ Range(Trimmed(lines)) \subseteq Range(lines)
<1> DEFINE l == Len(lines)
           ends == {n \in 0..l : \A i \in (n + 1)..l : lines[i] = Blank}
           end == CHOOSE n \in ends : \A m \in ends : n <= m
           a == SubSeq(lines, 1, end)
           b == SubSeq(lines, end + 1, l)
<1>1. l \in Nat /\ DOMAIN lines = 1..l /\ l \in ends /\ ends \in SUBSET (0..l)
  OBVIOUS
<1>2. end \in ends
  <2> HIDE DEF ends
  <2> DEFINE up == {n + 1 : n \in ends}
  <2>1. up \in SUBSET (1..(l + 1)) /\ up # {} /\ l + 1 \in Nat
    BY <1>1
  <2>2. PICK m \in up : \A j \in up : m <= j
    <3> HIDE DEF up
    <3> QED
      BY <2>1, FirstExists
  <2>3. m - 1 \in ends /\ \A j \in ends : m - 1 <= j
    <3>1. PICK n \in ends : m = n + 1
      BY <2>2
    <3>2. n \in Int /\ \A j \in ends : j \in Int
      BY <1>1
    <3>3. \A j \in ends : j + 1 \in up
      OBVIOUS
    <3>4. \A j \in ends : n + 1 <= j + 1
      BY <2>2, <3>1, <3>3
    <3> QED
      BY <3>1, <3>2, <3>4
  <2> QED
    BY <2>3
<1>3. end \in 0..l /\ \A i \in (end + 1)..l : lines[i] = Blank
  BY <1>2
<1>4. Trimmed(lines) = a
  BY <1>1 DEF Trimmed
<1> HIDE DEF end
<1>5. a \in Seq(STRING) /\ b \in Seq(STRING) /\ Len(b) = l - end /\ \A i \in 1..(l - end) : b[i] = lines[end + i]
  <2>1. 1 \in Int /\ end \in Int /\ end + 1 \in Int /\ l \in Int
    BY <1>1, <1>3
  <2>2. (\A i \in 1..end : lines[i] \in STRING) /\ \A i \in (end + 1)..l : lines[i] \in STRING
    BY <1>1, <1>3
  <2>3. a \in Seq(STRING)
    BY <2>1, <2>2, SubSeqProperties
  <2>4. /\ b \in Seq(STRING) /\ Len(b) = IF end + 1 <= l THEN l - (end + 1) + 1 ELSE 0
        /\ \A i \in 1..(l - (end + 1) + 1) : b[i] = lines[(end + 1) + i - 1]
    BY <2>1, <2>2, SubSeqProperties
  <2> HIDE DEF a, b
  <2>5. Len(b) = l - end
    <3>1. Len(b) = IF end + 1 <= l THEN l - (end + 1) + 1 ELSE 0
      BY <2>4
    <3>2. l \in Nat /\ end \in Nat /\ end <= l
      BY <1>1, <1>3
    <3> QED
      BY <3>1, <3>2
  <2>6. \A i \in 1..(l - end) : i \in 1..(l - (end + 1) + 1) /\ (end + 1) + i - 1 = end + i
    BY <1>1, <1>3
  <2> QED
    BY <2>3, <2>4, <2>5, <2>6
<1>6. a \o b = lines
  <2>1. 1 \in 1..l + 1 /\ end \in 1 - 1..l /\ l \in end..l
    BY <1>1, <1>3
  <2>2. SubSeq(lines, 1, end) \o SubSeq(lines, end + 1, l) = SubSeq(lines, 1, l)
    BY <2>1, ConcatAdjacentSubSeq
  <2> QED
    BY <2>2, SubSeqFull
<1>7. \A i \in 1..Len(b) : b[i] = Blank
  <2> HIDE DEF b
  <2> SUFFICES ASSUME NEW i \in 1..Len(b) PROVE b[i] = Blank
    OBVIOUS
  <2>1. end + i \in (end + 1)..l /\ i \in 1..(l - end)
    BY <1>1, <1>3, <1>5
  <2> QED
    BY <1>3, <1>5, <2>1
<1>8. Only(b, Vertical) = <<>>
  <2>1. \A i \in 1..Len(b) : b[i] \notin Vertical
    BY <1>7, ExtractionAssumption DEF ExtractionAssumption
  <2> HIDE DEF b
  <2> QED
    BY <1>5, <2>1, OnlyOthers
<1>9. Range(b) \subseteq {Blank}
  BY <1>5, <1>7 DEF Range
<1> HIDE DEF a, b
<1>10. Range(a \o b) = Range(a) \cup Range(b)
  BY <1>5, RangeConcatenation
<1>11. Only(a \o b, Vertical) = Only(a, Vertical)
  <2>1. Only(a \o b, Vertical) = Only(a, Vertical) \o Only(b, Vertical)
    BY <1>5, OnlyConcat, SMTT(30)
  <2>2. Only(a, Vertical) \in Seq(STRING)
    BY <1>5, OnlyType
  <2> QED
    BY <1>8, <2>1, <2>2, ConcatEmptySeq
<1> QED
  BY <1>4, <1>6, <1>9, <1>10, <1>11 DEF Verticals

\* A span that is the shipped one but for blank lines at its end is the template's.
LEMMA SameTrimmed ==
  ASSUME NEW t \in Seq(STRING), NEW u \in Seq(STRING), Trimmed(t) = Trimmed(u)
  PROVE  /\ Verticals(t) = Verticals(u)
         /\ Range(u) \subseteq Theirs => Range(t) \subseteq Theirs
<1>1. /\ Verticals(t) = Verticals(Trimmed(t)) /\ Verticals(u) = Verticals(Trimmed(u))
      /\ Range(t) \subseteq Range(Trimmed(t)) \cup {Blank} /\ Range(Trimmed(u)) \subseteq Range(u)
  BY TrimmedIs
<1>2. Blank \in Theirs
  BY Zenon DEF Theirs
<1> QED
  BY <1>1, <1>2

\* Two middles of which nothing is picked out make no difference.
LEMMA OnlyAround ==
  ASSUME NEW S, NEW a \in Seq(S), NEW b \in Seq(S), NEW t \in Seq(S), NEW set
  PROVE  Only(t, set) = <<>> => Only(a \o t \o b, set) = Only(a, set) \o Only(b, set)
<1> DEFINE at == a \o t
           oa == Only(a, set)
<1>1. oa \in Seq(S)
  BY OnlyType
<1>2. Only(at, set) = oa \o Only(t, set)
  BY OnlyConcat
<1>3. oa \o <<>> = oa
  <2> HIDE DEF oa
  <2> QED
    BY <1>1, ConcatEmptySeq
<1>4. at \in Seq(S)
  OBVIOUS
<1>5. Only(t, set) = <<>> => Only(at, set) = oa
  BY <1>2, <1>3
<1> HIDE DEF at
<1>6. Only(at \o b, set) = Only(at, set) \o Only(b, set)
  BY <1>4, OnlyConcat, SMTT(30)
<1> QED
  BY <1>5, <1>6 DEF at

\* One cut that takes a span of the template's takes nothing that is kept.
LEMMA CutKeeps ==
  ASSUME NEW a \in Seq(STRING), NEW b \in Seq(STRING), NEW t \in Seq(STRING), NEW put \in Seq(STRING),
         Range(t) \subseteq Theirs, Range(put) \subseteq Theirs
  PROVE  Kept(a \o put \o b) = Kept(a \o t \o b)
<1> DEFINE at == a \o t
           ap == a \o put
<1>1. Kept(t) = <<>> /\ Kept(put) = <<>>
  BY TheirsAreNotKept
<1>2. Kept(at) = Kept(a) \o Kept(t) /\ Kept(ap) = Kept(a) \o Kept(put)
  BY KeptConcat
<1>3. Kept(at) = Kept(ap)
  BY <1>1, <1>2
<1>4. at \in Seq(STRING) /\ ap \in Seq(STRING)
  OBVIOUS
<1> HIDE DEF at, ap
<1>5. Kept(at \o b) = Kept(at) \o Kept(b) /\ Kept(ap \o b) = Kept(ap) \o Kept(b)
  BY <1>4, KeptConcat
<1> QED
  BY <1>3, <1>5 DEF at, ap

\* One cut more of a file leaves the other files alone.
LEMMA CutLeaves ==
  ASSUME NEW so \in Progress, NEW cut \in CutType, MakeCut(so, cut).fits
  PROVE  \E a, b, t \in Seq(STRING) :
           /\ MakeCut(so, cut).taken = Append(so.taken, t)
           /\ \A f \in Shared :
                IF f = cut.file THEN so.texts[f] = a \o t \o b /\ MakeCut(so, cut).texts[f] = a \o cut.put \o b
                ELSE MakeCut(so, cut).texts[f] = so.texts[f]
<1> DEFINE next == MakeCut(so, cut)
<1>2. PICK a, b, t \in Seq(STRING) :
         /\ so.texts[cut.file] = a \o t \o b
         /\ next.texts = [so.texts EXCEPT ![cut.file] = a \o cut.put \o b]
         /\ next.taken = Append(so.taken, t)
  BY CutStep
<1> HIDE DEF next
<1>3. so.texts \in [Shared -> Seq(STRING)] /\ cut.file \in Shared
  BY DEF Progress, CutType
<1>4. \A f \in Shared :
         IF f = cut.file THEN so.texts[f] = a \o t \o b /\ next.texts[f] = a \o cut.put \o b
         ELSE next.texts[f] = so.texts[f]
  BY <1>2, <1>3
<1>5. \E x, y, z \in Seq(STRING) :
         /\ next.taken = Append(so.taken, z)
         /\ \A f \in Shared :
              IF f = cut.file THEN so.texts[f] = x \o z \o y /\ next.texts[f] = x \o cut.put \o y
              ELSE next.texts[f] = so.texts[f]
  <2> WITNESS a \in Seq(STRING), b \in Seq(STRING), t \in Seq(STRING)
  <2> QED
    BY <1>2, <1>4
<1> QED
  BY <1>5 DEF next

\* Cuts that take what was shipped leave all that is kept, in its order.
LEMMA CutsKeep ==
  ASSUME NEW texts \in [Shared -> Seq(STRING)], AfterCuts(texts).fits, IsOurs(AfterCuts(texts).taken),
         NEW f \in Shared
  PROVE  Kept(AfterCuts(texts).texts[f]) = Kept(texts[f])
<1> DEFINE N == Len(Cuts)
<1>1. N \in Nat
  BY ExtractionAssumption DEF ExtractionAssumption
<1>0. \A n \in 1..N : Cuts[n] \in CutType
  <2>1. Cuts \in Seq(CutType)
    BY ExtractionAssumption DEF ExtractionAssumption, CutType
  <2> QED
    BY <2>1
<1>2. PICK r : /\ AfterCuts(texts) = r[N]
               /\ r[0] = [fits |-> TRUE, texts |-> texts, taken |-> <<>>]
               /\ \A n \in 0..N : r[n] \in Progress /\ (r[n].fits => Len(r[n].taken) = n)
               /\ \A n \in 1..N : r[n] = MakeCut(r[n - 1], Cuts[n])
  BY AfterSteps
<1> HIDE DEF N
<1> DEFINE Same(n) == \A k \in 1..n : Trimmed(r[n].taken[k]) = Trimmed(CutDigests[k])
           Good == {n \in 0..N : r[n].fits /\ Same(n) => Kept(r[n].texts[f]) = Kept(texts[f])}
<1>3. 0 \in Good
  BY <1>1, <1>2
<1>4. ASSUME NEW n \in 0..N, n \in Good, n < N PROVE n + 1 \in Good
  <2> DEFINE so == r[n]
             cut == Cuts[n + 1]
             next == MakeCut(so, cut)
             m == n + 1
  <2>1. m \in 1..N /\ m - 1 = n /\ m \in 0..N /\ n \in Nat
    BY <1>1, <1>4
  <2>2. so \in Progress /\ (so.fits => Len(so.taken) = n) /\ r[m] = next /\ cut \in CutType
    BY <1>0, <1>2, <2>1
  <2> SUFFICES ASSUME r[m].fits, Same(m) PROVE Kept(r[m].texts[f]) = Kept(texts[f])
    BY <2>1
  <2>3. \A k \in 1..m : Trimmed(next.taken[k]) = Trimmed(CutDigests[k])
    BY <2>2
  <2>4. Range(CutDigests[m]) \subseteq Theirs /\ Range(cut.put) \subseteq Theirs /\ CutDigests[m] \in Seq(STRING)
    BY <2>1, DigestsAre DEF N
  <2>5. so.fits => (Same(n) => Kept(so.texts[f]) = Kept(texts[f]))
    BY <1>4
  <2>6. next.fits
    BY <2>2
  <2> HIDE DEF so, cut
  <2>7. so.fits
    BY <2>2, <2>6, CutStep
  <2>8. PICK a, b, t \in Seq(STRING) :
          /\ next.taken = Append(so.taken, t)
          /\ \A g \in Shared :
               IF g = cut.file THEN so.texts[g] = a \o t \o b /\ next.texts[g] = a \o cut.put \o b
               ELSE next.texts[g] = so.texts[g]
    BY <2>2, <2>6, CutLeaves
  <2> HIDE DEF next
  <2>9. so.taken \in Seq(Seq(STRING)) /\ Len(so.taken) = n
    BY <2>2, <2>7 DEF Progress
  <2>10. Trimmed(t) = Trimmed(CutDigests[m]) /\ \A k \in 1..n : Trimmed(so.taken[k]) = Trimmed(CutDigests[k])
    <3>1. Len(so.taken) + 1 = m /\ m \in 1..m /\ \A k \in 1..n : k \in 1..m /\ k \in 1..Len(so.taken)
      BY <2>1, <2>9
    <3>2. next.taken[m] = t /\ \A k \in 1..n : next.taken[k] = so.taken[k]
      BY <2>8, <2>9, <3>1, AppendProperties
    <3> QED
      BY <2>3, <3>1, <3>2
  <2>11. Kept(so.texts[f]) = Kept(texts[f])
    BY <2>5, <2>7, <2>10 DEF so
  <2>12. cut.put \in Seq(STRING)
    BY <2>2 DEF CutType
  <2>13. Kept(a \o cut.put \o b) = Kept(a \o t \o b)
    <3>1. Range(t) \subseteq Theirs
      BY <2>4, <2>10, SameTrimmed
    <3> QED
      BY <2>4, <2>12, <3>1, CutKeeps
  <2> QED
    BY <2>2, <2>8, <2>11, <2>13
<1>5. N \in Good
  <2> HIDE DEF Good
  <2> QED
    BY <1>1, <1>3, <1>4, CountUp
<1>6. r[N].fits /\ Same(N)
  <2>1. DOMAIN Cuts = 1..N
    BY ExtractionAssumption DEF ExtractionAssumption, N
  <2> QED
    BY <1>2, <2>1 DEF IsOurs
<1> QED
  BY <1>2, <1>5, <1>6

\* Cuts that take what was shipped take as many lines of the vertical from a file as
\* they take from the shipped one.
LEMMA CutsCount ==
  ASSUME NEW texts \in [Shared -> Seq(STRING)], AfterCuts(texts).fits, IsOurs(AfterCuts(texts).taken),
         NEW f \in Shared
  PROVE  Verticals(AfterCuts(texts).texts[f]) + Verticals(Shipped[f])
           = Verticals(texts[f]) + Verticals(AfterCuts(Shipped).texts[f])
<1> DEFINE N == Len(Cuts)
<1>1. N \in Nat
  BY ExtractionAssumption DEF ExtractionAssumption
<1>0. \A n \in 1..N : Cuts[n] \in CutType
  <2>1. Cuts \in Seq(CutType)
    BY ExtractionAssumption DEF ExtractionAssumption, CutType
  <2> QED
    BY <2>1
<1>2. PICK r : /\ AfterCuts(texts) = r[N]
               /\ r[0] = [fits |-> TRUE, texts |-> texts, taken |-> <<>>]
               /\ \A n \in 0..N : r[n] \in Progress /\ (r[n].fits => Len(r[n].taken) = n)
               /\ \A n \in 1..N : r[n] = MakeCut(r[n - 1], Cuts[n])
  BY AfterSteps
<1>3. PICK q : /\ AfterCuts(Shipped) = q[N]
               /\ q[0] = [fits |-> TRUE, texts |-> Shipped, taken |-> <<>>]
               /\ \A n \in 0..N : q[n] \in Progress /\ (q[n].fits => Len(q[n].taken) = n)
               /\ \A n \in 1..N : q[n] = MakeCut(q[n - 1], Cuts[n])
  <2>1. Shipped \in [Shared -> Seq(STRING)]
    BY ExtractionAssumption DEF ExtractionAssumption
  <2> QED
    BY <2>1, AfterSteps
<1> HIDE DEF N
<1> DEFINE Same(n) == \A k \in 1..n : Trimmed(r[n].taken[k]) = Trimmed(q[n].taken[k])
           Count(n) == Verticals(r[n].texts[f]) + Verticals(Shipped[f]) = Verticals(texts[f]) + Verticals(q[n].texts[f])
           Good == {n \in 0..N : r[n].fits /\ q[n].fits /\ Same(n) => Count(n)}
<1>4. 0 \in Good
  <2>1. Verticals(texts[f]) \in Nat /\ Verticals(Shipped[f]) \in Nat
    BY ExtractionAssumption, OnlyType DEF ExtractionAssumption, Verticals
  <2>2. r[0].texts = texts /\ q[0].texts = Shipped
    BY <1>2, <1>3
  <2>3. Count(0)
    BY <2>1, <2>2
  <2> HIDE DEF Count
  <2> QED
    BY <1>1, <2>3
<1>5. ASSUME NEW n \in 0..N, n \in Good, n < N PROVE n + 1 \in Good
  <2> DEFINE so == r[n]
             sq == q[n]
             cut == Cuts[n + 1]
             next == MakeCut(so, cut)
             nexq == MakeCut(sq, cut)
             m == n + 1
  <2>1. m \in 1..N /\ m - 1 = n /\ m \in 0..N /\ n \in Nat
    BY <1>1, <1>5
  <2>2. so \in Progress /\ (so.fits => Len(so.taken) = n) /\ r[m] = next /\ cut \in CutType
    BY <1>0, <1>2, <2>1
  <2>3. sq \in Progress /\ (sq.fits => Len(sq.taken) = n) /\ q[m] = nexq
    BY <1>3, <2>1
  <2> SUFFICES ASSUME r[m].fits, q[m].fits, Same(m) PROVE Count(m)
    BY <2>1
  <2>4. \A k \in 1..m : Trimmed(next.taken[k]) = Trimmed(nexq.taken[k])
    BY <2>2, <2>3
  <2>5. so.fits /\ sq.fits => (Same(n) => Count(n))
    BY <1>5
  <2>6. next.fits /\ nexq.fits
    BY <2>2, <2>3
  <2> HIDE DEF so, sq, cut, Count
  <2>7. so.fits /\ sq.fits
    BY <2>2, <2>3, <2>6, CutStep
  <2>8. PICK a, b, t \in Seq(STRING) :
          /\ next.taken = Append(so.taken, t)
          /\ \A g \in Shared :
               IF g = cut.file THEN so.texts[g] = a \o t \o b /\ next.texts[g] = a \o cut.put \o b
               ELSE next.texts[g] = so.texts[g]
    BY <2>2, <2>6, CutLeaves
  <2>9. PICK c, d, u \in Seq(STRING) :
          /\ nexq.taken = Append(sq.taken, u)
          /\ \A g \in Shared :
               IF g = cut.file THEN sq.texts[g] = c \o u \o d /\ nexq.texts[g] = c \o cut.put \o d
               ELSE nexq.texts[g] = sq.texts[g]
    BY <2>2, <2>3, <2>6, CutLeaves
  <2> HIDE DEF next, nexq
  <2>10. so.taken \in Seq(Seq(STRING)) /\ Len(so.taken) = n /\ sq.taken \in Seq(Seq(STRING)) /\ Len(sq.taken) = n
    BY <2>2, <2>3, <2>7 DEF Progress
  <2>11. Trimmed(t) = Trimmed(u) /\ \A k \in 1..n : Trimmed(so.taken[k]) = Trimmed(sq.taken[k])
    <3>1. Len(so.taken) + 1 = m /\ Len(sq.taken) + 1 = m /\ m \in 1..m
          /\ \A k \in 1..n : k \in 1..m /\ k \in 1..Len(so.taken) /\ k \in 1..Len(sq.taken)
      BY <2>1, <2>10
    <3>2. next.taken[m] = t /\ \A k \in 1..n : next.taken[k] = so.taken[k]
      BY <2>8, <2>10, <3>1, AppendProperties, SMTT(30)
    <3>3. nexq.taken[m] = u /\ \A k \in 1..n : nexq.taken[k] = sq.taken[k]
      <4>1. nexq.taken[Len(sq.taken) + 1] = u /\ \A k \in 1..Len(sq.taken) : nexq.taken[k] = sq.taken[k]
        BY <2>9, <2>10, AppendProperties
      <4> QED
        BY <3>1, <4>1
    <3> QED
      BY <2>4, <3>1, <3>2, <3>3
  <2>12. Verticals(so.texts[f]) + Verticals(Shipped[f]) = Verticals(texts[f]) + Verticals(sq.texts[f])
    BY <2>5, <2>7, <2>11 DEF so, sq, Count
  <2>13. cut.put \in Seq(STRING)
    BY <2>2 DEF CutType
  <2>14. Verticals(next.texts[f]) + Verticals(Shipped[f]) = Verticals(texts[f]) + Verticals(nexq.texts[f])
    <3>1. CASE f # cut.file
      BY <2>8, <2>9, <2>12, <3>1
    <3>2. CASE f = cut.file
      <4> DEFINE V(s) == Len(Only(s, Vertical))
      <4>1. /\ so.texts[f] = a \o t \o b /\ next.texts[f] = a \o cut.put \o b
            /\ sq.texts[f] = c \o u \o d /\ nexq.texts[f] = c \o cut.put \o d
        BY <2>8, <2>9, <3>2
      <4>0. V(t) = V(u)
        BY <2>11, SameTrimmed DEF Verticals
      <4>9. V(a \o t \o b) = V(a) + V(t) + V(b) /\ V(c \o u \o d) = V(c) + V(u) + V(d)
        BY OnlyLen
      <4>2. V(a \o t \o b) = V(a) + V(t) + V(b) /\ V(c \o u \o d) = V(c) + V(t) + V(d)
        <5> HIDE DEF V
        <5> QED
          BY <4>0, <4>9
      <4>3. V(a \o cut.put \o b) = V(a) + V(cut.put) + V(b) /\ V(c \o cut.put \o d) = V(c) + V(cut.put) + V(d)
        BY <2>13, OnlyLen
      <4>4. V(a) \in Nat /\ V(b) \in Nat /\ V(c) \in Nat /\ V(d) \in Nat /\ V(t) \in Nat /\ V(cut.put) \in Nat
        BY <2>13, OnlyLen
      <4>5. Verticals(texts[f]) \in Nat /\ Verticals(Shipped[f]) \in Nat
        BY ExtractionAssumption, OnlyType DEF ExtractionAssumption, Verticals
      <4>6. V(a) + V(t) + V(b) + Verticals(Shipped[f]) = Verticals(texts[f]) + (V(c) + V(t) + V(d))
        BY <2>12, <4>1, <4>2 DEF Verticals
      <4> HIDE DEF V
      <4> DEFINE x == Verticals(texts[f])
                 y == Verticals(Shipped[f])
      <4>8. V(a) + V(t) + V(b) + y = x + (V(c) + V(t) + V(d)) /\ x \in Nat /\ y \in Nat
        BY <4>5, <4>6
      <4> HIDE DEF x, y
      <4>7. (V(a) + V(cut.put) + V(b)) + y = x + (V(c) + V(cut.put) + V(d))
        <5> DEFINE ka == V(a)
                   kb == V(b)
                   kc == V(c)
                   kd == V(d)
                   kt == V(t)
                   kp == V(cut.put)
        <5>1. ka \in Nat /\ kb \in Nat /\ kc \in Nat /\ kd \in Nat /\ kt \in Nat /\ kp \in Nat
          BY <4>4
        <5>2. ka + kt + kb + y = x + (kc + kt + kd) /\ x \in Nat /\ y \in Nat
          BY <4>8
        <5> HIDE DEF ka, kb, kc, kd, kt, kp
        <5>3. (ka + kp + kb) + y = x + (kc + kp + kd)
          BY <5>1, <5>2
        <5> QED
          BY <5>3 DEF ka, kb, kc, kd, kt, kp
      <4> QED
        BY <4>1, <4>3, <4>7 DEF V, Verticals, x, y
    <3> QED
      BY <3>1, <3>2
  <2> QED
    BY <2>2, <2>3, <2>14 DEF Count
<1>6. N \in Good
  <2> HIDE DEF Good
  <2> QED
    BY <1>1, <1>4, <1>5, CountUp
<1>7. r[N].fits /\ q[N].fits /\ Same(N)
  <2>1. DOMAIN Cuts = 1..N
    BY ExtractionAssumption DEF ExtractionAssumption, N
  <2> QED
    BY <1>2, <1>3, <2>1, ShippedAssumption DEF CutDigests, ShippedAssumption, IsOurs
<1>8. N \in 0..N
  BY <1>1
<1> QED
  BY <1>2, <1>3, <1>6, <1>7, <1>8

-----------------------------------------------------------------------------
\* A set made a sequence has the same elements.
LEMMA SetToSeqIs ==
  ASSUME NEW S, IsFiniteSet(S)
  PROVE  SetToSeq(S) \in Seq(S) /\ DOMAIN SetToSeq(S) = 1..Cardinality(S) /\ Range(SetToSeq(S)) = S
<1> DEFINE n == Cardinality(S)
           f == SetToSeq(S)
<1>1. n \in Nat /\ \E g \in [1..n -> S] : IsInjective(g)
  BY FS_CardinalityType DEF ExistsBijection, Bijection, Injection
<1>2. f \in [1..n -> S] /\ IsInjective(f)
  BY <1>1 DEF SetToSeq
<1> HIDE DEF f
<1>3. f \in Injection(1..n, S)
  BY <1>2 DEF Injection
<1>4. IsFiniteSet(1..n) /\ Cardinality(1..n) = n
  BY <1>1, FS_Interval
<1>5. f \in Surjection(1..n, S)
  BY <1>3, <1>4, FS_Injection
<1>6. Range(f) = S
  BY <1>2, <1>5 DEF Surjection, Range
<1> QED
  BY <1>1, <1>2, <1>6 DEF f

\* The same kind of operation on every one of some paths.
LEMMA OpsAre ==
  ASSUME NEW paths \in Seq(STRING), NEW kind \in {"copy", "drop", "delete", "sweep", "follow"}
  PROVE  /\ Ops(kind, paths) \in Seq(Operations)
         /\ Range(Ops(kind, paths)) = {Op(kind, p) : p \in Range(paths)}
<1>1. \A p \in STRING : Op(kind, p) \in Operations
  BY DEF Op, Operations
<1>2. Ops(kind, paths) \in Seq(Operations)
  <2>1. Len(paths) \in Nat /\ DOMAIN paths = 1..Len(paths) /\ \A i \in 1..Len(paths) : paths[i] \in STRING
    OBVIOUS
  <2>2. Ops(kind, paths) \in [1..Len(paths) -> Operations]
    BY <1>1, <2>1 DEF Ops
  <2> QED
    BY <2>1, <2>2, SeqDef
<1>3. Range(Ops(kind, paths)) = {Op(kind, p) : p \in Range(paths)}
  BY DEF Ops, Range
<1> QED
  BY <1>2, <1>3

\* A single operation.
LEMMA OneOp ==
  ASSUME NEW op \in Operations
  PROVE  <<op>> \in Seq(Operations) /\ Range(<<op>>) = {op}
<1>1. DOMAIN <<op>> = {1} /\ <<op>>[1] = op
  OBVIOUS
<1> QED
  BY <1>1 DEF Range

\* Two parts one after the other.
LEMMA TwoParts ==
  ASSUME NEW s \in Seq(Operations), NEW t \in Seq(Operations)
  PROVE  s \o t \in Seq(Operations) /\ Range(s \o t) = Range(s) \cup Range(t)
BY ConcatProperties, RangeConcatenation

\* The edited files are files.
LEMMA EditedType ==
  ASSUME text \in [Shared -> Seq(STRING)]
  PROVE  EditedFiles \in [Shared -> Seq(STRING)]
<1> SUFFICES ASSUME NEW f \in Shared
             PROVE  PointAll(WithoutSentences(f, AfterCuts(text).texts[f])) \in Seq(STRING)
  BY DEF EditedFiles
<1> DEFINE lines == AfterCuts(text).texts[f]
<1>1. lines \in Seq(STRING)
  BY AfterCutsType DEF Progress
<1> HIDE DEF lines
<1>2. WithoutSentences(f, lines) \in Seq(STRING)
  BY <1>1, OnlyType DEF WithoutSentences
<1> QED
  BY <1>2, PointAllIs DEF lines

\* A plan copies every sample, drops the table, writes every shared file whose edited
\* text is another, deletes every sample and every tool and sweeps the directories.
LEMMA PlanIs ==
  ASSUME Places
  PROVE  /\ Plan \in Seq(Operations)
         /\ \A s \in Range(SampleFiles) : Op("copy", s) \in Range(Plan) /\ Op("delete", s) \in Range(Plan)
         /\ Op("drop", None) \in Range(Plan)
         /\ \A t \in tools : Op("delete", t) \in Range(Plan)
         /\ \A d \in ToolDirs : Op("sweep", d) \in Range(Plan)
         /\ \A f \in Shared : EditedFiles[f] # text[f] =>
              \E op \in Range(Plan) : op.kind = "write" /\ op.path = f
         /\ \A op \in Range(Plan) :
              /\ op.kind = "copy" => op.path \in Range(SampleFiles)
              /\ op.kind = "write" => op.path \in Shared /\ op.lines = EditedFiles[op.path]
<1> DEFINE cut == EditedFiles
           Changed == {f \in Shared : cut[f] # text[f]}
           edited == SetToSeq(Changed)
           going == Only(Deletes, Deleted)
           dirs == SetToSeq(ToolDirs)
           a == Ops("copy", SampleFiles)
           b == <<Op("drop", None)>>
           c == [i \in DOMAIN edited |-> [kind |-> "write", path |-> edited[i], lines |-> cut[edited[i]]]]
           d == Ops("delete", going)
           e == Ops("sweep", dirs)
           f == <<Op("follow", None)>>
           writes == {[kind |-> "write", path |-> p, lines |-> cut[p]] : p \in Changed}
<1>1. cut \in [Shared -> Seq(STRING)]
  BY EditedType DEF Places
<1>2. /\ SampleFiles \in Seq(STRING) /\ Deletes \in Seq(STRING) /\ IsFiniteSet(Shared)
      /\ Range(SampleFiles) \cup Tools \subseteq Range(Deletes) /\ IsFiniteSet(ToolDirs) /\ ToolDirs \subseteq STRING
  BY ExtractionAssumption DEF ExtractionAssumption
<1>3. Plan = a \o b \o c \o d \o e \o f
  BY DEF Plan
<1>4. a \in Seq(Operations) /\ Range(a) = {Op("copy", p) : p \in Range(SampleFiles)}
  BY <1>2, OpsAre
<1>5. /\ b \in Seq(Operations) /\ Range(b) = {Op("drop", None)}
      /\ f \in Seq(Operations) /\ Range(f) = {Op("follow", None)}
  <2>1. Op("drop", None) \in Operations /\ Op("follow", None) \in Operations
    BY DEF Op, Operations
  <2> QED
    BY <2>1, OneOp
<1>6. c \in Seq(Operations) /\ Range(c) = writes
  <2>1. IsFiniteSet(Changed) /\ Changed \subseteq Shared
    BY <1>2, FS_Subset
  <2>2. edited \in Seq(Changed) /\ Range(edited) = Changed
    BY <2>1, SetToSeqIs
  <2> HIDE DEF edited, cut, Changed
  <2>3. \A p \in Changed : [kind |-> "write", path |-> p, lines |-> cut[p]] \in Operations
    BY <1>1, <2>1 DEF Operations
  <2>4. c \in Seq(Operations)
    BY <2>2, <2>3
  <2>5. Range(c) = writes
    BY <2>2 DEF Range
  <2> QED
    BY <2>4, <2>5
<1>7. d \in Seq(Operations) /\ Range(d) = {Op("delete", p) : p \in Range(going)}
  <2>1. going \in Seq(STRING)
    BY <1>2, OnlyType
  <2> HIDE DEF going
  <2> QED
    BY <2>1, OpsAre
<1>20. e \in Seq(Operations) /\ Range(e) = {Op("sweep", p) : p \in ToolDirs}
  <2>1. dirs \in Seq(ToolDirs) /\ Range(dirs) = ToolDirs
    BY <1>2, SetToSeqIs
  <2> HIDE DEF dirs
  <2>2. dirs \in Seq(STRING)
    <3>1. dirs \in [1..Len(dirs) -> ToolDirs] /\ Len(dirs) \in Nat
      BY <2>1
    <3>2. dirs \in [1..Len(dirs) -> STRING]
      BY <1>2, <3>1
    <3> QED
      BY <3>1, <3>2, SeqDef
  <2> QED
    BY <2>1, <2>2, OpsAre
<1>8. Range(SampleFiles) \cup tools \subseteq Range(going)
  <2> SUFFICES ASSUME NEW s \in Range(SampleFiles) \cup tools PROVE s \in Range(going)
    OBVIOUS
  <2>0. s \in Range(Deletes) /\ s \in Deleted
    BY <1>2 DEF Places, Deleted
  <2>1. PICK i \in 1..Len(Deletes) : Deletes[i] = s
    BY <1>2, <2>0 DEF Range
  <2>3. Deletes[i] \in Range(Only(Deletes, Deleted))
    BY <1>2, <2>0, <2>1, OnlyHas
  <2> QED
    BY <2>1, <2>3
<1> HIDE DEF a, b, c, d, e, f, going, dirs, cut
<1> DEFINE ab == a \o b
           abc == ab \o c
           abcd == abc \o d
           abcde == abcd \o e
<1>15. ab \in Seq(Operations) /\ Range(ab) = Range(a) \cup Range(b)
  BY <1>4, <1>5, TwoParts
<1>16. Plan = abcde \o f
  BY <1>3
<1> HIDE DEF ab
<1>17. abc \in Seq(Operations) /\ Range(abc) = Range(ab) \cup Range(c)
  BY <1>6, <1>15, TwoParts
<1> HIDE DEF abc
<1>18. abcd \in Seq(Operations) /\ Range(abcd) = Range(abc) \cup Range(d)
  BY <1>7, <1>17, TwoParts
<1> HIDE DEF abcd
<1>19. abcde \in Seq(Operations) /\ Range(abcde) = Range(abcd) \cup Range(e)
  BY <1>20, <1>18, TwoParts
<1> HIDE DEF abcde
<1>9. Plan \in Seq(Operations) /\ Range(Plan) = Range(abcde) \cup Range(f)
  BY <1>5, <1>16, <1>19, TwoParts
<1>10. Range(Plan) = Range(a) \cup Range(b) \cup Range(c) \cup Range(d) \cup Range(e) \cup Range(f)
  BY <1>9, <1>15, <1>17, <1>18, <1>19
<1>11. \A s \in Range(SampleFiles) : Op("copy", s) \in Range(Plan) /\ Op("delete", s) \in Range(Plan)
  BY <1>4, <1>7, <1>8, <1>10
<1>12. /\ Op("drop", None) \in Range(Plan)
       /\ \A t \in tools : Op("delete", t) \in Range(Plan)
       /\ \A g \in ToolDirs : Op("sweep", g) \in Range(Plan)
  BY <1>5, <1>7, <1>8, <1>10, <1>20
<1>13. ASSUME NEW g \in Shared, cut[g] # text[g] PROVE \E op \in Range(Plan) : op.kind = "write" /\ op.path = g
  <2>1. [kind |-> "write", path |-> g, lines |-> cut[g]] \in Range(Plan)
    BY <1>6, <1>10, <1>13
  <2> QED
    BY <2>1
<1>14. ASSUME NEW op \in Range(Plan)
       PROVE  /\ op.kind = "copy" => op.path \in Range(SampleFiles)
              /\ op.kind = "write" => op.path \in Shared /\ op.lines = cut[op.path]
  <2>1. CASE op \in Range(a)
    BY <1>4, <2>1 DEF Op
  <2>2. CASE op \in Range(c)
    BY <1>6, <2>2
  <2>3. CASE op \in Range(d) \cup Range(e)
    BY <1>7, <1>20, <2>3 DEF Op
  <2>4. CASE op \in Range(b) \cup Range(f)
    BY <1>5, <2>4 DEF Op
  <2> QED
    BY <1>10, <2>1, <2>2, <2>3, <2>4
<1> QED
  BY <1>9, <1>11, <1>12, <1>13, <1>14 DEF cut

\* The first operation of a plan and the ones after it.
LEMMA RestOfPlan ==
  ASSUME NEW S, NEW q \in Seq(S), q # <<>>
  PROVE  /\ Head(q) \in Range(q) /\ Tail(q) \in Seq(S)
         /\ Range(q) = {Head(q)} \cup Range(Tail(q))
<1> DEFINE h == Head(q)
           t == Tail(q)
<1>1. /\ h \in S /\ t \in Seq(S) /\ Len(t) = Len(q) - 1 /\ Len(q) \in Nat /\ Len(q) > 0
      /\ \A i \in 1..Len(t) : t[i] = q[i + 1]
      /\ h = q[1]
  BY HeadTailProperties
<1> HIDE DEF h, t
<1>2. \A x : x \in Range(q) <=> \E i \in 1..Len(q) : q[i] = x
  BY DEF Range
<1>3. \A x : x \in Range(t) <=> \E i \in 1..Len(t) : t[i] = x
  BY <1>1 DEF Range
<1>4. h \in Range(q)
  BY <1>1, <1>2
<1>5. ASSUME NEW x \in Range(t) PROVE x \in Range(q)
  <2>1. PICK i \in 1..Len(t) : t[i] = x
    BY <1>3
  <2>2. i + 1 \in 1..Len(q) /\ q[i + 1] = x
    BY <1>1, <2>1
  <2> QED
    BY <1>2, <2>2
<1>6. ASSUME NEW x \in Range(q) PROVE x = h \/ x \in Range(t)
  <2>1. PICK i \in 1..Len(q) : q[i] = x
    BY <1>2
  <2>2. CASE i = 1
    BY <1>1, <2>1, <2>2
  <2>3. CASE i # 1
    <3>1. i - 1 \in 1..Len(t) /\ (i - 1) + 1 = i
      BY <1>1, <2>3
    <3>2. t[i - 1] = x
      BY <1>1, <2>1, <3>1
    <3> QED
      BY <1>3, <3>1, <3>2
  <2> QED
    BY <2>2, <2>3
<1> QED
  BY <1>1, <1>4, <1>5, <1>6 DEF h, t

-----------------------------------------------------------------------------
\* How many lines of the vertical a file has is a number, and none when it has none.
LEMMA VerticalsAre ==
  ASSUME NEW lines \in Seq(STRING)
  PROVE  /\ Verticals(lines) \in Nat
         /\ Verticals(lines) = 0 <=> ~Has(lines, Vertical)
<1>1. Only(lines, Vertical) \in Seq(STRING)
  BY OnlyType
<1>2. Verticals(lines) \in Nat
  BY <1>1 DEF Verticals
<1>3. ASSUME Has(lines, Vertical) PROVE Verticals(lines) # 0
  <2>1. PICK i \in 1..Len(lines) : lines[i] \in Vertical
    BY <1>3 DEF Has
  <2>2. Len(Only(lines, Vertical)) > 0
    BY <2>1, OnlyHas
  <2> QED
    BY <2>2 DEF Verticals
<1>4. ASSUME ~Has(lines, Vertical) PROVE Verticals(lines) = 0
  <2>1. \A i \in 1..Len(lines) : lines[i] \notin Vertical
    BY <1>4 DEF Has
  <2>2. Only(lines, Vertical) = <<>>
    BY <2>1, OnlyOthers
  <2> QED
    BY <2>2 DEF Verticals
<1> QED
  BY <1>2, <1>3, <1>4

\* A line of the project's own more is no line of the vertical more.
LEMMA EditsCount ==
  ASSUME NEW lines \in Seq(STRING), NEW line \in Mine, NEW i \in 0..Len(lines)
  PROVE  LET more == SubSeq(lines, 1, i) \o <<line>> \o SubSeq(lines, i + 1, Len(lines))
         IN  more \in Seq(STRING) /\ Verticals(more) = Verticals(lines)
<1> DEFINE a == SubSeq(lines, 1, i)
           b == SubSeq(lines, i + 1, Len(lines))
           m == <<line>>
<1>1. a \in Seq(STRING) /\ b \in Seq(STRING) /\ m \in Seq(STRING)
  <2>1. a \in Seq(STRING) /\ b \in Seq(STRING)
    OBVIOUS
  <2>2. line \in STRING
    BY ExtractionAssumption DEF ExtractionAssumption
  <2>3. \A S : \A x \in S : <<x>> \in Seq(S)
    OBVIOUS
  <2> QED
    BY <2>1, <2>2, <2>3
<1>2. a \o b = lines
  <2>1. 1 \in 1..Len(lines) + 1 /\ i \in 1 - 1..Len(lines) /\ Len(lines) \in i..Len(lines)
    OBVIOUS
  <2>2. SubSeq(lines, 1, i) \o SubSeq(lines, i + 1, Len(lines)) = SubSeq(lines, 1, Len(lines))
    BY <2>1, ConcatAdjacentSubSeq
  <2> QED
    BY <2>2, SubSeqFull
<1>3. Only(m, Vertical) = <<>>
  BY ExtractionAssumption, OnlyOne DEF ExtractionAssumption
<1> HIDE DEF a, b, m
<1>4. Only(a \o m \o b, Vertical) = Only(a, Vertical) \o Only(b, Vertical)
  BY <1>1, <1>3, OnlyAround, SMTT(30)
<1>5. Only(a \o b, Vertical) = Only(a, Vertical) \o Only(b, Vertical)
  BY <1>1, OnlyConcat, SMTT(30)
<1>6. a \o m \o b \in Seq(STRING)
  BY <1>1
<1>7. a \o m \o b \in Seq(STRING) /\ Verticals(a \o m \o b) = Verticals(lines)
  BY <1>2, <1>4, <1>5, <1>6 DEF Verticals
<1> QED
  BY <1>7 DEF a, b, m

\* Nor is a line less.
LEMMA RemovalsCount ==
  ASSUME NEW lines \in Seq(STRING), NEW i \in 1..Len(lines)
  PROVE  RemoveAt(lines, i) \in Seq(STRING) /\ Verticals(RemoveAt(lines, i)) <= Verticals(lines)
<1> DEFINE a == SubSeq(lines, 1, i - 1)
           b == SubSeq(lines, i + 1, Len(lines))
           m == <<lines[i]>>
           oa == Only(a, Vertical)
           ob == Only(b, Vertical)
<1>1. a \in Seq(STRING) /\ b \in Seq(STRING) /\ m \in Seq(STRING) /\ lines = a \o m \o b
  BY SplitAt
<1>2. RemoveAt(lines, i) = a \o b
  BY DEF RemoveAt
<1>9. a \in Seq(STRING) /\ b \in Seq(STRING) /\ m \in Seq(STRING)
  BY <1>1
<1> HIDE DEF a, b, m
<1>3. Len(Only(a \o m \o b, Vertical)) = Len(oa) + Len(Only(m, Vertical)) + Len(ob)
      /\ Len(oa) \in Nat /\ Len(Only(m, Vertical)) \in Nat /\ Len(ob) \in Nat
  BY <1>9, OnlyLen
<1>4. Only(a \o b, Vertical) = oa \o ob
  BY <1>9, OnlyConcat, SMTT(30)
<1>5. oa \in Seq(STRING) /\ ob \in Seq(STRING)
  BY <1>9, OnlyType
<1>6. Len(oa \o ob) = Len(oa) + Len(ob)
  <2> HIDE DEF oa, ob
  <2> QED
    BY <1>5, ConcatProperties
<1>7. Len(Only(a \o b, Vertical)) <= Len(Only(a \o m \o b, Vertical))
  BY <1>3, <1>4, <1>6
<1>8. a \o b \in Seq(STRING)
  BY <1>9
<1> QED
  BY <1>1, <1>2, <1>7, <1>8 DEF Verticals

\* The cuts of a plan leave no line of the vertical, and every line that is kept.
LEMMA CutTexts ==
  ASSUME Places, NoMoreThanShipped, AfterCuts(text).fits, IsOurs(AfterCuts(text).taken), NEW f \in Shared
  PROVE  LET lines == AfterCuts(text).texts[f]
         IN  lines \in Seq(STRING) /\ Kept(lines) = Kept(text[f]) /\ ~Has(lines, Vertical)
<1> DEFINE lines == AfterCuts(text).texts[f]
           left == AfterCuts(Shipped).texts[f]
<1>1. text \in [Shared -> Seq(STRING)] /\ Shipped \in [Shared -> Seq(STRING)]
  BY ExtractionAssumption DEF Places, ExtractionAssumption
<1>2. lines \in Seq(STRING) /\ left \in Seq(STRING)
  BY <1>1, AfterCutsType DEF Progress
<1>3. Kept(lines) = Kept(text[f])
  BY <1>1, CutsKeep
<1>4. Verticals(lines) + Verticals(Shipped[f]) = Verticals(text[f]) + Verticals(left)
  BY <1>1, CutsCount
<1>5. Verticals(left) = 0
  <2>1. ~Has(left, Vertical)
    BY ShippedAssumption DEF ShippedAssumption
  <2> HIDE DEF left
  <2> QED
    BY <1>2, <2>1, VerticalsAre
<1> HIDE DEF lines, left
<1>6. Verticals(lines) \in Nat /\ Verticals(Shipped[f]) \in Nat /\ Verticals(text[f]) \in Nat
  BY <1>1, <1>2, VerticalsAre
<1>7. Verticals(text[f]) <= Verticals(Shipped[f])
  BY DEF NoMoreThanShipped
<1>8. Verticals(lines) = 0
  BY <1>4, <1>5, <1>6, <1>7
<1>9. ~Has(lines, Vertical)
  BY <1>2, <1>8, VerticalsAre
<1> QED
  BY <1>2, <1>3, <1>9 DEF lines

\* So do the sentences it leaves out and the places it brings up to date.
LEMMA PlannedTexts ==
  ASSUME Places, NoMoreThanShipped, AfterCuts(text).fits, IsOurs(AfterCuts(text).taken), NEW f \in Shared
  PROVE  LET lines == EditedFiles[f]
         IN  /\ lines \in Seq(STRING) /\ Kept(lines) = Kept(text[f])
             /\ Verticals(lines) = 0 /\ ~Has(lines, OldPaths)
<1> DEFINE cut == AfterCuts(text).texts[f]
           some == WithoutSentences(f, cut)
           lines == PointAll(some)
<1>1. cut \in Seq(STRING) /\ Kept(cut) = Kept(text[f]) /\ ~Has(cut, Vertical)
  BY CutTexts
<1>2. EditedFiles[f] = lines
  BY DEF EditedFiles
<1> HIDE DEF cut
<1>3. some \in Seq(STRING) /\ Kept(some) = Kept(cut) /\ some \in Seq(STRING \ Vertical)
  <2>0. cut \in Seq(STRING \ Vertical)
    <3>1. \A i \in 1..Len(cut) : cut[i] \in STRING \ Vertical
      BY <1>1 DEF Has
    <3>2. Len(cut) \in Nat /\ cut \in [1..Len(cut) -> STRING \ Vertical]
      BY <1>1, <3>1
    <3> QED
      BY <3>2, SeqDef
  <2>1. CASE f # Context
    BY <1>1, <2>0, <2>1 DEF WithoutSentences
  <2>2. CASE f = Context
    <3> DEFINE others == STRING \ Sentences
    <3>1. some = Only(cut, others)
      BY <2>2 DEF WithoutSentences
    <3>2. \A line \in STRING \ others : line \in Theirs
      <4>1. \A line \in Sentences : line \in Theirs
        BY Zenon DEF Theirs
      <4> QED
        BY <4>1
    <3> HIDE DEF others
    <3>3. Kept(Only(cut, others)) = Kept(cut)
      BY <1>1, <3>2, KeptFiltered
    <3>4. Only(cut, others) \in Seq(STRING) /\ Only(cut, others) \in Seq(STRING \ Vertical)
      BY <1>1, <2>0, OnlyType
    <3> QED
      BY <3>1, <3>3, <3>4
  <2> QED
    BY <2>1, <2>2
<1> HIDE DEF some
<1>4. /\ lines \in Seq(STRING) /\ lines \in Seq(STRING \ OldPaths) /\ Len(lines) = Len(some)
      /\ \A i \in 1..Len(some) : lines[i] = Point(some[i])
  BY <1>3, PointAllIs
<1> HIDE DEF lines
<1>5. ~Has(lines, OldPaths)
  BY <1>4 DEF Has
<1>6. Verticals(lines) = 0
  <2>1. \A i \in 1..Len(lines) : lines[i] \notin Vertical
    <3> SUFFICES ASSUME NEW i \in 1..Len(lines) PROVE lines[i] \notin Vertical
      OBVIOUS
    <3>1. some[i] \in STRING /\ some[i] \notin Vertical /\ lines[i] = Point(some[i])
      BY <1>3, <1>4
    <3> QED
      BY <3>1, PointIs
  <2>2. ~Has(lines, Vertical)
    BY <1>4, <2>1 DEF Has
  <2> QED
    BY <1>4, <2>2, VerticalsAre
<1>7. Kept(lines) = Kept(some)
  <2>1. PointAll(lines) = lines /\ PointAll(some) = lines
    BY <1>4, <1>5, PointAllOnce DEF lines
  <2> QED
    BY <2>1 DEF Kept
<1> QED
  BY <1>1, <1>2, <1>3, <1>4, <1>5, <1>6, <1>7

-----------------------------------------------------------------------------
\* A plan begins: the whole of it is due.
LEMMA RunInitKeeps == ASSUME ExtractionInv, RunInit PROVE ExtractionInv'
<1>0. /\ remaining = <<>>
      /\ UNCHANGED <<identity, sample, tools, own, text, notes, scaffold, drop, edits, kills>>
  BY DEF RunInit
<1>1. CASE Refusal # None
  <2>1. said' = Refusal /\ remaining' = remaining
    BY <1>1 DEF RunInit
  <2>2. said' # "taken out" /\ ~Finished'
    <3>1. Refusal \in Reasons \cup {None}
      BY DEF Refusal, Reasons
    <3>2. "taken out" \notin Reasons /\ "taken out, follow-up failed" \notin Reasons
      BY DEF Reasons
    <3> QED
      BY <1>1, <2>1, <3>1, <3>2 DEF Finished
  <2>3. DoneOrDue' <=> DoneOrDue
    BY <1>0, <2>1 DEF DoneOrDue, Due
  <2>4. Untouched' <=> Untouched
    BY <1>0 DEF Untouched
  <2>5. Places' /\ NoMoreThanShipped' /\ PlanFits'
    BY <1>0, <2>1 DEF ExtractionInv, Places, NoMoreThanShipped, PlanFits
  <2>6. WholePlan'
    BY <1>0, <2>1, <2>2, <2>3, <2>4 DEF ExtractionInv, WholePlan
  <2>7. Sweeping'
    BY <1>0, <2>1, <2>2 DEF Sweeping
  <2> QED
    BY <2>5, <2>6, <2>7 DEF ExtractionInv
<1>2. CASE Refusal = None
  <2>1. remaining' = Plan /\ said' = "working"
    BY <1>2 DEF RunInit
  <2>2. AfterCuts(text).fits /\ IsOurs(AfterCuts(text).taken) /\ SamplesAreShipped
    <3> DEFINE cut == AfterCuts(text)
    <3>1. /\ None # "kept: the template" /\ None # "kept: already done" /\ None # "kept: not as shipped"
          /\ None # "kept: a cut does not fit" /\ None # "kept: lines of the project's own"
      BY ReasonsAssumption DEF ReasonsAssumption, Reasons
    <3>2. Refusal = IF identity = "template" THEN "kept: the template"
                    ELSE IF AllGone /\ scaffold # {} THEN "kept: already done"
                    ELSE IF identity = "unnamed" \/ ~SamplesAreShipped \/ OwnVerticalFiles THEN "kept: not as shipped"
                    ELSE IF ~cut.fits THEN "kept: a cut does not fit"
                    ELSE IF ~IsOurs(cut.taken) THEN "kept: lines of the project's own"
                    ELSE None
      BY DEF Refusal
    <3> HIDE DEF cut
    <3>3. cut.fits /\ IsOurs(cut.taken) /\ SamplesAreShipped
      BY <1>2, <3>1, <3>2
    <3> QED
      BY <3>3 DEF cut
  <2>3. Places
    BY DEF ExtractionInv
  <2>4. /\ Plan \in Seq(Operations)
        /\ \A s \in Range(SampleFiles) : Op("copy", s) \in Range(Plan) /\ Op("delete", s) \in Range(Plan)
        /\ Op("drop", None) \in Range(Plan)
        /\ \A t \in tools : Op("delete", t) \in Range(Plan)
        /\ \A d \in ToolDirs : Op("sweep", d) \in Range(Plan)
        /\ \A f \in Shared : EditedFiles[f] # text[f] =>
             \E op \in Range(Plan) : op.kind = "write" /\ op.path = f
        /\ \A op \in Range(Plan) :
             /\ op.kind = "copy" => op.path \in Range(SampleFiles)
             /\ op.kind = "write" => op.path \in Shared /\ op.lines = EditedFiles[op.path]
    BY <2>3, PlanIs
  <2>5. \A f \in Shared : /\ EditedFiles[f] \in Seq(STRING)
                          /\ Kept(EditedFiles[f]) = Kept(text[f])
                          /\ Verticals(EditedFiles[f]) = 0 /\ ~Has(EditedFiles[f], OldPaths)
    BY <2>2, PlannedTexts DEF ExtractionInv
  <2>6. Places' /\ NoMoreThanShipped'
    BY <1>0, <2>1, <2>4 DEF ExtractionInv, Places, NoMoreThanShipped
  <2>7. PlanFits'
    <3>1. \A s \in Range(SampleFiles) : sample'[s] # "edited"
      BY <1>0, <2>2 DEF SamplesAreShipped
    <3>2. \A op \in Range(Plan) : op.kind = "write" =>
            Kept(op.lines) = Kept(text[op.path]) /\ Verticals(op.lines) = 0 /\ ~Has(op.lines, OldPaths)
      BY <2>4, <2>5
    <3> QED
      BY <1>0, <2>1, <2>4, <3>1, <3>2 DEF PlanFits
  <2>8. DoneOrDue'
    <3>1. \A s \in Range(SampleFiles) : Due("copy", s)' /\ Due("delete", s)'
      BY <2>1, <2>4 DEF Due, Op
    <3>2. Due("drop", None)'
      BY <2>1, <2>4 DEF Due, Op
    <3>3. ASSUME NEW f \in Shared PROVE Verticals(text'[f]) = 0 \/ Due("write", f)'
      BY <1>0, <2>1, <2>4, <2>5 DEF Due
    <3> QED
      BY <3>1, <3>2, <3>3 DEF DoneOrDue
  <2>9. SweptOrDue'
    <3>1. \A f \in Shared : ~Has(text'[f], OldPaths) \/ Due("write", f)'
      BY <1>0, <2>1, <2>4, <2>5 DEF Due
    <3>2. \A t \in tools' : Due("delete", t)'
      BY <1>0, <2>1, <2>4 DEF Due, Op
    <3>3. \A n \in notes' : Due("sweep", n[1])'
      <4>1. \A n \in notes' : n[1] \in ToolDirs
        BY <1>0, <2>3 DEF Places
      <4>2. \A d \in ToolDirs : Due("sweep", d)'
        BY <2>1, <2>4 DEF Due, Op
      <4> QED
        BY <4>1, <4>2
    <3> QED
      BY <3>1, <3>2, <3>3 DEF SweptOrDue
  <2> QED
    BY <2>1, <2>6, <2>7, <2>8, <2>9 DEF ExtractionInv, WholePlan, Sweeping
<1> QED
  BY <1>1, <1>2

\* What is due stays due until it is the operation carried out.
LEMMA DueMoves ==
  ASSUME Places, remaining # <<>>, remaining' = Tail(remaining)
  PROVE  /\ Head(remaining) \in Range(remaining) /\ Head(remaining) \in Operations
         /\ remaining' \in Seq(Operations) /\ Range(remaining') \subseteq Range(remaining)
         /\ \A kind, path : Due(kind, path) =>
              Due(kind, path)' \/ (Head(remaining).kind = kind /\ Head(remaining).path = path)
<1>1. remaining \in Seq(Operations)
  BY DEF Places
<1>2. /\ Head(remaining) \in Range(remaining) /\ Tail(remaining) \in Seq(Operations)
      /\ Range(remaining) = {Head(remaining)} \cup Range(Tail(remaining))
  BY <1>1, RestOfPlan
<1>3. Head(remaining) \in Operations
  BY <1>1, HeadTailProperties
<1> QED
  BY <1>2, <1>3 DEF Due

\* One operation of the plan: what was due of it is done, and nothing else changes.
LEMMA ApplyPlanKeeps == ASSUME ExtractionInv, ApplyPlan PROVE ExtractionInv'
<1> DEFINE op == Head(remaining)
<1>0. /\ remaining # <<>> /\ remaining' = Tail(remaining)
      /\ Copy(op) \/ WriteDrop(op) \/ WriteShared(op) \/ Delete(op) \/ Sweep(op) \/ FollowUp(op)
      /\ kills' = kills
  BY DEF ApplyPlan
<1>1. Places /\ NoMoreThanShipped /\ PlanFits /\ WholePlan /\ SweptOrDue
  BY <1>0 DEF ExtractionInv, Sweeping
<1>2. /\ op \in Range(remaining) /\ op \in Operations
      /\ remaining' \in Seq(Operations) /\ Range(remaining') \subseteq Range(remaining)
      /\ \A kind, path : Due(kind, path) => Due(kind, path)' \/ (op.kind = kind /\ op.path = path)
  BY <1>0, <1>1, DueMoves
<1> HIDE DEF op
<1>3. /\ op.kind = "copy" => op.path \in Range(SampleFiles)
      /\ op.kind = "write" => /\ op.path \in Shared /\ op.lines \in Seq(STRING)
                              /\ Kept(op.lines) = Kept(text[op.path])
                              /\ Verticals(op.lines) = 0 /\ ~Has(op.lines, OldPaths)
  BY <1>1, <1>2 DEF PlanFits, Operations
<1>4. \A s \in Range(SampleFiles) : sample[s] # "edited"
  BY <1>0, <1>1 DEF PlanFits
<1>5. \A f \in Shared : /\ Verticals(text[f]) \in Nat /\ Verticals(Shipped[f]) \in Nat
                        /\ text[f] \in Seq(STRING)
  BY <1>1, ExtractionAssumption, VerticalsAre DEF Places, ExtractionAssumption
\* What each kind of operation leaves as it was.
<1>6. text' \in [Shared -> Seq(STRING)] /\ \A f \in Shared :
        text'[f] = text[f] \/ (op.kind = "write" /\ op.path = f /\ text'[f] = op.lines)
  <2>1. CASE WriteShared(op)
    <3>1. op.kind = "write" /\ text' = [text EXCEPT ![op.path] = op.lines]
      BY <2>1 DEF WriteShared
    <3> QED
      BY <1>1, <1>3, <3>1 DEF Places
  <2>2. CASE ~WriteShared(op)
    <3>1. text' = text
      BY <1>0, <2>2 DEF Copy, WriteDrop, Delete, Sweep, FollowUp
    <3> QED
      BY <1>1, <3>1 DEF Places
  <2> QED
    BY <2>1, <2>2
<1>7. /\ sample' \in [Range(SampleFiles) -> {"shipped", "edited", "gone"}]
      /\ \A s \in Range(SampleFiles) :
           \/ sample'[s] = sample[s] /\ ~(op.kind = "delete" /\ op.path = s)
           \/ sample'[s] = "gone"
  <2>1. CASE Delete(op)
    <3>1. op.kind = "delete" /\ sample' = [s \in Range(SampleFiles) |-> IF s = op.path THEN "gone" ELSE sample[s]]
      BY <2>1 DEF Delete
    <3> QED
      BY <1>1, <3>1 DEF Places
  <2>2. CASE ~Delete(op)
    <3>1. sample' = sample /\ op.kind # "delete"
      BY <1>0, <2>2 DEF Copy, WriteDrop, WriteShared, Sweep, FollowUp
    <3> QED
      BY <1>1, <3>1 DEF Places
  <2> QED
    BY <2>1, <2>2
<1>8. /\ scaffold' \subseteq Range(SampleFiles) /\ scaffold \subseteq scaffold'
      /\ op.kind = "copy" => op.path \in scaffold'
  <2>1. CASE Copy(op)
    <3>1. op.kind = "copy" /\ scaffold' = scaffold \cup {op.path}
      BY <2>1 DEF Copy
    <3> QED
      BY <1>1, <1>3, <3>1 DEF Places
  <2>2. CASE ~Copy(op)
    <3>1. scaffold' = scaffold /\ op.kind # "copy"
      BY <1>0, <2>2 DEF WriteDrop, WriteShared, Delete, Sweep, FollowUp
    <3> QED
      BY <1>1, <3>1 DEF Places
  <2> QED
    BY <2>1, <2>2
<1>9. /\ drop => drop'
      /\ op.kind = "drop" => drop'
      /\ op.kind = "write" => text'[op.path] = op.lines
  <2>1. CASE WriteShared(op)
    BY <1>1, <1>3, <2>1 DEF WriteShared, Places
  <2>2. CASE Copy(op)
    BY <2>2 DEF Copy
  <2>3. CASE WriteDrop(op)
    BY <2>3 DEF WriteDrop
  <2>4. CASE Sweep(op)
    BY <2>4 DEF Sweep
  <2>5. CASE Delete(op)
    BY <2>5 DEF Delete
  <2>6. CASE FollowUp(op)
    BY <2>6 DEF FollowUp
  <2> QED
    BY <1>0, <2>1, <2>2, <2>3, <2>4, <2>5, <2>6
<1>16. /\ tools' \subseteq tools /\ notes' \subseteq notes
       /\ op.kind = "delete" => op.path \notin tools'
       /\ op.kind = "sweep" => \A n \in notes' : n[1] # op.path
  <2>1. CASE Delete(op)
    BY <2>1 DEF Delete
  <2>2. CASE Sweep(op)
    <3>1. op.kind = "sweep" /\ tools' = tools \ {op.path} /\ notes' = notes \ ({op.path} \X BOOLEAN)
      BY <2>2 DEF Sweep
    <3>2. \A n \in notes : n = <<n[1], n[2]>> /\ n[2] \in BOOLEAN
      BY <1>1 DEF Places
    <3>3. \A n \in notes' : n[1] # op.path
      BY <3>1, <3>2
    <3> QED
      BY <3>1, <3>3
  <2>3. CASE ~Delete(op) /\ ~Sweep(op)
    <3>1. tools' = tools /\ notes' = notes /\ op.kind \notin {"delete", "sweep"}
      BY <1>0, <2>3 DEF Copy, WriteDrop, WriteShared, FollowUp
    <3> QED
      BY <3>1
  <2> QED
    BY <2>1, <2>2, <2>3
<1>10. Places'
  BY <1>0, <1>1, <1>2, <1>6, <1>7, <1>8, <1>16 DEF Places
<1>11. \A f \in Shared : /\ Kept(text'[f]) = Kept(text[f])
                         /\ Verticals(text'[f]) = Verticals(text[f]) \/ Verticals(text'[f]) = 0
  BY <1>3, <1>6
<1>12. NoMoreThanShipped'
  <2> SUFFICES ASSUME NEW f \in Shared PROVE Verticals(text'[f]) <= Verticals(Shipped[f])
    BY DEF NoMoreThanShipped
  <2>1. Verticals(text[f]) <= Verticals(Shipped[f])
    BY <1>1 DEF NoMoreThanShipped
  <2> QED
    BY <1>5, <1>11, <2>1
<1>13. PlanFits'
  <2>1. \A s \in Range(SampleFiles) : sample'[s] # "edited"
    BY <1>4, <1>7
  <2>2. ASSUME NEW o \in Range(remaining')
        PROVE  /\ o.kind = "copy" => o.path \in Range(SampleFiles)
               /\ o.kind = "write" => /\ Kept(o.lines) = Kept(text'[o.path])
                                      /\ Verticals(o.lines) = 0 /\ ~Has(o.lines, OldPaths)
    <3>1. o \in Range(remaining) /\ o \in Operations
      BY <1>1, <1>2, <2>2, RangeOfSeq DEF Places
    <3>2. o.kind = "write" => o.path \in Shared
      BY <3>1 DEF Operations
    <3>3. /\ o.kind = "copy" => o.path \in Range(SampleFiles)
          /\ o.kind = "write" => /\ Kept(o.lines) = Kept(text[o.path])
                                 /\ Verticals(o.lines) = 0 /\ ~Has(o.lines, OldPaths)
      BY <1>1, <3>1 DEF PlanFits
    <3> QED
      BY <1>11, <3>2, <3>3
  <2> QED
    BY <2>1, <2>2 DEF PlanFits
<1>14. DoneOrDue => DoneOrDue'
  <2> HAVE DoneOrDue
  <2>1. ASSUME NEW s \in Range(SampleFiles) PROVE s \in scaffold' \/ Due("copy", s)'
    <3>1. s \in scaffold \/ Due("copy", s)
      BY DEF DoneOrDue
    <3> QED
      BY <1>2, <1>8, <3>1
  <2>2. drop' \/ Due("drop", None)'
    <3>1. drop \/ Due("drop", None)
      BY DEF DoneOrDue
    <3> QED
      BY <1>2, <1>9, <3>1
  <2>3. ASSUME NEW f \in Shared PROVE Verticals(text'[f]) = 0 \/ Due("write", f)'
    <3>1. Verticals(text[f]) = 0 \/ Due("write", f)
      BY DEF DoneOrDue
    <3>2. CASE Verticals(text[f]) = 0
      BY <1>11, <3>2
    <3>3. CASE Due("write", f)
      <4>1. Due("write", f)' \/ (op.kind = "write" /\ op.path = f)
        BY <1>2, <3>3
      <4> QED
        BY <1>3, <1>9, <4>1
    <3> QED
      BY <3>1, <3>2, <3>3
  <2>5. ASSUME NEW s \in Range(SampleFiles) PROVE sample'[s] = "gone" \/ Due("delete", s)'
    <3>1. sample[s] = "gone" \/ Due("delete", s)
      BY DEF DoneOrDue
    <3> QED
      BY <1>2, <1>7, <3>1
  <2> QED
    BY <2>1, <2>2, <2>3, <2>5 DEF DoneOrDue
<1>15. WholePlan'
  <2>1. kills' = 0 => DoneOrDue'
    BY <1>0, <1>1, <1>14 DEF WholePlan
  <2> QED
    BY <2>1 DEF WholePlan
<1>17. SweptOrDue'
  <2>1. ASSUME NEW f \in Shared PROVE ~Has(text'[f], OldPaths) \/ Due("write", f)'
    <3>1. ~Has(text[f], OldPaths) \/ Due("write", f)
      BY <1>1 DEF SweptOrDue
    <3>2. CASE ~Has(text[f], OldPaths)
      BY <1>3, <1>6, <3>2
    <3>3. CASE Due("write", f)
      <4>1. Due("write", f)' \/ (op.kind = "write" /\ op.path = f)
        BY <1>2, <3>3
      <4> QED
        BY <1>3, <1>9, <4>1
    <3> QED
      BY <3>1, <3>2, <3>3
  <2>2. ASSUME NEW t \in tools' PROVE Due("delete", t)'
    <3>1. Due("delete", t)
      BY <1>1, <1>16 DEF SweptOrDue
    <3> QED
      BY <1>2, <1>16, <3>1
  <2>3. ASSUME NEW n \in notes' PROVE Due("sweep", n[1])'
    <3>1. Due("sweep", n[1])
      BY <1>1, <1>16 DEF SweptOrDue
    <3> QED
      BY <1>2, <1>16, <3>1
  <2> QED
    BY <2>1, <2>2, <2>3 DEF SweptOrDue
<1> QED
  BY <1>10, <1>12, <1>13, <1>15, <1>17 DEF ExtractionInv, Sweeping

\* A killed run: of a plan nothing is promised but that it takes nothing.
LEMMA KillExtractionKeeps == ASSUME ExtractionInv, KillExtraction PROVE ExtractionInv'
<1>1. /\ remaining' = <<>> /\ kills' = kills + 1 /\ said' = "killed"
      /\ UNCHANGED <<sample, text, scaffold, tools, notes>>
  BY DEF KillExtraction
<1>2. Places /\ NoMoreThanShipped
  BY DEF ExtractionInv
<1>3. Places' /\ kills' # 0
  <2>1. kills \in Nat
    BY <1>2 DEF Places
  <2>2. <<>> \in Seq(Operations)
    OBVIOUS
  <2> QED
    BY <1>1, <1>2, <2>1, <2>2 DEF Places
<1>4. NoMoreThanShipped'
  BY <1>1, <1>2 DEF NoMoreThanShipped
<1>5. PlanFits'
  <2>1. Range(<<>>) = {}
    BY DEF Range
  <2> QED
    BY <1>1, <2>1 DEF PlanFits
<1> QED
  BY <1>1, <1>3, <1>4, <1>5 DEF ExtractionInv, WholePlan, Sweeping, Finished

\* Between two runs nothing is due, so what is done or due is done.
LEMMA AtRestDone ==
  ASSUME remaining = <<>>
  PROVE  \A kind, path : ~Due(kind, path)
<1>1. Range(<<>>) = {}
  BY DEF Range
<1> QED
  BY <1>1 DEF Due

\* What a developer does to the files leaves the vertical as whole as it was.
LEMMA EditKeeps == ASSUME ExtractionInv, Edit PROVE ExtractionInv'
<1>0. /\ remaining = <<>> /\ said' = "edited"
      /\ UNCHANGED <<scaffold, drop, remaining, kills>>
  BY DEF Edit
<1>1. Places /\ NoMoreThanShipped /\ PlanFits /\ WholePlan
  BY DEF ExtractionInv
<1>2. /\ sample' \in [Range(SampleFiles) -> {"shipped", "edited", "gone"}]
      /\ \A s \in Range(SampleFiles) : sample'[s] = "gone" <=> sample[s] = "gone"
  <2>1. CASE \E s \in Range(SampleFiles) : sample[s] = "shipped" /\ sample' = [sample EXCEPT ![s] = "edited"]
    BY <1>1, <2>1 DEF Places
  <2>2. CASE sample' = sample
    BY <1>1, <2>2 DEF Places
  <2> QED
    BY <2>1, <2>2 DEF Edit
<1>3. text' \in [Shared -> Seq(STRING)] /\ \A f \in Shared : Verticals(text'[f]) <= Verticals(text[f])
  <2>0. \A f \in Shared : text[f] \in Seq(STRING) /\ Verticals(text[f]) \in Nat
    BY <1>1, VerticalsAre DEF Places
  <2>1. CASE text' = text
    BY <1>1, <2>0, <2>1 DEF Places
  <2>2. ASSUME NEW f \in Shared, NEW lines \in Seq(STRING), Verticals(lines) <= Verticals(text[f]),
               text' = [text EXCEPT ![f] = lines]
        PROVE  text' \in [Shared -> Seq(STRING)] /\ \A g \in Shared : Verticals(text'[g]) <= Verticals(text[g])
    <3>1. text' \in [Shared -> Seq(STRING)] /\ \A g \in Shared : text'[g] = IF g = f THEN lines ELSE text[g]
      BY <1>1, <2>2 DEF Places
    <3> QED
      BY <2>0, <2>2, <3>1
  <2>3. CASE \E f \in Shared : \E i \in 0..Len(text[f]) : \E line \in Mine :
               text' = [text EXCEPT ![f] = SubSeq(@, 1, i) \o <<line>> \o SubSeq(@, i + 1, Len(@))]
    <3>0. PICK f \in Shared : \E i \in 0..Len(text[f]) : \E line \in Mine :
            text' = [text EXCEPT ![f] = SubSeq(@, 1, i) \o <<line>> \o SubSeq(@, i + 1, Len(@))]
      BY <2>3
    <3>5. PICK i \in 0..Len(text[f]) : \E line \in Mine :
            text' = [text EXCEPT ![f] = SubSeq(@, 1, i) \o <<line>> \o SubSeq(@, i + 1, Len(@))]
      BY <3>0
    <3>1. PICK line \in Mine :
            text' = [text EXCEPT ![f] = SubSeq(@, 1, i) \o <<line>> \o SubSeq(@, i + 1, Len(@))]
      BY <3>5
    <3> DEFINE old == text[f]
               lines == SubSeq(old, 1, i) \o <<line>> \o SubSeq(old, i + 1, Len(old))
    <3>2. text' = [text EXCEPT ![f] = lines]
      BY <3>1
    <3>3. lines \in Seq(STRING) /\ Verticals(lines) = Verticals(old)
      <4>1. old \in Seq(STRING) /\ i \in 0..Len(old)
        BY <2>0
      <4> HIDE DEF old
      <4> QED
        BY <4>1, EditsCount
    <3>4. Verticals(lines) <= Verticals(text[f])
      BY <2>0, <3>3
    <3> HIDE DEF lines
    <3> QED
      BY <2>2, <3>2, <3>3, <3>4
  <2>4. CASE \E f \in Shared : \E i \in DOMAIN text[f] : text' = [text EXCEPT ![f] = RemoveAt(@, i)]
    <3>0. PICK f \in Shared : \E i \in DOMAIN text[f] : text' = [text EXCEPT ![f] = RemoveAt(@, i)]
      BY <2>4
    <3>1. PICK i \in DOMAIN text[f] : text' = [text EXCEPT ![f] = RemoveAt(@, i)]
      BY <3>0
    <3> DEFINE lines == RemoveAt(text[f], i)
    <3>2. text' = [text EXCEPT ![f] = lines]
      BY <3>1
    <3>3. lines \in Seq(STRING) /\ Verticals(lines) <= Verticals(text[f])
      <4>1. text[f] \in Seq(STRING) /\ i \in 1..Len(text[f])
        BY <2>0
      <4> QED
        BY <4>1, RemovalsCount
    <3> HIDE DEF lines
    <3> QED
      BY <2>2, <3>2, <3>3
  <2> QED
    BY <2>1, <2>3, <2>4 DEF Edit
<1>4. \A f \in Shared : /\ Verticals(text'[f]) \in Nat /\ Verticals(text[f]) \in Nat
                        /\ Verticals(Shipped[f]) \in Nat /\ Verticals(text'[f]) <= Verticals(text[f])
  <2>1. \A f \in Shared : text'[f] \in Seq(STRING) /\ text[f] \in Seq(STRING) /\ Shipped[f] \in Seq(STRING)
    BY <1>1, <1>3, ExtractionAssumption DEF Places, ExtractionAssumption
  <2> QED
    BY <1>3, <2>1, VerticalsAre
<1>11. tools' \subseteq Tools /\ notes' \subseteq ToolDirs \X BOOLEAN
  <2>1. tools' = tools \/ tools' = Tools
    BY DEF Edit
  <2>2. notes' = notes \/ \E d \in ToolDirs, tracked \in BOOLEAN : notes' = notes \cup {<<d, tracked>>}
    BY DEF Edit
  <2> QED
    BY <1>1, <2>1, <2>2 DEF Places
<1>5. Places'
  BY <1>0, <1>1, <1>2, <1>3, <1>11 DEF Places
<1>6. NoMoreThanShipped'
  <2> SUFFICES ASSUME NEW f \in Shared PROVE Verticals(text'[f]) <= Verticals(Shipped[f])
    BY DEF NoMoreThanShipped
  <2>1. Verticals(text[f]) <= Verticals(Shipped[f])
    BY <1>1 DEF NoMoreThanShipped
  <2> QED
    BY <1>4, <2>1
<1>7. PlanFits'
  <2>1. Range(<<>>) = {}
    BY DEF Range
  <2> QED
    BY <1>0, <2>1 DEF PlanFits
<1>8. Untouched => Untouched'
  BY <1>0, <1>2 DEF Untouched
<1>9. DoneOrDue => DoneOrDue'
  <2> HAVE DoneOrDue
  <2>1. /\ \A s \in Range(SampleFiles) : s \in scaffold /\ sample[s] = "gone"
        /\ drop /\ \A f \in Shared : Verticals(text[f]) = 0
    BY <1>0, AtRestDone DEF DoneOrDue
  <2>2. \A f \in Shared : Verticals(text'[f]) = 0
    BY <1>4, <2>1
  <2> QED
    BY <1>0, <1>2, <2>1, <2>2 DEF DoneOrDue
<1>10. WholePlan'
  BY <1>0, <1>1, <1>8, <1>9 DEF WholePlan
<1>12. Sweeping'
  BY <1>0 DEF Sweeping, Finished
<1> QED
  BY <1>5, <1>6, <1>7, <1>10, <1>12 DEF ExtractionInv

\* A step that changes none of what the invariant speaks of keeps it.
LEMMA SameFilesKeep ==
  ASSUME ExtractionInv, UNCHANGED <<sample, tools, text, notes, scaffold, drop, remaining, kills>>,
         said' = said \/ (remaining = <<>> /\ said' = "edited")
  PROVE  ExtractionInv'
<1>1. Places /\ NoMoreThanShipped /\ PlanFits /\ WholePlan /\ Sweeping
  BY DEF ExtractionInv
<1>2. Places' /\ NoMoreThanShipped' /\ PlanFits'
  BY <1>1 DEF Places, NoMoreThanShipped, PlanFits
<1>3. (DoneOrDue' <=> DoneOrDue) /\ (Untouched' <=> Untouched) /\ (SweptOrDue' <=> SweptOrDue)
  BY DEF DoneOrDue, SweptOrDue, Due, Untouched
<1>4. WholePlan'
  BY <1>1, <1>3 DEF WholePlan
<1>5. Sweeping'
  BY <1>1, <1>3 DEF Sweeping, Finished
<1> QED
  BY <1>2, <1>4, <1>5 DEF ExtractionInv

\* It holds of the template, and every step keeps it.
LEMMA ExtractionInvHolds == ExtractionSpec => []ExtractionInv
<1>1. ExtractionInit => ExtractionInv
  <2> SUFFICES ASSUME ExtractionInit PROVE ExtractionInv
    OBVIOUS
  <2>1. Shipped \in [Shared -> Seq(STRING)]
    BY ExtractionAssumption DEF ExtractionAssumption
  <2>2. \A f \in Shared : Verticals(Shipped[f]) \in Nat
    BY <2>1, VerticalsAre
  <2>3. remaining = <<>> /\ Range(<<>>) = {} /\ <<>> \in Seq(Operations)
    BY DEF ExtractionInit, Range
  <2>4. Places
    BY <2>1, <2>3 DEF ExtractionInit, Places
  <2>5. NoMoreThanShipped
    BY <2>2 DEF ExtractionInit, NoMoreThanShipped
  <2>6. PlanFits
    BY <2>3 DEF PlanFits
  <2>7. WholePlan
    BY <2>3 DEF ExtractionInit, WholePlan, Untouched
  <2>8. Sweeping
    BY DEF ExtractionInit, Sweeping, Finished
  <2> QED
    BY <2>4, <2>5, <2>6, <2>7, <2>8 DEF ExtractionInv
<1>2. ExtractionInv /\ [ExtractionNext]_extractionVars => ExtractionInv'
  <2> SUFFICES ASSUME ExtractionInv, [ExtractionNext]_extractionVars PROVE ExtractionInv'
    OBVIOUS
  <2>1. CASE RunInit
    BY <2>1, RunInitKeeps
  <2>2. CASE ApplyPlan
    BY <2>2, ApplyPlanKeeps
  <2>3. CASE KillExtraction
    BY <2>3, KillExtractionKeeps
  <2>4. CASE Edit
    BY <2>4, EditKeeps
  <2>5. CASE ReplaceIdentity
    BY <2>5, SameFilesKeep DEF ReplaceIdentity
  <2>6. CASE UNCHANGED extractionVars
    BY <2>6, SameFilesKeep DEF extractionVars
  <2> QED
    BY <2>1, <2>2, <2>3, <2>4, <2>5, <2>6 DEF ExtractionNext
<1> QED
  BY <1>1, <1>2, PTL DEF ExtractionSpec

\* Unless a run is killed, the vertical is there with all it needs or gone with all
\* that imports it, whatever the project edited before, between and after the runs;
\* and what a run leaves that came to its end is swept, after killed ones too.
THEOREM WholeOrGone == ExtractionSpec => []WholeUnlessKilled
<1>1. ExtractionInv => WholeUnlessKilled
  <2> SUFFICES ASSUME ExtractionInv, remaining = <<>>
               PROVE  /\ kills = 0 => (Untouched \/ TakenOut) /\ (ProductPasses => TakenOut)
                      /\ Finished => Swept
    BY DEF WholeUnlessKilled
  <2>1. DoneOrDue => TakenOut
    <3> HAVE DoneOrDue
    <3>1. /\ \A s \in Range(SampleFiles) : s \in scaffold /\ sample[s] = "gone"
          /\ drop /\ \A f \in Shared : Verticals(text[f]) = 0
      BY AtRestDone DEF DoneOrDue
    <3>2. \A f \in Shared : ~Has(text[f], Vertical)
      BY <3>1, VerticalsAre DEF ExtractionInv, Places
    <3>3. scaffold = Range(SampleFiles)
      BY <3>1 DEF ExtractionInv, Places
    <3> QED
      BY <3>1, <3>2, <3>3 DEF TakenOut, AllGone
  <2>2. kills = 0 => Untouched \/ DoneOrDue
    BY DEF ExtractionInv, WholePlan
  <2>3. kills = 0 => (ProductPasses => DoneOrDue)
    BY DEF ExtractionInv, WholePlan, ProductPasses
  <2>4. Finished => Swept
    <3> HAVE Finished
    <3>1. SweptOrDue
      BY DEF ExtractionInv, Sweeping
    <3> QED
      BY <3>1, AtRestDone DEF SweptOrDue, Swept
  <2> QED
    BY <2>1, <2>2, <2>3, <2>4
<1> QED
  BY <1>1, ExtractionInvHolds, PTL

\* A run of the extraction, killed or not, takes no line of the project's own from a
\* shared file but a sentence on the vertical, changes nothing in one but the place of a
\* moved file, and keeps their order; it takes no edited file of the vertical.
THEOREM WorkKept == ExtractionSpec => KeepsTheProjectsWork
<1> DEFINE Keeps == remaining # <<>> =>
             /\ \A f \in Shared : Kept(text'[f]) = Kept(text[f])
             /\ \A s \in Range(SampleFiles) : sample[s] = "edited" => sample'[s] = "edited"
<1>1. ExtractionInv /\ [ExtractionNext]_extractionVars => Keeps
  <2> SUFFICES ASSUME ExtractionInv, [ExtractionNext]_extractionVars, remaining # <<>> PROVE Keeps
    OBVIOUS
  <2>1. CASE ApplyPlan
    <3> DEFINE op == Head(remaining)
    <3>1. Copy(op) \/ WriteDrop(op) \/ WriteShared(op) \/ Delete(op) \/ Sweep(op) \/ FollowUp(op)
      BY <2>1 DEF ApplyPlan
    <3>2. op \in Range(remaining) /\ op \in Operations
      BY <2>1, DueMoves DEF ApplyPlan, ExtractionInv
    <3> HIDE DEF op
    <3>3. \A s \in Range(SampleFiles) : sample[s] # "edited"
      BY DEF ExtractionInv, PlanFits
    <3>4. \A f \in Shared : Kept(text'[f]) = Kept(text[f])
      <4>1. CASE WriteShared(op)
        <5>1. op.kind = "write" /\ text' = [text EXCEPT ![op.path] = op.lines]
          BY <4>1 DEF WriteShared
        <5>2. Kept(op.lines) = Kept(text[op.path])
          BY <3>2, <5>1 DEF ExtractionInv, PlanFits
        <5>3. text \in [Shared -> Seq(STRING)]
          BY DEF ExtractionInv, Places
        <5> QED
          BY <5>1, <5>2, <5>3
      <4>2. CASE ~WriteShared(op)
        BY <3>1, <4>2 DEF Copy, WriteDrop, Delete, Sweep, FollowUp
      <4> QED
        BY <4>1, <4>2
    <3> QED
      BY <3>3, <3>4
  <2>2. CASE ~ApplyPlan
    <3>1. text' = text /\ sample' = sample
      BY <2>2 DEF ExtractionNext, RunInit, KillExtraction, Edit, ReplaceIdentity, extractionVars
    <3> QED
      BY <3>1
  <2> QED
    BY <2>1, <2>2
<1> HIDE DEF Keeps
<1> QED
  BY <1>1, ExtractionInvHolds, PTL DEF ExtractionSpec, KeepsTheProjectsWork, Keeps
=============================================================================
