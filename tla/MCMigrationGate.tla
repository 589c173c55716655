--------------------------- MODULE MCMigrationGate ----------------------------
(***************************************************************************)
(* Two worktrees on one database; two revisions that work, enough to fork, *)
(* one that does not, and a merge revision.                                *)
(***************************************************************************)
EXTENDS MigrationGate, TLC

Symmetry == Permutations(Worktrees) \cup Permutations(Changes \ Broken)
=============================================================================
