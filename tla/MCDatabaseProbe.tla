--------------------------- MODULE MCDatabaseProbe ---------------------------
(* Small instances of DatabaseProbe for TLC. *)
EXTENDS DatabaseProbe, TLC

CONSTANTS r1, r2, p1, p2, old, head, next, blank

\* A database that is migrated to the revision before this code's, to this
\* code's, and to a later release's, and is then corrupted.
MCSchemas == << {}, {old}, {head}, {next}, {blank} >>

\* A deployment that has arrived.
MCSchemasShort == << {head} >>

Symmetry == Permutations(Requests) \cup Permutations(Probes)
=============================================================================
