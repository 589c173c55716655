---------------------------- MODULE MCReadiness ----------------------------
(* Small instances of Readiness for TLC. *)
EXTENDS Readiness

CONSTANTS p1, p2, p3

Probing1 == [mode |-> "probe", llm_critical |-> TRUE, services |-> TRUE,
             llm_service |-> TRUE, database_enabled |-> TRUE, pool |-> TRUE]

\* A deployment that asks the provider and its database, one without a database,
\* and the ways an application can be put together without its parts.
MCSettings ==
  { Probing1,
    [Probing1 EXCEPT !.llm_critical = FALSE, !.database_enabled = FALSE],
    [Probing1 EXCEPT !.mode = "init", !.llm_critical = FALSE, !.pool = FALSE],
    [Probing1 EXCEPT !.mode = "mock", !.database_enabled = FALSE],
    [Probing1 EXCEPT !.llm_service = FALSE],
    [Probing1 EXCEPT !.services = FALSE] }
=============================================================================
