---------------------------- MODULE MCMutationRun -----------------------------
(***************************************************************************)
(* Instances of MutationRun: two defects in a file each, the two tiers of  *)
(* the shipped catalogue.                                                  *)
(***************************************************************************)
EXTENDS MutationRun

MCTiers == <<"fast", "e2e">>
MCFileOf == [d \in Defects |-> IF d = "d1" THEN "service.py" ELSE "domain.py"]
=============================================================================
