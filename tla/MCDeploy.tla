-------------------------------- MODULE MCDeploy -------------------------------
(***************************************************************************)
(* Deploy for TLC: two replicas of the newest image and one of the image   *)
(* before the unique index, so that both the race for an empty database    *)
(* and the meeting of two images happen; a kill and a restart.             *)
(***************************************************************************)
EXTENDS Deploy

CONSTANTS c1, c2, c3

MCHead == [c \in Containers |-> IF c = c1 THEN 2 ELSE 3]
=============================================================================
