------------------------ MODULE MCDeadLetterReplay -------------------------
(***************************************************************************)
(* Instances of DeadLetterReplay for TLC: jobs j1 and j2 belong to the     *)
(* same call (a webhook and the periodic synchronisation queued it), j3 to *)
(* another one.                                                            *)
(***************************************************************************)
EXTENDS DeadLetterReplay

CONSTANTS c1, c2, j1, j2, j3

MCCallOf == [j \in Jobs |-> IF j = j3 THEN c2 ELSE c1]
=============================================================================
