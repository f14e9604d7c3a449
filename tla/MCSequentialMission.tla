------------------------ MODULE MCSequentialMission ------------------------
(* Two callers, who do the same things.                                    *)
EXTENDS SequentialMission

CONSTANTS c1, c2
=============================================================================
