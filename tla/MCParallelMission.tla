------------------------- MODULE MCParallelMission -------------------------
(* Instances of the parallel mission workflow for the model checker. *)
EXTENDS ParallelMission
=============================================================================
