-------------------------- MODULE MissionGeneration --------------------------
(***************************************************************************)
(* What docs/34 promises of the workflow generation of a parallel mission: *)
(* inside a generation every User Story only moves forward; a demonstrated *)
(* defect opens the next generation in ONE step, which sends the work that *)
(* was in flight back to READY and leaves nothing of the old generation    *)
(* in flight; a technical uncertainty blocks the mission in place.         *)
(***************************************************************************)
EXTENDS Naturals

CONSTANT Story

VARIABLES generation, phase, statuses

view == << generation, phase, statuses >>

InFlight == {"IN_PROGRESS", "IMPLEMENTED", "TESTING", "REVIEW", "CERTIFICATION",
             "REJECTED", "REMEDIATION_REQUIRED"}

Status == InFlight \cup {"PLANNED", "READY", "CERTIFIED"}

(* The transitions of one generation: there is no way back.                *)
Forward ==
    {<<"PLANNED", "READY">>, <<"READY", "IN_PROGRESS">>, <<"IN_PROGRESS", "IMPLEMENTED">>,
     <<"IMPLEMENTED", "TESTING">>, <<"TESTING", "REVIEW">>, <<"REVIEW", "CERTIFICATION">>,
     <<"CERTIFICATION", "CERTIFIED">>, <<"TESTING", "REJECTED">>, <<"REVIEW", "REJECTED">>,
     <<"CERTIFICATION", "REJECTED">>, <<"REJECTED", "REMEDIATION_REQUIRED">>}

GenerationInit ==
    /\ generation = 0 /\ phase = "ACTIVE"
    /\ statuses \in [Story -> {"PLANNED", "READY"}]

Work ==
    /\ \E s \in Story, to \in Status :
          /\ <<statuses[s], to>> \in Forward
          /\ statuses' = [statuses EXCEPT ![s] = to]
    /\ UNCHANGED << generation, phase >>

(* The stories that are sent back are the ones in flight and possibly some *)
(* that wait, never a CERTIFIED one.                                       *)
NewGeneration ==
    /\ phase = "ACTIVE" /\ phase' = "ACTIVE"
    /\ generation' = generation + 1
    /\ \E replay \in SUBSET Story :
          /\ \A s \in Story : statuses[s] \in InFlight => s \in replay
          /\ \A s \in replay : statuses[s] # "CERTIFIED"
          /\ statuses' = [s \in Story |-> IF s \in replay THEN "READY" ELSE statuses[s]]

Block ==
    /\ phase = "ACTIVE" /\ phase' = "BLOCKED"
    /\ UNCHANGED << generation, statuses >>

Resume ==
    /\ phase = "BLOCKED" /\ phase' = "ACTIVE"
    /\ UNCHANGED << generation, statuses >>

Complete ==
    /\ \A s \in Story : statuses[s] = "CERTIFIED"
    /\ phase' = "COMPLETED"
    /\ UNCHANGED << generation, statuses >>

GenerationNext == Work \/ NewGeneration \/ Block \/ Resume \/ Complete

GenerationSpec == GenerationInit /\ [][GenerationNext]_view
=============================================================================
