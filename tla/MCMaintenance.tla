--------------------------- MODULE MCMaintenance ---------------------------
(* Readings of the runs of Maintenance.                                *)
EXTENDS Maintenance, TLC

CONSTANT P2

Source(problems, healthy, recovered) ==
    [problems |-> problems, healthy |-> healthy, recovered |-> recovered]

(* Everything is clear, and a healed route; or the health is blocked.       *)
FewSources == {Source({}, TRUE, P2), Source({"REFUSAL"}, FALSE, Absent)}

SameProcesses == Permutations(Process)
=============================================================================
