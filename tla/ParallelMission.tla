--------------------------- MODULE ParallelMission ---------------------------
(***************************************************************************)
(* The parallel mission workflow (parallel_mission_workflow.py) and its    *)
(* ledger of negative outcomes (_negative_outcome_store.py): groups of     *)
(* stories are prepared, implemented, gated, merged into the primary,      *)
(* tested, reviewed and certified; defects open a new generation and       *)
(* technical uncertainties block the mission, through a transaction over   *)
(* two stores that are written one after the other.                        *)
(*                                                                         *)
(* One workflow call runs at a time (the command line holds the operation  *)
(* lock); it may die between any two writes.  Callers keep what they were  *)
(* given last of each group and of each story and may present it at any    *)
(* later time.  Gate verdicts, merge results and role verdicts are choices *)
(* of the environment, and so is whether the primary is clean: a call that *)
(* needs it clean and finds it dirty is refused, or its merge is BLOCKED.  *)
(* The stories do not depend on each other: dependencies are in            *)
(* ControlPlane.  A fingerprint of a state is modelled by that state.      *)
(***************************************************************************)
EXTENDS Naturals, Sequences, FiniteSets

CONSTANTS
    Story,          \* the User Stories of the mission
    Planned,        \* the groups that a plan of the mission may hold
    None,           \* an absent optional value
    MaxGeneration,  \* bound: generations that are opened
    MaxGroups,      \* bound: groups that are prepared
    MaxOutcomes,    \* bound: negative outcomes that are recorded
    MaxHead,        \* bound: commits on the primary
    MaxNotes,       \* bound: facts that are recorded in the project state
    MaxFaults       \* bound: calls that die or fail

ASSUME BoundAssumption ==
    /\ None \notin Story
    /\ Planned \subseteq (SUBSET Story) \ {{}}
    /\ MaxGeneration \in Nat /\ MaxGroups \in Nat /\ MaxOutcomes \in Nat
    /\ MaxHead \in Nat /\ MaxNotes \in Nat /\ MaxFaults \in Nat

VARIABLES
    mission,      \* MissionState: generation, status, blocker, observed commit
    project,      \* ProjectState: the status of each story; how many other facts
    assignments,  \* the WorktreeRegistry
    primary,      \* the commits of the primary: the group each one merged
    ledger,       \* recorded and consumed negative outcomes, pending transaction
    prepared,     \* the groups that were handed to a caller
    attempts,     \* the integration attempts that were handed to a caller
    dossiers,     \* the story dossiers that were handed to a caller
    call,         \* the running call: where it stands and its local data
    faults,       \* how many calls have died or failed
    interrupted   \* history: the stories whose rejection was interrupted

vars == << mission, project, assignments, primary, ledger, prepared, attempts,
           dossiers, call, faults, interrupted >>

InFlight == {"IN_PROGRESS", "IMPLEMENTED", "TESTING", "REVIEW", "CERTIFICATION",
             "REJECTED", "REMEDIATION_REQUIRED"}

Status == InFlight \cup {"PLANNED", "READY", "CERTIFIED"}

(* What the stores and the callers hold.                                   *)
Groups == [group : SUBSET Story, generation : Nat, baseline : Nat]
Assignments == [story : Story, generation : Nat, baseline : Nat,
                status : {"PLANNED", "ACTIVE", "COMPLETED", "FAILED"}]
Attempts == [of : Groups, head : Nat,
             outcome : {"PASS", "FAIL", "UNKNOWN", "MERGED", "BLOCKED", "FAILED"}]
Dossiers == [story : Story, generation : Nat, commit : Nat, stage : Status, rejected : BOOLEAN]
Missions == [generation : Nat, status : {"ACTIVE", "BLOCKED", "COMPLETED"}, observed : Nat,
             blocker : {None, "MERGE_BLOCKED", "INTEGRATION_GATE_UNKNOWN"}]
Projects == [status : [Story -> Status], notes : Nat]
Stores == [mission : Missions, project : Projects]
Intents == [authority : Groups \cup Attempts \cup Dossiers, consume : BOOLEAN,
            before : Stores, after : Stores]

ASSUME NoneAssumption == None \notin Groups /\ None \notin Intents

Idle == [at |-> "idle", what |-> None]

Tip == Len(primary)

Init ==
    /\ mission = [generation |-> 0, status |-> "ACTIVE", blocker |-> None, observed |-> 0]
    /\ project = [status |-> [s \in Story |-> "PLANNED"], notes |-> 0]
    /\ assignments = {}
    /\ primary = << >>
    /\ ledger = [recorded |-> {}, consumed |-> {}, pending |-> None]
    /\ prepared = {} /\ attempts = {} /\ dossiers = {}
    /\ call = Idle /\ faults = 0 /\ interrupted = {}

(* Where a call stands; it begins when no other runs.                      *)
At(label) == call.at = label
Goto(label, what) == call' = [at |-> label, what |-> what]
Return == call' = Idle

(* _require_no_pending_transaction                                         *)
NoPending == ledger.pending = None
Free == At("idle") /\ NoPending

(* The primary is (clean) at the commit the mission has observed.          *)
AtObserved == Tip = mission.observed

(* _require_plan_identity: the group was planned for what is current now.  *)
Current(p) == p.generation = mission.generation /\ p.baseline = mission.observed

OfGroup(p) == {a \in assignments : /\ a.story \in p.group
                                   /\ a.generation = p.generation
                                   /\ a.baseline = p.baseline}

AllCompleted(p) ==
    \A s \in p.group : \E a \in OfGroup(p) : a.story = s /\ a.status = "COMPLETED"

(* The transition of one story, saved in the project state.                *)
Move(s, from, to) ==
    /\ project.status[s] = from
    /\ project' = [project EXCEPT !.status[s] = to]

Reassign(a, status) == assignments' = (assignments \ {a}) \cup {[a EXCEPT !.status = status]}
-----------------------------------------------------------------------------
(* prepare_group, of a group of the current plan or again of one whose     *)
(* assignments are all ACTIVE: for each member an assignment, PLANNED and  *)
(* then ACTIVE; then each member becomes READY and IN_PROGRESS.            *)
Claimed(s) ==
    \E a \in assignments : /\ a.story = s /\ a.status = "ACTIVE"
                           /\ a.generation = mission.generation
                           /\ a.baseline = mission.observed

PrepareGroup(group) ==
    /\ Free /\ Cardinality(prepared) < MaxGroups
    /\ \/ /\ mission.status = "ACTIVE" /\ AtObserved
          /\ \A s \in group : project.status[s] \in {"PLANNED", "READY"}
       \/ Tip = mission.observed /\ \A s \in group : Claimed(s)
    /\ Goto("assign", [of |-> [group |-> group, generation |-> mission.generation,
                               baseline |-> mission.observed], left |-> group])
    /\ UNCHANGED << mission, project, assignments, primary, ledger, prepared,
                    attempts, dossiers, faults, interrupted >>

Assign(s) ==
    LET p == call.what.of
        mine == {a \in OfGroup(p) : a.story = s}
        left == call.what.left \ {s}
    IN
    /\ At("assign") /\ s \in call.what.left
    /\ \/ /\ mine = {}
          /\ assignments' = assignments \cup
                 {[story |-> s, generation |-> p.generation, baseline |-> p.baseline,
                   status |-> "PLANNED"]}
          /\ UNCHANGED call
       \/ \E a \in mine :
             /\ \/ a.status = "PLANNED" /\ Reassign(a, "ACTIVE")
                \/ a.status = "ACTIVE" /\ UNCHANGED assignments
             /\ IF left = {} THEN Goto("start", [of |-> p, left |-> p.group])
                             ELSE Goto("assign", [of |-> p, left |-> left])
       \/ /\ \E a \in mine : a.status \in {"COMPLETED", "FAILED"}
          /\ Return /\ UNCHANGED assignments
    /\ UNCHANGED << mission, project, primary, ledger, prepared, attempts,
                    dossiers, faults, interrupted >>

Start(s) ==
    LET p == call.what.of
        left == call.what.left \ {s}
    IN
    /\ At("start") /\ s \in call.what.left
    /\ \/ Move(s, "PLANNED", "READY") /\ UNCHANGED << call, prepared >>
       \/ /\ \/ Move(s, "READY", "IN_PROGRESS")
             \/ project.status[s] = "IN_PROGRESS" /\ UNCHANGED project
          /\ IF left = {} THEN Return /\ prepared' = prepared \cup {p}
                          ELSE Goto("start", [of |-> p, left |-> left]) /\ UNCHANGED prepared
       \/ /\ project.status[s] \notin {"PLANNED", "READY", "IN_PROGRESS"}
          /\ Return /\ UNCHANGED << project, prepared >>
    /\ UNCHANGED << mission, assignments, primary, ledger, attempts, dossiers,
                    faults, interrupted >>

(* submit_member: the validated work is committed, the assignment is       *)
(* COMPLETED; fail_member and record_blocked_member: it is FAILED.         *)
EndMember(p, status) ==
    /\ Free /\ p \in prepared /\ Current(p) /\ mission.status = "ACTIVE"
    /\ \E a \in OfGroup(p) : a.status = "ACTIVE" /\ Reassign(a, status)
    /\ UNCHANGED << mission, project, primary, ledger, prepared, attempts,
                    dossiers, call, faults, interrupted >>

SubmitMember(p) == EndMember(p, "COMPLETED")
FailMember(p) == EndMember(p, "FAILED")
-----------------------------------------------------------------------------
(* A new attempt of a group takes the place of the one its caller had.     *)
Latest(t) == {u \in attempts : u.of # t.of} \cup {t}

(* evaluate_group: the verdict of the Integration Gate on a group; one     *)
(* with members that are not completed is never integrable.                *)
EvaluateGroup(p) ==
    /\ Free /\ p \in prepared /\ Current(p)
    /\ \E verdict \in {"PASS", "FAIL", "UNKNOWN"} :
          /\ verdict = "PASS" => AtObserved /\ AllCompleted(p)
          /\ attempts' = Latest([of |-> p, outcome |-> verdict, head |-> p.baseline])
    /\ UNCHANGED << mission, project, assignments, primary, ledger, prepared,
                    dossiers, call, faults, interrupted >>

(* _already_merged: the tip of the primary is exactly this integration.    *)
Promoted(p) == Tip > 0 /\ primary[Tip] = p

(* _record: a negative outcome is recorded once, even when it was consumed. *)
MayRefuse == Cardinality(ledger.recorded) < MaxOutcomes

Recorded(outcome) == [ledger EXCEPT !.recorded = @ \cup {outcome}]

(* MergeCoordinator.merge on a gated attempt: an integration that is       *)
(* already promoted is recognised; a moved or dirty primary, a gate that   *)
(* answers differently now, a broken staging area block it; a conflict     *)
(* fails it; otherwise the primary is fast-forwarded.                      *)
MergeGatedGroup(t) ==
    LET p == t.of
        refused(outcome) == [of |-> p, outcome |-> outcome, head |-> Tip]
    IN
    /\ Free /\ t \in attempts /\ t.outcome = "PASS" /\ AllCompleted(p)
    /\ \/ /\ IF Promoted(p) THEN UNCHANGED primary
             ELSE Tip = p.baseline /\ Tip < MaxHead /\ primary' = Append(primary, p)
          /\ Goto("observe", [of |-> p, outcome |-> "MERGED", head |-> Len(primary')])
          /\ UNCHANGED << ledger, attempts >>
       \/ \E outcome \in {"BLOCKED", "FAILED"} :
             /\ MayRefuse /\ outcome = "FAILED" => Tip = p.baseline
             /\ ledger' = Recorded(refused(outcome))
             /\ attempts' = Latest(refused(outcome))
             /\ UNCHANGED << primary, call >>
    /\ UNCHANGED << mission, project, assignments, prepared, dossiers, faults, interrupted >>

(* recover_merged_group: after a restart the promoted integration of a     *)
(* group of the current generation is recognised.                          *)
RecoverMergedGroup(p) ==
    /\ Free /\ Promoted(p) /\ p.generation = mission.generation /\ AllCompleted(p)
    /\ Goto("observe", [of |-> p, outcome |-> "MERGED", head |-> Tip])
    /\ UNCHANGED << mission, project, assignments, primary, ledger, prepared,
                    attempts, dossiers, faults, interrupted >>

(* _observe_new_primary: the mission follows the primary.                  *)
ObserveNewPrimary ==
    /\ At("observe")
    /\ mission' = [mission EXCEPT !.observed = call.what.head]
    /\ attempts' = Latest(call.what)
    /\ Return
    /\ UNCHANGED << project, assignments, primary, ledger, prepared, dossiers,
                    faults, interrupted >>
-----------------------------------------------------------------------------
(* Mutant: the MERGED result of the caller is believed.                    *)
AcceptImplementer_NotProven(t, s) ==
    /\ Free /\ t \in attempts /\ t.outcome = "PASS" /\ s \in t.of.group
    /\ project.status[s] \in {"IN_PROGRESS", "IMPLEMENTED", "TESTING"}
    /\ Goto("implemented", [of |-> t, story |-> s])
    /\ UNCHANGED << mission, project, assignments, primary, ledger, prepared,
                    attempts, dossiers, faults, interrupted >>

(* accept_integrated_implementer: merge is asked again to prove that the   *)
(* integration is the tip of the primary; when it is not, that call leaves *)
(* a BLOCKED outcome in the ledger.  The generation of the attempt is not  *)
(* compared with the one of the mission.                                   *)
AcceptImplementer(t, s) ==
    /\ Free /\ t \in attempts /\ t.outcome = "MERGED" /\ s \in t.of.group
    /\ \/ /\ Promoted(t.of) /\ Tip = t.head
          /\ project.status[s] \in {"IN_PROGRESS", "IMPLEMENTED", "TESTING"}
          /\ Goto("implemented", [of |-> t, story |-> s])
          /\ UNCHANGED ledger
       \/ /\ MayRefuse
          /\ ledger' = Recorded([of |-> t.of, outcome |-> "BLOCKED", head |-> Tip])
          /\ UNCHANGED call
    /\ UNCHANGED << mission, project, assignments, primary, prepared, attempts,
                    dossiers, faults, interrupted >>

Implemented ==
    /\ At("implemented")
    /\ \/ Move(call.what.story, "IN_PROGRESS", "IMPLEMENTED")
       \/ project.status[call.what.story] # "IN_PROGRESS" /\ UNCHANGED project
    /\ Goto("testing", call.what)
    /\ UNCHANGED << mission, assignments, primary, ledger, prepared, attempts,
                    dossiers, faults, interrupted >>

Dossier(s, t) == [story |-> s, generation |-> t.of.generation, commit |-> t.head,
                  stage |-> "TESTING", rejected |-> FALSE]

IntoTesting ==
    LET t == call.what.of
        s == call.what.story
    IN
    /\ At("testing")
    /\ \/ Move(s, "IMPLEMENTED", "TESTING")
       \/ project.status[s] = "TESTING" /\ UNCHANGED project
    /\ dossiers' = dossiers \cup {Dossier(s, t)}
    /\ Return
    /\ UNCHANGED << mission, assignments, primary, ledger, prepared, attempts,
                    faults, interrupted >>

(* _require_dossier: of the mission's generation and observed commit.      *)
Fresh(d) == AtObserved /\ d.generation = mission.generation /\ d.commit = mission.observed

(* The positive verdict of a role: accept_tester, accept_reviewer and the  *)
(* certification and promotion of submit_certifier.                        *)
NextStage == [TESTING |-> "REVIEW", REVIEW |-> "CERTIFICATION", CERTIFICATION |-> "CERTIFIED"]

AcceptRole(d) ==
    /\ Free /\ d \in dossiers /\ Fresh(d)
    /\ d.stage \in DOMAIN NextStage /\ ~d.rejected
    /\ Move(d.story, d.stage, NextStage[d.stage])
    /\ dossiers' = (dossiers \ {d}) \cup {[d EXCEPT !.stage = NextStage[d.stage]]}
    /\ UNCHANGED << mission, assignments, primary, ledger, prepared, attempts,
                    call, faults, interrupted >>

(* The negative verdict: _mark_remediation saves REJECTED and then         *)
(* REMEDIATION_REQUIRED; _record_negative_dossier makes it authoritative.  *)
RejectRole(d) ==
    /\ Free /\ d \in dossiers /\ Fresh(d)
    /\ d.stage \in DOMAIN NextStage /\ ~d.rejected /\ MayRefuse
    /\ Move(d.story, d.stage, "REJECTED")
    /\ Goto("rejected", [d EXCEPT !.rejected = TRUE])
    /\ UNCHANGED << mission, assignments, primary, ledger, prepared, attempts,
                    dossiers, faults, interrupted >>

RequireRemediation ==
    /\ At("rejected")
    /\ Move(call.what.story, "REJECTED", "REMEDIATION_REQUIRED")
    /\ Goto("record", call.what)
    /\ UNCHANGED << mission, assignments, primary, ledger, prepared, attempts,
                    dossiers, faults, interrupted >>

RecordNegativeDossier ==
    /\ At("record")
    /\ ledger' = Recorded(call.what)
    /\ dossiers' = (dossiers \ {[call.what EXCEPT !.rejected = FALSE]}) \cup {call.what}
    /\ Return
    /\ UNCHANGED << mission, project, assignments, primary, prepared, attempts,
                    faults, interrupted >>

(* record_evidence, evaluate_gate, apply_human_approval.                   *)
RecordFact ==
    /\ Free /\ project.notes < MaxNotes
    /\ project' = [project EXCEPT !.notes = @ + 1]
    /\ UNCHANGED << mission, assignments, primary, ledger, prepared, attempts,
                    dossiers, call, faults, interrupted >>
-----------------------------------------------------------------------------
(* The intent of a transaction holds both stores before and after.         *)
Now == [mission |-> mission, project |-> project]

Intent(authority, consume, after) ==
    [authority |-> authority, consume |-> consume, before |-> Now, after |-> after]

(* _claim writes the intent before either store; nothing is pending, and   *)
(* the authority to consume is recorded and not consumed: the callers ask. *)
Claim(authority, consume, after) ==
    /\ ledger' = [ledger EXCEPT !.pending = Intent(authority, consume, after)]
    /\ Goto("apply", None)
    /\ UNCHANGED << mission, project, assignments, primary, prepared, attempts,
                    dossiers, faults, interrupted >>

(* Mutant: only the stories of the failure are sent back.                  *)
Replay_OnlyTheFailure(initial) == {s \in initial : project.status[s] # "CERTIFIED"}

(* _start_remediation: the stories of the failure and every story with an  *)
(* assignment of this generation go back to READY, CERTIFIED ones apart.   *)
Replay(initial) ==
    {s \in Story : /\ project.status[s] # "CERTIFIED"
                   /\ \/ s \in initial
                      \/ \E a \in assignments : /\ a.story = s
                                                /\ a.generation = mission.generation}

(* Mutant: a story that was being judged stops before READY.               *)
Reexecuted_NotJudged(replay) ==
    [project EXCEPT !.status =
        [s \in Story |->
            IF s \notin replay THEN project.status[s]
            ELSE IF project.status[s] \in {"IMPLEMENTED", "TESTING", "REVIEW", "CERTIFICATION"}
            THEN "REMEDIATION_REQUIRED" ELSE "READY"]]

(* _ready_candidate_for_reexecution: through whatever statuses, to READY.  *)
Reexecuted(replay) ==
    [project EXCEPT !.status =
        [s \in Story |-> IF s \in replay THEN "READY" ELSE project.status[s]]]

StartRemediation(authority, consume, affected, initial) ==
    /\ Free /\ mission.status = "ACTIVE" /\ AtObserved
    /\ mission.generation < MaxGeneration
    /\ affected \subseteq Replay(initial)
    /\ Claim(authority, consume,
             [mission |-> [mission EXCEPT !.generation = @ + 1, !.blocker = None],
              project |-> Reexecuted(Replay(initial))])

Unconsumed(outcome) == outcome \in ledger.recorded \ ledger.consumed

(* remediate_failed_group: the registry proves the failure of a member.    *)
RemediateFailedGroup(p) ==
    LET failed == {a.story : a \in {b \in OfGroup(p) : b.status = "FAILED"}} IN
    /\ p \in prepared /\ Current(p) /\ failed # {}
    /\ StartRemediation(p, FALSE, failed, p.group)

(* remediate_integration: Gate FAIL, reproducible, or a recorded Merge     *)
(* FAILED whose primary has not moved.                                     *)
RemediateIntegration(t) ==
    /\ t \in attempts /\ Current(t.of)
    /\ \/ /\ t.outcome = "FAIL"
          /\ \E affected \in (SUBSET t.of.group) \ {{}} :
                StartRemediation(t, FALSE, affected, t.of.group)
       \/ /\ t.outcome = "FAILED" /\ Unconsumed(t) /\ Tip = t.head
          /\ StartRemediation(t, TRUE, t.of.group, t.of.group)

(* remediate_dossier: a recorded negative verdict of a role.               *)
RemediateDossier(d) ==
    /\ d \in dossiers /\ d.rejected /\ Fresh(d) /\ Unconsumed(d)
    /\ StartRemediation(d, TRUE, {d.story}, {d.story})

(* block_for_recovery: Gate UNKNOWN or a recorded Merge BLOCKED.           *)
BlockForRecovery(t) ==
    /\ Free /\ t \in attempts /\ Current(t.of)
    /\ mission.status = "ACTIVE" /\ AtObserved
    /\ \/ t.outcome = "UNKNOWN"
       \/ t.outcome = "BLOCKED" /\ Unconsumed(t) /\ Tip = t.head
    /\ Claim(t, t.outcome = "BLOCKED",
             [mission |-> [mission EXCEPT !.status = "BLOCKED", !.blocker =
                  IF t.outcome = "BLOCKED" THEN "MERGE_BLOCKED" ELSE "INTEGRATION_GATE_UNKNOWN"],
              project |-> project])

(* resume_recovery with a pending transaction: applies what is missing.    *)
ResumePending ==
    /\ At("idle") /\ ~NoPending
    /\ Goto("apply", None)
    /\ UNCHANGED << mission, project, assignments, primary, ledger, prepared,
                    attempts, dossiers, faults, interrupted >>

(* Mutants: only the stores before the transaction are recognised; only    *)
(* MissionState is compared.                                               *)
Recognised_OnlyBefore == Now = ledger.pending.before

Recognised_OnlyMission ==
    mission \in {ledger.pending.before.mission, ledger.pending.after.mission}

(* _apply_pending_transaction goes on only from stores that it recognises; *)
(* otherwise it answers BLOCKED_INCONSISTENT and repairs nothing.          *)
Recognised ==
    /\ project \in {ledger.pending.before.project, ledger.pending.after.project}
    /\ mission \in {ledger.pending.before.mission, ledger.pending.after.mission}

ApplyProject ==
    /\ At("apply")
    /\ IF Recognised THEN project' = ledger.pending.after.project /\ Goto("mission", None)
                     ELSE UNCHANGED project /\ Return
    /\ UNCHANGED << mission, assignments, primary, ledger, prepared, attempts,
                    dossiers, faults, interrupted >>

ApplyMission ==
    /\ At("mission")
    /\ mission' = ledger.pending.after.mission
    /\ Goto("finalize", None)
    /\ UNCHANGED << project, assignments, primary, ledger, prepared, attempts,
                    dossiers, faults, interrupted >>

(* _finalize: the outcome is consumed and the transaction is over.         *)
Finalize ==
    LET txn == ledger.pending IN
    /\ At("finalize") /\ Now = txn.after
    /\ ledger' = [ledger EXCEPT !.pending = None,
                                !.consumed = IF txn.consume THEN @ \cup {txn.authority} ELSE @]
    /\ Return
    /\ UNCHANGED << mission, project, assignments, primary, prepared, attempts,
                    dossiers, faults, interrupted >>

(* resume_recovery without one: leaves the technical block.                *)
ResumeRecovery ==
    /\ Free /\ mission.status = "BLOCKED" /\ mission.blocker # None /\ AtObserved
    /\ ~ \E a \in assignments : a.generation = mission.generation /\ a.status = "FAILED"
    /\ mission' = [mission EXCEPT !.status = "ACTIVE", !.blocker = None]
    /\ UNCHANGED << project, assignments, primary, ledger, prepared, attempts,
                    dossiers, call, faults, interrupted >>

FinalizeMission ==
    /\ Free
    /\ \A s \in Story : project.status[s] = "CERTIFIED"
    /\ mission' = [mission EXCEPT !.status = "COMPLETED", !.blocker = None, !.observed = Tip]
    /\ UNCHANGED << project, assignments, primary, ledger, prepared, attempts,
                    dossiers, call, faults, interrupted >>
-----------------------------------------------------------------------------
(* A call dies, or a write of it fails, before the step it stands at.      *)
Abort ==
    /\ ~At("idle") /\ faults < MaxFaults
    /\ faults' = faults + 1
    /\ interrupted' = IF call.at \in {"rejected", "record"}
                      THEN interrupted \cup {<< call.what.story, call.what.generation >>}
                      ELSE interrupted
    /\ Return
    /\ UNCHANGED << mission, project, assignments, primary, ledger, prepared,
                    attempts, dossiers >>

(* Between two calls somebody writes a fact into the project state, or     *)
(* commits on the primary.                                                 *)
OutsideChanges ==
    /\ At("idle")
    /\ \/ /\ project.notes < MaxNotes
          /\ project' = [project EXCEPT !.notes = @ + 1]
          /\ UNCHANGED primary
       \/ /\ Tip < MaxHead /\ primary' = Append(primary, None)
          /\ UNCHANGED project
    /\ UNCHANGED << mission, assignments, ledger, prepared, attempts, dossiers,
                    call, faults, interrupted >>

-----------------------------------------------------------------------------
Step == \/ \E s \in Story : Assign(s) \/ Start(s)
        \/ ObserveNewPrimary \/ Implemented \/ IntoTesting
        \/ RequireRemediation \/ RecordNegativeDossier
        \/ ApplyProject \/ ApplyMission \/ Finalize

Begin == \/ \E group \in Planned : PrepareGroup(group)
         \/ \E p \in prepared : \/ SubmitMember(p) \/ FailMember(p) \/ EvaluateGroup(p)
                               \/ RecoverMergedGroup(p) \/ RemediateFailedGroup(p)
         \/ \E t \in attempts : \/ MergeGatedGroup(t)
                               \/ \E s \in Story : AcceptImplementer(t, s)
                               \/ RemediateIntegration(t) \/ BlockForRecovery(t)
         \/ \E d \in dossiers : AcceptRole(d) \/ RejectRole(d) \/ RemediateDossier(d)
         \/ RecordFact \/ ResumePending \/ ResumeRecovery \/ FinalizeMission

Next == Begin \/ Step \/ Abort \/ OutsideChanges

Spec == Init /\ [][Next]_vars

(* A call that runs goes on; an operator resumes a pending transaction.    *)
FairSpec == Spec /\ WF_vars(Step) /\ WF_vars(ResumePending)
-----------------------------------------------------------------------------
(* Every store and every artefact has its type; what was consumed had been *)
(* recorded.                                                               *)
TypeOK ==
    /\ mission \in Missions /\ project \in Projects
    /\ assignments \subseteq Assignments
    /\ primary \in Seq(Groups \cup {None})
    /\ ledger \in [recorded : SUBSET (Attempts \cup Dossiers),
                   consumed : SUBSET (Attempts \cup Dossiers), pending : Intents \cup {None}]
    /\ ledger.consumed \subseteq ledger.recorded
    /\ prepared \subseteq Groups /\ attempts \subseteq Attempts /\ dossiers \subseteq Dossiers
    /\ faults \in 0 .. MaxFaults
    /\ interrupted \subseteq Story \X Nat

(* The pending transaction counts as done: what it leaves is decided.      *)
Decided == IF NoPending THEN Now ELSE ledger.pending.after

Generation == INSTANCE MissionGeneration
    WITH generation <- Decided.mission.generation,
         phase <- Decided.mission.status,
         statuses <- Decided.project.status

(* The two stores and the ledger, written one after the other by calls     *)
(* that die in between, behave as ONE record whose generation opens in one *)
(* step, that sends back all the work in flight and that no replay of the  *)
(* transaction opens twice (docs/34, restart-safe transaction).            *)
ImplementsGeneration == Generation!GenerationSpec

(* Work in flight has an assignment of the current generation, by which    *)
(* _start_remediation finds it; otherwise a new generation would leave it. *)
InFlightIsAssigned ==
    \A s \in Story : Decided.project.status[s] \in InFlight =>
        \E a \in assignments : a.story = s /\ a.generation = Decided.mission.generation

(* Whatever a story went through, it is tested, judged and certified only  *)
(* when a group that contains it was promoted on the primary.              *)
TestedIsIntegrated ==
    \A s \in Story : project.status[s] \notin {"PLANNED", "READY", "IN_PROGRESS"} =>
        \E i \in 1 .. Tip : primary[i] # None /\ s \in primary[i].group

(* While no rejection is being written, a rejected story can be remediated *)
(* by its own outcome, unless the call that rejected it died before it was *)
(* recorded: the outcome is recorded, is of this generation and is unused. *)
RejectionIsAuthorised ==
    call.at \notin {"rejected", "record"} /\ NoPending =>
        \A s \in Story : \/ project.status[s] \notin {"REJECTED", "REMEDIATION_REQUIRED"}
                         \/ << s, mission.generation >> \in interrupted
                         \/ \E d \in dossiers : /\ d.story = s /\ d.rejected
                                               /\ d.generation = mission.generation
                                               /\ Unconsumed(d)

(* Inside a transaction ProjectState is written first: MissionState never  *)
(* shows a generation whose stories have not been sent back.               *)
ProjectFirst ==
    ~NoPending /\ mission # ledger.pending.before.mission =>
        project.status = ledger.pending.after.project.status

(* A fact that somebody else wrote while a transaction was pending is not  *)
(* overwritten by the replay of the transaction (BLOCKED_INCONSISTENT).    *)
NothingOverwritten == [][project'.notes >= project.notes]_vars

(* A transaction that a crash left pending is brought to its end, unless   *)
(* somebody else wrote the project state in between.                       *)
PendingIsResolved ==
    ~NoPending ~> \/ NoPending
                  \/ project.notes # ledger.pending.before.project.notes
=============================================================================
