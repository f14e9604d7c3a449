---------------------------- MODULE Integration ----------------------------
(***************************************************************************)
(* From the implemented stories of a group to the primary: the mission's   *)
(* integration service (application/mission_integration.py), the           *)
(* coordinator (parallel_implementer_coordinator.py), the integration gate *)
(* (integration_gate.py) and the merge coordinator (merge_coordinator.py)  *)
(* over the worktrees of Worktrees.                                        *)
(*                                                                         *)
(* A run prepares the group or reconstructs it, submits what was           *)
(* implemented, evaluates the gate, stages one --no-ff merge per member in *)
(* a worktree of its own and moves the primary to the last one.  It keeps  *)
(* nothing but the registry, the orchestration record, the outcome and     *)
(* what Git holds: a run that ends early is resumed from those.            *)
(***************************************************************************)
EXTENDS Worktrees

VARIABLES
    record,    \* OrchestrationRecord and project: are the stories started, the gate
               \*   that passed (its fingerprint), is the group recorded as integrated
    staging,   \* the integration worktree: its commits since the baseline, None while
               \*   it does not exist; whether it is clean
    outcome,   \* the last unconsumed negative outcome: what it said, the primary it saw
    abandoned  \* remediation took the group's place: a new generation is open

integrationVars == << record, staging, outcome, abandoned >>
vars == << worktreeVars, record, staging, outcome, abandoned >>

Init ==
    /\ WorktreesInit
    /\ record = [started |-> FALSE, gate |-> None, integrated |-> FALSE]
    /\ staging = [commits |-> None, clean |-> TRUE]
    /\ outcome = None /\ abandoned = FALSE

Results == [s \in Story |-> registry[s].result]

(* The chain of merges that carries these results, in the order.           *)
Chain(results) == [i \in 1 .. Len(Order) |-> Merge(Order[i], results[Order[i]])]

Claimed == {s \in Story : registry[s].status \notin {"ABSENT", "CLEANED"}}

AtBaseline == primary.commits = Baseline

Unchanged == UNCHANGED << registry, branch, tree, validated, primary, outside >>
-----------------------------------------------------------------------------
(* prepare_group: of a group whose stories have not started, or again of   *)
(* one whose assignments are all ACTIVE.                                   *)
Prepare ==
    /\ At("idle") /\ ~abandoned /\ AtBaseline
    /\ ~record.started \/ \A s \in Story : registry[s].status = "ACTIVE"
    /\ Each("prepare")
    /\ Unchanged /\ UNCHANGED << faults, integrationVars >>

(* Every member is ACTIVE: the stories go IN_PROGRESS.                     *)
StartStories ==
    /\ At("prepare") /\ call.left = << >>
    /\ record' = [record EXCEPT !.started = TRUE]
    /\ Goto("members")
    /\ Unchanged /\ UNCHANGED << faults, staging, outcome, abandoned >>

(* resume: the claimed assignments are the group, each where it was left.  *)
Reconstruct ==
    /\ At("idle") /\ ~abandoned /\ ~record.integrated
    /\ record.started /\ Claimed = Story
    /\ \A s \in Story : Resumable(s) \/ StillCompleted(s)
    /\ primary.clean
    /\ AtBaseline \/ \A s \in Story : registry[s].status = "COMPLETED"
    /\ Goto("members")
    /\ Unchanged /\ UNCHANGED << faults, integrationVars >>

(* _reconstruct_members: all implemented, none, or a partial group.        *)
ReconstructMembers ==
    /\ At("members")
    /\ \/ validated = {} /\ Each("execute")
       \/ validated = Story /\ Each("submit")
       \/ validated \notin {{}, Story} /\ Return
    /\ Unchanged /\ UNCHANGED << faults, integrationVars >>

(* The group ran: it goes on when every member was validated.              *)
GroupExecuted ==
    /\ At("execute")
    /\ (validated = Story /\ Each("submit")) \/ Return
    /\ Unchanged /\ UNCHANGED << faults, integrationVars >>

(* A COMPLETED member of a resumed run: the registry's result is taken.    *)
TakeCompleted(s) ==
    /\ At("submit") /\ This(s) /\ registry[s].status = "COMPLETED"
    /\ Proceed("submit")
    /\ Unchanged /\ UNCHANGED << faults, integrationVars >>

(* complete_group; then the gate is evaluated, or evaluated again, or the  *)
(* promotion is recognised (resume_gated_group, recover_merged).           *)
CompleteGroup ==
    /\ At("submit") /\ call.left = << >>
    /\ IF \A s \in Story : registry[s].status = "COMPLETED"
       THEN \/ /\ record.gate = None
               /\ call' = [call EXCEPT !.at = "gate", !.purpose = "first", !.seen = Baseline]
            \/ /\ record.gate # None /\ AtBaseline
               /\ call' = [call EXCEPT !.at = "gate", !.purpose = "again", !.seen = Baseline]
            \/ /\ record.gate # None /\ ~AtBaseline /\ primary.clean
               /\ call' = [call EXCEPT !.at = "gate", !.purpose = "recover",
                                       !.seen = primary.commits]
            \/ record.gate # None /\ ~AtBaseline /\ ~primary.clean /\ Return
       ELSE Return
    /\ Unchanged /\ UNCHANGED << faults, integrationVars >>
-----------------------------------------------------------------------------
(* IntegrationGate.evaluate: the primary, each member, the primary again.  *)
(* FAIL dominates UNKNOWN, which dominates PASS.                           *)
Worst(verdicts) == IF "FAIL" \in verdicts THEN "FAIL"
                   ELSE IF "UNKNOWN" \in verdicts THEN "UNKNOWN" ELSE "PASS"

PrimaryVerdict(accepted) ==
    Worst({IF primary.commits \in {Baseline, accepted} THEN "PASS" ELSE "FAIL",
           IF primary.clean THEN "PASS" ELSE "UNKNOWN"})

Strays(commit) == \E i \in DOMAIN commit : commit[i] = "stray"

(* A member: one exact COMPLETED assignment, its worktree as it was        *)
(* completed, and Git's changed files those that were declared.            *)
MemberVerdict(s) ==
    Worst({IF StillCompleted(s) THEN "PASS" ELSE "FAIL",
           IF registry[s].result # None /\ Strays(registry[s].result) THEN "FAIL" ELSE "PASS",
           IF Reconciled THEN "PASS" ELSE "UNKNOWN"})

(* The whole evaluation when nothing moves meanwhile.                      *)
GateVerdict(accepted) ==
    Worst({PrimaryVerdict(accepted)} \cup {MemberVerdict(s) : s \in Story})

ObservePrimary ==
    /\ At("gate")
    /\ call' = [call EXCEPT !.at = "inspect", !.left = Order, !.before = primary,
                            !.verdict = PrimaryVerdict(call.seen)]
    /\ Unchanged /\ UNCHANGED << faults, integrationVars >>

InspectMember(s) ==
    /\ At("inspect") /\ This(s)
    /\ call' = [call EXCEPT !.left = Tail(@), !.verdict = Worst({@, MemberVerdict(s)})]
    /\ Unchanged /\ UNCHANGED << faults, integrationVars >>

(* The verdict; a PASS that must equal an earlier one carries its commits. *)
Verdict == IF primary = call.before THEN call.verdict ELSE Worst({call.verdict, "UNKNOWN"})

GatePasses == Verdict = "PASS" /\ (call.purpose # "first" => record.gate = Results)

FirstGate ==
    /\ At("inspect") /\ call.left = << >> /\ call.purpose = "first"
    /\ IF GatePasses
       THEN record' = [record EXCEPT !.gate = Results] /\ Goto("merge")
       ELSE Return /\ UNCHANGED record
    /\ Unchanged /\ UNCHANGED << faults, staging, outcome, abandoned >>

LaterGate ==
    /\ At("inspect") /\ call.left = << >> /\ call.purpose \in {"again", "recover"}
    /\ IF GatePasses THEN Goto("merge") ELSE Return
    /\ Unchanged /\ UNCHANGED << faults, integrationVars >>
-----------------------------------------------------------------------------
(* MergeCoordinator.merge answers, and records what is not MERGED.         *)
Answer(status, code, after) ==
    /\ outcome' = [status |-> status, code |-> code, after |-> after]
    /\ Return

Blocked(code) == Answer("BLOCKED", code, primary.commits) /\ UNCHANGED << faults, staging >>

(* _assignments                                                            *)
MembersMatch ==
    \A s \in Story : registry[s].status = "COMPLETED" /\ registry[s].result = record.gate[s]

TipsMatch == \A s \in Story : branch[s] = registry[s].result

(* Mutant: it is recognised only where nothing was promoted yet.           *)
AlreadyMerged_AtBaseline ==
    /\ MembersMatch /\ TipsMatch /\ AtBaseline
    /\ staging.commits # None /\ staging.commits = Chain(record.gate)

(* _already_merged                                                         *)
AlreadyMerged ==
    /\ MembersMatch /\ TipsMatch
    /\ staging.commits # None /\ staging.clean
    /\ primary.commits = staging.commits /\ primary.clean
    /\ staging.commits = Chain(record.gate)

StartMerge ==
    /\ At("merge")
    /\ \/ ~MembersMatch /\ Blocked("MEMBER_MISMATCH")
       \/ MembersMatch /\ AlreadyMerged /\ Goto("merged") /\ UNCHANGED << faults, staging, outcome >>
       \/ MembersMatch /\ ~AlreadyMerged /\ ~AtBaseline /\ Blocked("PRIMARY_DRIFT")
       \/ MembersMatch /\ AtBaseline /\ ~primary.clean /\ Blocked("PRIMARY_DIRTY")
       \/ /\ MembersMatch /\ AtBaseline /\ primary.clean
          /\ call' = [call EXCEPT !.at = "gate", !.purpose = "fresh", !.seen = Baseline]
          /\ UNCHANGED << faults, staging, outcome >>
    /\ Unchanged /\ UNCHANGED << record, abandoned >>

(* The supplied PASS is evaluated once more before anything is staged.     *)
FreshGate ==
    /\ At("inspect") /\ call.left = << >> /\ call.purpose = "fresh"
    /\ IF GatePasses
       THEN /\ call' = [call EXCEPT !.at = "stage", !.members = registry]
            /\ UNCHANGED << faults, staging, outcome >>
       ELSE Blocked("STALE_INTEGRATION_GATE")
    /\ Unchanged /\ UNCHANGED << record, abandoned >>

(* _prepare_integration_resource: made, or reused while it is pristine.    *)
PrepareStaging ==
    /\ At("stage")
    /\ IF staging.commits = None \/ staging = [commits |-> Baseline, clean |-> TRUE]
       THEN /\ staging' = [commits |-> Baseline, clean |-> TRUE]
            /\ Each("drift") /\ UNCHANGED << faults, outcome >>
       ELSE Blocked("TEMP_RESOURCE_DIVERGENCE")
    /\ Unchanged /\ UNCHANGED << record, abandoned >>

(* _pre_merge_drift, and _pre_promotion_drift once every member is merged. *)
Drift ==
    IF ~AtBaseline THEN "PRIMARY_DRIFT"
    ELSE IF ~primary.clean THEN "PRIMARY_DIRTY"
    ELSE IF staging # [commits |-> call.staged, clean |-> TRUE] THEN "TEMP_RESOURCE_DIVERGENCE"
    ELSE IF registry # call.members THEN "MEMBER_DRIFT"
    ELSE IF \E s \in Story : /\ branch[s] # registry[s].result
                             /\ call.left = << >> \/ This(s)
    THEN "MEMBER_DRIFT" ELSE None

CheckDrift ==
    /\ At("drift")
    /\ IF Drift # None THEN Blocked(Drift)
       ELSE IF call.left # << >> THEN Goto("member") /\ UNCHANGED << faults, staging, outcome >>
       ELSE Goto("promote") /\ UNCHANGED << faults, staging, outcome >>
    /\ Unchanged /\ UNCHANGED << record, abandoned >>

(* Mutant: what was staged is promoted whatever it was staged on.          *)
MergeMember_AnyHead(s) ==
    /\ At("member") /\ This(s) /\ staging.clean
    /\ LET merged == Append(staging.commits, Merge(s, record.gate[s])) IN
       /\ staging' = [staging EXCEPT !.commits = merged]
       /\ call' = [call EXCEPT !.at = "drift", !.left = Tail(@), !.staged = merged]
    /\ Unchanged /\ UNCHANGED << faults, record, outcome, abandoned >>

(* git merge --no-ff of the exact commit, onto whatever HEAD is by now; a  *)
(* staged chain that is not the gated one is not promoted.                 *)
MergeMember(s) ==
    /\ At("member") /\ This(s) /\ staging.clean
    /\ LET merged == Append(staging.commits, Merge(s, record.gate[s]))
           left == Tail(call.left) IN
       /\ staging' = [staging EXCEPT !.commits = merged]
       /\ IF left = << >> /\ merged # Chain(record.gate)
          THEN Answer("BLOCKED", "FINAL_STATE_INVALID", primary.commits)
          ELSE /\ call' = [call EXCEPT !.at = "drift", !.left = left, !.staged = merged]
               /\ UNCHANGED outcome
    /\ Unchanged /\ UNCHANGED << faults, record, abandoned >>

(* A conflict, which is aborted; or Git fails, before or after the merge.  *)
MergeMemberFails(s) ==
    /\ At("member") /\ This(s)
    /\ Fault \/ (~staging.clean /\ NoFault)
    /\ \/ UNCHANGED staging
       \/ staging' = [staging EXCEPT !.clean = FALSE]
       \/ /\ staging.clean
          /\ staging' = [staging EXCEPT !.commits = Append(@, Merge(s, record.gate[s]))]
    /\ Answer("FAILED", "GIT_OPERATION_FAILED", primary.commits)
    /\ Unchanged /\ UNCHANGED << record, abandoned >>

(* fast_forward: the old HEAD and a clean checkout are verified first ...  *)
CheckPromotion ==
    /\ At("promote")
    /\ IF AtBaseline /\ primary.clean
       THEN Goto("forward") /\ UNCHANGED << faults, staging, outcome >>
       ELSE Blocked("PROMOTION_FAILED")
    /\ Unchanged /\ UNCHANGED << record, abandoned >>

(* ... then git merge --ff-only moves the primary, if it still is one.     *)
Promote ==
    /\ At("forward") /\ AtBaseline
    /\ primary' = [primary EXCEPT !.commits = call.staged]
    /\ Goto("confirm")
    /\ UNCHANGED << registry, branch, tree, validated, faults, outside, integrationVars >>

PromoteFails ==
    /\ At("forward")
    /\ \/ Fault /\ AtBaseline /\ primary' = [primary EXCEPT !.commits = call.staged]
       \/ Fault /\ UNCHANGED primary
       \/ NoFault /\ ~AtBaseline /\ UNCHANGED primary
    /\ Answer("BLOCKED", "PROMOTION_FAILED", primary'.commits)
    /\ UNCHANGED << registry, branch, tree, validated, outside, record, staging, abandoned >>

(* merge, after the promotion: everything is what it should be, or FAILED. *)
ConfirmPromotion ==
    /\ At("confirm")
    /\ IF /\ primary = [commits |-> call.staged, clean |-> TRUE]
          /\ registry = call.members /\ TipsMatch
       THEN Goto("merged") /\ UNCHANGED outcome
       ELSE Answer("FAILED", "FINAL_STATE_INVALID", primary.commits)
    /\ Unchanged /\ UNCHANGED << faults, record, staging, abandoned >>

(* The mission observes the new primary, the record refers to it.          *)
RecordIntegration ==
    /\ At("merged")
    /\ record' = [record EXCEPT !.integrated = TRUE] /\ Return
    /\ Unchanged /\ UNCHANGED << faults, staging, outcome, abandoned >>
-----------------------------------------------------------------------------
(* _validate_negative_outcome of a FAILED merge: the primary is where the  *)
(* attempt left it, and the gate is evaluated once more and still passes.  *)
Remediable ==
    /\ outcome # None /\ outcome.status = "FAILED"
    /\ MembersMatch /\ GateVerdict(Baseline) = "PASS"
    /\ primary.commits = outcome.after

(* remediate_integration: the outcome is consumed, a generation is opened. *)
Remediate ==
    /\ At("idle") /\ ~abandoned /\ ~record.integrated /\ Remediable
    /\ abandoned' = TRUE /\ outcome' = None
    /\ Unchanged /\ UNCHANGED << call, faults, record, staging >>

(* Somebody else touches the integration worktree.                         *)
ChangeStaging ==
    /\ outside < MaxOutside /\ outside' = outside + 1 /\ staging.commits # None
    /\ \/ staging' = [staging EXCEPT !.commits = Append(@, Foreign)]
       \/ staging' = [staging EXCEPT !.clean = ~@]
    /\ UNCHANGED << registry, branch, tree, validated, primary, call, faults,
                    record, outcome, abandoned >>
-----------------------------------------------------------------------------
Step ==
    \/ StartStories \/ ReconstructMembers \/ GroupExecuted \/ CompleteGroup
    \/ ObservePrimary \/ FirstGate \/ LaterGate \/ StartMerge \/ FreshGate \/ PrepareStaging
    \/ CheckDrift \/ CheckPromotion \/ Promote \/ ConfirmPromotion \/ RecordIntegration
    \/ \E s \in Story : TakeCompleted(s) \/ InspectMember(s) \/ MergeMember(s)
    \/ (\E s \in Story : MemberStep(s)) /\ UNCHANGED integrationVars

Next ==
    \/ Step \/ Prepare \/ Reconstruct \/ Remediate \/ PromoteFails \/ ChangeStaging
    \/ \E s \in Story : MergeMemberFails(s)
    \/ (Crash \/ ChangeOutside) /\ UNCHANGED integrationVars
    \/ (\E s \in Story : MemberFault(s) \/ CleanupStep(s)) /\ UNCHANGED integrationVars

(* A run goes on until it ends, and the operator resumes the mission.      *)
Spec == Init /\ [][Next]_vars /\ WF_vars(Step) /\ WF_vars(Reconstruct)
-----------------------------------------------------------------------------
ResultCommit == Tip \cup {None}
Commits == Seq([of : Story \cup {None}, commit : ResultCommit])
Registries == [Story -> [status : AssignmentStatus, result : ResultCommit]]
Primaries == [commits : Commits, clean : BOOLEAN]
Verdicts == {"PASS", "FAIL", "UNKNOWN"}
Preparing == {"prepare", "activate", "activated", "members", "execute"}
Submitting == {"submit", "commit", "recognise", "complete"}
Merging == {"merge", "stage", "drift", "member", "promote", "forward"}
Calls == [at : {"idle", "cleaned", "gate", "inspect", "confirm", "merged"}
                 \cup Preparing \cup Submitting \cup Merging,
          left : Seq(Story), tip : Tip, purpose : {None, "first", "again", "recover", "fresh"},
          verdict : Verdicts \cup {None}, seen : Commits \cup {None},
          before : Primaries \cup {None}, members : Registries \cup {None}, staged : Commits]

TypeOK ==
    /\ registry \in Registries
    /\ branch \in [Story -> ResultCommit] /\ tree \in [Story -> TreeState]
    /\ validated \subseteq Story
    /\ primary \in Primaries
    /\ call \in Calls
    /\ record \in [started : BOOLEAN, gate : [Story -> ResultCommit] \cup {None},
                    integrated : BOOLEAN]
    /\ staging \in [commits : Commits \cup {None}, clean : BOOLEAN]
    /\ abandoned \in BOOLEAN /\ faults \in Nat /\ outside \in Nat

Merged == \E i \in DOMAIN primary.commits : primary.commits[i].of # None

(* However runs are cut short, resumed and disturbed, the primary gets the *)
(* members of the group all at once, in the canonical order, each at the   *)
(* commit the gate passed, and on the baseline the gate was evaluated on.  *)
PromotedIsGated ==
    Merged => /\ record.gate # None
              /\ Len(Order) <= Len(primary.commits)
              /\ \A i \in DOMAIN primary.commits :
                    primary.commits[i] =
                        IF i <= Len(Order) THEN Chain(record.gate)[i] ELSE Foreign

(* A submission that is repeated after the commit, with or without its     *)
(* answer, finds the commit and never makes a second one.                  *)
OneImplementation ==
    \A s \in Story : branch[s] # None =>
        \A i, j \in DOMAIN branch[s] : branch[s][i] = "impl" /\ branch[s][j] = "impl" => i = j

(* Git first and the registry second when a worktree is made, the other    *)
(* way round never: what is ACTIVE exists, what is CLEANED does not.       *)
RegistryIsBacked ==
    outside = 0 => \A s \in Story :
        /\ registry[s].status = "ACTIVE" => Bound(s) /\ branch[s] # None
        /\ registry[s].status = "CLEANED" => ~Bound(s)

(* A group whose FAILED merge was taken as the reason to implement it      *)
(* again has left nothing in the primary.                                  *)
AbandonedIsNotPromoted == abandoned => ~Merged

(* Once the gate has passed, and while nobody else interferes, resuming    *)
(* gets the group into the primary and into the record unless a staging    *)
(* was left half done, or remediation takes over, or a worktree is removed.*)
GatedIsSettled ==
    record.gate # None ~>
        \/ record.integrated \/ abandoned \/ outside > 0
        \/ ~Merged /\ staging \notin {[commits |-> None, clean |-> TRUE],
                                      [commits |-> Baseline, clean |-> TRUE]}
        \/ \E s \in Story : tree[s] = "none"
=============================================================================
