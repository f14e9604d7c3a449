------------------------------ MODULE MissionRun ------------------------------
(***************************************************************************)
(* The mission runner (mission_runner.py): one invocation of               *)
(* "mission run" or "mission resume" drives admission, planning,           *)
(* integration, verification and the story's roles from durable facts      *)
(* only.  Six stores are written one after the other: MissionState, the    *)
(* orchestration record, ProjectState, the execution ledgers, the worktree *)
(* registry and Git.  An invocation holds the operation lock, so there is  *)
(* one at a time; it may die between any two writes, and everything it     *)
(* knew is gone, but for the file of its lock.                             *)
(*                                                                         *)
(* The stories of a mission do not depend on each other and form one SAFE  *)
(* group (Planning has the general case).  A Codex result, an Integration  *)
(* Gate, a merge and a verification command answer what they like.         *)
(* Tester and Reviewer are asked about the first story of the group.       *)
(***************************************************************************)
EXTENDS Naturals, Sequences, FiniteSets

CONSTANTS
    UserStory,      \* the User Stories the Architect proposes
    Request,        \* the requests an operator may run
    None,           \* an absent optional value
    MaxGeneration,  \* bound: generations that remediations open
    MaxCrashes,     \* bound: invocations that die, lock files that stay
    MaxOutside      \* bound: commits of others on the primary

(* An execution by its role, story and generation; what a record remembers *)
(* of its group.  A mission is named by its request and the HEAD it was    *)
(* prepared at, for which one that ended long ago has None.                *)
Reference == [role : {"ARCHITECT", "IMPLEMENTER", "TESTER", "REVIEWER"}, subject : UserStory,
              generation : Nat]

Progress == [gate : BOOLEAN, integrated : BOOLEAN]

MissionState == [id : Request \X (Nat \cup {None}), generation : Nat,
                 status : {"ACTIVE", "BLOCKED", "TERMINAL"}, step : {"UNDERSTAND", "ACT"},
                 observed : Nat]

OrchestrationRecord == [id : Request \X Nat, generation : Nat, baseline : Nat,
                        planned : BOOLEAN, refs : SUBSET Reference,
                        progress : {None} \cup Progress]

ASSUME RunAssumption ==
    /\ UserStory # {}
    /\ None \notin UserStory \cup Request \cup Nat
    /\ None \notin MissionState \cup OrchestrationRecord \cup Progress
    /\ MaxGeneration \in Nat /\ MaxCrashes \in Nat /\ MaxOutside \in Nat

VARIABLES
    mission,      \* MissionState
    record,       \* OrchestrationRecord
    stories,      \* ProjectState: the status of each story
    consent,      \* ProjectState: the Human approval of the root story
    verified,     \* ProjectState: the command Evidence and the Gates of the stories
    ledger,       \* the executions of every ledger
    assignments,  \* the worktree registry
    primary,      \* the commits of the primary: the generation each one merged
    remedy,       \* the remediation transaction that is not over
    call,         \* the running invocation
    crashes,      \* how many invocations have died and lock files stayed
    negative,     \* history: some decision was not positive
    lost          \* history: a crash or another's commit left what no resume takes up

runVars == << mission, record, stories, consent, verified, ledger, assignments,
           primary, remedy, call, crashes, negative, lost >>

stateVars == << mission, record, stories, consent, verified, ledger, assignments,
                primary, remedy >>

(* The root story, and the story of a group that is tested first.          *)
First == CHOOSE s \in UserStory : TRUE
Lead == IF First \in call.group THEN First ELSE CHOOSE s \in call.group : TRUE

Tip == Len(primary)

NoCall == [at |-> "idle", then |-> "drive", remediate |-> FALSE, start |-> None,
           group |-> {}]

(* What an invocation may find: no mission, or one that has ended.         *)
Ended(r) == [id |-> << r, None >>, generation |-> 0, status |-> "TERMINAL", step |-> "ACT",
             observed |-> 0]

RunInit ==
    /\ mission \in {None} \cup {Ended(r) : r \in Request}
    /\ record = None
    /\ stories = [s \in UserStory |-> "ABSENT"] /\ consent = FALSE
    /\ verified = [evidence |-> {}, gates |-> {}]
    /\ ledger = {} /\ assignments = {} /\ primary = << >> /\ remedy = None
    /\ call = NoCall /\ crashes = 0 /\ negative = FALSE /\ lost = FALSE

At(label) == call.at = label
Goto(label) == call' = [call EXCEPT !.at = label]
Stop == call' = NoCall

(* Nobody holds the operation lock, but its file is there.                 *)
Locked == [NoCall EXCEPT !.at = "locked"]
Running == call.at \notin {"idle", "locked"}

Positive == UNCHANGED << crashes, negative, lost >>
Decides(good) == negative' = (negative \/ ~good) /\ UNCHANGED << crashes, lost >>
-----------------------------------------------------------------------------
(* The executions of this mission, by their deterministic request_id.      *)
Key(role, s) == [role |-> role, subject |-> s, generation |-> mission.generation]

StatusOf(role, s) == {e.status : e \in {x \in ledger : x.key = Key(role, s)}}

Validated(role, s) == \E v \in StatusOf(role, s) : v \notin {"RUNNING", "FAILED"}
Answered(role, s, verdict) == verdict \in StatusOf(role, s)

Launch(role, s) ==
    /\ StatusOf(role, s) = {}
    /\ ledger' = ledger \cup {[key |-> Key(role, s), status |-> "RUNNING"]}

(* The run ends: a VALIDATED result with its verdict, or no result.        *)
Finish(role, s, status) ==
    /\ Answered(role, s, "RUNNING")
    /\ ledger' = (ledger \ {[key |-> Key(role, s), status |-> "RUNNING"]})
                    \cup {[key |-> Key(role, s), status |-> status]}

Uncertain == \E e \in ledger : e.key.generation = mission.generation /\ e.status = "RUNNING"
-----------------------------------------------------------------------------
(* MissionReadinessPrecheck.evaluate and MissionLifecycleService.prepare:  *)
(* no mission, or one that ended at this HEAD with all its work terminal.  *)
Run(r) ==
    /\ At("idle")
    /\ mission # None => mission.status = "TERMINAL" /\ mission.observed = Tip
    /\ \A s \in UserStory : stories[s] = "ABSENT"
    /\ call' = [NoCall EXCEPT !.at = "record", !.start =
                   [id |-> << r, Tip >>, generation |-> 0, status |-> "ACTIVE",
                    step |-> "UNDERSTAND", observed |-> Tip]]
    /\ UNCHANGED stateVars /\ Positive

Fresh(m) == [id |-> m.id, generation |-> 0, baseline |-> m.observed, planned |-> FALSE,
             refs |-> {}, progress |-> None]

(* Mutant: the mission is committed before the intent is written.          *)
WriteRecord_MissionFirst ==
    /\ At("record")
    /\ mission' = call.start /\ Goto("commit")
    /\ UNCHANGED << record, stories, consent, verified, ledger, assignments, primary, remedy >>
    /\ Positive

(* MissionPlanningCoordinator.start: the intent, then the mission.         *)
WriteRecord ==
    /\ At("record")
    /\ record' = Fresh(call.start) /\ Goto("commit")
    /\ UNCHANGED << mission, stories, consent, verified, ledger, assignments, primary, remedy >>
    /\ Positive

CommitMission ==
    /\ At("commit")
    /\ mission' = call.start /\ Goto("plan")
    /\ UNCHANGED << record, stories, consent, verified, ledger, assignments, primary, remedy >>
    /\ Positive
-----------------------------------------------------------------------------
(* MissionPlanningCoordinator._continue before ACT: the Architect is asked *)
(* once; a VALIDATED result is used again, any other one stops planning.   *)
AskArchitect ==
    /\ At("plan") /\ mission.step = "UNDERSTAND"
    /\ IF Validated("ARCHITECT", First) THEN Goto("accept") /\ UNCHANGED ledger
       ELSE IF StatusOf("ARCHITECT", First) = {} /\ mission.status = "ACTIVE" /\ Tip = mission.observed
            THEN Launch("ARCHITECT", First) /\ Goto("architect")
            ELSE Stop /\ UNCHANGED ledger
    /\ UNCHANGED << mission, record, stories, consent, verified, assignments, primary, remedy >>
    /\ Positive

ArchitectEnds(status) ==
    /\ At("architect") /\ Finish("ARCHITECT", First, status)
    /\ IF status = "FAILED" THEN Stop ELSE Goto("accept")
    /\ UNCHANGED << mission, record, stories, consent, verified, assignments, primary, remedy >>
    /\ Decides(status = "READY")

(* accept_architect_plan: a plan never replaces a story; the stories are   *)
(* added, each becomes PLANNED, and only then the mission leaves planning. *)
AcceptPlan ==
    /\ At("accept")
    /\ \/ /\ Answered("ARCHITECT", First, "NEGATIVE")
          /\ mission' = [mission EXCEPT !.status = "BLOCKED"] /\ Stop /\ UNCHANGED stories
       \/ /\ ~Answered("ARCHITECT", First, "NEGATIVE") /\ UNCHANGED mission
          /\ IF \A s \in UserStory : stories[s] = "ABSENT"
             THEN stories' = [s \in UserStory |-> "PROPOSED"] /\ Goto("proposed")
             ELSE Stop /\ UNCHANGED stories
    /\ UNCHANGED << record, consent, verified, ledger, assignments, primary, remedy >>
    /\ Positive

PlanStory(s) ==
    /\ At("proposed") /\ stories[s] = "PROPOSED"
    /\ stories' = [stories EXCEPT ![s] = "PLANNED"]
    /\ IF \A t \in UserStory \ {s} : stories[t] = "PLANNED" THEN Goto("act") ELSE UNCHANGED call
    /\ UNCHANGED << mission, record, consent, verified, ledger, assignments, primary, remedy >>
    /\ Positive

LeavePlanning ==
    /\ At("act")
    /\ mission' = [mission EXCEPT !.step = "ACT"]
    /\ Goto(IF Answered("ARCHITECT", First, "APPROVAL") THEN "escalate" ELSE "reference")
    /\ UNCHANGED << record, stories, consent, verified, ledger, assignments, primary, remedy >>
    /\ Positive

WaitForHuman ==
    /\ At("escalate")
    /\ mission' = [mission EXCEPT !.status = "BLOCKED"] /\ Goto("reference")
    /\ UNCHANGED << record, stories, consent, verified, ledger, assignments, primary, remedy >>
    /\ Positive

(* The exact ledger reference completes the plan; after a crash that lost  *)
(* it, _recover_reference finds it again in the ledger.                    *)
ReferencePlan ==
    /\ \/ At("reference")
       \/ At("plan") /\ mission.step = "ACT"
    /\ record' = [record EXCEPT !.planned = TRUE, !.refs = @ \cup {Key("ARCHITECT", First)}]
    /\ Goto("authorize")
    /\ UNCHANGED << mission, stories, consent, verified, ledger, assignments, primary, remedy >>
    /\ Positive
-----------------------------------------------------------------------------
(* _ContinuationAdmissionBoundary.authorize, before every frontier.        *)
Coherent ==
    /\ record.id = mission.id /\ record.generation = mission.generation
    /\ Tip = mission.observed /\ ~Uncertain

Authorize ==
    /\ At("authorize")
    /\ IF Coherent
       THEN call' = [call EXCEPT !.at = "integrate", !.then =
                        IF @ = "certify" THEN @
                        ELSE IF record.progress = None THEN "drive" ELSE "verify"]
       ELSE Stop
    /\ UNCHANGED stateVars /\ Positive

(* claimed_assignment_ids                                                  *)
Claims == {a \in assignments : /\ a.id = record.id /\ a.generation = record.generation
                               /\ a.baseline = record.baseline}

Claimed == {a.story : a \in Claims}

(* What the Readiness Engine lets start: not a story that needs a Human.   *)
Ready == {s \in UserStory : /\ stories[s] \in {"PLANNED", "READY"}
                        /\ s = First /\ Answered("ARCHITECT", First, "APPROVAL") => consent}

InProgress == {"IN_PROGRESS", "IMPLEMENTED", "TESTING"}

(* Mutant: a group is taken up only while the primary is at its baseline.  *)
Reconstructible_AtBaseline ==
    /\ remedy = None /\ mission.status = "ACTIVE" /\ Ready \subseteq Claimed
    /\ \A a \in Claims : a.status \in {"ACTIVE", "COMPLETED"} /\ stories[a.story] \in InProgress
    /\ Tip = record.baseline

(* reconstruct_group: the claimed group is what would be planned today if  *)
(* its stories had not started.                                            *)
Reconstructible ==
    /\ remedy = None /\ mission.status = "ACTIVE" /\ Ready \subseteq Claimed
    /\ \A a \in Claims : a.status \in {"ACTIVE", "COMPLETED"} /\ stories[a.story] \in InProgress
    /\ Tip = record.baseline \/ \A a \in Claims : a.status = "COMPLETED"

(* plan_current on a primary nobody has worked on.                         *)
PlansNow ==
    /\ mission.observed = record.baseline /\ Tip = mission.observed
    /\ remedy = None /\ mission.status = "ACTIVE" /\ Ready # {}

Work(label, group) == call' = [call EXCEPT !.at = label, !.group = group]

(* MissionIntegrationCoordinator.resume: plan and prepare, or rebuild.     *)
Integrate ==
    /\ At("integrate")
    /\ IF Claims = {} /\ record.progress = None
       THEN IF PlansNow THEN Work("assign", Ready) ELSE Stop
       ELSE IF Reconstructible THEN Work("progress", Claimed) ELSE Stop
    /\ UNCHANGED stateVars /\ Positive

Assignment(s, status) == [id |-> record.id, story |-> s, generation |-> record.generation,
                          baseline |-> record.baseline, status |-> status]

(* prepare_group: every worktree is reserved and opened, then every story  *)
(* becomes READY and starts.                                               *)
Assign(s) ==
    /\ At("assign") /\ s \in call.group /\ Assignment(s, "ACTIVE") \notin assignments
    /\ \A t \in call.group \ {s} : Assignment(t, "PLANNED") \notin assignments
    /\ IF Assignment(s, "PLANNED") \in assignments
       THEN assignments' = (assignments \ {Assignment(s, "PLANNED")}) \cup {Assignment(s, "ACTIVE")}
       ELSE assignments' = assignments \cup {Assignment(s, "PLANNED")}
    /\ IF \A t \in call.group : Assignment(t, "ACTIVE") \in assignments' THEN Goto("start")
       ELSE UNCHANGED call
    /\ UNCHANGED << mission, record, stories, consent, verified, ledger, primary, remedy >>
    /\ Positive

Start(s) ==
    /\ At("start") /\ s \in call.group
    /\ \/ stories[s] = "READY"
       \/ stories[s] = "PLANNED" /\ \A t \in call.group : stories[t] # "READY"
    /\ stories' = [stories EXCEPT ![s] = IF @ = "PLANNED" THEN "READY" ELSE "IN_PROGRESS"]
    /\ IF \A t \in call.group : stories'[t] = "IN_PROGRESS" THEN Goto("progress")
       ELSE UNCHANGED call
    /\ UNCHANGED << mission, record, consent, verified, ledger, assignments, primary, remedy >>
    /\ Positive

RecordProgress ==
    /\ At("progress") /\ Goto("members")
    /\ record' = [record EXCEPT !.progress =
                     IF @ = None THEN [gate |-> FALSE, integrated |-> FALSE] ELSE @]
    /\ UNCHANGED << mission, stories, consent, verified, ledger, assignments, primary, remedy >>
    /\ Positive
-----------------------------------------------------------------------------
(* _reconstruct_members: without a validated execution the group is handed *)
(* to the executor, which launches no execution a second time; with one,   *)
(* what the ledger has is submitted.                                       *)
Members ==
    /\ At("members")
    /\ Goto(IF \E s \in call.group : Validated("IMPLEMENTER", s) THEN "submit" ELSE "implement")
    /\ UNCHANGED stateVars /\ Positive

(* execute_parallel_implementers: every member runs to its own end.        *)
LaunchMember(s) ==
    /\ At("implement") /\ Launch("IMPLEMENTER", s)
    /\ UNCHANGED << mission, record, stories, consent, verified, assignments, primary, remedy, call >>
    /\ Positive

MemberEnds(s, status) ==
    /\ At("implement") /\ Finish("IMPLEMENTER", s, status)
    /\ UNCHANGED << mission, record, stories, consent, verified, assignments, primary, remedy, call >>
    /\ Decides(status = "READY")

GroupEnds ==
    /\ At("implement")
    /\ \A s \in call.group : StatusOf("IMPLEMENTER", s) \notin {{}, {"RUNNING"}}
    /\ IF \A s \in call.group : Answered("IMPLEMENTER", s, "READY") THEN Goto("submit") ELSE Stop
    /\ UNCHANGED stateVars /\ Positive

(* submit_member, member after member, of those that are not COMPLETED     *)
(* yet: a result that is not READY is refused, and part of a group is      *)
(* never replayed.                                                         *)
Submit ==
    LET ready == {s \in call.group : Answered("IMPLEMENTER", s, "READY")}
        open == {a \in Claims : a.status = "ACTIVE" /\ a.story \in ready} IN
    /\ At("submit")
    /\ \/ \E a \in open : /\ UNCHANGED call
                          /\ assignments' = (assignments \ {a}) \cup {[a EXCEPT !.status = "COMPLETED"]}
       \/ /\ ready = call.group /\ \A a \in Claims : a.status = "COMPLETED"
          /\ Goto("refs") /\ UNCHANGED assignments
       \/ /\ ready # call.group
          /\ open = {} \/ \E s \in call.group : Answered("IMPLEMENTER", s, "NEGATIVE")
          /\ Stop /\ UNCHANGED assignments
    /\ UNCHANGED << mission, record, stories, consent, verified, ledger, primary, remedy >>
    /\ Positive

(* _persist_implementer_references                                         *)
ReferenceMembers ==
    /\ At("refs") /\ Goto("gate")
    /\ record' = [record EXCEPT !.refs = @ \cup {Key("IMPLEMENTER", s) : s \in call.group}]
    /\ UNCHANGED << mission, stories, consent, verified, ledger, assignments, primary, remedy >>
    /\ Positive
-----------------------------------------------------------------------------
Remediates == call.remediate /\ mission.generation < MaxGeneration
Refused(remediable) == IF remediable /\ Remediates THEN Goto("claim") ELSE Stop

Promoted == Tip > record.baseline /\ primary[Tip] = record.generation

(* Mutant: the Gate's answer is only remembered by the running call.       *)
Gate_NotDurable ==
    /\ At("gate")
    /\ \/ /\ Tip = record.baseline /\ Goto("merge") /\ Positive
       \/ /\ Tip # record.baseline /\ Positive
          /\ IF Promoted THEN Goto("observe") ELSE Stop
    /\ UNCHANGED stateVars

(* evaluate_group, whose PASS is durable before the merge; with a durable  *)
(* PASS resume_gated_group asks again at the baseline, and recognises the  *)
(* promoted group (recover_merged_group) anywhere else.                    *)
Gate ==
    /\ At("gate")
    /\ \/ /\ Tip = record.baseline /\ Goto("merge") /\ Positive
          /\ record' = [record EXCEPT !.progress.gate = TRUE]
       \/ /\ Refused(~record.progress.gate /\ Tip = record.baseline) /\ Decides(FALSE)
          /\ UNCHANGED record
       \/ /\ Tip # record.baseline /\ record.progress.gate /\ Positive /\ UNCHANGED record
          /\ IF Promoted THEN Goto("observe") ELSE Stop
    /\ UNCHANGED << mission, stories, consent, verified, ledger, assignments, primary, remedy >>

(* merge_gated_group: MERGED, or FAILED or BLOCKED.                        *)
Merge ==
    /\ At("merge")
    /\ \/ /\ Tip = record.baseline /\ Positive
          /\ primary' = Append(primary, record.generation) /\ Goto("observe")
       \/ \E failed \in BOOLEAN :
             /\ Refused(failed /\ Tip = record.baseline) /\ Decides(FALSE) /\ UNCHANGED primary
    /\ UNCHANGED << mission, record, stories, consent, verified, ledger, assignments, remedy >>

Observe ==
    /\ At("observe")
    /\ mission' = [mission EXCEPT !.observed = Tip] /\ Goto("integrated")
    /\ UNCHANGED << record, stories, consent, verified, ledger, assignments, primary, remedy >>
    /\ Positive

RecordIntegrated ==
    /\ At("integrated")
    /\ record' = [record EXCEPT !.progress.integrated = TRUE] /\ Goto("context")
    /\ UNCHANGED << mission, stories, consent, verified, ledger, assignments, primary, remedy >>
    /\ Positive

(* IntegratedStoryContext.reconstruct: one Architect and one Implementer   *)
(* reference of this generation, on the primary as it is.                  *)
Context ==
    /\ Key("ARCHITECT", First) \in record.refs
    /\ \A s \in call.group : Key("IMPLEMENTER", s) \in record.refs
    /\ Tip = mission.observed /\ \A a \in Claims : a.status = "COMPLETED"

(* accept_integrated_implementer, member after member.                     *)
AcceptIntegrated ==
    LET moving == {s \in call.group : stories[s] \in {"IN_PROGRESS", "IMPLEMENTED"}} IN
    /\ At("context")
    /\ \/ ~Context /\ Stop /\ UNCHANGED stories
       \/ Context /\ \E s \in moving :
             /\ stories' = [stories EXCEPT ![s] =
                               IF @ = "IN_PROGRESS" THEN "IMPLEMENTED" ELSE "TESTING"]
             /\ UNCHANGED call
       \/ /\ Context /\ moving = {} /\ UNCHANGED stories
          /\ Goto(IF call.then = "drive" THEN "authorize" ELSE call.then)
    /\ UNCHANGED << mission, record, consent, verified, ledger, assignments, primary, remedy >>
    /\ Positive
-----------------------------------------------------------------------------
(* Evidence is about one mission, generation, story and commit.            *)
Binding == << mission.id, mission.generation, Lead, mission.observed >>

Evidence == {e.result : e \in {x \in verified.evidence : x.of = Binding}}

(* VerificationCoordinator.verify, on the integrated commit: Evidence that *)
(* is durable is used again, otherwise the command runs; one that could    *)
(* not start leaves none.                                                  *)
Verify ==
    /\ At("verify")
    /\ \/ /\ Tip # mission.observed
          /\ Stop /\ UNCHANGED verified /\ Positive
       \/ /\ Tip = mission.observed /\ Evidence # {}
          /\ Goto("policy") /\ UNCHANGED verified /\ Positive
       \/ /\ Tip = mission.observed /\ Evidence = {} /\ Goto("policy")
          /\ \E result \in {"PASS", "FAIL"} :
                /\ verified' = [verified EXCEPT !.evidence = @ \cup {[of |-> Binding, result |-> result]}]
                /\ Decides(result = "PASS")
       \/ /\ Tip = mission.observed /\ Evidence = {} /\ Goto("policy")
          /\ UNCHANGED verified /\ Decides(FALSE)
    /\ UNCHANGED << mission, record, stories, consent, ledger, assignments, primary, remedy >>

(* The Gate of a story carries the Evidence it was evaluated from.         *)
Evaluated == [story |-> Lead, of |-> Binding,
              result |-> IF Evidence = {} THEN "UNKNOWN" ELSE CHOOSE e \in Evidence : TRUE]

(* _evaluate_policy: a persisted Gate of the story must be what is         *)
(* evaluated now, or verification stops with GATE_COLLISION; so it does    *)
(* for a story that was verified in an earlier generation.                 *)
EvaluatePolicy ==
    LET known == {g \in verified.gates : g.story = Lead} IN
    /\ At("policy")
    /\ IF known = {} THEN verified' = [verified EXCEPT !.gates = @ \cup {Evaluated}]
       ELSE UNCHANGED verified
    /\ IF known \subseteq {Evaluated} /\ Evaluated.result = "PASS"
       THEN call' = [call EXCEPT !.at = "authorize", !.then = "certify"]
       ELSE Stop
    /\ UNCHANGED << mission, record, stories, consent, ledger, assignments, primary, remedy >>
    /\ Positive
-----------------------------------------------------------------------------
(* MissionCertificationCoordinator.resume waits for the Tester: the runner *)
(* launches it once.                                                       *)
LaunchTester ==
    /\ At("certify") /\ ~Validated("TESTER", Lead)
    /\ IF StatusOf("TESTER", Lead) = {} THEN Launch("TESTER", Lead) /\ Goto("tester")
       ELSE Stop /\ UNCHANGED ledger
    /\ UNCHANGED << mission, record, stories, consent, verified, assignments, primary, remedy >>
    /\ Positive

TesterEnds(status) ==
    /\ At("tester") /\ Finish("TESTER", Lead, status)
    /\ IF status = "FAILED" THEN Stop ELSE Goto("authorize")
    /\ UNCHANGED << mission, record, stories, consent, verified, assignments, primary, remedy >>
    /\ Decides(status = "READY")

(* _restore_role: the reference is durable before the result is accepted.  *)
ReferenceTester ==
    /\ At("certify") /\ Validated("TESTER", Lead) /\ Key("TESTER", Lead) \notin record.refs
    /\ record' = [record EXCEPT !.refs = @ \cup {Key("TESTER", Lead)}]
    /\ UNCHANGED << mission, stories, consent, verified, ledger, assignments, primary, remedy, call >>
    /\ Positive

(* accept_tester: only a Tester whose execution the record refers to.      *)
AcceptTester ==
    /\ At("certify") /\ Key("TESTER", Lead) \in record.refs
    /\ \/ /\ Answered("TESTER", Lead, "READY") /\ Goto("review")
          /\ stories' = [stories EXCEPT ![Lead] = "REVIEW"]
       \/ /\ Answered("TESTER", Lead, "REMEDIATE") /\ Goto("rejected")
          /\ stories' = [stories EXCEPT ![Lead] = "REJECTED"]
       \/ Answered("TESTER", Lead, "NEGATIVE") /\ Stop /\ UNCHANGED stories
    /\ UNCHANGED << mission, record, consent, verified, ledger, assignments, primary, remedy >>
    /\ Positive

(* _mark_remediation and _record_negative_dossier; only a resume remediates. *)
RejectStory ==
    /\ At("rejected")
    /\ stories' = [stories EXCEPT ![Lead] = "REMEDIATION_REQUIRED"]
    /\ Refused(TRUE)
    /\ UNCHANGED << mission, record, consent, verified, ledger, assignments, primary, remedy >>
    /\ Positive

(* The story waits for its Reviewer, in the same invocation.               *)
LaunchReviewer ==
    /\ At("review") /\ Launch("REVIEWER", Lead) /\ Goto("reviewer")
    /\ UNCHANGED << mission, record, stories, consent, verified, assignments, primary, remedy >>
    /\ Positive

ReviewerEnds(status) ==
    /\ At("reviewer") /\ Finish("REVIEWER", Lead, status)
    /\ IF status = "FAILED" THEN Stop ELSE Goto("authorize")
    /\ UNCHANGED << mission, record, stories, consent, verified, assignments, primary, remedy >>
    /\ Decides(status = "READY")
-----------------------------------------------------------------------------
(* The remediation transaction of the parallel workflow (ParallelMission   *)
(* has its replay): intent, ProjectState, MissionState, end.               *)
ClaimRemediation ==
    /\ At("claim")
    /\ remedy' = mission.generation + 1 /\ Goto("apply")
    /\ UNCHANGED << mission, record, stories, consent, verified, ledger, assignments, primary >>
    /\ Positive

ReplayStories ==
    /\ At("apply")
    /\ stories' = [s \in UserStory |-> IF s \in Claimed THEN "READY" ELSE stories[s]]
    /\ Goto("apply_mission")
    /\ UNCHANGED << mission, record, consent, verified, ledger, assignments, primary, remedy >>
    /\ Positive

OpenGeneration ==
    /\ At("apply_mission")
    /\ mission' = [mission EXCEPT !.generation = @ + 1] /\ Goto("finalize")
    /\ UNCHANGED << record, stories, consent, verified, ledger, assignments, primary, remedy >>
    /\ Positive

EndRemediation ==
    /\ At("finalize")
    /\ remedy' = None /\ Goto("successor")
    /\ UNCHANGED << mission, record, stories, consent, verified, ledger, assignments, primary >>
    /\ Positive

Successor == [record EXCEPT !.generation = mission.generation, !.baseline = mission.observed,
                            !.progress = None]

(* for_remediation_generation: the record follows the mission.             *)
WriteSuccessor ==
    /\ At("successor") /\ record' = Successor
    /\ call' = [call EXCEPT !.at = "authorize", !.then = "drive", !.remediate = FALSE]
    /\ UNCHANGED << mission, stories, consent, verified, ledger, assignments, primary, remedy >>
    /\ Positive
-----------------------------------------------------------------------------
(* MissionRunner.resume: half a remediation is completed when it is        *)
(* exactly that; Human Evidence is applied; the rest is read back.         *)
ExactSuccessor ==
    /\ mission.generation = record.generation + 1 /\ mission.status = "ACTIVE"
    /\ Tip = mission.observed

Resume ==
    /\ At("idle") /\ mission # None /\ record # None /\ record.id = mission.id
    /\ mission.generation = record.generation \/ ExactSuccessor
    /\ record.planned \/ record.baseline = mission.observed
    /\ record' = IF mission.generation = record.generation THEN record ELSE Successor
    /\ \/ UNCHANGED consent
       \/ /\ stories[First] # "ABSENT" /\ Answered("ARCHITECT", First, "APPROVAL")
          /\ consent' = TRUE
    /\ call' = [NoCall EXCEPT !.at = IF record.planned THEN "authorize" ELSE "plan",
                              !.remediate = TRUE]
    /\ UNCHANGED << mission, stories, verified, ledger, assignments, primary, remedy >>
    /\ Positive
-----------------------------------------------------------------------------
(* Where a crash leaves what no later invocation takes up.                 *)
Stranding ==
    \/ At("architect") \/ At("tester") \/ At("reviewer")
    \/ At("proposed") \/ At("act")
    \/ (At("assign") \/ At("start")) /\ Claims # {}
    \/ /\ At("implement")
       /\ \E s \in call.group : StatusOf("IMPLEMENTER", s) # {}
       /\ \E s \in call.group : ~Answered("IMPLEMENTER", s, "READY")
    \/ At("observe")

(* The lock file of the dead invocation stays and refuses every other one. *)
Crash ==
    /\ Running /\ crashes < MaxCrashes
    /\ crashes' = crashes + 1 /\ call' = Locked
    /\ lost' = (lost \/ Stranding)
    /\ UNCHANGED << stateVars, negative >>

(* The file is created and its writing fails, or its removal does.         *)
LockStays ==
    /\ At("idle") /\ crashes < MaxCrashes
    /\ crashes' = crashes + 1 /\ call' = Locked
    /\ UNCHANGED << stateVars, negative, lost >>

(* RepositoryOperationLock claims no recovery: an operator removes the file. *)
RemoveLock ==
    /\ At("locked") /\ call' = NoCall
    /\ UNCHANGED stateVars /\ Positive

OutsideCommit ==
    /\ Cardinality({i \in 1 .. Tip : primary[i] = None}) < MaxOutside
    /\ primary' = Append(primary, None)
    /\ lost' = (lost \/ mission # None \/ Running)
    /\ UNCHANGED << mission, record, stories, consent, verified, ledger, assignments, remedy,
                    call, crashes, negative >>

Step ==
    \/ WriteRecord \/ CommitMission \/ AskArchitect \/ AcceptPlan \/ LeavePlanning
    \/ WaitForHuman \/ ReferencePlan
    \/ \E v \in {"READY", "APPROVAL", "NEGATIVE", "FAILED"} : ArchitectEnds(v)
    \/ Authorize \/ Integrate \/ RecordProgress \/ Members \/ GroupEnds \/ Submit
    \/ \E s \in UserStory : \/ PlanStory(s) \/ Assign(s) \/ Start(s) \/ LaunchMember(s)
                        \/ \E v \in {"READY", "NEGATIVE", "FAILED"} : MemberEnds(s, v)
    \/ ReferenceMembers \/ Gate \/ Merge \/ Observe \/ RecordIntegrated \/ AcceptIntegrated
    \/ Verify \/ EvaluatePolicy
    \/ LaunchTester \/ ReferenceTester \/ AcceptTester \/ RejectStory \/ LaunchReviewer
    \/ \E v \in {"READY", "REMEDIATE", "NEGATIVE", "FAILED"} : TesterEnds(v) \/ ReviewerEnds(v)
    \/ ClaimRemediation \/ ReplayStories \/ OpenGeneration \/ EndRemediation \/ WriteSuccessor

RunNext ==
    \/ (\E r \in Request : Run(r)) \/ Resume \/ Step
    \/ Crash \/ LockStays \/ RemoveLock \/ OutsideCommit

RunSpec == RunInit /\ [][RunNext]_runVars

(* An invocation goes on; an operator keeps resuming the mission and       *)
(* removes a lock file that belongs to nobody.                             *)
FairRun == RunSpec /\ WF_runVars(Step) /\ WF_runVars(Resume) /\ WF_runVars(RemoveLock)
-----------------------------------------------------------------------------
(* A mission that is under way can be resumed: the record holds its        *)
(* identity, and its generation or the one before (the half of a           *)
(* remediation that _reconcile_partial_remediation completes).             *)
ActiveIsRecorded ==
    mission # None /\ mission.status # "TERMINAL" =>
        /\ record # None /\ record.id = mission.id
        /\ mission.generation - record.generation \in {0, 1}

(* Work that reached the primary is recognised after any crash: the record *)
(* of its generation holds a positive Gate, the finished group it was made *)
(* of and a resolved reference to every execution (resume_gated_group).    *)
PromotionIsRecorded ==
    \A i \in 1 .. Tip : record # None /\ primary[i] = record.generation =>
        /\ record.progress # None /\ record.progress.gate
        /\ \A a \in Claims : /\ a.status = "COMPLETED"
                             /\ [role |-> "IMPLEMENTER", subject |-> a.story,
                                 generation |-> record.generation] \in record.refs
        /\ \A k \in record.refs : \E e \in ledger : e.key = k /\ e.status \notin {"RUNNING", "FAILED"}

(* A mission whose decisions are all positive is brought before its        *)
(* Reviewer by repeated resumes, wherever its invocations die, except at   *)
(* the points of Stranding and when others commit on the primary.          *)
ResumeReachesReview ==
    mission # None /\ mission.status = "ACTIVE" ~>
        negative \/ lost \/ \E s \in UserStory : stories[s] = "REVIEW"
=============================================================================
