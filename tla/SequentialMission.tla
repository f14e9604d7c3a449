------------------------- MODULE SequentialMission -------------------------
(***************************************************************************)
(* The sequential mission: SequentialMissionWorkflow, the Orchestrator     *)
(* that routes it, the inputs and validators of the five roles and the     *)
(* runtime that carries their results (codex_e2e_runtime.py).              *)
(*                                                                         *)
(* A handler reads both states, validates the handoff and the result, and  *)
(* then writes the project several times and the mission once, each write  *)
(* loading the state again.  Nothing makes the writes one transaction, and *)
(* nothing keeps a second caller out: only the transition table and the    *)
(* exact predecessor that every mission write is bound to.                 *)
(***************************************************************************)
EXTENDS Naturals, Sequences

CONSTANTS
    Caller,   \* those who carry results to the workflow
    None,     \* an absent optional value
    MaxGen,   \* bound: remediations
    MaxHead   \* bound: how often the repository's HEAD moves

ASSUME BoundsAssumption == MaxGen \in Nat /\ MaxHead \in Nat /\ None \notin Caller

VARIABLES
    mission,    \* mission.json
    story,      \* the mission's subject in state.json: status and Human approval
    verdicts,   \* what the Certifications recorded for each commit allow
    head,       \* HEAD of the repository
    issued,     \* the handoffs that were given out
    calls,      \* Caller -> the writes its call has still to do, and the mission it read
    chain,      \* history: the results accepted since the last implementation
    disturbed   \* history: "overlap" of two calls, "accident": a call died or HEAD moved

vars == << mission, story, verdicts, head, issued, calls, chain, disturbed >>

(* _ROUTING_POLICY, for the steps a sequential mission gets to.            *)
RoleOf == [UNDERSTAND_CONTRACT |-> "ARCHITECT", ACT |-> "IMPLEMENTER", VERIFY |-> "TESTER",
           REPORT |-> "REVIEWER", CONTROLLED_TRANSITION |-> "CERTIFIER",
           RECONSTRUCT |-> "ORCHESTRATOR"]
StepOf == [ARCHITECT |-> "UNDERSTAND_CONTRACT", IMPLEMENTER |-> "ACT", TESTER |-> "VERIFY",
           REVIEWER |-> "REPORT", CERTIFIER |-> "CONTROLLED_TRANSITION"]
Role == DOMAIN StepOf

(* A role's report: what it claims, and what its own findings show.        *)
(* "fail" is a demonstrated failure, "unknown" something required that is  *)
(* not proven.                                                             *)
Verdict == {"READY", "REMEDIATION", "BLOCKED"}
Result == [role : Role, gen : Nat, commit : Nat, verdict : Verdict,
           fail : BOOLEAN, unknown : BOOLEAN]

ASSUME AbsentAssumption == None \notin Result

(* The status in which a story can be assigned to a role.                  *)
AssignableIn == [ARCHITECT |-> "ABSENT", IMPLEMENTER |-> "IN_PROGRESS", TESTER |-> "TESTING",
                 REVIEWER |-> "REVIEW", CERTIFIER |-> "CERTIFICATION"]

Allowed == {<< "PROPOSED", "PLANNED" >>, << "PLANNED", "READY" >>, << "READY", "IN_PROGRESS" >>,
            << "IN_PROGRESS", "IMPLEMENTED" >>, << "IN_PROGRESS", "BLOCKED" >>,
            << "IMPLEMENTED", "TESTING" >>, << "TESTING", "REVIEW" >>, << "TESTING", "REJECTED" >>,
            << "REVIEW", "CERTIFICATION" >>, << "REVIEW", "REJECTED" >>,
            << "CERTIFICATION", "REJECTED" >>, << "REJECTED", "REMEDIATION_REQUIRED" >>,
            << "REMEDIATION_REQUIRED", "READY" >>}

Idle(c) == calls[c].todo = << >>
Quiet == \A c \in Caller : Idle(c)

NoCall == [todo |-> << >>, mission |-> None]

Init ==
    /\ mission = [status |-> "ACTIVE", role |-> "ORCHESTRATOR", step |-> "UNDERSTAND_CONTRACT",
                  gen |-> 0, blocker |-> None, commit |-> 0]
    /\ story = [status |-> "ABSENT", required |-> FALSE, approved |-> FALSE]
    /\ verdicts = [k \in 0 .. MaxHead |-> "NONE"]
    /\ head = 0 /\ issued = {} /\ chain = << >> /\ disturbed = {}
    /\ calls = [c \in Caller |-> NoCall]

(* A call has read a mission and has these writes to do.                   *)
Goes(c, todo, m) ==
    calls' = [calls EXCEPT ![c] = IF todo = << >> THEN NoCall ELSE [todo |-> todo, mission |-> m]]

Begin(c, todo) ==
    /\ Goes(c, todo, mission)
    /\ disturbed' = disturbed \cup (IF \E d \in Caller \ {c} : ~Idle(d) THEN {"overlap"} ELSE {})

Op(c) == Head(calls[c].todo)
Doing(c, what) == ~Idle(c) /\ Op(c).do = what
Rest(c) == Tail(calls[c].todo)
Done(c) == Goes(c, Rest(c), calls[c].mission) /\ UNCHANGED disturbed
Instead(c, todo) == Goes(c, todo, calls[c].mission) /\ UNCHANGED disturbed

(* A write is refused: the call raises, what it wrote before stays.        *)
Raise(c) == calls' = [calls EXCEPT ![c] = NoCall] /\ UNCHANGED disturbed

To(status) == [do |-> "transition", value |-> status, by |-> None]
Accepting(status, result) == [do |-> "transition", value |-> status, by |-> result]
Save(m) == [do |-> "save", value |-> m, by |-> None]
Do(what) == [do |-> what, value |-> None, by |-> None]

(* _advance and _block                                                     *)
Advanced(step, gen) == [mission EXCEPT !.status = "ACTIVE", !.role = "ORCHESTRATOR",
                                       !.step = step, !.gen = gen, !.blocker = None]
BlockedBy(m, blocker) == [m EXCEPT !.status = "BLOCKED", !.role = "ORCHESTRATOR",
                                   !.blocker = blocker]

NeedsHuman == story.required /\ ~story.approved
-----------------------------------------------------------------------------
(* Orchestrator.orchestrate: another HEAD sends the mission back to        *)
(* RECONSTRUCT; a role that was routed already gets its handoff again.     *)
Handoff(to, from) == [to |-> to, from |-> from, gen |-> mission.gen, commit |-> head]

Route(c) ==
    /\ Idle(c) /\ mission.status = "ACTIVE" /\ ~NeedsHuman
    /\ LET step == IF head = mission.commit THEN mission.step ELSE "RECONSTRUCT"
           candidate == [mission EXCEPT !.role = RoleOf[step], !.step = step, !.commit = head] IN
       IF mission.role = RoleOf[step] /\ head = mission.commit
       THEN /\ issued' = issued \cup {Handoff(RoleOf[step], "ORCHESTRATOR")}
            /\ Begin(c, << >>)
       ELSE /\ Begin(c, << [do |-> "route", value |-> candidate,
                            by |-> Handoff(RoleOf[step], mission.role)] >>)
            /\ UNCHANGED issued
    /\ UNCHANGED << mission, story, verdicts, head, chain >>

RouteToHuman(c) ==
    /\ Idle(c) /\ mission.status = "ACTIVE" /\ NeedsHuman
    /\ Begin(c, << Save(BlockedBy(mission, "HUMAN_REQUIRED")) >>)
    /\ UNCHANGED << mission, story, verdicts, head, issued, chain >>
-----------------------------------------------------------------------------
(* What may be reported on a handoff.                                      *)
Report(h) == [role : {h.to}, gen : {h.gen}, commit : {h.commit}, verdict : Verdict,
              fail : BOOLEAN, unknown : BOOLEAN]

(* The validators: the claimed verdict must follow from the findings.      *)
Consistent(r) ==
    CASE r.verdict = "READY" -> ~r.fail /\ ~r.unknown
      [] r.verdict = "REMEDIATION" -> /\ r.role \in {"TESTER", "REVIEWER", "CERTIFIER"} /\ r.fail
                                      /\ r.role = "TESTER" => ~r.unknown
      [] r.verdict = "BLOCKED" -> r.role = "CERTIFIER" => ~r.fail

(* Mutant: the generation of the handoff is not compared.                  *)
StageOf_AnyGen(h) ==
    /\ mission.status = "ACTIVE" /\ mission.role = h.to /\ mission.step = StepOf[h.to]
    /\ h.from = "ORCHESTRATOR" /\ h.commit = mission.commit

(* _require_stage                                                          *)
StageOf(h) ==
    /\ mission.status = "ACTIVE" /\ mission.role = h.to /\ mission.step = StepOf[h.to]
    /\ h.from = "ORCHESTRATOR" /\ h.gen = mission.gen /\ h.commit = mission.commit

(* The earlier results a role's input is built from: of this generation    *)
(* and commit, the Architect's perhaps of an earlier generation.  Only a    *)
(* READY Certifier must have a coherent dossier.                           *)
Answered(role, h) == \E i \in issued : i.to = role /\ i.commit = h.commit /\ i.gen = h.gen
Planned(h) == \E i \in issued : i.to = "ARCHITECT" /\ i.commit = h.commit /\ i.gen <= h.gen
TesterInput(h) == Answered("IMPLEMENTER", h)
ReviewerInput(h) == Answered("IMPLEMENTER", h) /\ Answered("TESTER", h)
CertifierInput(h) == ReviewerInput(h) /\ Answered("REVIEWER", h) /\ Planned(h)

Presentable(h, r) ==
    /\ h.to = "TESTER" => TesterInput(h)
    /\ h.to = "REVIEWER" => ReviewerInput(h)
    /\ h.to = "CERTIFIER" /\ r.verdict = "READY" => CertifierInput(h)

(* Mutant: the Reviewer's input takes the story in any status.             *)
Assignable_Review(h, r) == h.to # "REVIEWER" => story.status = AssignableIn[h.to]

(* A blocked Architect proposes no story, so that one may be there; and of *)
(* the Certifier's reports only READY needs the approval of a Human.       *)
Assignable(h, r) ==
    /\ \/ h.to = "ARCHITECT" /\ r.verdict = "BLOCKED"
       \/ story.status = AssignableIn[h.to]
    /\ NeedsHuman => h.to = "ARCHITECT" \/ (h.to = "CERTIFIER" /\ r.verdict # "READY")

(* _remediate                                                              *)
Remediation ==
    << To("REJECTED"), To("REMEDIATION_REQUIRED"), To("READY"), To("IN_PROGRESS"),
       Save(Advanced("ACT", mission.gen + 1)) >>

(* What accepting a READY result writes, in the order of the handlers.     *)
ArchitectWrites(human) ==
    LET add == [do |-> "add", value |-> human, by |-> None]
        save == Save(Advanced("ACT", mission.gen)) IN
    IF human THEN << add, To("PLANNED"), To("READY"), save, Do("escalate") >>
    ELSE << add, To("PLANNED"), To("READY"), To("IN_PROGRESS"), save >>

ImplementerWrites(r) ==
    << Accepting("IMPLEMENTED", r), To("TESTING"), Save(Advanced("VERIFY", mission.gen)) >>

TesterWrites(r) == << Accepting("REVIEW", r), Save(Advanced("REPORT", mission.gen)) >>

(* Mutant: the mission stays at the review.                                *)
ReviewerWrites_StayAtReport(r) ==
    << Accepting("CERTIFICATION", r), Save(Advanced("REPORT", mission.gen)) >>

ReviewerWrites(r) ==
    << Accepting("CERTIFICATION", r), Save(Advanced("CONTROLLED_TRANSITION", mission.gen)) >>

ReadyWrites(r, human) ==
    CASE r.role = "ARCHITECT" -> ArchitectWrites(human)
      [] r.role = "IMPLEMENTER" -> ImplementerWrites(r)
      [] r.role = "TESTER" -> TesterWrites(r)
      [] r.role = "REVIEWER" -> ReviewerWrites(r)
      [] r.role = "CERTIFIER" -> << Do("certify") >>

(* A blocked Implementer blocks the story too.  A blocker is a free text,  *)
(* which may ask for a Human.                                              *)
BlockedWrites(r, blocker) ==
    LET save == Save(BlockedBy(mission, blocker)) IN
    IF r.role = "IMPLEMENTER" THEN << To("BLOCKED"), save >> ELSE << save >>

(* accept_architect, accept_implementer, accept_tester, accept_reviewer    *)
(* and submit_control_plane, up to their first write.                      *)
Accept(c, h, r, human, blocker) ==
    /\ Idle(c)
    /\ StageOf(h) /\ Assignable(h, r) /\ Presentable(h, r) /\ Consistent(r)
    /\ h.to = "CERTIFIER" => head = mission.commit
    /\ \/ r.verdict = "READY" /\ Begin(c, ReadyWrites(r, human))
       \/ r.verdict = "REMEDIATION" /\ mission.gen < MaxGen /\ Begin(c, Remediation)
       \/ r.verdict = "BLOCKED" /\ Begin(c, BlockedWrites(r, blocker))
    /\ UNCHANGED << mission, story, verdicts, head, issued, chain >>

(* Any result Codex was ever asked for may be presented.                   *)
Present(c) ==
    \E h \in issued : h.to \in Role /\
        \E r \in Report(h) :
            \E human \in IF h.to = "ARCHITECT" THEN BOOLEAN ELSE {FALSE},
               blocker \in IF r.verdict = "BLOCKED" THEN {"HUMAN_REQUIRED", "OTHER"} ELSE {None} :
                Accept(c, h, r, human, blocker)

(* resume_after_human_approval, of a positive Human Evidence.              *)
ResumeAfterHuman(c) ==
    /\ Idle(c) /\ mission.status = "BLOCKED" /\ mission.blocker = "HUMAN_REQUIRED"
    /\ head = mission.commit
    /\ Begin(c, << Do("approve"), Do("claim"), Save(Advanced("ACT", mission.gen)) >>)
    /\ UNCHANGED << mission, story, verdicts, head, issued, chain >>
-----------------------------------------------------------------------------
(* ControlLoop.add_user_stories                                            *)
AddStory(c) ==
    /\ Doing(c, "add")
    /\ IF story.status = "ABSENT"
       THEN story' = [status |-> "PROPOSED", required |-> Op(c).value, approved |-> FALSE] /\ Done(c)
       ELSE Raise(c) /\ UNCHANGED story
    /\ UNCHANGED << mission, verdicts, head, issued, chain >>

(* _transition: whatever the status is by now, the table decides.          *)
Transition(c) ==
    /\ Doing(c, "transition")
    /\ IF << story.status, Op(c).value >> \in Allowed
       THEN /\ story' = [story EXCEPT !.status = Op(c).value] /\ Done(c)
            /\ chain' = IF Op(c).by = None THEN chain
                        ELSE IF Op(c).by.role = "IMPLEMENTER" THEN << Op(c).by >>
                        ELSE Append(chain, Op(c).by)
       ELSE Raise(c) /\ UNCHANGED << story, chain >>
    /\ UNCHANGED << mission, verdicts, head, issued >>

(* _save_mission: authorised for the exact mission that was read; a        *)
(* routing write is followed by its handoff.                               *)
SaveMission(c) ==
    /\ Doing(c, "save") \/ Doing(c, "route")
    /\ IF mission \in {calls[c].mission, Op(c).value}
       THEN /\ mission' = Op(c).value
            /\ Goes(c, Rest(c), Op(c).value)
            /\ issued' = IF Op(c).do = "route" THEN issued \cup {Op(c).by} ELSE issued
            /\ UNCHANGED disturbed
       ELSE Raise(c) /\ UNCHANGED << mission, issued >>
    /\ UNCHANGED << story, verdicts, head, chain >>

(* The route that follows a story waiting for a Human.                     *)
Escalate(c) ==
    /\ Doing(c, "escalate")
    /\ IF mission.status = "ACTIVE" /\ NeedsHuman
       THEN /\ Goes(c, << Save(BlockedBy(mission, "HUMAN_REQUIRED")) >>, mission)
            /\ UNCHANGED disturbed
       ELSE Done(c)
    /\ UNCHANGED << mission, story, verdicts, head, issued, chain >>

(* HumanApprovalService.apply: an approval is never replaced.              *)
Approve(c) ==
    /\ Doing(c, "approve")
    /\ IF NeedsHuman THEN story' = [story EXCEPT !.approved = TRUE] /\ Done(c)
       ELSE Raise(c) /\ UNCHANGED story
    /\ UNCHANGED << mission, verdicts, head, issued, chain >>

Claim(c) ==
    /\ Doing(c, "claim") /\ Done(c)
    /\ story' = IF story.status = "READY" THEN [story EXCEPT !.status = "IN_PROGRESS"] ELSE story
    /\ UNCHANGED << mission, verdicts, head, issued, chain >>

(* _apply_certification_outcome                                            *)
OutcomeWrites(m, verdict) ==
    CASE verdict = "CERTIFIED" ->
             << Do("promote"), Save([m EXCEPT !.status = "COMPLETED", !.step = "REPORT"]) >>
      [] verdict = "REJECTED" ->
             << To("REJECTED"), To("REMEDIATION_REQUIRED"), To("READY"), To("IN_PROGRESS"),
                Save([m EXCEPT !.role = "ORCHESTRATOR", !.step = "ACT", !.gen = @ + 1]) >>
      [] verdict = "BLOCKED" -> << Save(BlockedBy(m, "OTHER")) >>

(* certify_user_story: a Certification is added, and what follows is its   *)
(* verdict's; a second one of a commit makes that commit ambiguous.        *)
Certify(c, verdict) ==
    /\ Doing(c, "certify") /\ story.status # "ABSENT"
    /\ verdict = "REJECTED" => mission.gen < MaxGen
    /\ verdicts' = [verdicts EXCEPT ![calls[c].mission.commit] =
                        IF @ = "NONE" /\ verdict = "CERTIFIED" THEN "CERTIFIED" ELSE "BARRED"]
    /\ Instead(c, OutcomeWrites(calls[c].mission, verdict))
    /\ UNCHANGED << mission, story, head, issued, chain >>

(* The transition to CERTIFIED, of the one Certification of the commit.    *)
Promote(c) ==
    /\ Doing(c, "promote")
    /\ IF story.status = "CERTIFICATION" /\ verdicts[calls[c].mission.commit] = "CERTIFIED"
       THEN story' = [story EXCEPT !.status = "CERTIFIED"] /\ Done(c)
       ELSE Raise(c) /\ UNCHANGED story
    /\ UNCHANGED << mission, verdicts, head, issued, chain >>

(* The process dies between two writes.                                    *)
Crash(c) ==
    /\ ~Idle(c)
    /\ calls' = [calls EXCEPT ![c] = NoCall] /\ disturbed' = disturbed \cup {"accident"}
    /\ UNCHANGED << mission, story, verdicts, head, issued, chain >>

MoveHead ==
    /\ head < MaxHead /\ head' = head + 1 /\ disturbed' = disturbed \cup {"accident"}
    /\ UNCHANGED << mission, story, verdicts, issued, calls, chain >>

Write(c) ==
    \/ AddStory(c) \/ Transition(c) \/ SaveMission(c) \/ Escalate(c) \/ Approve(c) \/ Claim(c)
    \/ Promote(c) \/ \E verdict \in {"CERTIFIED", "REJECTED", "BLOCKED"} : Certify(c, verdict)

Next ==
    \/ MoveHead
    \/ \E c \in Caller : \/ Route(c) \/ RouteToHuman(c) \/ Present(c) \/ ResumeAfterHuman(c)
                         \/ Write(c) \/ Crash(c)

(* A call that was made goes on; somebody keeps routing the mission and    *)
(* bringing results until one is accepted.                                 *)
Spec ==
    /\ Init /\ [][Next]_vars
    /\ \A c \in Caller : WF_vars(Write(c))
    /\ WF_vars(\E c \in Caller : Route(c) \/ RouteToHuman(c))
    /\ WF_vars(\E c \in Caller : Present(c))
-----------------------------------------------------------------------------
(* A story is CERTIFIED on one implementation, one test report and one     *)
(* review of the mission's own generation, accepted in this order after    *)
(* each other, whatever old results are brought: for calls one at a time,  *)
(* and also for two that overlap.  A third could slip a result of another  *)
(* generation in between; the command line's lock keeps calls apart.       *)
CertifiedOnOneChain ==
    story.status = "CERTIFIED" =>
        /\ Len(chain) = 3
        /\ \A i \in 1 .. 3 : /\ chain[i].role = << "IMPLEMENTER", "TESTER", "REVIEWER" >>[i]
                             /\ chain[i].gen = mission.gen /\ chain[i].commit = chain[1].commit

(* The states agree: the story is where the mission's step expects it.     *)
Agrees ==
    \/ mission.step = "RECONSTRUCT"
    \/ story.status = AssignableIn[RoleOf[mission.step]]
    \/ mission.step = "ACT" /\ story.status = "READY" /\ NeedsHuman

(* Once the two states disagree, because a call died between its writes or *)
(* two calls crossed, no result is accepted, a blocked Architect excepted, *)
(* which only stops the mission: whatever a call is made for next, it has  *)
(* no write of the story to do and stays in the generation.                *)
DivergenceStops ==
    [][Quiet /\ mission.status = "ACTIVE" /\ ~Agrees =>
           \A c \in Caller : \A i \in DOMAIN calls'[c].todo :
               /\ calls'[c].todo[i].do \in {"save", "route"}
               /\ calls'[c].todo[i].value.gen = mission.gen]_vars

(* An undisturbed mission is completed or waits for somebody, except that  *)
(* a commit with a negative Certification can never be promoted.           *)
Settles ==
    <>[](mission.status \in {"COMPLETED", "BLOCKED"} \/ disturbed # {}
         \/ verdicts[mission.commit] = "BARRED")
=============================================================================
