---------------------------- MODULE ControlPlane ----------------------------
(***************************************************************************)
(* The authoritative project state and the operations of the control loop  *)
(* (application/control_loop.py) on it: User Stories, Evidence, Gates,     *)
(* Human approvals, Certifications and status transitions.                 *)
(*                                                                         *)
(* Every operation of the ControlLoop loads the state, builds a candidate  *)
(* and saves it; the store validates the whole candidate before it writes. *)
(* An operation is therefore one action that ends with StateIntegrity':    *)
(* when the candidate is refused nothing is written and there is no step.  *)
(* A save replaces the file at once, so nothing is seen inside it.         *)
(***************************************************************************)
CONSTANTS
    Story,           \* identifiers of User Stories
    Criterion,       \* identifiers of Acceptance Criteria
    GateId,          \* identifiers of Gates
    EvidenceId,      \* identifiers of Evidence
    CertificationId, \* identifiers of Certifications
    Commit,          \* Git commits
    Human,           \* attributable Human identities
    Caller,          \* workflows that call the control loop
    None,            \* an absent optional value
    DependsOn,       \* story contract: depends_on
    CriteriaOf,      \* story contract: acceptance_criteria
    MandatoryOf,     \* story contract: the criteria with mandatory = true
    RequiredGates,   \* story contract: required_gates
    HumanRequired,   \* the stories whose human_approval.required is true
    Observations,    \* the EvidenceObservations callers submit under each id
    GateContracts,   \* the GateContracts callers submit
    GateContexts,    \* the GateEvaluationContexts callers submit
    Requests         \* the certification requests callers submit

(* What a contract may name, and the shape of what callers submit.         *)
ASSUME ContractAssumption ==
    /\ DependsOn \in [Story -> SUBSET Story]
    /\ CriteriaOf \in [Story -> SUBSET Criterion]
    /\ MandatoryOf \in [Story -> SUBSET Criterion]
    /\ \A s \in Story : MandatoryOf[s] \subseteq CriteriaOf[s]
    /\ RequiredGates \in [Story -> SUBSET GateId]
    /\ HumanRequired \subseteq Story
    /\ None \notin Commit \cup EvidenceId \cup Human

ASSUME InputAssumption ==
    /\ \A e \in EvidenceId : \A o \in Observations[e] :
          /\ o.type \in {"ACCEPTANCE_CRITERION_CHECK", "HUMAN_APPROVAL", "GIT_STATE", "OTHER"}
          /\ o.subject \in Story \cup Criterion
          /\ o.result \in {"true", "false", "data"}
          /\ o.commit \in Commit \cup {None}
          /\ o.producer \in Human \cup {"Codex"}
    /\ \A k \in GateContracts :
          /\ k.gate \in GateId /\ k.subject \in Story \cup Criterion
          /\ k.required \in BOOLEAN /\ k.evidence \subseteq EvidenceId
    /\ \A r \in Requests :
          /\ r.story \in Story /\ r.commit \in Commit
          /\ r.humanRef \in EvidenceId \cup {None}

VARIABLES
    status,          \* Story -> UserStoryStatus, "ABSENT" before it is added
    approval,        \* Story -> the Evidence its Human approval rests on, or None
    evidence,        \* the persisted Evidence, by id
    gates,           \* the persisted Gates, by id
    certifications,  \* the persisted Certifications, by id
    observed,        \* Caller -> the dependencies it saw CERTIFIED when it last loaded the state
    requestOf,       \* history: the request each Certification answers
    promotedAt       \* history: the commit a story was promoted to CERTIFIED for

vars == << status, approval, evidence, gates, certifications, observed,
           requestOf, promotedAt >>

Status == {"PROPOSED", "PLANNED", "READY", "IN_PROGRESS", "IMPLEMENTED",
           "TESTING", "REVIEW", "CERTIFICATION", "CERTIFIED", "BLOCKED",
           "REJECTED", "REMEDIATION_REQUIRED", "CANCELLED"}

TerminalStates == {"CERTIFIED", "CANCELLED"}

(* The 28 declared transitions.                                            *)
AllowedTransitions ==
    (   {<<"PROPOSED", "PLANNED">>}
    \cup {"PLANNED"} \X {"READY", "BLOCKED"}
    \cup {"READY"} \X {"IN_PROGRESS", "BLOCKED"}
    \cup {"IN_PROGRESS"} \X {"IMPLEMENTED", "BLOCKED"}
    \cup {<<"IMPLEMENTED", "TESTING">>}
    \cup {"TESTING"} \X {"REVIEW", "REJECTED"}
    \cup {"REVIEW"} \X {"CERTIFICATION", "REJECTED"}
    \cup {"CERTIFICATION"} \X {"CERTIFIED", "REJECTED"}
    \cup {<<"REJECTED", "REMEDIATION_REQUIRED">>}
    \cup {"REMEDIATION_REQUIRED", "BLOCKED"} \X {"READY"} )
    \cup (Status \ TerminalStates) \X {"CANCELLED"}

GateResult == {"PASS", "FAIL", "UNKNOWN", "NOT_APPLICABLE"}
Verdict    == {"CERTIFIED", "REJECTED", "BLOCKED"}
Subject    == Story \cup Criterion

(* A persisted Evidence.  Its result is a boolean or other JSON data; what *)
(* a COMMAND_RESULT, FILE_INSPECTION... contains is not looked at.         *)
Evidence ==
    [type     : {"ACCEPTANCE_CRITERION_CHECK", "HUMAN_APPROVAL", "GIT_STATE", "OTHER"},
     subject  : Subject,
     result   : {"true", "false", "data"},
     commit   : Commit \cup {None},
     producer : Human \cup {"Codex"}]

Gate == [subject : Subject, required : BOOLEAN, result : GateResult,
         refs : SUBSET EvidenceId]

(* Adds k |-> v to the finite function f.                                  *)
With(f, k, v) == [x \in DOMAIN f \cup {k} |-> IF x = k THEN v ELSE f[x]]

Persisted == {s \in Story : status[s] # "ABSENT"}

Dependency == UNION {DependsOn[s] : s \in Story}

CertifiedDependencies == {d \in Dependency : status[d] = "CERTIFIED"}
-----------------------------------------------------------------------------
(* CertificationService: the verdict on one request, from persisted facts. *)

(* A cited Evidence resolves: not stale, about the subject, and at the     *)
(* commit unless the request says it does not depend on the repository.    *)
Resolves(refs, subject, r) ==
    /\ refs # {}
    /\ \A e \in refs :
          /\ e \in DOMAIN evidence
          /\ evidence[e].subject = subject
          /\ e \notin r.stale
          /\ \/ evidence[e].commit = r.commit
             \/ e \in r.independent /\ evidence[e].commit = None

Supports(result, refs) ==
    result \in {"PASS", "FAIL"} =>
        /\ \A e \in refs : /\ evidence[e].type = "ACCEPTANCE_CRITERION_CHECK"
                           /\ evidence[e].result \in {"true", "false"}
        /\ result = "PASS" => \A e \in refs : evidence[e].result = "true"
        /\ result = "FAIL" => \E e \in refs : evidence[e].result = "false"

(* The caller gave exactly one canonical result for criterion a.           *)
Answered(r, a) == a \in DOMAIN r.acceptance /\ r.acceptance[a].result \in GateResult

AcceptanceProven(r, a) ==
    /\ Answered(r, a)
    /\ Resolves(r.acceptance[a].refs, a, r)
    /\ Supports(r.acceptance[a].result, r.acceptance[a].refs)

AcceptanceFails(r, a) == AcceptanceProven(r, a) /\ r.acceptance[a].result = "FAIL"
AcceptanceHolds(r, a) == AcceptanceProven(r, a) /\ r.acceptance[a].result = "PASS"

GateMatches(r, g) == gates[g].subject = r.story /\ gates[g].required

GateResolves(r, g) == Resolves(gates[g].refs, r.story, r)

GateFails(r, g) ==
    g \in DOMAIN gates /\ GateMatches(r, g) /\ GateResolves(r, g) /\ gates[g].result = "FAIL"

GateExempt(r, g) ==
    /\ g \in DOMAIN gates /\ GateMatches(r, g)
    /\ gates[g].result = "NOT_APPLICABLE" /\ g \in r.naAllowed

GateHolds(r, g) ==
    \/ GateExempt(r, g)
    \/ g \in DOMAIN gates /\ GateMatches(r, g) /\ GateResolves(r, g) /\ gates[g].result = "PASS"

Approved(s)   == approval[s] # None
ApprovedBy(s) == IF Approved(s) THEN evidence[approval[s]].producer ELSE None

HumanEvidenceValid(r) ==
    LET e == r.humanRef IN
    /\ e \in DOMAIN evidence
    /\ evidence[e].type = "HUMAN_APPROVAL"
    /\ evidence[e].subject = r.story
    /\ e \notin r.stale
    /\ evidence[e].commit \in {None, r.commit}
    /\ evidence[e].producer = ApprovedBy(r.story)
    /\ evidence[e].producer \in Human
    /\ evidence[e].result \in {"true", "false"}
    /\ evidence[e].result = "false" \/ approval[r.story] = e

HumanFails(r) == HumanEvidenceValid(r) /\ ~Approved(r.story) /\ evidence[r.humanRef].result = "false"
HumanHolds(r) == HumanEvidenceValid(r) /\ Approved(r.story) /\ evidence[r.humanRef].result = "true"

HumanDossier(r) ==
    IF r.story \notin HumanRequired
    THEN [required |-> FALSE, approved |-> Approved(r.story), ref |-> None, result |-> "ABSENT"]
    ELSE [required |-> TRUE, approved |-> Approved(r.story), ref |-> r.humanRef,
          result |-> IF r.humanRef = None \/ ~HumanEvidenceValid(r) THEN "ABSENT"
                     ELSE IF HumanHolds(r) THEN "PASS"
                     ELSE IF HumanFails(r) THEN "FAIL" ELSE "UNKNOWN"]

SomethingFails(r) ==
    \/ \E a \in MandatoryOf[r.story] : AcceptanceFails(r, a)
    \/ \E g \in RequiredGates[r.story] : GateFails(r, g)
    \/ r.story \in HumanRequired /\ HumanFails(r)

EverythingHolds(r) ==
    /\ \A a \in MandatoryOf[r.story] : AcceptanceHolds(r, a)
    /\ \A g \in RequiredGates[r.story] : GateHolds(r, g)
    /\ r.naAllowed \subseteq RequiredGates[r.story]
    /\ r.story \in HumanRequired => HumanHolds(r)

(* A proven failure dominates uncertainty, uncertainty dominates success.  *)
VerdictOf(r) ==
    IF SomethingFails(r) THEN "REJECTED"
    ELSE IF EverythingHolds(r) THEN "CERTIFIED" ELSE "BLOCKED"

(* Mutant: everything about the story counts as used, cited or not.        *)
UsedEvidence_Uncited(r) ==
    {e \in DOMAIN evidence : evidence[e].subject \in {r.story} \cup CriteriaOf[r.story]}

UsedEvidence(r) ==
    (UNION {r.acceptance[a].refs : a \in {b \in CriteriaOf[r.story] : AcceptanceProven(r, b)}})
    \cup (UNION {gates[g].refs : g \in {h \in RequiredGates[r.story] :
                                           h \in DOMAIN gates /\ GateResolves(r, h)}})
    \cup {e \in {r.humanRef} : r.story \in HumanRequired /\ HumanEvidenceValid(r)}

(* The Certification the service returns for r.                            *)
CertificationFor(r) ==
    [subject    |-> r.story,
     result     |-> VerdictOf(r),
     commit     |-> r.commit,
     acceptance |-> [a \in CriteriaOf[r.story] |->
                        IF Answered(r, a) THEN r.acceptance[a].result ELSE "UNKNOWN"],
     gates      |-> [g \in RequiredGates[r.story] |->
                        IF g \in DOMAIN gates THEN gates[g].result ELSE "UNKNOWN"],
     human      |-> HumanDossier(r),
     refs       |-> UsedEvidence(r),
     exempt     |-> {g \in RequiredGates[r.story] : GateExempt(r, g)},
     certifier  |-> r.certifier]
-----------------------------------------------------------------------------
(* certified_dossier_issues: what a CERTIFIED dossier must show, always.   *)

AcceptanceSound(c, a) ==
    LET proof == {e \in c.refs : /\ evidence[e].subject = a
                                 /\ evidence[e].type = "ACCEPTANCE_CRITERION_CHECK"}
    IN  /\ c.acceptance[a] = "PASS"
        /\ proof # {}
        /\ \A e \in proof : evidence[e].result = "true"

GateSound(c, g) ==
    /\ g \in DOMAIN gates
    /\ gates[g].subject = c.subject /\ gates[g].required
    /\ c.gates[g] = gates[g].result
    /\ gates[g].result \in {"PASS", "NOT_APPLICABLE"}
    /\ gates[g].result = "NOT_APPLICABLE" <=> g \in c.exempt
    /\ gates[g].result = "PASS" => gates[g].refs # {}
    /\ gates[g].refs \subseteq c.refs
    /\ \A e \in gates[g].refs : evidence[e].subject = c.subject

HumanSound(c) ==
    IF c.subject \notin HumanRequired
    THEN ~c.human.required /\ c.human.ref = None
    ELSE /\ Approved(c.subject) /\ c.human.approved /\ c.human.required
         /\ c.human.result = "PASS"
         /\ c.human.ref \in c.refs
         /\ approval[c.subject] = c.human.ref
         /\ evidence[c.human.ref].type = "HUMAN_APPROVAL"
         /\ evidence[c.human.ref].subject = c.subject
         /\ evidence[c.human.ref].result = "true"
         /\ evidence[c.human.ref].producer \in Human
         /\ evidence[c.human.ref].commit \in {None, c.commit}

DossierSound(c) ==
    c.result = "CERTIFIED" =>
        /\ c.certifier = "attributed"
        /\ \A e \in c.refs :
              /\ e \in DOMAIN evidence
              /\ evidence[e].commit \in {None, c.commit}
              /\ evidence[e].subject \in {c.subject} \cup CriteriaOf[c.subject]
        /\ DOMAIN c.acceptance = CriteriaOf[c.subject]
        /\ \A a \in MandatoryOf[c.subject] : AcceptanceSound(c, a)
        /\ DOMAIN c.gates = RequiredGates[c.subject]
        /\ c.exempt \subseteq RequiredGates[c.subject]
        /\ \A g \in RequiredGates[c.subject] : GateSound(c, g)
        /\ HumanSound(c)
-----------------------------------------------------------------------------
(* ProjectStateStore._validate_integrity: checked on every save and load.  *)

StoriesSound ==
    \A s \in Persisted : s \notin DependsOn[s] /\ DependsOn[s] \subseteq Persisted

GateReferencesSound == \A g \in DOMAIN gates : gates[g].refs \subseteq DOMAIN evidence

CertificationReferencesSound ==
    \A i \in DOMAIN certifications :
        LET c == certifications[i] IN
        /\ c.subject \in Persisted
        /\ c.refs \subseteq DOMAIN evidence
        /\ DOMAIN c.gates \subseteq DOMAIN gates
        /\ DOMAIN c.acceptance \subseteq CriteriaOf[c.subject]
        /\ c.human.ref # None => c.human.ref \in DOMAIN evidence

DossiersSound == \A i \in DOMAIN certifications : DossierSound(certifications[i])

ApprovalSound(s) ==
    Approved(s) =>
        /\ s \in HumanRequired
        /\ approval[s] \in DOMAIN evidence
        /\ evidence[approval[s]].type = "HUMAN_APPROVAL"
        /\ evidence[approval[s]].subject = s
        /\ evidence[approval[s]].result = "true"
        /\ evidence[approval[s]].producer \in Human

VerdictsOn(s) == {certifications[i].result :
                     i \in {j \in DOMAIN certifications : certifications[j].subject = s}}

(* A CERTIFIED story has a CERTIFIED Certification and no contradictory one. *)
VerdictsAgree(s) == status[s] = "CERTIFIED" => VerdictsOn(s) = {"CERTIFIED"}

StateIntegrity ==
    /\ StoriesSound
    /\ GateReferencesSound
    /\ CertificationReferencesSound
    /\ DossiersSound
    /\ \A s \in Persisted : ApprovalSound(s) /\ VerdictsAgree(s)
-----------------------------------------------------------------------------
Init ==
    /\ status = [s \in Story |-> "ABSENT"]
    /\ approval = [s \in Story |-> None]
    /\ evidence = << >>
    /\ gates = << >>
    /\ certifications = << >>
    /\ observed = [w \in Caller |-> CertifiedDependencies]
    /\ requestOf = << >>
    /\ promotedAt = [s \in Story |-> None]

(* EvidenceRecorder: what an observation must carry to be recorded.        *)
Traceable(o) ==
    /\ o.attributed
    /\ o.type = "GIT_STATE" => o.repositoryDependent
    /\ o.repositoryDependent => o.commit # None
    /\ o.type = "HUMAN_APPROVAL" => o.producer \in Human

EvidenceFrom(o) == [type |-> o.type, subject |-> o.subject, result |-> o.result,
                    commit |-> o.commit, producer |-> o.producer]

RecordEvidence(e, o) ==
    /\ e \notin DOMAIN evidence
    /\ Traceable(o)
    /\ evidence' = With(evidence, e, EvidenceFrom(o))
    /\ UNCHANGED << status, approval, gates, certifications, observed, requestOf, promotedAt >>
    /\ StateIntegrity'

(* GateEvaluator: the Evidence of contract k can be used in context x.     *)
Selectable(k, x) ==
    /\ k.evidence # {}
    /\ k.repositoryDependent => x.expected # None
    /\ \A e \in k.evidence :
          /\ e \in DOMAIN evidence
          /\ evidence[e].subject = k.subject
          /\ e \notin x.stale
          /\ k.repositoryDependent => evidence[e].commit = x.expected

(* "answer" is what the condition of the contract returns, "ERROR" when it *)
(* raises; a condition may not declare a Gate NOT_APPLICABLE.              *)
GateFrom(k, x, answer) ==
    LET exempt == x.notApplicable = "reason"
        usable == x.notApplicable = "absent" /\ Selectable(k, x)
    IN  [subject  |-> k.subject,
         required |-> k.required,
         result   |-> IF exempt THEN "NOT_APPLICABLE"
                      ELSE IF usable /\ answer \in {"PASS", "FAIL"} THEN answer ELSE "UNKNOWN",
         refs     |-> IF usable THEN k.evidence ELSE {}]

EvaluateGate(k, x, answer) ==
    /\ k.gate \notin DOMAIN gates
    /\ gates' = With(gates, k.gate, GateFrom(k, x, answer))
    /\ UNCHANGED << status, approval, evidence, certifications, observed, requestOf, promotedAt >>
    /\ StateIntegrity'

(* A refusal (result false) is accepted and changes nothing.               *)
ApplyHumanApproval(s, e, expectedCommit) ==
    /\ s \in Persisted /\ e \in DOMAIN evidence
    /\ s \in HumanRequired
    /\ evidence[e].type = "HUMAN_APPROVAL" /\ evidence[e].subject = s
    /\ evidence[e].producer \in Human
    /\ evidence[e].commit \in {None, expectedCommit}
    /\ evidence[e].result = "true"
    /\ ~Approved(s)
    /\ approval' = [approval EXCEPT ![s] = e]
    /\ UNCHANGED << status, evidence, gates, certifications, observed, requestOf, promotedAt >>
    /\ StateIntegrity'

(* certify_user_story, and certify_user_story_idempotent for a new id.     *)
CertifyUserStory(id, r) ==
    /\ r.story \in Persisted
    /\ id \notin DOMAIN certifications
    /\ r.certifier # "codex without role"
    /\ certifications' = With(certifications, id, CertificationFor(r))
    /\ requestOf' = With(requestOf, id, r)
    /\ UNCHANGED << status, approval, evidence, gates, observed, promotedAt >>
    /\ StateIntegrity'

(* add_user_stories (add_user_story is the batch of one): the new stories  *)
(* are PROPOSED; "already" gives the approval their contract came with.    *)
AddUserStories(batch, already) ==
    /\ batch # {} /\ batch \cap Persisted = {}
    /\ status' = [s \in Story |-> IF s \in batch THEN "PROPOSED" ELSE status[s]]
    /\ approval' = [s \in Story |-> IF s \in batch THEN already[s] ELSE approval[s]]
    /\ UNCHANGED << evidence, gates, certifications, observed, requestOf, promotedAt >>
    /\ StateIntegrity'

(* A workflow loads the state to collect the dependency statuses it will   *)
(* submit, of which only CERTIFIED counts; the control loop loads the      *)
(* state again when it is called.                                          *)
ReadStatuses(w) ==
    /\ observed[w] # CertifiedDependencies
    /\ observed' = [observed EXCEPT ![w] = CertifiedDependencies]
    /\ UNCHANGED << status, approval, evidence, gates, certifications, requestOf, promotedAt >>

(* Mutant: leaving BLOCKED does not look at the dependencies again.        *)
DependenciesSatisfied_Unblocked(w, s, target) ==
    target = "READY" /\ status[s] # "BLOCKED" => DependsOn[s] \subseteq observed[w]

DependenciesSatisfied(w, s, target) ==
    target = "READY" => DependsOn[s] \subseteq observed[w]

TransitionUserStory(w, s, target) ==
    /\ s \in Persisted
    /\ status[s] \notin TerminalStates
    /\ <<status[s], target>> \in AllowedTransitions
    /\ <<status[s], target>> # <<"CERTIFICATION", "CERTIFIED">>
    /\ DependenciesSatisfied(w, s, target)
    /\ status' = [status EXCEPT ![s] = target]
    /\ UNCHANGED << approval, evidence, gates, certifications, observed, requestOf, promotedAt >>
    /\ StateIntegrity'

(* Mutant: a Certification of another commit applies too.                  *)
Applicable_AnyCommit(s, k) == {i \in DOMAIN certifications : certifications[i].subject = s}

Applicable(s, k) == {i \in DOMAIN certifications :
                        certifications[i].subject = s /\ certifications[i].commit = k}

(* The only way to CERTIFIED: exactly one Certification for the story and  *)
(* the commit, positive, with a sound dossier.                             *)
PromoteToCertified(s, k) ==
    /\ s \in Persisted
    /\ status[s] = "CERTIFICATION"
    /\ \E i \in CertificationId :
          /\ Applicable(s, k) = {i}
          /\ certifications[i].result = "CERTIFIED"
          /\ DossierSound(certifications[i])
    /\ status' = [status EXCEPT ![s] = "CERTIFIED"]
    /\ promotedAt' = [promotedAt EXCEPT ![s] = k]
    /\ UNCHANGED << approval, evidence, gates, certifications, observed, requestOf >>
    /\ StateIntegrity'

Next ==
    \/ \E e \in EvidenceId : \E o \in Observations[e] : RecordEvidence(e, o)
    \/ \E k \in GateContracts, x \in GateContexts, answer \in GateResult \cup {"ERROR"} :
          EvaluateGate(k, x, answer)
    \/ \E s \in Story, e \in EvidenceId, k \in Commit : ApplyHumanApproval(s, e, k)
    \/ \E id \in CertificationId, r \in Requests : CertifyUserStory(id, r)
    \/ \E batch \in SUBSET Story :
          \E already \in [batch -> EvidenceId \cup {None}] : AddUserStories(batch, already)
    \/ \E w \in Caller : ReadStatuses(w)
    \/ \E w \in Caller, s \in Story, target \in Status : TransitionUserStory(w, s, target)
    \/ \E s \in Story, k \in Commit : PromoteToCertified(s, k)

Spec == Init /\ [][Next]_vars
-----------------------------------------------------------------------------
HumanRecord == [required : BOOLEAN, approved : BOOLEAN, ref : EvidenceId \cup {None},
                result : {"ABSENT", "PASS", "FAIL", "UNKNOWN"}]

CertificationOK(c) ==
    /\ c.subject \in Story /\ c.result \in Verdict /\ c.commit \in Commit
    /\ c.refs \subseteq EvidenceId
    /\ c.acceptance \in [CriteriaOf[c.subject] -> GateResult]
    /\ c.gates \in [RequiredGates[c.subject] -> GateResult]
    /\ c.exempt \subseteq RequiredGates[c.subject]
    /\ c.human \in HumanRecord

(* The persisted state has the shape its schemas give it.                  *)
TypeOK ==
    /\ status \in [Story -> Status \cup {"ABSENT"}]
    /\ approval \in [Story -> EvidenceId \cup {None}]
    /\ DOMAIN evidence \subseteq EvidenceId
    /\ \A e \in DOMAIN evidence : evidence[e] \in Evidence
    /\ DOMAIN gates \subseteq GateId
    /\ \A g \in DOMAIN gates : gates[g] \in Gate
    /\ DOMAIN certifications \subseteq CertificationId
    /\ \A i \in DOMAIN certifications : CertificationOK(certifications[i])
    /\ observed \in [Caller -> SUBSET Dependency]
    /\ DOMAIN requestOf = DOMAIN certifications
    /\ \A i \in DOMAIN requestOf : requestOf[i] \in Requests
    /\ promotedAt \in [Story -> Commit \cup {None}]

Started == Status \ {"PROPOSED", "PLANNED", "BLOCKED", "CANCELLED"}

(* A story that entered work rests on dependencies that are all CERTIFIED  *)
(* now, although the statuses a caller submits to the READY transition may *)
(* be older than the state the control loop reloads                        *)
(* (state_transition_service._dependency_refusals).                        *)
StartedRestsOnCertified ==
    \A s \in Story : status[s] \in Started =>
        \A d \in DependsOn[s] : status[d] = "CERTIFIED"

(* What "certified at commit k" means to a reader of the certification     *)
(* model: everything mandatory is proved by Evidence that is about k.      *)
ProvenAt(s, k) ==
    LET about(e) == evidence[e].commit \in {None, k} IN
    /\ \A a \in MandatoryOf[s] : \E e \in DOMAIN evidence :
          /\ evidence[e].type = "ACCEPTANCE_CRITERION_CHECK"
          /\ evidence[e].subject = a /\ evidence[e].result = "true" /\ about(e)
    /\ \A g \in RequiredGates[s] :
          /\ g \in DOMAIN gates
          /\ \/ gates[g].result = "NOT_APPLICABLE"
             \/ gates[g].result = "PASS" /\ \A e \in gates[g].refs : about(e)
    /\ s \in HumanRequired =>
          /\ approval[s] \in DOMAIN evidence /\ about(approval[s])
          /\ evidence[approval[s]].producer \in Human

(* A story is CERTIFIED exactly when it was promoted for a commit, and     *)
(* everything mandatory is still proved at that commit, whatever was       *)
(* recorded since (control_loop._resolve_transition_context).              *)
PromotedCommitStaysProven ==
    \A s \in Story :
        /\ status[s] = "CERTIFIED" <=> promotedAt[s] # None
        /\ promotedAt[s] # None => ProvenAt(s, promotedAt[s])

(* A negative verdict on a story and the CERTIFIED status exclude each     *)
(* other for ever, in whichever order they are attempted: no later         *)
(* positive verdict, retest or remediation promotes the story              *)
(* (project_state_store._validate_integrity).                              *)
NegativeVerdictBarsCertified ==
    \A i \in DOMAIN certifications :
        certifications[i].result # "CERTIFIED" => status[certifications[i].subject] # "CERTIFIED"

(* Evidence, Gates, Certifications and applied approvals are never         *)
(* replaced or lost, and no story leaves a terminal status.                *)
AppendOnlyStep ==
    /\ \A e \in DOMAIN evidence : e \in DOMAIN evidence' /\ evidence'[e] = evidence[e]
    /\ \A g \in DOMAIN gates : g \in DOMAIN gates' /\ gates'[g] = gates[g]
    /\ \A i \in DOMAIN certifications :
          i \in DOMAIN certifications' /\ certifications'[i] = certifications[i]
    /\ \A s \in Story : Approved(s) => approval'[s] = approval[s]
    /\ \A s \in Story : status[s] \in TerminalStates => status'[s] = status[s]

HistoryIsAppendOnly == [][AppendOnlyStep]_vars

(* A positive Certification is recognised when the same request is         *)
(* submitted again, at any later time: certifying recomputes the persisted *)
(* record (certify_user_story_idempotent).  Requests that cited Evidence   *)
(* which did not resolve for an optional criterion are left out: that      *)
(* Evidence may be recorded later and then does resolve.                   *)
PositiveVerdictIsReplayable ==
    \A i \in DOMAIN certifications :
        LET c == certifications[i]
            r == requestOf[i]
        IN  /\ c.result = "CERTIFIED"
            /\ \A a \in CriteriaOf[c.subject] : Answered(r, a) => r.acceptance[a].refs \subseteq c.refs
            => CertificationFor(r) = c
=============================================================================
