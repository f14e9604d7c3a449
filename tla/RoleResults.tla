---------------------------- MODULE RoleResults ----------------------------
(***************************************************************************)
(* What the intake of a Codex answer and the validators of the four story  *)
(* roles accept, and what the next role demands of what was accepted: the  *)
(* files implementer.py, tester.py, reviewer.py, certifier.py and          *)
(* result_intake.py.  One story travels from its Implementer, who works in *)
(* a worktree, to a Tester, a Reviewer and a Certifier, who are launched   *)
(* on the primary checkout at the integrated commit.  An answer that is    *)
(* refused leaves the story where it is; an accepted one moves it by its   *)
(* verdict.                                                                *)
(***************************************************************************)
EXTENDS Integers, Sequences, FiniteSets

CONSTANTS
    File,                \* repository paths, as reports spell them
    Canonical,           \* File -> path: the spelling _normalize_path gives
    AllowedPath, ForbiddenPath,  \* paths the scope of the story allows, forbids
    Control,             \* paths of the persistent control state
    UnderTests,          \* paths below a directory called tests
    Criterion, Mandatory,\* acceptance criteria of the story
    Gate,                \* its required Gates
    ImplementerReport, TesterReport, ReviewerReport,  \* the answers tried
    Dossier,             \* evidence, Gates and approvals a Certifier is given
    NoResult

ASSUME CriteriaAssumption == Mandatory \subseteq Criterion

VARIABLES
    stage,       \* the status the story is assigned in
    dirty,       \* paths changed on the primary since the integrated commit
    implementer, tester, reviewer, \* the accepted result of each role
    dossier, certifier

roleVars == << stage, dirty, implementer, tester, reviewer, dossier, certifier >>

Outcome == {"PASS", "FAIL", "UNKNOWN", "NOT_APPLICABLE"}
Unproven == {"UNKNOWN", "NOT_APPLICABLE"}
CaseType == {"POSITIVE", "NEGATIVE", "EDGE", "REGRESSION"}
ReadOnly == {"REVIEWER", "CERTIFIER"}

(* The values the contracts of the answers admit.                          *)
ImplementerVerdict == {"READY_FOR_TEST", "BLOCKED"}
TesterVerdict == {"READY_FOR_REVIEW", "REMEDIATION_REQUIRED", "BLOCKED"}
ReviewerVerdict == {"READY_FOR_CERTIFICATION", "REMEDIATION_REQUIRED", "BLOCKED"}
CertifierVerdict == {"READY_FOR_CONTROL_PLANE", "REMEDIATION_REQUIRED", "BLOCKED"}

ASSUME ReportAssumption ==
    /\ NoResult \notin ImplementerReport \union TesterReport \union ReviewerReport
    /\ \A r \in ImplementerReport : r.verdict \in ImplementerVerdict
    /\ \A r \in TesterReport :
           /\ r.verdict \in TesterVerdict
           /\ \A c \in DOMAIN r.acceptance : r.acceptance[c].result \in Outcome
           /\ \A k \in r.cases : k.type \in CaseType /\ k.verdict \in Outcome
           /\ \A c \in DOMAIN r.results : r.results[c].result \in Outcome
    /\ \A r \in ReviewerReport : r.verdict \in ReviewerVerdict

Paths(files) == {Canonical[f] : f \in files}
Unique(files) == Cardinality(Paths(files)) = Cardinality(files)

(* forbidden_paths goes before allowed_paths, control state before both.   *)
InScope(p) == p \notin Control /\ p \notin ForbiddenPath /\ p \in AllowedPath

(* Declared commands, and one result for each.                             *)
EachAnswered(commands, results) == commands = DOMAIN results
RequiredPass(results) ==
    \A c \in DOMAIN results : results[c].required => results[c].result = "PASS"

---------------------------------------------------------------------------
(* Intake: the answer is bound to this execution, the process ended well,  *)
(* the checkout was clean before, and what the role says it changed is     *)
(* what Git shows.                                                         *)
Transported(role, seen) ==
    seen.ended = "well" /\ (role \in ReadOnly => seen.changed = {})

GitConsistent(role, declared, seen) ==
    /\ ~seen.moved
    /\ role \in ReadOnly => seen.changed = {}
    /\ role \notin ReadOnly => /\ Paths(declared) = seen.changed
                               /\ Unique(declared)

CleanBefore(before) == before = {}

(* One turn, ended by the last event, with at least one message in it and  *)
(* none outside; the final output is the last message.                     *)
OneAnswer(seen) ==
    LET at(kind) == {i \in DOMAIN seen.events : seen.events[i] = kind}
    IN /\ Cardinality(at("started")) = 1 /\ at("completed") = {Len(seen.events)}
       /\ at("message") # {}
       /\ \A i \in at("message") : \A s \in at("started") : s < i
       /\ seen.finalIsLast

Intake(role, r, declared, seen, before) ==
    /\ r.bound
    /\ CleanBefore(before)
    /\ Transported(role, seen) /\ OneAnswer(seen)
    /\ GitConsistent(role, declared, seen)

---------------------------------------------------------------------------
(* Implementer.                                                            *)
ImplementerContract(r) ==
    /\ r.verdict = "READY_FOR_TEST" => r.files # {} /\ r.commands # {} /\ ~r.blockers
    /\ r.verdict = "BLOCKED" => r.blockers

ValidImplementer(r) ==
    /\ ImplementerContract(r)
    /\ Unique(r.files) /\ Unique(r.tests)
    /\ \A p \in Paths(r.files) \union Paths(r.tests) : InScope(p)
    /\ Paths(r.tests) \subseteq Paths(r.files)
    /\ EachAnswered(r.commands, r.results)
    /\ r.verdict = "READY_FOR_TEST" => RequiredPass(r.results)

(* What the Tester and the Reviewer demand of it again.                    *)
ImplementerUsable(r) ==
    /\ r # NoResult /\ r.bound /\ r.verdict = "READY_FOR_TEST"
    /\ Unique(r.files) /\ Unique(r.tests)
    /\ \A p \in Paths(r.files) \union Paths(r.tests) : InScope(p)
    /\ Paths(r.tests) \subseteq Paths(r.files)
    /\ EachAnswered(r.commands, r.results)
    /\ RequiredPass(r.results)

---------------------------------------------------------------------------
(* Tester.                                                                 *)
TesterContract(r) ==
    /\ r.planned # {} /\ r.targeted # {}
    /\ r.verdict = "READY_FOR_REVIEW" =>
           DOMAIN r.acceptance # {} /\ r.cases # {} /\ r.commands # {} /\ ~r.blockers
    /\ r.verdict = "REMEDIATION_REQUIRED" => r.findings /\ ~r.blockers
    /\ r.verdict = "BLOCKED" => r.blockers

Executed(x, outcome) == outcome \in {"PASS", "FAIL"} => x.executed

FailDetected(r) ==
    \/ \E c \in DOMAIN r.acceptance : r.acceptance[c].result = "FAIL"
    \/ \E k \in r.cases : k.verdict = "FAIL"
    \/ \E c \in DOMAIN r.results : r.results[c].required /\ r.results[c].result = "FAIL"

(* Mutant: a required command that was not run does not count.            *)
UnknownRequired_CasesOnly(r) ==
    \/ \E c \in Mandatory : c \notin DOMAIN r.acceptance \/ r.acceptance[c].result \in Unproven
    \/ \E k \in r.cases : k.required /\ k.verdict \in Unproven

UnknownRequired(r) ==
    \/ \E c \in Mandatory : c \notin DOMAIN r.acceptance \/ r.acceptance[c].result \in Unproven
    \/ \E k \in r.cases : k.required /\ k.verdict \in Unproven
    \/ \E c \in DOMAIN r.results : r.results[c].required /\ r.results[c].result \in Unproven

TesterVerdictHolds(r) ==
    /\ r.verdict = "READY_FOR_REVIEW" =>
           /\ ~FailDetected(r) /\ ~UnknownRequired(r)
           /\ Mandatory \subseteq r.targeted
           /\ CaseType \subseteq {k.type : k \in r.cases}
    /\ r.verdict = "REMEDIATION_REQUIRED" => FailDetected(r) /\ ~UnknownRequired(r)

TestFilesOnly(files) ==
    Unique(files) /\ \A p \in Paths(files) : p \in UnderTests /\ InScope(p)

ValidTester(r) ==
    /\ TesterContract(r)
    /\ r.targeted \subseteq Criterion
    /\ DOMAIN r.acceptance \subseteq r.targeted
    /\ \A c \in DOMAIN r.acceptance :
           r.acceptance[c].result \in {"PASS", "FAIL"} => r.acceptance[c].observed
    /\ \A k \in r.cases : Executed(k, k.verdict)
    /\ TestFilesOnly(r.files)
    /\ r.commands = r.planned /\ EachAnswered(r.commands, r.results)
    /\ \A c \in DOMAIN r.results : Executed(r.results[c], r.results[c].result)
    /\ TesterVerdictHolds(r)

(* What the Reviewer demands of it again.                                  *)
TesterUsable(r) ==
    /\ r # NoResult /\ r.bound /\ r.verdict = "READY_FOR_REVIEW"
    /\ \A c \in Mandatory : c \in DOMAIN r.acceptance /\ r.acceptance[c].result = "PASS"
    /\ Mandatory \subseteq r.targeted
    /\ \A k \in r.cases : k.required => k.verdict = "PASS"
    /\ \A c \in DOMAIN r.results :
           r.results[c].required => r.results[c].executed /\ r.results[c].result = "PASS"
    /\ {k.type : k \in r.cases} = CaseType
    /\ r.commands = r.planned /\ EachAnswered(r.commands, r.results)
    /\ \A p \in Paths(r.files) : p \in UnderTests /\ p \notin ForbiddenPath /\ p \in AllowedPath

---------------------------------------------------------------------------
(* Reviewer.                                                               *)
ReviewerContract(r) ==
    /\ r.verdict = "READY_FOR_CERTIFICATION" => r.reviewed # {} /\ ~r.blockers
    /\ r.verdict = "REMEDIATION_REQUIRED" => r.findings # {} /\ ~r.blockers
    /\ r.verdict = "BLOCKED" => r.blockers

FindingPaths(r) == UNION {Paths(f.paths) : f \in r.findings}
Blocking(r) == {f \in r.findings : f.blocking}
Artifacts == Paths(implementer.files) \union Paths(tester.files)

ValidFindings(r) ==
    \A f \in r.findings :
        /\ f.severity = "CRITICAL" => f.blocking
        /\ f.severity = "INFO" => ~f.blocking
        /\ Unique(f.paths) /\ Paths(f.paths) \subseteq Paths(r.reviewed)

ReviewCovers(r) ==
    /\ \A p \in Paths(r.reviewed) \ Artifacts : p \in AllowedPath \/ p \in FindingPaths(r)
    /\ r.verdict = "READY_FOR_CERTIFICATION" =>
           Artifacts \subseteq Paths(r.reviewed) /\ r.allDimensions /\ Blocking(r) = {}
    /\ r.verdict = "REMEDIATION_REQUIRED" => Blocking(r) # {}

ValidReviewer(r) ==
    ReviewerContract(r) /\ Unique(r.reviewed) /\ ValidFindings(r) /\ ReviewCovers(r)

---------------------------------------------------------------------------
(* Certifier: the truth of a dossier, recomputed for every answer.  The    *)
(* evidence and the Gates of a dossier are functions of their identifiers. *)
ImplementerCoherent ==
    /\ implementer # NoResult /\ implementer.bound
    /\ implementer.verdict = "READY_FOR_TEST" /\ ~implementer.blockers
    /\ RequiredPass(implementer.results)

TesterCoherent ==
    /\ tester # NoResult /\ tester.bound
    /\ tester.verdict = "READY_FOR_REVIEW" /\ ~tester.blockers
    /\ \A c \in Mandatory : c \in DOMAIN tester.acceptance /\ tester.acceptance[c].result = "PASS"
    /\ \A k \in tester.cases : k.required => k.executed /\ k.verdict = "PASS"
    /\ \A c \in DOMAIN tester.results :
           tester.results[c].required => tester.results[c].executed /\ tester.results[c].result = "PASS"

ReviewerCoherent ==
    /\ reviewer # NoResult /\ reviewer.bound
    /\ reviewer.verdict = "READY_FOR_CERTIFICATION" /\ ~reviewer.blockers
    /\ Blocking(reviewer) = {}

ArtifactsCoherent(d) == d.sameContract /\ ImplementerCoherent /\ TesterCoherent /\ ReviewerCoherent

Tested(c) == IF c \in DOMAIN tester.acceptance THEN tester.acceptance[c].result ELSE "UNKNOWN"

HumanMatches(d) == {e \in DOMAIN d.evidence : d.evidence[e].kind = "HUMAN_APPROVAL"
                                              /\ d.evidence[e].subject = "story"}

HumanValid(d) ==
    d.approval.required =>
        /\ Cardinality(HumanMatches(d)) = 1
        /\ \A e \in HumanMatches(d) :
               /\ d.approval.approved /\ d.approval.ref = e
               /\ d.evidence[e].result /\ d.evidence[e].attributed
               /\ d.evidence[e].commit \in {"none", "current"}

(* Whether an absent Gate may be left out is what the answer says of it.   *)
GateState(d, g, said) ==
    IF g \notin DOMAIN d.gates
    THEN [present |-> FALSE, matches |-> FALSE, result |-> "UNKNOWN", refs |-> {},
          current |-> FALSE, authorised |-> said]
    ELSE [present |-> TRUE, matches |-> d.gates[g].subject = "story" /\ d.gates[g].required,
          result |-> d.gates[g].result, refs |-> d.gates[g].refs,
          current |-> \A e \in d.gates[g].refs :
                          e \in DOMAIN d.evidence /\ d.evidence[e].commit = "current",
          authorised |-> g \in d.authorised]

(* Mutant: the commit of the check is not looked at.                       *)
Supports_AnyCommit(d, c, e) ==
    /\ d.evidence[e].subject = c /\ d.evidence[e].kind = "ACCEPTANCE_CRITERION_CHECK"
    /\ \/ Tested(c) = "PASS" /\ d.evidence[e].result
       \/ Tested(c) = "FAIL" /\ ~d.evidence[e].result

(* An existing reference must support the result the Tester gave.          *)
Supports(d, c, e) ==
    /\ d.evidence[e].subject = c /\ d.evidence[e].kind = "ACCEPTANCE_CRITERION_CHECK"
    /\ d.evidence[e].commit = "current"
    /\ \/ Tested(c) = "PASS" /\ d.evidence[e].result
       \/ Tested(c) = "FAIL" /\ ~d.evidence[e].result

Collected(d, r) ==
    ((UNION {r.acceptance[c].refs : c \in Criterion})
        \union (UNION {r.gates[g].refs : g \in Gate})
        \union (IF r.human.ref = NoResult THEN {} ELSE {r.human.ref})) \intersect DOMAIN d.evidence

TellsTheTruth(d, r) ==
    /\ r.artifacts = ArtifactsCoherent(d)
    /\ \A c \in Criterion : /\ r.acceptance[c].result = Tested(c)
                            /\ \A e \in r.acceptance[c].refs \intersect DOMAIN d.evidence :
                                   Supports(d, c, e)
    /\ \A g \in Gate : r.gates[g] = GateState(d, g, r.gates[g].authorised)
    /\ r.refs = Collected(d, r)
    /\ r.human.present = (HumanMatches(d) # {}) /\ r.human.valid = HumanValid(d)
    /\ r.human.ref = IF Cardinality(HumanMatches(d)) = 1
                     THEN CHOOSE e \in HumanMatches(d) : TRUE ELSE NoResult
    /\ ~d.approval.required => r.human.ref = NoResult

GateReady(k) ==
    /\ k.present /\ k.matches /\ k.current
    /\ \/ k.result = "PASS" /\ k.refs # {}
       \/ k.result = "NOT_APPLICABLE" /\ k.authorised

Ready(d, r) ==
    /\ ArtifactsCoherent(d) /\ HumanValid(d) /\ ~r.blockers /\ ~r.demonstrated
    /\ \A c \in Mandatory : Tested(c) = "PASS" /\ r.acceptance[c].refs # {}
    /\ \A c \in Criterion : r.acceptance[c].refs \subseteq DOMAIN d.evidence
    /\ \A g \in Gate : GateReady(r.gates[g]) /\ r.gates[g].refs \subseteq DOMAIN d.evidence
    /\ d.authorised = {g \in Gate : r.gates[g].result = "NOT_APPLICABLE"}

CertifierVerdictHolds(d, r) ==
    /\ r.verdict = "READY_FOR_CONTROL_PLANE" => Ready(d, r)
    /\ r.verdict = "REMEDIATION_REQUIRED" => r.demonstrated /\ ~r.blockers
    /\ r.verdict = "BLOCKED" => ~r.demonstrated /\ r.blockers

ValidCertifier(d, r) == TellsTheTruth(d, r) /\ CertifierVerdictHolds(d, r)

(* The answers tried: what is true, except for the references given for    *)
(* the criteria, one Gate result, the authority to leave an absent Gate    *)
(* out, the coherence of the chain and the validity of the approval, each  *)
(* of which may be misreported.                                            *)
Telling ==
    [refs : [Criterion -> {{}}] \union
            {[c \in Criterion |-> IF c \in Mandatory THEN rs ELSE {}] :
                rs \in {{"check"}, {"human"}, {"check", "absent"}}},
     gate : [Gate -> {"PASS", "UNKNOWN", "NOT_APPLICABLE"}],
     authorised : BOOLEAN, chain : BOOLEAN, valid : BOOLEAN, demonstrated : BOOLEAN, verdict : CertifierVerdict]

Told(d, claim) ==
    LET acceptance == [c \in Criterion |-> [result |-> Tested(c), refs |-> claim.refs[c]]]
        gates == [g \in Gate |-> [GateState(d, g, claim.authorised) EXCEPT !.result = claim.gate[g]]]
        human == [present |-> HumanMatches(d) # {}, valid |-> claim.valid,
                  ref |-> IF Cardinality(HumanMatches(d)) = 1
                          THEN CHOOSE e \in HumanMatches(d) : TRUE ELSE NoResult]
    IN [acceptance |-> acceptance, gates |-> gates, human |-> human,
        refs |-> Collected(d, [acceptance |-> acceptance, gates |-> gates, human |-> human]),
        artifacts |-> claim.chain, demonstrated |-> claim.demonstrated,
        blockers |-> claim.verdict = "BLOCKED", verdict |-> claim.verdict, bound |-> TRUE]

CertifierReport(d) == {Told(d, claim) : claim \in Telling}

---------------------------------------------------------------------------
RolesInit ==
    /\ stage = "IN_PROGRESS" /\ dirty = {}
    /\ implementer = NoResult /\ tester = NoResult /\ reviewer = NoResult
    /\ dossier = NoResult /\ certifier = NoResult

(* How the process ended, the events it wrote, whether HEAD moved, which   *)
(* paths Git reports.                                                      *)
Turns == {<< "started", "message", "completed" >>, << "started", "completed" >>,
          << "started", "message" >>, << "message", "started", "completed" >>,
          << "started", "message", "message", "completed" >>}

Seen(declared) ==
    {[ended |-> e, events |-> es, finalIsLast |-> f, moved |-> m, changed |-> c] :
        e \in {"well", "badly"}, es \in Turns, f \in BOOLEAN, m \in BOOLEAN,
        c \in {{}, Paths(declared)} \union {{p} : p \in Paths(File)}}

AfterVerdict(verdict, onward) ==
    CASE verdict = "REMEDIATION_REQUIRED" -> "REMEDIATION_REQUIRED"
      [] verdict = "BLOCKED" -> "BLOCKED"
      [] OTHER -> onward

(* The worktree of an Implementer is his own: the primary stays clean.     *)
Implement ==
    /\ stage = "IN_PROGRESS"
    /\ \E r \in ImplementerReport :
           /\ ValidImplementer(r)
           /\ \E seen \in Seen(r.files) : Intake("IMPLEMENTER", r, r.files, seen, {})
           /\ implementer' = r
           /\ stage' = AfterVerdict(r.verdict, "TESTING")
    /\ UNCHANGED << dirty, tester, reviewer, dossier, certifier >>

(* The Tester's validator takes no result that changed files, but the      *)
(* files are there: nobody is launched before they are cleared.            *)
NonMutating(r) == r.files = {}

Test ==
    /\ stage = "TESTING" /\ ImplementerUsable(implementer)
    /\ \E r \in TesterReport :
           /\ ValidTester(r)
           /\ \E seen \in Seen(r.files) :
                  Intake("TESTER", r, r.files, seen, dirty) /\ dirty' = seen.changed
           /\ IF NonMutating(r)
              THEN tester' = r /\ stage' = AfterVerdict(r.verdict, "REVIEW")
              ELSE UNCHANGED << tester, stage >>
    /\ UNCHANGED << implementer, reviewer, dossier, certifier >>

Review ==
    /\ stage = "REVIEW" /\ ImplementerUsable(implementer) /\ TesterUsable(tester)
    /\ CleanBefore(dirty)
    /\ \E r \in ReviewerReport :
           /\ ValidReviewer(r)
           /\ \E seen \in Seen({}) : Intake("REVIEWER", r, {}, seen, dirty)
           /\ reviewer' = r
           /\ stage' = AfterVerdict(r.verdict, "CERTIFICATION")
    /\ UNCHANGED << dirty, implementer, tester, dossier, certifier >>

(* The Orchestrator gathers what the control plane holds for the story.    *)
Assemble ==
    /\ stage = "CERTIFICATION" /\ dossier = NoResult
    /\ dossier' \in Dossier
    /\ UNCHANGED << stage, dirty, implementer, tester, reviewer, certifier >>

CertifyStory ==
    /\ stage = "CERTIFICATION" /\ dossier # NoResult
    /\ CleanBefore(dirty)
    /\ \E r \in CertifierReport(dossier) :
           /\ ValidCertifier(dossier, r)
           /\ \E seen \in Seen({}) : Intake("CERTIFIER", r, {}, seen, dirty)
           /\ certifier' = r
           /\ stage' = AfterVerdict(r.verdict, "READY_FOR_CONTROL_PLANE")
    /\ UNCHANGED << dirty, implementer, tester, reviewer, dossier >>

RolesNext == Implement \/ Test \/ Review \/ Assemble \/ CertifyStory

RolesSpec == RolesInit /\ [][RolesNext]_roleVars

---------------------------------------------------------------------------
(* Properties.                                                             *)

(* What a validator lets through is what the next role asks for: no story  *)
(* is stranded between a Tester, Reviewer or Certifier that refuses its    *)
(* input and a predecessor whose answer was already accepted, and Reviewer *)
(* and Certifier find the checkout clean.  A Tester that changed files is  *)
(* the exception: the checkout has to be cleared before the next one is    *)
(* launched (tester._require_implementer_result,                           *)
(* reviewer._require_tester_result, certifier._artifact_state each repeat  *)
(* the rules of a validator).                                              *)
HandoverIsAccepted ==
    /\ stage \in {"TESTING", "REVIEW", "CERTIFICATION"} => ImplementerUsable(implementer)
    /\ stage \in {"REVIEW", "CERTIFICATION"} => TesterUsable(tester) /\ dirty = {}
    /\ stage = "CERTIFICATION" => ImplementerCoherent /\ TesterCoherent /\ ReviewerCoherent

(* A dossier goes to the control plane only if every mandatory criterion   *)
(* has a check of it, at the integrated commit, that came out true, if     *)
(* each changed file was inside the scope and reviewed, and if the         *)
(* checkout is the integrated commit and nothing else, and nothing that    *)
(* was observed to fail is left: four validators and the intake each hold  *)
(* a part of this, none of them all of it.                                 *)
ReadyIsProven ==
    stage = "READY_FOR_CONTROL_PLANE" =>
        /\ \A c \in Mandatory : \E e \in DOMAIN dossier.evidence :
               /\ dossier.evidence[e].kind = "ACCEPTANCE_CRITERION_CHECK"
               /\ dossier.evidence[e].subject = c /\ dossier.evidence[e].result
               /\ dossier.evidence[e].commit = "current"
        /\ \A p \in Artifacts : InScope(p) /\ p \in Paths(reviewer.reviewed)
        /\ dirty = {} /\ ~FailDetected(tester) /\ Blocking(reviewer) = {}
=============================================================================
