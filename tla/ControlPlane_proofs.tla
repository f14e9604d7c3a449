------------------------- MODULE ControlPlane_proofs -------------------------
(* Theorems about ControlPlane, for every contract, input and id set.      *)
EXTENDS ControlPlane, TLAPS

USE DEF TerminalStates, Dependency, CertifiedDependencies, Persisted

(* Adding to a finite function keeps what it had.                          *)
LEMMA WithFacts ==
    ASSUME NEW f, NEW k, NEW v
    PROVE  /\ DOMAIN With(f, k, v) = DOMAIN f \cup {k}
           /\ With(f, k, v)[k] = v
           /\ \A x \in DOMAIN f \ {k} : With(f, k, v)[x] = f[x]
  BY DEF With

(* A new key leaves every earlier entry as it was.                         *)
LEMMA WithKeeps ==
    ASSUME NEW f, NEW k, NEW v, k \notin DOMAIN f
    PROVE  \A x \in DOMAIN f : x \in DOMAIN With(f, k, v) /\ With(f, k, v)[x] = f[x]
  BY DEF With

-----------------------------------------------------------------------------
(* The part of the type invariant that the status theorems need.           *)
StatusOK ==
    /\ status \in [Story -> Status \cup {"ABSENT"}]
    /\ observed \in [Caller -> SUBSET Dependency]

(* A snapshot may be old, but what it saw CERTIFIED still is.              *)
SnapshotsSafe ==
    \A w \in Caller : \A d \in observed[w] : status[d] = "CERTIFIED"

StatusInv == StatusOK /\ SnapshotsSafe /\ StartedRestsOnCertified

(* How an action may change the statuses: nothing, new stories, or one     *)
(* story along a transition that is allowed to it.                         *)
LEMMA NextStatus ==
    ASSUME StatusOK, Next
    PROVE  \/ status' = status /\ observed' = observed
           \/ status' = status /\ \E w \in Caller : observed' = [observed EXCEPT ![w] = CertifiedDependencies]
           \/ /\ observed' = observed
              /\ \E batch \in SUBSET Story :
                    /\ batch \cap Persisted = {}
                    /\ status' = [s \in Story |-> IF s \in batch THEN "PROPOSED" ELSE status[s]]
           \/ /\ observed' = observed
              /\ \E w \in Caller, s \in Story, target \in Status :
                    /\ status[s] \notin TerminalStates /\ status[s] # "ABSENT"
                    /\ <<status[s], target>> \in AllowedTransitions
                    /\ DependenciesSatisfied(w, s, target)
                    /\ status' = [status EXCEPT ![s] = target]
           \/ /\ observed' = observed
              /\ \E s \in Story :
                    /\ status[s] = "CERTIFICATION"
                    /\ status' = [status EXCEPT ![s] = "CERTIFIED"]
  BY DEF Next, RecordEvidence, EvaluateGate, ApplyHumanApproval, CertifyUserStory,
         AddUserStories, ReadStatuses, TransitionUserStory, PromoteToCertified

(* A story is never in work on a dependency that is not CERTIFIED, however *)
(* old the statuses the caller of the READY transition submitted are.      *)
THEOREM StartedRests == Spec => []StartedRestsOnCertified
<1>1. Init => StatusInv
  <2> SUFFICES ASSUME Init PROVE StatusInv
    OBVIOUS
  <2>1. \A s \in Story : status[s] = "ABSENT"
    BY DEF Init
  <2>2. \A d \in Dependency : d \in Story
    BY ContractAssumption
  <2>3. \A w \in Caller : observed[w] = CertifiedDependencies
    BY DEF Init
  <2>4. StatusOK
    BY <2>2 DEF Init, StatusOK
  <2>5. SnapshotsSafe
    BY <2>1, <2>2, <2>3 DEF SnapshotsSafe
  <2>6. StartedRestsOnCertified
    BY <2>1 DEF StartedRestsOnCertified, Started, Status
  <2> QED BY <2>4, <2>5, <2>6 DEF StatusInv
<1>2. StatusInv /\ [Next]_vars => StatusInv'
  <2> SUFFICES ASSUME StatusInv, [Next]_vars PROVE StatusInv'
    OBVIOUS
  <2> USE DEF StatusInv, StatusOK, SnapshotsSafe, StartedRestsOnCertified
  <2>1. CASE status' = status /\ observed' = observed
    BY <2>1
  <2>2. ASSUME NEW w \in Caller, status' = status,
               observed' = [observed EXCEPT ![w] = CertifiedDependencies]
        PROVE  StatusInv'
    <3>1. CertifiedDependencies \in SUBSET Dependency
      BY ContractAssumption
    <3> QED BY <2>2, <3>1
  <2>3. ASSUME NEW batch \in SUBSET Story, batch \cap Persisted = {}, observed' = observed,
               status' = [s \in Story |-> IF s \in batch THEN "PROPOSED" ELSE status[s]]
        PROVE  StatusInv'
    <3>1. \A d \in Story : status[d] = "CERTIFIED" => status'[d] = "CERTIFIED"
      BY <2>3
    <3>2. StatusOK'
      BY <2>3 DEF Status
    <3>3. SnapshotsSafe'
      BY <2>3, <3>1, ContractAssumption
    <3>4. StartedRestsOnCertified'
      BY <2>3, <3>1, ContractAssumption DEF Started
    <3> QED BY <3>2, <3>3, <3>4
  <2>4. ASSUME NEW w \in Caller, NEW s \in Story, NEW target \in Status,
               status[s] \notin TerminalStates, <<status[s], target>> \in AllowedTransitions,
               DependenciesSatisfied(w, s, target), observed' = observed,
               status[s] # "ABSENT",
               status' = [status EXCEPT ![s] = target]
        PROVE  StatusInv'
    <3>1. \A d \in Story : status[d] = "CERTIFIED" => status'[d] = "CERTIFIED"
      BY <2>4
    <3>2. target \in Started => status[s] \in Started \/ target = "READY"
      BY <2>4 DEF AllowedTransitions, Started, Status
    <3>3. target \in Started => \A d \in DependsOn[s] : status[d] = "CERTIFIED"
      BY <2>4, <3>2, ContractAssumption DEF DependenciesSatisfied
    <3>4. StatusOK'
      BY <2>4
    <3>5. SnapshotsSafe'
      BY <2>4, <3>1, ContractAssumption
    <3>6. StartedRestsOnCertified'
      BY <2>4, <3>1, <3>3, ContractAssumption
    <3> QED BY <3>4, <3>5, <3>6
  <2>5. ASSUME NEW s \in Story, status[s] = "CERTIFICATION", observed' = observed,
               status' = [status EXCEPT ![s] = "CERTIFIED"]
        PROVE  StatusInv'
    <3>1. \A d \in Story : status[d] = "CERTIFIED" => status'[d] = "CERTIFIED"
      BY <2>5
    <3>2. StatusOK'
      BY <2>5 DEF Status
    <3>3. SnapshotsSafe'
      BY <2>5, <3>1, ContractAssumption
    <3>4. StartedRestsOnCertified'
      BY <2>5, <3>1, ContractAssumption DEF Started, Status
    <3> QED BY <3>2, <3>3, <3>4
  <2>6. CASE UNCHANGED vars
    BY <2>1, <2>6 DEF vars
  <2>7. CASE Next
    BY <2>1, <2>2, <2>3, <2>4, <2>5, <2>7, NextStatus
  <2> QED BY <2>6, <2>7
<1>3. StatusInv => StartedRestsOnCertified
  BY DEF StatusInv
<1> QED BY <1>1, <1>2, <1>3, PTL DEF Spec

-----------------------------------------------------------------------------
(* The frame of Init: nothing is persisted.                                *)
LEMMA InitFrame ==
    ASSUME Init
    PROVE  /\ DOMAIN evidence = {} /\ DOMAIN gates = {} /\ DOMAIN certifications = {}
           /\ \A s \in Story : status[s] = "ABSENT" /\ approval[s] = None /\ promotedAt[s] = None
<1>1. DOMAIN << >> = {}
  OBVIOUS
<1> QED BY <1>1 DEF Init

(* Every save re-validates the whole state, so the integrity rules of      *)
(* ProjectStateStore hold in every state the program reaches: a load never *)
(* refuses what an earlier save wrote.                                     *)
THEOREM IntegrityHolds == Spec => []StateIntegrity
<1>1. Init => StateIntegrity
  <2> SUFFICES ASSUME Init PROVE StateIntegrity
    OBVIOUS
  <2>1. Persisted = {}
    BY InitFrame
  <2>2. GateReferencesSound /\ CertificationReferencesSound /\ DossiersSound
    BY InitFrame DEF GateReferencesSound, CertificationReferencesSound, DossiersSound
  <2> QED BY <2>1, <2>2 DEF StateIntegrity, StoriesSound
<1>2. StateIntegrity /\ [Next]_vars => StateIntegrity'
  <2> SUFFICES ASSUME StateIntegrity, [Next]_vars PROVE StateIntegrity'
    OBVIOUS
  <2>1. CASE \/ UNCHANGED vars
             \/ \E w \in Caller : ReadStatuses(w)
    <3>1. UNCHANGED << status, approval, evidence, gates, certifications >>
      BY <2>1 DEF vars, ReadStatuses
    <3> QED
      BY <3>1 DEF StateIntegrity, StoriesSound, GateReferencesSound,
           CertificationReferencesSound, DossiersSound, DossierSound, AcceptanceSound,
           GateSound, HumanSound, Approved, ApprovalSound, VerdictsAgree, VerdictsOn
  <2>2. CASE Next /\ ~ \E w \in Caller : ReadStatuses(w)
    BY <2>2 DEF Next, RecordEvidence, EvaluateGate, ApplyHumanApproval, CertifyUserStory,
         AddUserStories, TransitionUserStory, PromoteToCertified
  <2> QED BY <2>1, <2>2
<1> QED BY <1>1, <1>2, PTL DEF Spec

-----------------------------------------------------------------------------
(* An approval is applied to a persisted story, by the id of an Evidence.  *)
ApprovalOK ==
    /\ DOMAIN evidence \subseteq EvidenceId
    /\ approval \in [Story -> EvidenceId \cup {None}]
    /\ \A s \in Story : status[s] = "ABSENT" => approval[s] = None

(* No action replaces, loses or reopens anything.                          *)
LEMMA StepAppends ==
    ASSUME StatusOK, ApprovalOK, [Next]_vars
    PROVE  AppendOnlyStep
<1> USE DEF AppendOnlyStep, Approved
<1>1. ASSUME UNCHANGED << status, approval, evidence, gates, certifications >>
      PROVE  AppendOnlyStep
  BY <1>1
<1>2. ASSUME NEW e \in EvidenceId, NEW o \in Observations[e], RecordEvidence(e, o)
      PROVE  AppendOnlyStep
  <2>1. /\ e \notin DOMAIN evidence
        /\ evidence' = With(evidence, e, EvidenceFrom(o))
        /\ UNCHANGED << status, approval, gates, certifications >>
    BY <1>2 DEF RecordEvidence
  <2>2. \A y \in DOMAIN evidence : y \in DOMAIN evidence' /\ evidence'[y] = evidence[y]
    BY <2>1, WithKeeps
  <2> QED BY <2>1, <2>2
<1>3. ASSUME NEW k, NEW x, NEW answer, EvaluateGate(k, x, answer)
      PROVE  AppendOnlyStep
  <2>1. /\ k.gate \notin DOMAIN gates
        /\ gates' = With(gates, k.gate, GateFrom(k, x, answer))
        /\ UNCHANGED << status, approval, evidence, certifications >>
    BY <1>3 DEF EvaluateGate
  <2>2. \A y \in DOMAIN gates : y \in DOMAIN gates' /\ gates'[y] = gates[y]
    BY <2>1, WithKeeps
  <2> QED BY <2>1, <2>2
<1>4. ASSUME NEW s \in Story, NEW e \in EvidenceId, NEW k \in Commit, ApplyHumanApproval(s, e, k)
      PROVE  AppendOnlyStep
  BY <1>4 DEF ApplyHumanApproval, ApprovalOK
<1>5. ASSUME NEW id, NEW r, CertifyUserStory(id, r)
      PROVE  AppendOnlyStep
  <2>1. /\ id \notin DOMAIN certifications
        /\ certifications' = With(certifications, id, CertificationFor(r))
        /\ UNCHANGED << status, approval, evidence, gates >>
    BY <1>5 DEF CertifyUserStory
  <2>2. \A y \in DOMAIN certifications : y \in DOMAIN certifications' /\ certifications'[y] = certifications[y]
    BY <2>1, WithKeeps
  <2> QED BY <2>1, <2>2
<1>6. ASSUME NEW batch \in SUBSET Story, NEW already \in [batch -> EvidenceId \cup {None}],
             AddUserStories(batch, already)
      PROVE  AppendOnlyStep
  <2>1. \A s \in batch : status[s] = "ABSENT"
    BY <1>6 DEF AddUserStories
  <2> QED BY <1>6, <2>1 DEF AddUserStories, ApprovalOK
<1>7. ASSUME NEW w \in Caller, NEW s \in Story, NEW target \in Status,
             TransitionUserStory(w, s, target)
      PROVE  AppendOnlyStep
  BY <1>7 DEF TransitionUserStory, StatusOK
<1>8. ASSUME NEW s \in Story, NEW k \in Commit, PromoteToCertified(s, k)
      PROVE  AppendOnlyStep
  BY <1>8 DEF PromoteToCertified, StatusOK
<1> QED BY <1>1, <1>2, <1>3, <1>4, <1>5, <1>6, <1>7, <1>8 DEF Next, vars, ReadStatuses

(* Every operation keeps the shape of statuses, snapshots and approvals.   *)
LEMMA StepKeepsTypes ==
    ASSUME StatusOK, ApprovalOK, [Next]_vars
    PROVE  StatusOK' /\ ApprovalOK'
<1>1. ASSUME NEW s \in Story, NEW e \in EvidenceId, NEW k \in Commit, ApplyHumanApproval(s, e, k)
      PROVE  ApprovalOK'
  BY <1>1 DEF ApplyHumanApproval, ApprovalOK
<1>2. ASSUME NEW batch \in SUBSET Story, NEW already \in [batch -> EvidenceId \cup {None}],
             AddUserStories(batch, already)
      PROVE  ApprovalOK'
  BY <1>2 DEF AddUserStories, ApprovalOK
<1>3. ASSUME NEW w \in Caller, NEW s \in Story, NEW target \in Status,
             TransitionUserStory(w, s, target)
      PROVE  ApprovalOK'
  BY <1>3 DEF TransitionUserStory, ApprovalOK, StatusOK, Status
<1>4. ASSUME NEW s \in Story, NEW k \in Commit, PromoteToCertified(s, k)
      PROVE  ApprovalOK'
  BY <1>4 DEF PromoteToCertified, ApprovalOK, StatusOK
<1>5. ASSUME UNCHANGED << status, approval, evidence >>
      PROVE  ApprovalOK'
  BY <1>5 DEF ApprovalOK
<1>6. ASSUME NEW e \in EvidenceId, NEW o \in Observations[e], RecordEvidence(e, o)
      PROVE  ApprovalOK'
  <2>1. DOMAIN evidence' = DOMAIN evidence \cup {e}
    BY <1>6, WithFacts DEF RecordEvidence
  <2> QED BY <1>6, <2>1 DEF RecordEvidence, ApprovalOK
<1>7. ApprovalOK'
  BY <1>1, <1>2, <1>3, <1>4, <1>5, <1>6
     DEF Next, vars, EvaluateGate, CertifyUserStory, ReadStatuses
<1>8. CertifiedDependencies \in SUBSET Dependency
  BY ContractAssumption DEF StatusOK
<1>9. StatusOK'
  <2>1. CASE UNCHANGED vars
    BY <2>1 DEF vars, StatusOK
  <2>2. CASE Next
    BY <2>2, <1>8, NextStatus DEF StatusOK, Status
  <2> QED BY <2>1, <2>2
<1> QED BY <1>7, <1>9

(* The empty stores have that shape.                                       *)
LEMMA InitTypes == Init => StatusOK /\ ApprovalOK
<1>1. \A d \in Dependency : d \in Story
  BY ContractAssumption
<1>2. Init => CertifiedDependencies \in SUBSET Dependency
  BY <1>1 DEF Init, CertifiedDependencies
<1>3. Init => StatusOK
  BY <1>2 DEF Init, StatusOK
<1>4. Init => ApprovalOK
  BY InitFrame DEF Init, ApprovalOK
<1> QED BY <1>3, <1>4

(* Statuses, caller snapshots and approvals keep their shape through every *)
(* operation of the control plane, for any contract and any ids.           *)
THEOREM TypesHold == Spec => [](StatusOK /\ ApprovalOK)
BY InitTypes, StepKeepsTypes, PTL DEF Spec

(* Evidence, Gates, Certifications, applied approvals and terminal         *)
(* statuses survive every later operation.                                 *)
THEOREM AppendOnly == Spec => HistoryIsAppendOnly
<1>1. StatusOK /\ ApprovalOK /\ [Next]_vars => [AppendOnlyStep]_vars
  BY StepAppends
<1> QED BY <1>1, TypesHold, PTL DEF Spec, HistoryIsAppendOnly

-----------------------------------------------------------------------------
(* What proves a story at a commit is never taken away.                    *)
LEMMA ProofSurvives ==
    ASSUME NEW s \in Story, NEW k \in Commit,
           GateReferencesSound, ApprovalOK, AppendOnlyStep, ProvenAt(s, k)
    PROVE  ProvenAt(s, k)'
<1>1. \A e \in DOMAIN evidence : /\ e \in DOMAIN evidence' /\ evidence'[e] = evidence[e]
  BY DEF AppendOnlyStep
<1>2. \A a \in MandatoryOf[s] : \E e \in DOMAIN evidence' :
          /\ evidence'[e].type = "ACCEPTANCE_CRITERION_CHECK"
          /\ evidence'[e].subject = a /\ evidence'[e].result = "true"
          /\ evidence'[e].commit \in {None, k}
  BY <1>1 DEF ProvenAt
<1>3. \A g \in RequiredGates[s] :
          /\ g \in DOMAIN gates'
          /\ \/ gates'[g].result = "NOT_APPLICABLE"
             \/ /\ gates'[g].result = "PASS"
                /\ \A e \in gates'[g].refs : evidence'[e].commit \in {None, k}
  <2> TAKE g \in RequiredGates[s]
  <2>1. g \in DOMAIN gates /\ g \in DOMAIN gates' /\ gates'[g] = gates[g]
    BY DEF ProvenAt, AppendOnlyStep
  <2>2. \A e \in gates[g].refs : evidence'[e] = evidence[e]
    BY <1>1, <2>1 DEF GateReferencesSound
  <2>3. \/ gates[g].result = "NOT_APPLICABLE"
        \/ gates[g].result = "PASS" /\ \A e \in gates[g].refs : evidence[e].commit \in {None, k}
    BY DEF ProvenAt
  <2> QED BY <2>1, <2>2, <2>3
<1>4. s \in HumanRequired =>
          /\ approval'[s] \in DOMAIN evidence' /\ evidence'[approval'[s]].commit \in {None, k}
          /\ evidence'[approval'[s]].producer \in Human
  <2> SUFFICES ASSUME s \in HumanRequired
               PROVE  /\ approval'[s] \in DOMAIN evidence'
                      /\ evidence'[approval'[s]].commit \in {None, k}
                      /\ evidence'[approval'[s]].producer \in Human
    OBVIOUS
  <2>1. /\ approval[s] \in DOMAIN evidence /\ evidence[approval[s]].commit \in {None, k}
        /\ evidence[approval[s]].producer \in Human
    BY DEF ProvenAt
  <2>2. CASE approval[s] # None
    <3>1. approval'[s] = approval[s]
      BY <2>2 DEF AppendOnlyStep, Approved
    <3> QED BY <1>1, <2>1, <3>1
  <2>3. CASE approval[s] = None
    BY <2>1, <2>3, ContractAssumption DEF ApprovalOK
  <2> QED BY <2>2, <2>3
<1> QED BY <1>2, <1>3, <1>4 DEF ProvenAt

(* A sound CERTIFIED dossier proves its story at its commit.               *)
LEMMA SoundDossierProves ==
    ASSUME NEW c, c.result = "CERTIFIED", DossierSound(c)
    PROVE  ProvenAt(c.subject, c.commit)
<1>1. \A e \in c.refs : e \in DOMAIN evidence /\ evidence[e].commit \in {None, c.commit}
  BY DEF DossierSound
<1>2. \A a \in MandatoryOf[c.subject] : \E e \in DOMAIN evidence :
          /\ evidence[e].type = "ACCEPTANCE_CRITERION_CHECK"
          /\ evidence[e].subject = a /\ evidence[e].result = "true"
          /\ evidence[e].commit \in {None, c.commit}
  BY <1>1 DEF DossierSound, AcceptanceSound
<1>3. \A g \in RequiredGates[c.subject] :
          /\ g \in DOMAIN gates
          /\ \/ gates[g].result = "NOT_APPLICABLE"
             \/ /\ gates[g].result = "PASS"
                /\ \A e \in gates[g].refs : evidence[e].commit \in {None, c.commit}
  BY <1>1 DEF DossierSound, GateSound
<1>4. c.subject \in HumanRequired =>
          /\ approval[c.subject] \in DOMAIN evidence
          /\ evidence[approval[c.subject]].commit \in {None, c.commit}
          /\ evidence[approval[c.subject]].producer \in Human
  BY <1>1 DEF DossierSound, HumanSound
<1> QED BY <1>2, <1>3, <1>4 DEF ProvenAt

(* A CERTIFIED story was promoted for a commit at which everything         *)
(* mandatory is proved, whatever is recorded, evaluated, certified or      *)
(* approved afterwards.                                                    *)
THEOREM PromotedStaysProven == Spec => []PromotedCommitStaysProven
<1>1. Init => PromotedCommitStaysProven /\ promotedAt \in [Story -> Commit \cup {None}]
  <2>1. Init => promotedAt \in [Story -> Commit \cup {None}]
    BY DEF Init
  <2> QED BY <2>1, InitFrame DEF PromotedCommitStaysProven
<1> DEFINE Inv == /\ promotedAt \in [Story -> Commit \cup {None}]
                  /\ PromotedCommitStaysProven
<1>2. StatusOK /\ ApprovalOK /\ StateIntegrity /\ Inv /\ [Next]_vars => Inv'
  <2> SUFFICES ASSUME StatusOK, ApprovalOK, StateIntegrity, Inv, [Next]_vars
               PROVE  Inv'
    OBVIOUS
  <2>1. \A s \in Story, k \in Commit : ProvenAt(s, k) => ProvenAt(s, k)'
    BY StepAppends, ProofSurvives DEF StateIntegrity
  <2>2. ASSUME NEW t \in Story, NEW k \in Commit, PromoteToCertified(t, k)
        PROVE  Inv'
    <3>1. promotedAt' = [promotedAt EXCEPT ![t] = k] /\ status' = [status EXCEPT ![t] = "CERTIFIED"]
      BY <2>2 DEF PromoteToCertified
    <3>2. ProvenAt(t, k)
      BY <2>2, SoundDossierProves DEF PromoteToCertified, Applicable
    <3>3. ASSUME NEW s \in Story
          PROVE  (/\ status[s] = "CERTIFIED" <=> promotedAt[s] # None
                  /\ promotedAt[s] # None => ProvenAt(s, promotedAt[s]))'
      <4>1. CASE s = t
        <5>1. promotedAt'[s] = k /\ status'[s] = "CERTIFIED" /\ k # None
          BY <3>1, <4>1, ContractAssumption DEF StatusOK
        <5>2. ProvenAt(s, k)'
          BY <2>1, <3>2, <4>1
        <5> QED BY <5>1, <5>2 DEF ProvenAt
      <4>2. CASE s # t
        <5>1. promotedAt'[s] = promotedAt[s] /\ status'[s] = status[s]
          BY <3>1, <4>2 DEF StatusOK
        <5> QED BY <2>1, <5>1 DEF PromotedCommitStaysProven, ProvenAt
      <4> QED BY <4>1, <4>2
    <3> QED BY <3>1, <3>3 DEF PromotedCommitStaysProven
  <2>3. ASSUME promotedAt' = promotedAt,
               \A s \in Story : status'[s] = "CERTIFIED" <=> status[s] = "CERTIFIED"
        PROVE  Inv'
    BY <2>1, <2>3 DEF PromotedCommitStaysProven
  <2>4. ASSUME NEW w \in Caller, NEW s \in Story, NEW target \in Status,
               TransitionUserStory(w, s, target)
        PROVE  Inv'
    <3>1. target # "CERTIFIED" /\ status[s] # "CERTIFIED"
      BY <2>4 DEF TransitionUserStory, AllowedTransitions, Status
    <3> QED BY <2>3, <2>4, <3>1 DEF TransitionUserStory, StatusOK
  <2>5. ASSUME NEW batch \in SUBSET Story, NEW already, AddUserStories(batch, already)
        PROVE  Inv'
    BY <2>3, <2>5 DEF AddUserStories
  <2>6. CASE UNCHANGED vars
    BY <2>3, <2>6 DEF vars
  <2>7. CASE Next
    BY <2>2, <2>3, <2>4, <2>5, <2>7 DEF Next, RecordEvidence, EvaluateGate,
         ApplyHumanApproval, CertifyUserStory, ReadStatuses
  <2> QED BY <2>6, <2>7
<1> QED BY <1>1, <1>2, TypesHold, IntegrityHolds, PTL DEF Spec

-----------------------------------------------------------------------------
(* A negative verdict and the CERTIFIED status exclude each other for      *)
(* ever: every save, of a Certification or of a status, compares both.     *)
THEOREM NegativeVerdictBars == Spec => []NegativeVerdictBarsCertified
<1>1. StateIntegrity => NegativeVerdictBarsCertified
  <2> SUFFICES ASSUME StateIntegrity, NEW i \in DOMAIN certifications,
                      status[certifications[i].subject] = "CERTIFIED"
               PROVE  certifications[i].result = "CERTIFIED"
    BY DEF NegativeVerdictBarsCertified
  <2>1. certifications[i].subject \in Persisted
    BY DEF StateIntegrity, CertificationReferencesSound
  <2>2. VerdictsOn(certifications[i].subject) = {"CERTIFIED"}
    BY <2>1 DEF StateIntegrity, VerdictsAgree
  <2>3. certifications[i].result \in VerdictsOn(certifications[i].subject)
    BY DEF VerdictsOn
  <2> QED BY <2>2, <2>3
<1> QED BY <1>1, IntegrityHolds, PTL

-----------------------------------------------------------------------------
(* A citation reads the same after a step if all it cites was recorded     *)
(* before.                                                                 *)
LEMMA CitationSurvives ==
    ASSUME AppendOnlyStep, NEW refs \in SUBSET DOMAIN evidence, NEW subject, NEW r, NEW result
    PROVE  /\ Resolves(refs, subject, r)' <=> Resolves(refs, subject, r)
           /\ Supports(result, refs)' <=> Supports(result, refs)
<1>1. \A e \in refs : e \in DOMAIN evidence /\ e \in DOMAIN evidence' /\ evidence'[e] = evidence[e]
  BY DEF AppendOnlyStep
<1>2. Resolves(refs, subject, r)' <=> Resolves(refs, subject, r)
  BY <1>1 DEF Resolves
<1>3. Supports(result, refs)' <=> Supports(result, refs)
  BY <1>1 DEF Supports
<1> QED  BY <1>2, <1>3

(* Everything a Certification cites is recorded.                           *)
LEMMA UsedIsRecorded == ASSUME NEW r PROVE UsedEvidence(r) \subseteq DOMAIN evidence
<1>1. \A a : AcceptanceProven(r, a) => r.acceptance[a].refs \subseteq DOMAIN evidence
  BY DEF AcceptanceProven, Resolves
<1>2. \A g : GateResolves(r, g) => gates[g].refs \subseteq DOMAIN evidence
  BY DEF GateResolves, Resolves
<1>3. HumanEvidenceValid(r) => r.humanRef \in DOMAIN evidence
  BY DEF HumanEvidenceValid
<1> SUFFICES ASSUME NEW e \in UsedEvidence(r) PROVE e \in DOMAIN evidence
  OBVIOUS
<1>4. \/ \E a \in CriteriaOf[r.story] : AcceptanceProven(r, a) /\ e \in r.acceptance[a].refs
      \/ \E g \in RequiredGates[r.story] : GateResolves(r, g) /\ e \in gates[g].refs
      \/ HumanEvidenceValid(r) /\ e = r.humanRef
  BY DEF UsedEvidence
<1> QED  BY <1>1, <1>2, <1>3, <1>4

(* The answer about an acceptance criterion that was cited stays.          *)
LEMMA AcceptanceSurvives ==
    ASSUME AppendOnlyStep, NEW r, NEW a,
           Answered(r, a) => r.acceptance[a].refs \subseteq DOMAIN evidence
    PROVE  AcceptanceProven(r, a)' <=> AcceptanceProven(r, a)
<1>1. CASE Answered(r, a)
  <2> DEFINE refs == r.acceptance[a].refs
             result == r.acceptance[a].result
  <2>1. /\ Resolves(refs, a, r)' <=> Resolves(refs, a, r)
        /\ Supports(result, refs)' <=> Supports(result, refs)
    BY <1>1, CitationSurvives
  <2> QED  BY <2>1 DEF AcceptanceProven, Answered
<1>2. CASE ~Answered(r, a)
  BY <1>2 DEF AcceptanceProven, Answered
<1> QED  BY <1>1, <1>2

(* So does what a Gate says that was there.                                *)
LEMMA GateSurvives ==
    ASSUME AppendOnlyStep, GateReferencesSound, NEW r, NEW g \in DOMAIN gates
    PROVE  /\ g \in DOMAIN gates' /\ gates'[g] = gates[g]
           /\ GateResolves(r, g)' <=> GateResolves(r, g)
<1>1. g \in DOMAIN gates' /\ gates'[g] = gates[g]
  BY DEF AppendOnlyStep
<1>2. gates[g].refs \in SUBSET DOMAIN evidence
  BY DEF GateReferencesSound
<1>3. Resolves(gates[g].refs, r.story, r)' <=> Resolves(gates[g].refs, r.story, r)
  <2>1. \A e \in gates[g].refs : e \in DOMAIN evidence /\ e \in DOMAIN evidence' /\ evidence'[e] = evidence[e]
    BY <1>2 DEF AppendOnlyStep
  <2> QED  BY <1>1, <2>1 DEF Resolves
<1> QED  BY <1>1, <1>3 DEF GateResolves

(* And so does the Human part of a dossier that holds: the approval it     *)
(* rests on is applied, and no other can be.                               *)
LEMMA HumanSurvives ==
    ASSUME AppendOnlyStep, NEW r, r.story \in Story, EverythingHolds(r),
           ApprovalSound(r.story), ApprovalSound(r.story)'
    PROVE  /\ HumanDossier(r)' = HumanDossier(r)
           /\ r.story \in HumanRequired =>
                 /\ HumanEvidenceValid(r)' <=> HumanEvidenceValid(r)
                 /\ HumanFails(r)' <=> HumanFails(r)
                 /\ HumanHolds(r)' <=> HumanHolds(r)
<1>1. CASE r.story \notin HumanRequired
  <2>1. ~Approved(r.story) /\ ~Approved(r.story)'
    BY <1>1 DEF ApprovalSound
  <2> QED  BY <1>1, <2>1 DEF HumanDossier, Approved
<1>2. CASE r.story \in HumanRequired
  <2>1. /\ Approved(r.story) /\ r.humanRef \in DOMAIN evidence /\ approval[r.story] = r.humanRef
        /\ HumanHolds(r)
    BY <1>2 DEF EverythingHolds, HumanHolds, HumanEvidenceValid
  <2>2. /\ approval'[r.story] = approval[r.story] /\ r.humanRef \in DOMAIN evidence'
        /\ evidence'[r.humanRef] = evidence[r.humanRef]
    BY <2>1 DEF AppendOnlyStep
  <2>3. Approved(r.story)' /\ ApprovedBy(r.story)' = ApprovedBy(r.story)
    BY <2>1, <2>2 DEF Approved, ApprovedBy
  <2>4. HumanEvidenceValid(r)' <=> HumanEvidenceValid(r)
    BY <2>1, <2>2, <2>3 DEF HumanEvidenceValid
  <2>5. /\ HumanFails(r)' <=> HumanFails(r)
        /\ HumanHolds(r)' <=> HumanHolds(r)
    BY <2>1, <2>2, <2>3, <2>4 DEF HumanFails, HumanHolds
  <2>6. HumanDossier(r)' = HumanDossier(r)
    BY <1>2, <2>1, <2>3, <2>4, <2>5 DEF HumanDossier
  <2> QED  BY <2>4, <2>5, <2>6
<1> QED  BY <1>1, <1>2

(* The request of a positive Certification is answered alike after a step. *)
LEMMA AnswerSurvives ==
    ASSUME AppendOnlyStep, GateReferencesSound, NEW r, r.story \in Story,
           ApprovalSound(r.story), ApprovalSound(r.story)',
           VerdictOf(r) = "CERTIFIED",
           \A a \in CriteriaOf[r.story] : Answered(r, a) => r.acceptance[a].refs \subseteq UsedEvidence(r)
    PROVE  CertificationFor(r)' = CertificationFor(r)
<1>1. EverythingHolds(r) /\ ~SomethingFails(r)
  BY DEF VerdictOf
<1>2. \A a \in CriteriaOf[r.story] : AcceptanceProven(r, a)' <=> AcceptanceProven(r, a)
  BY UsedIsRecorded, AcceptanceSurvives
<1>3. \A g \in RequiredGates[r.story] :
         /\ g \in DOMAIN gates /\ g \in DOMAIN gates' /\ gates'[g] = gates[g]
         /\ GateResolves(r, g)' <=> GateResolves(r, g)
  <2>1. \A g \in RequiredGates[r.story] : g \in DOMAIN gates
    BY <1>1 DEF EverythingHolds, GateHolds, GateExempt
  <2> QED  BY <2>1, GateSurvives
<1>4. /\ HumanDossier(r)' = HumanDossier(r)
      /\ r.story \in HumanRequired =>
            /\ HumanEvidenceValid(r)' <=> HumanEvidenceValid(r)
            /\ HumanFails(r)' <=> HumanFails(r)
            /\ HumanHolds(r)' <=> HumanHolds(r)
  BY <1>1, HumanSurvives
<1>5. \A a \in MandatoryOf[r.story] : a \in CriteriaOf[r.story]
  BY ContractAssumption
<1>6. VerdictOf(r)' = "CERTIFIED"
  <2>1. \A a \in MandatoryOf[r.story] : AcceptanceHolds(r, a)' /\ ~AcceptanceFails(r, a)'
    BY <1>1, <1>2, <1>5 DEF EverythingHolds, AcceptanceHolds, AcceptanceFails
  <2>2. \A g \in RequiredGates[r.story] : GateHolds(r, g)' /\ ~GateFails(r, g)'
    <3> SUFFICES ASSUME NEW g \in RequiredGates[r.story]
                 PROVE  GateHolds(r, g)' /\ ~GateFails(r, g)'
      OBVIOUS
    <3>1. GateHolds(r, g) /\ ~GateFails(r, g)
      BY <1>1 DEF EverythingHolds, SomethingFails
    <3> QED  BY <1>3, <3>1 DEF GateHolds, GateFails, GateExempt, GateMatches
  <2>3. r.story \in HumanRequired => HumanHolds(r)' /\ ~HumanFails(r)'
    BY <1>1, <1>4 DEF EverythingHolds, SomethingFails
  <2>4. r.naAllowed \subseteq RequiredGates[r.story]
    BY <1>1 DEF EverythingHolds
  <2>5. EverythingHolds(r)' /\ ~SomethingFails(r)'
    BY <2>1, <2>2, <2>3, <2>4 DEF EverythingHolds, SomethingFails
  <2> QED  BY <2>5 DEF VerdictOf
<1>7. UsedEvidence(r)' = UsedEvidence(r)
  <2>1. {a \in CriteriaOf[r.story] : AcceptanceProven(r, a)'}
            = {a \in CriteriaOf[r.story] : AcceptanceProven(r, a)}
    BY <1>2
  <2>2. {g \in RequiredGates[r.story] : g \in DOMAIN gates' /\ GateResolves(r, g)'}
            = {g \in RequiredGates[r.story] : g \in DOMAIN gates /\ GateResolves(r, g)}
    BY <1>3
  <2>3. UNION {gates'[g].refs : g \in {h \in RequiredGates[r.story] : h \in DOMAIN gates' /\ GateResolves(r, h)'}}
            = UNION {gates[g].refs : g \in {h \in RequiredGates[r.story] : h \in DOMAIN gates /\ GateResolves(r, h)}}
    BY <1>3, <2>2
  <2>4. {e \in {r.humanRef} : r.story \in HumanRequired /\ HumanEvidenceValid(r)'}
            = {e \in {r.humanRef} : r.story \in HumanRequired /\ HumanEvidenceValid(r)}
    BY <1>4
  <2> QED  BY <2>1, <2>3, <2>4 DEF UsedEvidence
<1>8. {g \in RequiredGates[r.story] : GateExempt(r, g)'} = {g \in RequiredGates[r.story] : GateExempt(r, g)}
  BY <1>3 DEF GateExempt, GateMatches
<1>9. [g \in RequiredGates[r.story] |-> IF g \in DOMAIN gates' THEN gates'[g].result ELSE "UNKNOWN"]
         = [g \in RequiredGates[r.story] |-> IF g \in DOMAIN gates THEN gates[g].result ELSE "UNKNOWN"]
  BY <1>3
<1>10. \A a : Answered(r, a)' <=> Answered(r, a)
  BY DEF Answered
<1> QED  BY <1>4, <1>6, <1>7, <1>8, <1>9, <1>10 DEF CertificationFor, Answered

(* The answer to a request depends on what is recorded and approved only.  *)
LEMMA AnswerDependsOnRecords ==
    ASSUME UNCHANGED << evidence, gates, approval >>, NEW r
    PROVE  CertificationFor(r)' = CertificationFor(r)
<1>1. \A a : /\ AcceptanceProven(r, a)' <=> AcceptanceProven(r, a)
             /\ AcceptanceHolds(r, a)' <=> AcceptanceHolds(r, a)
             /\ AcceptanceFails(r, a)' <=> AcceptanceFails(r, a)
  BY DEF AcceptanceProven, AcceptanceHolds, AcceptanceFails, Answered, Resolves, Supports
<1>2. \A g : /\ GateResolves(r, g)' <=> GateResolves(r, g)
             /\ GateHolds(r, g)' <=> GateHolds(r, g)
             /\ GateFails(r, g)' <=> GateFails(r, g)
             /\ GateExempt(r, g)' <=> GateExempt(r, g)
  BY DEF GateResolves, GateHolds, GateFails, GateExempt, GateMatches, Resolves
<1>3. /\ HumanEvidenceValid(r)' <=> HumanEvidenceValid(r)
      /\ HumanHolds(r)' <=> HumanHolds(r)
      /\ HumanFails(r)' <=> HumanFails(r)
  BY DEF HumanEvidenceValid, HumanHolds, HumanFails, ApprovedBy, Approved
<1>4. HumanDossier(r)' = HumanDossier(r)
  BY <1>3 DEF HumanDossier, Approved
<1>5. VerdictOf(r)' = VerdictOf(r)
  BY <1>1, <1>2, <1>3 DEF VerdictOf, SomethingFails, EverythingHolds
<1>6. UsedEvidence(r)' = UsedEvidence(r)
  BY <1>1, <1>2, <1>3 DEF UsedEvidence
<1> QED  BY <1>2, <1>4, <1>5, <1>6 DEF CertificationFor, Answered

(* Certifying the request of a positive Certification again, at any later  *)
(* time, recomputes that Certification: whatever is recorded, evaluated or *)
(* approved in between, the caller is told that it is the one on record.   *)
THEOREM ReplaysPositive == Spec => []PositiveVerdictIsReplayable
<1> DEFINE Inv == DOMAIN requestOf = DOMAIN certifications /\ PositiveVerdictIsReplayable
           Positive(c, r) == /\ c.result = "CERTIFIED"
                             /\ \A a \in CriteriaOf[c.subject] :
                                   Answered(r, a) => r.acceptance[a].refs \subseteq c.refs
<1>1. Init => Inv
  <2>1. Init => DOMAIN requestOf = {} /\ DOMAIN certifications = {}
    BY DEF Init
  <2> QED  BY <2>1 DEF PositiveVerdictIsReplayable
<1>2. StatusOK /\ ApprovalOK /\ StateIntegrity /\ StateIntegrity' /\ Inv /\ [Next]_vars => Inv'
  <2> SUFFICES ASSUME StatusOK, ApprovalOK, StateIntegrity, StateIntegrity', Inv, [Next]_vars
               PROVE  Inv'
    OBVIOUS
  <2>1. AppendOnlyStep
    BY StepAppends
  <2>2. ASSUME NEW i \in DOMAIN certifications, NEW r, r = requestOf[i], Positive(certifications[i], r)
        PROVE  CertificationFor(r)' = certifications[i]
    <3>1. CertificationFor(r) = certifications[i]
      BY <2>2 DEF PositiveVerdictIsReplayable
    <3>2. /\ certifications[i].subject = r.story /\ VerdictOf(r) = "CERTIFIED"
          /\ certifications[i].refs = UsedEvidence(r)
      BY <2>2, <3>1 DEF CertificationFor
    <3>3. i \in DOMAIN certifications' /\ certifications'[i] = certifications[i]
      BY <2>1 DEF AppendOnlyStep
    <3>4. r.story \in Persisted /\ r.story \in Persisted'
      BY <3>2, <3>3 DEF StateIntegrity, CertificationReferencesSound
    <3>5. r.story \in Story /\ ApprovalSound(r.story) /\ ApprovalSound(r.story)'
      BY <3>4 DEF StateIntegrity
    <3>6. \A a \in CriteriaOf[r.story] : Answered(r, a) => r.acceptance[a].refs \subseteq UsedEvidence(r)
      BY <2>2, <3>2
    <3>7. GateReferencesSound
      BY DEF StateIntegrity
    <3> QED  BY <2>1, <3>1, <3>2, <3>5, <3>6, <3>7, AnswerSurvives
  <2>3. CASE certifications' = certifications /\ requestOf' = requestOf
    <3>1. ASSUME NEW i \in DOMAIN certifications, NEW r, r = requestOf[i], Positive(certifications[i], r)
          PROVE  CertificationFor(r)' = certifications'[i]
      BY <2>2, <2>3, <3>1
    <3> QED  BY <2>3, <3>1 DEF PositiveVerdictIsReplayable, Answered
  <2>4. ASSUME NEW id, NEW r, CertifyUserStory(id, r) PROVE Inv'
    <3>1. /\ certifications' = With(certifications, id, CertificationFor(r))
          /\ requestOf' = With(requestOf, id, r) /\ id \notin DOMAIN certifications
          /\ UNCHANGED << evidence, gates, approval >>
      BY <2>4 DEF CertifyUserStory
    <3>2. /\ DOMAIN certifications' = DOMAIN certifications \cup {id}
          /\ certifications'[id] = CertificationFor(r)
          /\ \A i \in DOMAIN certifications : certifications'[i] = certifications[i]
      BY <3>1 DEF With
    <3>3. /\ DOMAIN requestOf' = DOMAIN requestOf \cup {id} /\ requestOf'[id] = r
          /\ \A i \in DOMAIN certifications : requestOf'[i] = requestOf[i]
      BY <3>1 DEF With
    <3>4. CertificationFor(r)' = CertificationFor(r)
      BY <3>1, AnswerDependsOnRecords
    <3>5. ASSUME NEW i \in DOMAIN certifications', NEW q, q = requestOf'[i], Positive(certifications'[i], q)
          PROVE  CertificationFor(q)' = certifications'[i]
      <4>1. CASE i = id
        BY <3>2, <3>3, <3>4, <3>5, <4>1
      <4>2. CASE i \in DOMAIN certifications
        BY <2>2, <3>2, <3>3, <3>5, <4>2
      <4> QED  BY <3>2, <4>1, <4>2
    <3> QED  BY <3>2, <3>3, <3>5 DEF PositiveVerdictIsReplayable, Answered
  <2>5. CASE UNCHANGED vars
    BY <2>3, <2>5 DEF vars
  <2>6. CASE Next
    BY <2>3, <2>4, <2>6 DEF Next, RecordEvidence, EvaluateGate, ApplyHumanApproval, AddUserStories,
         ReadStatuses, TransitionUserStory, PromoteToCertified
  <2> QED  BY <2>5, <2>6
<1> QED  BY <1>1, <1>2, TypesHold, IntegrityHolds, PTL DEF Spec
=============================================================================
