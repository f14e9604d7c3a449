SPECIFICATION Spec
CONSTANTS
  S1 = S1  S2 = S2
  A1 = A1  A2 = A2  G1 = G1
  E1 = E1  E2 = E2  E3 = E3
  I1 = I1  I2 = I2  K1 = K1  K2 = K2
  Alice = Alice  None = None
  Story = {S1, S2}
  Criterion = {A1, A2}
  GateId = {G1}
  EvidenceId = {E1, E2, E3}
  CertificationId = {I1, I2}
  Commit = {K1, K2}
  Human = {Alice}
  Caller = {w1}
  DependsOn <- TwoDependsOn
  CriteriaOf <- TwoCriteria
  MandatoryOf <- TwoMandatory
  RequiredGates <- TwoGates
  HumanRequired = {S1}
  Observations <- DossierObservations
  GateContracts <- DossierContracts
  GateContexts <- DossierContexts
  Requests <- DossierRequests
INVARIANTS StartedRestsOnCertified PromotedCommitStaysProven PositiveVerdictIsReplayable
SYMMETRY SameCertifications
CHECK_DEADLOCK FALSE
