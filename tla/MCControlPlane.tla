--------------------------- MODULE MCControlPlane ---------------------------
(* Contracts, observations and requests of the runs of ControlPlane.       *)
EXTENDS ControlPlane, TLC

CONSTANTS S1, S2, A1, A2, G1, E1, E2, E3, I1, I2, K1, K2, Alice

(* Run dossier: S1 has a mandatory and an optional criterion, a required   *)
(* Gate and a required approval, over two commits; S2 depends on S1, so    *)
(* that statuses and stale callers matter.                                 *)
TwoDependsOn == S1 :> {} @@ S2 :> {S1}
TwoCriteria  == S1 :> {A1, A2} @@ S2 :> {}
TwoMandatory == S1 :> {A1} @@ S2 :> {}
TwoGates     == S1 :> {G1} @@ S2 :> {}

Observation(type, subject, result, commit, producer) ==
    [type |-> type, subject |-> subject, result |-> result, commit |-> commit,
     producer |-> producer, attributed |-> TRUE, repositoryDependent |-> commit # None]

Check(a, result, k) == Observation("ACCEPTANCE_CRITERION_CHECK", a, result, k, "Codex")
Decision(s, result, k) == Observation("HUMAN_APPROVAL", s, result, k, Alice)

PlainRequest(s, k, acceptance) ==
    [story |-> s, commit |-> k, acceptance |-> acceptance, stale |-> {}, independent |-> {},
     naAllowed |-> {}, humanRef |-> None, certifier |-> "attributed"]

Pass(refs) == [result |-> "PASS", refs |-> refs]
Fail(refs) == [result |-> "FAIL", refs |-> refs]

NoAnswer == << >>

DossierObservations ==
    E1 :> {Check(A1, "true", K1), Check(A1, "true", K2), Check(A1, "false", K1)} @@
    E2 :> {Observation("OTHER", S1, "data", K1, "Codex"),
           [Observation("OTHER", S1, "data", None, "Codex") EXCEPT !.type = "GIT_STATE"]} @@
    E3 :> {Decision(S1, "true", K1), Decision(S1, "false", None),
           [Decision(S1, "true", K1) EXCEPT !.producer = "Codex"]}

DossierContracts ==
    {[gate |-> G1, subject |-> S1, required |-> TRUE, evidence |-> es, repositoryDependent |-> TRUE] :
        es \in {{}, {E2}}}
    \cup {[gate |-> G1, subject |-> S1, required |-> FALSE, evidence |-> {E2},
           repositoryDependent |-> FALSE]}

DossierContexts ==
    {[expected |-> k, stale |-> {}, notApplicable |-> n] : k \in {K1, None}, n \in {"absent", "reason"}}
    \cup {[expected |-> K1, stale |-> {E2}, notApplicable |-> "absent"],
          [expected |-> K1, stale |-> {}, notApplicable |-> "blank"]}

FullRequest == [PlainRequest(S1, K1, A1 :> Pass({E1})) EXCEPT !.humanRef = E3]

DossierRequests ==
    {FullRequest,
     [FullRequest EXCEPT !.commit = K2],
     [FullRequest EXCEPT !.humanRef = None],
     [FullRequest EXCEPT !.naAllowed = {G1}],
     [FullRequest EXCEPT !.stale = {E1}],
     [FullRequest EXCEPT !.certifier = "ambiguous"],
     [FullRequest EXCEPT !.acceptance = NoAnswer],
     [FullRequest EXCEPT !.acceptance = A1 :> Fail({E1})],
     [FullRequest EXCEPT !.acceptance = A1 :> Pass({E1}) @@ A2 :> Pass({E2})],
     [FullRequest EXCEPT !.acceptance = A1 :> Pass({E1}) @@ A2 :> [result |-> "UNKNOWN", refs |-> {}]]}

SameCertifications == Permutations({I1, I2})
=============================================================================
