--------------------------- MODULE MCRoleResults ---------------------------
(* One story with a mandatory and an optional criterion and one Gate; one  *)
(* path of every class, one of them spelled in two ways.                   *)
EXTENDS RoleResults, TLC

CONSTANTS src, SRC, test, prod2, banned, state, m, o, g

Spelled == {src, SRC, test, banned, prod2, state}
Spelling == src :> src @@ SRC :> src @@ test :> test @@ banned :> banned
            @@ prod2 :> prod2 @@ state :> state

Result(required, executed, result) ==
    [required |-> required, executed |-> executed, result |-> result]

ImplementerReports ==
    {[bound |-> b, files |-> fs, tests |-> ts, commands |-> cs, results |-> rs,
      blockers |-> v = "BLOCKED", verdict |-> v] :
        b \in BOOLEAN, fs \in {fs \in SUBSET Spelled : Cardinality(fs) <= 2}, ts \in {{}, {test}},
        cs \in {{}, {"unit"}},
        rs \in {<< >>} \union {"unit" :> Result(TRUE, TRUE, x) : x \in {"PASS", "FAIL"}},
        v \in {"READY_FOR_TEST", "BLOCKED"}}

Case(t, q, e, v) == [type |-> t, required |-> q, executed |-> e, verdict |-> v]
Passing == {Case(t, TRUE, TRUE, "PASS") : t \in CaseType \ {"EDGE"}}
Cases == {Passing} \union
         {Passing \union {k} : k \in {Case("EDGE", TRUE, TRUE, "PASS"), Case("EDGE", TRUE, FALSE, "PASS"),
                                     Case("EDGE", FALSE, TRUE, "FAIL"), Case("EDGE", TRUE, FALSE, "UNKNOWN"),
                                     Case("EDGE", FALSE, FALSE, "UNKNOWN")}}

Answer(x, seen) == [result |-> x, observed |-> seen]
Acceptance ==
    {<< >>} \union
    {m :> Answer(x, seen) : x \in Outcome, seen \in BOOLEAN} \union
    {m :> Answer("PASS", TRUE) @@ o :> Answer(x, TRUE) : x \in {"FAIL", "UNKNOWN"}}

TesterReports ==
    {[bound |-> TRUE, planned |-> {"unit"}, targeted |-> tg, acceptance |-> a, cases |-> cs,
      files |-> fs, commands |-> {"unit"}, results |-> rs, findings |-> TRUE,
      blockers |-> v = "BLOCKED", verdict |-> v] :
        tg \in {{m}, {m, o}, {o}, {m, "unknown"}}, a \in Acceptance, cs \in Cases,
        fs \in {{}, {test}, {src}},
        rs \in {"unit" :> x : x \in {Result(TRUE, TRUE, "PASS"), Result(TRUE, FALSE, "PASS"),
                                      Result(TRUE, TRUE, "FAIL"), Result(TRUE, FALSE, "UNKNOWN")}},
        v \in {"READY_FOR_REVIEW", "REMEDIATION_REQUIRED", "BLOCKED"}}

Finding(s, b, p) == [severity |-> s, blocking |-> b, paths |-> {p}]
ReviewerReports ==
    {[bound |-> TRUE, reviewed |-> ps, findings |-> fs, allDimensions |-> d,
      blockers |-> v = "BLOCKED", verdict |-> v] :
        ps \in SUBSET {src, test, prod2},
        fs \in {{}, {Finding("INFO", TRUE, src)}, {Finding("MAJOR", FALSE, prod2)},
                {Finding("MAJOR", TRUE, src)}, {Finding("CRITICAL", FALSE, src)}},
        d \in BOOLEAN,
        v \in {"READY_FOR_CERTIFICATION", "REMEDIATION_REQUIRED", "BLOCKED"}}

Evidence(k, s, x, c) ==
    [kind |-> k, subject |-> s, result |-> x, commit |-> c, attributed |-> TRUE]
Checks == {<< >>} \union
          {"check" :> Evidence("ACCEPTANCE_CRITERION_CHECK", m, x, c) :
              << x, c >> \in {<< TRUE, "current" >>, << TRUE, "old" >>, << FALSE, "current" >>}}
Decisions == {<< >>} \union
             {"human" :> Evidence("HUMAN_APPROVAL", "story", TRUE, c) : c \in {"none", "old"}}
Gates == {<< >>} \union
         {g :> [subject |-> "story", required |-> q, result |-> x, refs |-> rs] :
             << q, x, rs >> \in {<< TRUE, "PASS", {"check"} >>, << TRUE, "PASS", {} >>,
                                << FALSE, "PASS", {"check"} >>, << TRUE, "NOT_APPLICABLE", {} >>}}

Dossiers ==
    UNION {{[evidence |-> c @@ h, gates |-> k, authorised |-> a, sameContract |-> same,
             approval |-> [required |-> h # << >>, approved |-> TRUE, ref |-> "human"]] :
                a \in IF k # << >> /\ k[g].result = "NOT_APPLICABLE" THEN {{}, {g}} ELSE {{}}} :
            same \in BOOLEAN, c \in Checks, h \in Decisions, k \in Gates}
=============================================================================
