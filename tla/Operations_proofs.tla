------------------------- MODULE Operations_proofs -------------------------
(***************************************************************************)
(* Proofs about the two components an operator works with: Governance and  *)
(* Diagnosis, for every set of observations, policies, budgets, limits and *)
(* stores, and then Maintenance, for any number of processes and of        *)
(* revisions.  A source that is not attested is never healthy, more        *)
(* policies never allow more, a preference never admits what the ceilings  *)
(* refuse, an incident is only closed while nothing shows it, and work     *)
(* only starts where the maintenance record permits it.                    *)
(***************************************************************************)
EXTENDS Diagnosis, Maintenance, WellFoundedInduction, TLAPS

---------------------------------------------------------------------------
(* Health.                                                                 *)

LEMMA WorstIsWorst ==
    ASSUME NEW S \in SUBSET HealthState, S # {}
    PROVE  /\ Worst(S) \in S
           /\ \A t \in S : Gravity[t] <= Gravity[Worst(S)]
<1>1. \E s \in S : \A t \in S : Gravity[t] <= Gravity[s]
  <2>1. CASE "BLOCKED" \in S  BY <2>1 DEF Gravity, HealthState
  <2>2. CASE "BLOCKED" \notin S /\ "UNKNOWN" \in S  BY <2>2 DEF Gravity, HealthState
  <2>3. CASE "BLOCKED" \notin S /\ "UNKNOWN" \notin S /\ "DEGRADED" \in S
    BY <2>3 DEF Gravity, HealthState
  <2>4. CASE "BLOCKED" \notin S /\ "UNKNOWN" \notin S /\ "DEGRADED" \notin S
    BY <2>4 DEF Gravity, HealthState
  <2> QED  BY <2>1, <2>2, <2>3, <2>4
<1> QED  BY <1>1 DEF Worst

LEMMA SourceStateType == \A s, c : SourceState(s, c) \in HealthState
  BY DEF SourceState, ConditionState, HealthState

LEMMA ObservedType ==
    ASSUME NEW d \in HealthDimension, NEW c
    PROVE  /\ Observed(d, c) \in HealthState
           /\ \A s \in Expected(d, c) : Gravity[SourceState(s, c)] <= Gravity[Observed(d, c)]
           /\ d = "OBSERVABILITY" /\ Blind(c) => Gravity[Observed(d, c)] >= 2
<1> DEFINE S == {SourceState(s, c) : s \in Expected(d, c)}
                  \cup (IF d = "OBSERVABILITY" /\ Blind(c) THEN {"UNKNOWN"} ELSE {})
<1>1. S \in SUBSET HealthState
  BY SourceStateType DEF HealthState
<1>2. Expected(d, c) # {}
  BY DEF Expected, HealthDimension, Always, InMission
<1>3. S # {} /\ \A s \in Expected(d, c) : SourceState(s, c) \in S
  BY <1>2
<1>4. d = "OBSERVABILITY" /\ Blind(c) => "UNKNOWN" \in S
  OBVIOUS
<1>5. Observed(d, c) = Worst(S)
  BY DEF Observed
<1>6. Worst(S) \in S /\ \A t \in S : Gravity[t] <= Gravity[Worst(S)]
  BY <1>1, <1>3, WorstIsWorst
<1>7. Gravity["UNKNOWN"] = 2
  BY DEF Gravity, HealthState
<1>8. Worst(S) \in HealthState /\ Gravity[Worst(S)] \in Int
  BY <1>1, <1>6 DEF Gravity, HealthState
<1> QED  BY <1>3, <1>4, <1>5, <1>6, <1>7, <1>8

LEMMA DimensionStateType ==
    ASSUME NEW c, NEW d \in Required(c) \cup Optional(c)
    PROVE  /\ d \in HealthDimension
           /\ DimensionState(d, c) \in HealthState
           /\ Gravity[Observed(d, c)] <= Gravity[DimensionState(d, c)]
<1>1. d \in HealthDimension
  BY DEF Required, Optional, HealthDimension
<1>2. Observed(d, c) \in HealthState
  BY <1>1, ObservedType
<1> QED  BY <1>1, <1>2 DEF DimensionState, HealthState, Gravity

LEMMA GlobalCoversRequired ==
    ASSUME NEW c
    PROVE  /\ GlobalState(c) \in HealthState
           /\ \A d \in Required(c) : Gravity[DimensionState(d, c)] <= Gravity[GlobalState(c)]
<1> DEFINE R == States(Required(c), c)
<1>1. R \in SUBSET HealthState
  BY DimensionStateType DEF States
<1>2. R # {} /\ \A d \in Required(c) : DimensionState(d, c) \in R
  BY DEF States, Required, Always
<1>3. Worst(R) \in R /\ \A t \in R : Gravity[t] <= Gravity[Worst(R)]
  BY <1>1, <1>2, WorstIsWorst
<1>4. Worst(R) \in HealthState
  BY <1>1, <1>3
<1>5. GlobalState(c) = Worst(R) \/ (Worst(R) = "HEALTHY" /\ GlobalState(c) = "DEGRADED")
  BY DEF GlobalState
<1>6. Gravity["HEALTHY"] = 0 /\ Gravity["DEGRADED"] = 1
  BY DEF Gravity, HealthState
<1>7. \A s \in HealthState : Gravity[s] \in Int
  BY DEF Gravity, HealthState
<1>8. ASSUME NEW d \in Required(c)
      PROVE  Gravity[DimensionState(d, c)] <= Gravity[GlobalState(c)]
  <2>1. Gravity[DimensionState(d, c)] <= Gravity[Worst(R)]
    BY <1>2, <1>3
  <2>2. DimensionState(d, c) \in HealthState
    BY DimensionStateType
  <2> QED  BY <2>1, <2>2, <1>4, <1>5, <1>6, <1>7
<1> QED  BY <1>4, <1>5, <1>8 DEF HealthState

(* docs/64: no source that is missing, doubled, stale or foreign leaves a  *)
(* required dimension, or the whole, better than unknown.                  *)
THEOREM LossIsNeverHealthy ==
    ASSUME NEW c, NEW d \in Required(c), NEW s \in Expected(d, c), ~Attested(s, c)
    PROVE  GlobalState(c) \in {"UNKNOWN", "BLOCKED"}
<1>1. d \in HealthDimension /\ DimensionState(d, c) \in HealthState
      /\ Gravity[Observed(d, c)] <= Gravity[DimensionState(d, c)]
  BY DimensionStateType
<1>2. SourceState(s, c) = "UNKNOWN"
  BY DEF SourceState
<1>3. Observed(d, c) \in HealthState /\ Gravity["UNKNOWN"] <= Gravity[Observed(d, c)]
  BY <1>1, <1>2, ObservedType
<1>4. GlobalState(c) \in HealthState /\ Gravity[DimensionState(d, c)] <= Gravity[GlobalState(c)]
  BY GlobalCoversRequired
<1>5. Gravity["UNKNOWN"] <= Gravity[GlobalState(c)]
  <2>1. \A x \in HealthState : Gravity[x] \in Int
    BY DEF Gravity, HealthState
  <2> QED  BY <2>1, <1>1, <1>3, <1>4 DEF HealthState
<1> QED  BY <1>4, <1>5 DEF Gravity, HealthState

---------------------------------------------------------------------------
(* Policies.                                                               *)

LEMMA StrictestIsStrictest ==
    ASSUME NEW S \in SUBSET Decision, S # {}
    PROVE  /\ Strictest(S) \in S
           /\ \A t \in S : Severity[t] <= Severity[Strictest(S)]
<1>1. \E s \in S : \A t \in S : Severity[t] <= Severity[s]
  <2>1. CASE "BLOCK" \in S  BY <2>1 DEF Severity, Decision
  <2>2. CASE "BLOCK" \notin S /\ "REQUIRE_OPERATOR" \in S  BY <2>2 DEF Severity, Decision
  <2>3. CASE "BLOCK" \notin S /\ "REQUIRE_OPERATOR" \notin S /\ "ALLOW_WITH_WARNING" \in S
    BY <2>3 DEF Severity, Decision
  <2>4. CASE "BLOCK" \notin S /\ "REQUIRE_OPERATOR" \notin S /\ "ALLOW_WITH_WARNING" \notin S
    BY <2>4 DEF Severity, Decision
  <2> QED  BY <2>1, <2>2, <2>3, <2>4
<1> QED  BY <1>1 DEF Strictest

(* The policies of a request act with a known decision, and its health is  *)
(* one of the four states.                                                 *)
Wellformed(g) ==
    /\ \A p \in g.policies : p.action \in Decision
    /\ g.health.global \in HealthState

LEMMA FloorType == ASSUME NEW g, Wellformed(g) PROVE Floor(g) \in Decision
  BY DEF Floor, Wellformed, HealthFloor, HealthState, Decision

LEMMA GovernCovers ==
    ASSUME NEW g, Wellformed(g)
    PROVE  /\ Govern(g) \in Decision
           /\ Severity[Floor(g)] <= Severity[Govern(g)]
           /\ \A p \in Matched(g) : Severity[p.action] <= Severity[Govern(g)]
           /\ Govern(g) = Floor(g) \/ \E p \in Matched(g) : Govern(g) = p.action
<1> DEFINE S == {Floor(g)} \cup {p.action : p \in Matched(g)}
<1>1. \A p \in Matched(g) : p.action \in Decision
  BY DEF Matched, Applicable, Wellformed
<1>2. S \in SUBSET Decision /\ S # {}
  BY <1>1, FloorType
<1>3. Govern(g) = Strictest(S)
  BY DEF Govern
<1>4. Strictest(S) \in S /\ \A t \in S : Severity[t] <= Severity[Strictest(S)]
  BY <1>2, StrictestIsStrictest
<1> QED  BY <1>2, <1>3, <1>4

(* docs/65: whatever the policies, the decision is at least as strict as   *)
(* the health asks for.                                                    *)
THEOREM HealthBindsEveryPolicy ==
    ASSUME NEW g, Wellformed(g)
    PROVE  Severity[HealthFloor[g.health.global]] <= Severity[Govern(g)]
<1>1. Govern(g) \in Decision /\ Severity[Floor(g)] <= Severity[Govern(g)]
  BY GovernCovers
<1>2. Floor(g) = "BLOCK" \/ Floor(g) = HealthFloor[g.health.global]
  BY DEF Floor
<1>3. HealthFloor[g.health.global] \in Decision
  BY DEF Wellformed, HealthFloor, HealthState, Decision
<1>4. \A d \in Decision : Severity[d] \in 0 .. 3
  BY DEF Severity, Decision
<1>5. Severity["BLOCK"] = 3
  BY DEF Severity, Decision
<1> QED  BY <1>1, <1>2, <1>3, <1>4, <1>5

(* The same request under more policies.                                   *)
MorePolicies(g, h) ==
    /\ g.policies \subseteq h.policies
    /\ h.operation = g.operation /\ h.health = g.health /\ h.healthBinding = g.healthBinding
    /\ h.metrics = g.metrics /\ h.sandbox = g.sandbox /\ h.verified = g.verified
    /\ h.maintenance = g.maintenance /\ h.intervention = g.intervention

(* docs/65: the result is a maximum; once the obligatory hard policy is    *)
(* there, a policy added in any class never loosens the decision.          *)
THEOREM PoliciesOnlyTighten ==
    ASSUME NEW g, NEW h, Wellformed(h), MorePolicies(g, h),
           \E p \in g.policies : p.class = "HARD_SAFETY_POLICY"
    PROVE  Severity[Govern(g)] <= Severity[Govern(h)]
<1>1. Wellformed(g)
  BY DEF Wellformed, MorePolicies
<1>2. Applicable(g) \subseteq Applicable(h)
  BY DEF Applicable, MorePolicies
<1>3. \A k : Holds(k, h) = Holds(k, g)
  BY DEF Holds, MorePolicies
<1>4. \A k : Unanswered(k, h) <=> Unanswered(k, g)
  BY DEF Unanswered, MorePolicies
<1>5. Matched(g) \subseteq Matched(h)
  BY <1>2, <1>3, <1>4 DEF Matched
<1>6. Refused(g) => Refused(h)
  <2>1. (\E p \in Applicable(g) : Unanswered(p.condition, g)) => \E p \in Applicable(h) : Unanswered(p.condition, h)
    BY <1>2, <1>4
  <2>2. Conflicting(Matched(g)) => Conflicting(Matched(h))
    BY <1>5 DEF Conflicting
  <2>3. ~(\A p \in g.policies : p.class # "HARD_SAFETY_POLICY")
    OBVIOUS
  <2> QED  BY <2>1, <2>2, <2>3 DEF Refused, MorePolicies
<1>7. Severity[Floor(g)] <= Severity[Floor(h)]
  <2>1. Floor(g) \in Decision /\ Floor(h) \in Decision
    BY <1>1, FloorType
  <2>2. Floor(h) = "BLOCK" \/ Floor(h) = Floor(g)
    BY <1>6 DEF Floor, MorePolicies
  <2> QED  BY <2>1, <2>2 DEF Severity, Decision
<1>8. /\ Govern(h) \in Decision /\ Severity[Floor(h)] <= Severity[Govern(h)]
      /\ \A p \in Matched(h) : Severity[p.action] <= Severity[Govern(h)]
  BY GovernCovers
<1>9. Govern(g) = Floor(g) \/ \E p \in Matched(g) : Govern(g) = p.action
  BY <1>1, GovernCovers
<1>10. CASE Govern(g) = Floor(g)
  <2>1. Floor(g) \in Decision /\ Floor(h) \in Decision
    BY <1>1, FloorType
  <2>2. \A d \in Decision : Severity[d] \in Int
    BY DEF Severity, Decision
  <2> QED  BY <1>7, <1>8, <1>10, <2>1, <2>2
<1>11. CASE \E p \in Matched(g) : Govern(g) = p.action
  BY <1>5, <1>8, <1>11
<1> QED  BY <1>9, <1>10, <1>11

---------------------------------------------------------------------------
(* Budgets.                                                                *)

LEMMA LeastExists ==
    ASSUME NEW S \in SUBSET Nat, S # {}
    PROVE  \E n \in S : \A m \in S : n <= m
<1>1. PICK n \in S : \A m \in S : ~(<<m, n>> \in OpToRel(<, Nat))
  BY NatLessThanWellFounded, WFMin
<1>2. \A m \in S : ~(m < n)
  BY <1>1 DEF OpToRel
<1> QED  BY <1>2

LEMMA EffectiveLimitIsLeast ==
    ASSUME NEW B, B # {}, \A b \in B : b.limit \in Nat
    PROVE  /\ EffectiveLimit(B) \in Nat
           /\ \A b \in B : EffectiveLimit(B) <= b.limit
           /\ \E b \in B : EffectiveLimit(B) = b.limit
<1> DEFINE L == {b.limit : b \in B}
<1>1. L \in SUBSET Nat /\ L # {}
  OBVIOUS
<1>2. \E n \in L : \A m \in L : n <= m
  BY <1>1, LeastExists
<1>3. \E n \in L : \A b \in B : n <= b.limit
  BY <1>2
<1>4. EffectiveLimit(B) \in L /\ \A b \in B : EffectiveLimit(B) <= b.limit
  BY <1>3 DEF EffectiveLimit
<1> QED  BY <1>1, <1>4

(* Every answer the execution boundary accepts keeps the future use within *)
(* every ceiling, and rests on usage that is complete, current and         *)
(* coherent.                                                               *)
THEOREM AdmittedIsWithinEveryLimit ==
    ASSUME NEW B, \A b \in B : b.limit \in Nat, NEW usage,
           usage.current \in Nat, usage.requested \in Nat, Admitted(B, usage)
    PROVE  /\ Ceilings(B) # {} /\ Reliable(usage)
           /\ \A b \in B : Future(usage) <= b.limit
<1>1. Budget(B, usage) # "UNKNOWN"
  BY DEF Admitted
<1>2. /\ Ceilings(B) # {} /\ Reliable(usage)
      /\ Budget(B, usage) = Classify(Future(usage), EffectiveLimit(B))
  BY <1>1 DEF Budget
<1>3. EffectiveLimit(B) \in Nat /\ \A b \in B : EffectiveLimit(B) <= b.limit
  BY <1>2, EffectiveLimitIsLeast DEF Ceilings
<1>4. Future(usage) \in Nat
  BY DEF Future
<1>5. ~(Future(usage) > EffectiveLimit(B))
  BY <1>2, <1>3, <1>4 DEF Admitted, Classify
<1> QED  BY <1>2, <1>3, <1>4, <1>5

(* An operator's preference only lowers a limit: what is admitted with it  *)
(* is admitted without it.                                                 *)
THEOREM PreferenceNeverAdmits ==
    ASSUME NEW B, NEW P, \A b \in B \cup P : b.limit \in Nat,
           \A p \in P : p.class = "OPERATOR_PREFERENCE",
           NEW usage, usage.current \in Nat, usage.requested \in Nat, Admitted(B \cup P, usage)
    PROVE  Admitted(B, usage)
<1>1. Budget(B \cup P, usage) # "UNKNOWN"
  BY DEF Admitted
<1>2. Ceilings(B \cup P) = Ceilings(B)
  BY DEF Ceilings
<1>3. /\ Ceilings(B) # {} /\ Reliable(usage) /\ ~(Future(usage) > MaxResource)
      /\ \A b \in B : b.binding = "current"
  BY <1>1, <1>2 DEF Budget
<1>4. \A b \in B : Future(usage) <= b.limit
  <2>1. \A b \in B \cup P : Future(usage) <= b.limit
    BY AdmittedIsWithinEveryLimit
  <2> QED  BY <2>1
<1>5. B # {}
  BY <1>3 DEF Ceilings
<1>6. \E b \in B : EffectiveLimit(B) = b.limit
  BY <1>5, EffectiveLimitIsLeast
<1>7. Future(usage) \in Nat /\ EffectiveLimit(B) \in Nat /\ Future(usage) <= EffectiveLimit(B)
  BY <1>4, <1>6 DEF Future
<1>8. Budget(B, usage) = Classify(Future(usage), EffectiveLimit(B))
  BY <1>3 DEF Budget
<1> QED  BY <1>7, <1>8 DEF Classify, Admitted

---------------------------------------------------------------------------
(* The diagnostics: types.                                                 *)


LEMMA ScopeType ==
    ASSUME TypeOK, NEW asked \in Questions
    PROVE  Scope(asked) \in Heads \X Nat
<1>1. InScope(asked) => mission.generation \in Nat
  BY DEF TypeOK, InScope
<1> QED  BY <1>1 DEF Scope, TypeOK

LEMMA ReviseType ==
    ASSUME TypeOK, NEW asked \in Questions, NEW n \in Incidents,
           NEW state \in {"ACKNOWLEDGEMENT_REQUIRED", "ESCALATED", "RESOLVED"}, Revise(asked, n, state)
    PROVE  TypeOK'
<1>1. [scope |-> Scope(asked), incident |-> n, state |-> state]
         \in [scope : Heads \X Nat, incident : Incidents,
              state : {"ACKNOWLEDGEMENT_REQUIRED", "ESCALATED", "RESOLVED"}]
  BY ScopeType
<1>2. history' \subseteq [scope : Heads \X Nat, incident : Incidents,
                         state : {"ACKNOWLEDGEMENT_REQUIRED", "ESCALATED", "RESOLVED"}]
  BY <1>1 DEF Revise, TypeOK
<1> QED  BY <1>2 DEF Revise, TypeOK, stores

(* What an operator writes: an opening, an acknowledgement or a resolution *)
(* that resolve() granted.                                                 *)
LEMMA OperateWrites ==
    ASSUME TypeOK, Operate
    PROVE  \E asked \in Questions, n \in Incidents :
              \/ Revise(asked, n, "ACKNOWLEDGEMENT_REQUIRED") \/ Revise(asked, n, "ESCALATED")
              \/ /\ Revise(asked, n, "RESOLVED")
                 /\ Resolvable(n, "operator", Latest(Scope(asked)), Evaluation(asked, Normalised(n)))
<1>1. PICK asked \in Questions :
        Record(asked) \/ \E r \in history : Acknowledge(asked, r.incident) \/ Resolve(asked, r.incident)
  BY DEF Operate
<1>2. CASE Record(asked)
  <2> DEFINE prior == Latest(Scope(asked))
             assessed == Assess(prior, Evaluation(asked, {}))
  <2>1. PICK n \in Incidents : assessed[n] # prior[n] /\ Revise(asked, n, assessed[n])
    BY <1>2 DEF Record
  <2>2. DOMAIN prior = Incidents
    BY DEF Latest
  <2>3. assessed[n] = Opened(n) \/ assessed[n] = prior[n]
    BY <2>2 DEF Assess
  <2>4. assessed[n] \in {"ACKNOWLEDGEMENT_REQUIRED", "ESCALATED"}
    BY <2>1, <2>3 DEF Opened
  <2> QED  BY <2>1, <2>4
<1>3. CASE \E r \in history : Acknowledge(asked, r.incident) \/ Resolve(asked, r.incident)
  <2>1. PICK r \in history : Acknowledge(asked, r.incident) \/ Resolve(asked, r.incident)
    BY <1>3
  <2>2. r.incident \in Incidents
    BY DEF TypeOK
  <2> QED  BY <2>1, <2>2 DEF Acknowledge, Resolve
<1> QED  BY <1>1, <1>2, <1>3

LEMMA TypeOfWork ==
    ASSUME TypeOK, Work
    PROVE  TypeOK' /\ history' = history
<1> USE LimitAssumption
<1>1. CASE Prepare  BY <1>1 DEF Prepare, TypeOK
<1>2. CASE Close  BY <1>2 DEF Close, Running, TypeOK
<1>3. CASE Launch  BY <1>3 DEF Launch, Running, TypeOK
<1>4. CASE Reject  BY <1>4 DEF Reject, TypeOK
<1>5. CASE Remediate
  <2>1. mission' \in {None} \cup [status : {"OPEN", "CLOSED", "unreadable"}, commit : Heads, generation : Nat]
    BY <1>5 DEF Remediate, Running, TypeOK
  <2>2. ledger' \in [readable : BOOLEAN, running : Nat, stuck : BOOLEAN]
    BY <1>5 DEF Remediate, TypeOK
  <2>3. journal' \in [state : {"AVAILABLE", "DEGRADED", "UNAVAILABLE"}, consistent : BOOLEAN,
          events : SUBSET [class : {None, "CODEX_RUNTIME_FAILURE"}, head : Heads, recent : BOOLEAN]]
    BY <1>5 DEF Remediate, TypeOK
  <2> QED  BY <1>5, <2>1, <2>2, <2>3 DEF Remediate, TypeOK
<1>6. CASE Age
  <2>1. \A e \in journal.events : [e EXCEPT !.recent = FALSE]
          \in [class : {None, "CODEX_RUNTIME_FAILURE"}, head : Heads, recent : BOOLEAN]
    <3> DEFINE Event == [class : {None, "CODEX_RUNTIME_FAILURE"}, head : Heads, recent : BOOLEAN]
    <3>1. journal.events \subseteq Event
      BY DEF TypeOK
    <3>2. \A e \in Event : [e EXCEPT !.recent = FALSE] \in Event
      BY ZenonT(20)
    <3> QED  BY <3>1, <3>2
  <2>2. journal' \in [state : {"AVAILABLE", "DEGRADED", "UNAVAILABLE"}, consistent : BOOLEAN,
          events : SUBSET [class : {None, "CODEX_RUNTIME_FAILURE"}, head : Heads, recent : BOOLEAN]]
    BY <1>6, <2>1 DEF Age, TypeOK
  <2> QED  BY <1>6, <2>2 DEF Age, TypeOK
<1>7. CASE Damage
  <2>1. faults' \in 0 .. MaxFaults
    BY <1>7 DEF Damage, TypeOK
  <2>2. project' \in {"valid", "foreign", "unreadable"} /\ outcomes' \in {"clear", "pending", "unreadable"}
        /\ registry' \in {"absent", "aligned", "drift", "unreadable"} /\ head' \in Heads
    BY <1>7 DEF Damage, TypeOK
  <2>3. mission' \in {None} \cup [status : {"OPEN", "CLOSED", "unreadable"}, commit : Heads, generation : Nat]
    BY <1>7 DEF Damage, TypeOK
  <2>4. ledger' \in [readable : BOOLEAN, running : Nat, stuck : BOOLEAN]
    BY <1>7 DEF Damage, TypeOK
  <2>5. journal' \in [state : {"AVAILABLE", "DEGRADED", "UNAVAILABLE"}, consistent : BOOLEAN,
          events : SUBSET [class : {None, "CODEX_RUNTIME_FAILURE"}, head : Heads, recent : BOOLEAN]]
    BY <1>7 DEF Damage, TypeOK
  <2>6. history' = history
    BY <1>7 DEF Damage
  <2> QED  BY <2>1, <2>2, <2>3, <2>4, <2>5, <2>6 DEF TypeOK
<1>8. ASSUME NEW failed \in BOOLEAN, Finish(failed)
      PROVE  TypeOK' /\ history' = history
  <2>1. [class |-> IF failed THEN "CODEX_RUNTIME_FAILURE" ELSE None, head |-> mission.commit, recent |-> TRUE]
          \in [class : {None, "CODEX_RUNTIME_FAILURE"}, head : Heads, recent : BOOLEAN]
    BY <1>8 DEF Finish, Running, TypeOK
  <2>2. journal' \in [state : {"AVAILABLE", "DEGRADED", "UNAVAILABLE"}, consistent : BOOLEAN,
          events : SUBSET [class : {None, "CODEX_RUNTIME_FAILURE"}, head : Heads, recent : BOOLEAN]]
    BY <1>8, <2>1 DEF Finish, Append, TypeOK
  <2>3. (ledger.stuck \/ failed) \in BOOLEAN /\ ledger.running - 1 \in Nat
    BY <1>8 DEF Finish, TypeOK
  <2>4. ledger' \in [readable : BOOLEAN, running : Nat, stuck : BOOLEAN]
    BY <1>8, <2>3 DEF Finish, TypeOK
  <2> QED  BY <1>8, <2>2, <2>4 DEF Finish, TypeOK
<1>9. ASSUME NEW to \in {"aligned", "absent"}, Worktrees(to)
      PROVE  TypeOK' /\ history' = history
  BY <1>9 DEF Worktrees, TypeOK
<1>10. ASSUME NEW h \in Heads, NEW along \in BOOLEAN, Move(h, along)
       PROVE  TypeOK' /\ history' = history
  BY <1>10 DEF Move, TypeOK
<1> QED  BY <1>1, <1>2, <1>3, <1>4, <1>5, <1>6, <1>7, <1>8, <1>9, <1>10 DEF Work

(* The stores that the diagnostics read, however they were damaged, and    *)
(* the incidents they leave behind keep their types.                       *)
THEOREM TypeCorrect == Spec => []TypeOK
<1>1. Init => TypeOK
  BY LimitAssumption DEF Init, TypeOK
<1>2. TypeOK /\ [Next]_vars => TypeOK'
  <2> SUFFICES ASSUME TypeOK, [Next]_vars PROVE TypeOK'
    OBVIOUS
  <2>1. CASE Work  BY <2>1, TypeOfWork
  <2>2. CASE Operate
    BY <2>2, OperateWrites, ReviseType
  <2>3. CASE UNCHANGED vars  BY <2>3 DEF vars, stores, TypeOK
  <2> QED  BY <2>1, <2>2, <2>3 DEF Next
<1> QED  BY <1>1, <1>2, PTL DEF Spec

---------------------------------------------------------------------------
(* What a healthy answer rests on.                                         *)

LEMMA HealthyRequires ==
    ASSUME NEW c, GlobalState(c) = "HEALTHY", NEW d \in Required(c)
    PROVE  /\ \A s \in Expected(d, c) : SourceState(s, c) = "HEALTHY"
           /\ d = "OBSERVABILITY" => ~Blind(c)
<1>1. d \in HealthDimension /\ DimensionState(d, c) \in HealthState
      /\ Gravity[Observed(d, c)] <= Gravity[DimensionState(d, c)]
  BY DimensionStateType
<1>2. Gravity[DimensionState(d, c)] <= 0
  BY GlobalCoversRequired DEF Gravity, HealthState
<1>3. Observed(d, c) \in HealthState
      /\ (\A s \in Expected(d, c) : Gravity[SourceState(s, c)] <= Gravity[Observed(d, c)])
      /\ (d = "OBSERVABILITY" /\ Blind(c) => Gravity[Observed(d, c)] >= 2)
  BY <1>1, ObservedType
<1>4. \A x \in HealthState : Gravity[x] \in Nat /\ (Gravity[x] = 0 => x = "HEALTHY")
  BY DEF Gravity, HealthState
<1>5. Gravity[Observed(d, c)] = 0
  BY <1>1, <1>2, <1>3, <1>4
<1>6. ASSUME NEW s \in Expected(d, c) PROVE SourceState(s, c) = "HEALTHY"
  <2>1. SourceState(s, c) \in HealthState /\ Gravity[SourceState(s, c)] <= 0
    BY <1>3, <1>5, SourceStateType
  <2> QED  BY <2>1, <1>4
<1> QED  BY <1>3, <1>5, <1>6

(* A healthy source has one observation, and that one is current.          *)
LEMMA HealthySource ==
    ASSUME NEW c, NEW o \in c.observations, SourceState(o.source, c) = "HEALTHY"
    PROVE  o.binding = "current" /\ ConditionState(o.source, o.condition) = "HEALTHY"
<1>1. Attested(o.source, c)
  BY DEF SourceState
<1>2. PICK p \in Seen(o.source, c) : Seen(o.source, c) = {p} /\ p.binding = "current"
  BY <1>1 DEF Attested
<1>3. o \in Seen(o.source, c)
  BY DEF Seen
<1>4. p = o /\ (CHOOSE q \in Seen(o.source, c) : TRUE) = o
  BY <1>2, <1>3
<1> QED  BY <1>1, <1>2, <1>4 DEF SourceState

(* docs/68: a HEALTHY answer of the diagnostics rests on stores that were  *)
(* read, that agree with HEAD and that show nothing unfinished.            *)
THEOREM HealthIsHonest == Spec => []HealthyRestsOnReadStores
<1>1. TypeOK => HealthyRestsOnReadStores
  <2> SUFFICES ASSUME TypeOK, NEW asked \in Questions, Health(asked).global = "HEALTHY"
               PROVE  /\ project = "valid" /\ journal.state = "AVAILABLE" /\ journal.consistent /\ ledger.readable
                      /\ InScope(asked) => /\ mission.commit = head /\ outcomes = "clear"
                                           /\ ledger.running = 0 /\ ~ledger.stuck /\ registry # "drift"
    BY DEF HealthyRestsOnReadStores
  <2> DEFINE c == [mission |-> InScope(asked), parallel |-> InScope(asked) /\ Parallel,
                   observations |-> Observations(asked), metrics |-> Metrics(asked)]
  <2>1. GlobalState(c) = "HEALTHY"
    BY DEF Health, Snapshot
  <2>2. \A d \in Required(c) : /\ \A s \in Expected(d, c) : SourceState(s, c) = "HEALTHY"
                               /\ d = "OBSERVABILITY" => ~Blind(c)
    BY <2>1, HealthyRequires
  <2>3. \A o \in c.observations : SourceState(o.source, c) = "HEALTHY"
            => o.binding = "current" /\ ConditionState(o.source, o.condition) = "HEALTHY"
    BY HealthySource
  <2>4. c.observations = Observations(asked) /\ c.mission = InScope(asked)
        /\ c.parallel = (InScope(asked) /\ Parallel) /\ c.metrics = Metrics(asked)
    OBVIOUS
  <2> HIDE DEF c
  <2>5. project = "valid"
    <3> DEFINE o == Observation("PROJECT_STATE_STORE", ProjectCondition, "current")
    <3>1. o \in c.observations /\ o.source = "PROJECT_STATE_STORE" /\ o.condition = ProjectCondition
      BY <2>4 DEF Observations, Observation
    <3>2. SourceState("PROJECT_STATE_STORE", c) = "HEALTHY"
      BY <2>2 DEF Required, Always, Expected
    <3>3. ConditionState("PROJECT_STATE_STORE", ProjectCondition) = "HEALTHY"
      BY <3>1, <3>2, <2>3
    <3> QED  BY <3>3 DEF ConditionState, Unreliable, ProjectCondition, Good, Impaired, Bad, TypeOK
  <2>6. EventStatus = "AVAILABLE"
    <3> DEFINE o == Observation("OPERATIONAL_EVENT_STORE", EventCondition, "current")
    <3>1. o \in c.observations /\ o.source = "OPERATIONAL_EVENT_STORE" /\ o.condition = EventCondition
      BY <2>4 DEF Observations, Observation
    <3>2. SourceState("OPERATIONAL_EVENT_STORE", c) = "HEALTHY"
      BY <2>2 DEF Required, Always, Expected
    <3>3. ConditionState("OPERATIONAL_EVENT_STORE", EventCondition) = "HEALTHY"
      BY <3>1, <3>2, <2>3
    <3> QED  BY <3>3 DEF ConditionState, Unreliable, EventCondition, EventStatus, Good, Impaired, Bad, TypeOK
  <2>7. ledger.readable /\ journal.state = "AVAILABLE"
    BY <2>6 DEF EventStatus, TypeOK
  <2>8. journal.consistent
    <3>1. ~Blind(c)
      BY <2>2 DEF Required, Always
    <3>2. Metrics(asked).status = "COMPLETE"
      BY <3>1, <2>4 DEF Blind, MetricsUsable
    <3> QED  BY <3>2 DEF Metrics
  <2>9. ASSUME InScope(asked)
        PROVE  /\ mission.commit = head /\ outcomes = "clear"
               /\ ledger.running = 0 /\ ~ledger.stuck /\ registry # "drift"
    <3>1. /\ SourceState("MISSION_STATE_STORE", c) = "HEALTHY"
          /\ SourceState("EXECUTION_LEDGER", c) = "HEALTHY"
          /\ SourceState("REMEDIATION_STORE", c) = "HEALTHY"
      BY <2>2, <2>4, <2>9 DEF Required, Always, InMission, Expected
    <3>2. mission.commit = head
      <4> DEFINE o == Observation("MISSION_STATE_STORE", "AVAILABLE",
                                  IF mission.commit = head THEN "current" ELSE "stale")
      <4>1. o \in c.observations /\ o.source = "MISSION_STATE_STORE"
        BY <2>4, <2>9 DEF Observations, Observation
      <4>2. o.binding = "current"
        BY <4>1, <3>1, <2>3
      <4> QED  BY <4>2 DEF Observation
    <3>3. ledger.running = 0 /\ ~ledger.stuck
      <4> DEFINE o == Observation("EXECUTION_LEDGER", LedgerCondition, "current")
      <4>1. o \in c.observations /\ o.source = "EXECUTION_LEDGER" /\ o.condition = LedgerCondition
        BY <2>4, <2>9 DEF Observations, Observation
      <4>2. ConditionState("EXECUTION_LEDGER", LedgerCondition) = "HEALTHY"
        BY <4>1, <3>1, <2>3
      <4>3. ledger.running \in Nat
        BY DEF TypeOK
      <4> QED  BY <4>2, <4>3 DEF ConditionState, Unreliable, LedgerCondition, Good, Impaired, Bad
    <3>4. outcomes = "clear"
      <4> DEFINE o == Observation("REMEDIATION_STORE", OutcomeCondition, "current")
      <4>1. o \in c.observations /\ o.source = "REMEDIATION_STORE" /\ o.condition = OutcomeCondition
        BY <2>4, <2>9 DEF Observations, Observation
      <4>2. ConditionState("REMEDIATION_STORE", OutcomeCondition) = "HEALTHY"
        BY <4>1, <3>1, <2>3
      <4> QED  BY <4>2 DEF ConditionState, Unreliable, OutcomeCondition, Good, Impaired, Bad, TypeOK
    <3>5. ASSUME registry = "drift" PROVE FALSE
      <4> DEFINE o == Observation("GIT_RECONCILIATION",
                                  IF registry = "aligned" THEN "RECONCILED" ELSE "DRIFT", "current")
      <4>1. Parallel
        BY <3>5 DEF Parallel
      <4>2. o \in c.observations /\ o.source = "GIT_RECONCILIATION" /\ o.condition = "DRIFT"
        BY <4>1, <3>5, <2>4, <2>9 DEF Observations, Observation
      <4>3. SourceState("GIT_RECONCILIATION", c) = "HEALTHY"
        BY <4>1, <2>2, <2>4, <2>9 DEF Required, Always, InMission, Expected
      <4>4. ConditionState("GIT_RECONCILIATION", "DRIFT") = "HEALTHY"
        BY <4>2, <4>3, <2>3
      <4> QED  BY <4>4 DEF ConditionState, Unreliable, Good, Impaired, Bad
    <3> QED  BY <3>2, <3>3, <3>4, <3>5
  <2> QED  BY <2>5, <2>7, <2>8, <2>9
<1> QED  BY <1>1, TypeCorrect, PTL

---------------------------------------------------------------------------
(* Incidents.                                                              *)

(* A normalisation the operator reports hides no signal.                   *)
LEMMA NormalisedShowsAll ==
    ASSUME NEW asked, NEW n
    PROVE  Shown(asked) \subseteq Signals(Evaluation(asked, Normalised(n)))
<1> DEFINE i == Evaluation(asked, {})
           k == Evaluation(asked, Normalised(n))
<1>1. /\ i.health = k.health /\ i.healthBinding = k.healthBinding
      /\ i.governance = k.governance /\ i.governanceBinding = k.governanceBinding
      /\ i.budget = k.budget /\ i.budgetBinding = k.budgetBinding
      /\ i.metrics = k.metrics /\ i.events = k.events /\ i.complete = k.complete
      /\ i.diagnostics = {}
  BY DEF Evaluation
<1> HIDE DEF i, k
<1>2. HealthSignals(i) = HealthSignals(k)
  BY <1>1 DEF HealthSignals
<1>3. GovernanceSignals(i) = GovernanceSignals(k) /\ BudgetSignals(i) = BudgetSignals(k)
  BY <1>1 DEF GovernanceSignals, BudgetSignals
<1>4. MetricsSignals(i) = MetricsSignals(k) /\ EventSignals(i) = EventSignals(k)
  BY <1>1 DEF MetricsSignals, EventSignals
<1>5. DiagnosticSignals(i) = {}
  BY <1>1 DEF DiagnosticSignals
<1>6. Signals(i) \subseteq Signals(k)
  BY <1>2, <1>3, <1>4, <1>5 DEF Signals
<1> QED  BY <1>6 DEF Shown, i, k

(* docs/67: an incident leaves the unresolved ones by a resolution that    *)
(* finds nothing showing it and no critical uncertainty, and in no other   *)
(* way.                                                                    *)
THEOREM ClosingIsJustified == Spec => ClosedOnlyWhenClear
<1>1. TypeOK /\ [Next]_vars => ClosingIsClear
  <2> SUFFICES ASSUME TypeOK, [Next]_vars, NEW r \in history, r.state # "RESOLVED",
                      \A q \in history' : [q EXCEPT !.state = r.state] = r => q.state = "RESOLVED"
               PROVE  \E asked \in Questions :
                         /\ r.scope = Scope(asked) /\ r.incident \notin Shown(asked)
                         /\ \A m \in Shown(asked) : m.class # "UNKNOWN_CRITICAL_STATE"
    BY DEF ClosingIsClear
  <2>1. r = [scope |-> r.scope, incident |-> r.incident, state |-> r.state]
    BY DEF TypeOK
  <2>2. r \notin history'
    BY <2>1
  <2>3. ~Work /\ ~(UNCHANGED vars)
    BY <2>2, TypeOfWork DEF vars
  <2>4. Operate
    BY <2>3 DEF Next
  <2>5. PICK asked \in Questions, n \in Incidents :
              \/ Revise(asked, n, "ACKNOWLEDGEMENT_REQUIRED") \/ Revise(asked, n, "ESCALATED")
              \/ /\ Revise(asked, n, "RESOLVED")
                 /\ Resolvable(n, "operator", Latest(Scope(asked)), Evaluation(asked, Normalised(n)))
    BY <2>4, OperateWrites
  <2>6. PICK state : Revise(asked, n, state) /\
              (state = "RESOLVED" => Resolvable(n, "operator", Latest(Scope(asked)), Evaluation(asked, Normalised(n))))
    BY <2>5
  <2>7. r.scope = Scope(asked) /\ r.incident = n
    BY <2>2, <2>6 DEF Revise
  <2> DEFINE q == [scope |-> Scope(asked), incident |-> n, state |-> state]
  <2>8. q \in history'
    BY <2>6 DEF Revise
  <2>9. [q EXCEPT !.state = r.state] = r
    BY <2>1, <2>7
  <2>10. state = "RESOLVED"
    BY <2>8, <2>9
  <2>11. n \notin Signals(Evaluation(asked, Normalised(n)))
         /\ \A m \in Signals(Evaluation(asked, Normalised(n))) : m.class # "UNKNOWN_CRITICAL_STATE"
    BY <2>6, <2>10 DEF Resolvable
  <2> QED  BY <2>7, <2>11, NormalisedShowsAll
<1> QED  BY <1>1, TypeCorrect, PTL DEF Spec, ClosedOnlyWhenClear

---------------------------------------------------------------------------
(* Silence.                                                                *)

LEMMA WorstOfHealthy == Worst({"HEALTHY"}) = "HEALTHY"
  BY WorstIsWorst DEF HealthState

LEMMA AllHealthy ==
    ASSUME NEW c, \A d \in Required(c) \cup Optional(c) : DimensionState(d, c) = "HEALTHY"
    PROVE  GlobalState(c) = "HEALTHY"
<1>1. States(Required(c), c) = {"HEALTHY"}
  BY DEF States, Required, Always
<1>2. States(Optional(c), c) \cap {"BLOCKED", "DEGRADED"} = {}
  BY DEF States
<1> QED  BY <1>1, <1>2, WorstOfHealthy DEF GlobalState

(* A dimension without failure counts whose sources are all healthy.       *)
LEMMA HealthyDimension ==
    ASSUME NEW c, NEW d \in {"AUTHORITATIVE_STATE_ACCESS", "DEPLOYMENT_CONFIGURATION"},
           \A s \in Expected(d, c) : SourceState(s, c) = "HEALTHY"
    PROVE  DimensionState(d, c) = "HEALTHY"
<1>1. d \in Required(c) /\ d # "OBSERVABILITY" /\ Expected(d, c) # {}
  BY DEF Required, Always, Expected
<1>2. {SourceState(s, c) : s \in Expected(d, c)}
        \cup (IF d = "OBSERVABILITY" /\ Blind(c) THEN {"UNKNOWN"} ELSE {}) = {"HEALTHY"}
  BY <1>1
<1>3. Observed(d, c) = "HEALTHY"
  BY <1>2, WorstOfHealthy DEF Observed
<1>4. ~Failing(d, c)
  BY DEF Failing
<1> QED  BY <1>1, <1>3, <1>4 DEF DimensionState

(* One current observation of a source, and no other.                      *)
LEMMA SingleSource ==
    ASSUME NEW c, NEW o \in c.observations, o.binding = "current",
           \A p \in c.observations : p.source = o.source => p = o,
           ConditionState(o.source, o.condition) = "HEALTHY"
    PROVE  SourceState(o.source, c) = "HEALTHY"
<1>1. Seen(o.source, c) = {o}
  BY DEF Seen
<1>2. Attested(o.source, c)
  BY <1>1 DEF Attested
<1>3. (CHOOSE q \in Seen(o.source, c) : TRUE) = o
  BY <1>1
<1> QED  BY <1>2, <1>3 DEF SourceState

(* docs/67: when the incident manager sees nothing, nothing but a mission  *)
(* state older than HEAD keeps the repository from being healthy.          *)
THEOREM SilenceIsSound == Spec => []QuietMeansSound
<1>1. TypeOK => QuietMeansSound
  <2> SUFFICES ASSUME TypeOK, NEW asked \in Questions, Shown(asked) = {},
                      ~(InScope(asked) /\ mission.commit # head)
               PROVE  Health(asked).global = "HEALTHY"
    BY DEF QuietMeansSound
  <2> DEFINE c == [mission |-> InScope(asked), parallel |-> InScope(asked) /\ Parallel,
                   observations |-> Observations(asked), metrics |-> Metrics(asked)]
             i == Evaluation(asked, {})
  <2>1. c.observations = Observations(asked) /\ c.mission = InScope(asked)
    OBVIOUS
  <2>2. /\ i.health.dimension = [d \in HealthDimension |-> DimensionState(d, c)]
        /\ i.healthBinding = "current"
    BY DEF Evaluation, Health, Snapshot
  <2>3. HealthSignals(i) = {}
    BY DEF Shown, Signals
  <2>4. Health(asked).global = GlobalState(c)
    BY DEF Health, Snapshot
  <2> HIDE DEF c, i
  <2>5. ASSUME NEW d \in Required(c) \cup Optional(c),
               d \notin {"AUTHORITATIVE_STATE_ACCESS", "DEPLOYMENT_CONFIGURATION"}
        PROVE  DimensionState(d, c) = "HEALTHY"
    <3>1. d \in HealthDimension /\ DimensionState(d, c) \in HealthState
      BY DimensionStateType
    <3>2. DimensionIncident(d) # None
      BY <2>5, <3>1, NoneAssumption DEF DimensionIncident, HealthDimension, Always, InMission
    <3>3. d \notin {e \in HealthDimension : DimensionIncident(e) # None
                                        /\ i.health.dimension[e] \notin {None, "HEALTHY"}}
      BY <2>2, <2>3 DEF HealthSignals
    <3>4. DimensionState(d, c) \in {None, "HEALTHY"}
      BY <2>2, <3>1, <3>2, <3>3
    <3> QED  BY <3>1, <3>4, NoneAssumption DEF HealthState
  <2>6. project = "valid"
    <3> DEFINE o == Observation("PERSISTENCE_DIAGNOSTIC", PersistenceCondition, "current")
    <3>1. "PERSISTENCE" \in Required(c) /\ "PERSISTENCE_DIAGNOSTIC" \in Expected("PERSISTENCE", c)
      BY DEF Required, Always, Expected
    <3>2. DimensionState("PERSISTENCE", c) = "HEALTHY"
      BY <2>5, <3>1
    <3>3. Observed("PERSISTENCE", c) = "HEALTHY"
      BY <3>1, <3>2 DEF DimensionState
    <3>4. SourceState("PERSISTENCE_DIAGNOSTIC", c) = "HEALTHY"
      <4>1. Gravity[SourceState("PERSISTENCE_DIAGNOSTIC", c)] <= Gravity["HEALTHY"]
        BY <3>1, <3>3, ObservedType DEF HealthDimension, Always
      <4>2. SourceState("PERSISTENCE_DIAGNOSTIC", c) \in HealthState
        BY SourceStateType
      <4> QED  BY <4>1, <4>2 DEF Gravity, HealthState
    <3>5. o \in c.observations /\ o.source = "PERSISTENCE_DIAGNOSTIC" /\ o.condition = PersistenceCondition
      BY <2>1 DEF Observations, Observation
    <3>6. ConditionState("PERSISTENCE_DIAGNOSTIC", PersistenceCondition) = "HEALTHY"
      BY <3>4, <3>5, HealthySource
    <3> QED  BY <3>6 DEF ConditionState, Unreliable, PersistenceCondition, Good, Impaired, Bad, TypeOK
  <2>7. SourceState("PROJECT_STATE_STORE", c) = "HEALTHY"
    <3> DEFINE o == Observation("PROJECT_STATE_STORE", ProjectCondition, "current")
    <3>1. o \in c.observations /\ \A p \in c.observations : p.source = o.source => p = o
      BY <2>1 DEF Observations, Observation
    <3>2. o.binding = "current" /\ o.source = "PROJECT_STATE_STORE" /\ o.condition = "AVAILABLE"
      BY <2>6 DEF Observation, ProjectCondition
    <3>3. ConditionState(o.source, o.condition) = "HEALTHY"
      BY <3>2 DEF ConditionState, Unreliable, Good
    <3> QED  BY <3>1, <3>2, <3>3, SingleSource
  <2>8. SourceState("PROJECT_CONFIGURATION", c) = "HEALTHY"
    <3> DEFINE o == Observation("PROJECT_CONFIGURATION", "VALID", "current")
    <3>1. o \in c.observations /\ \A p \in c.observations : p.source = o.source => p = o
      BY <2>1 DEF Observations, Observation
    <3>2. o.binding = "current" /\ o.source = "PROJECT_CONFIGURATION" /\ o.condition = "VALID"
      BY DEF Observation
    <3>3. ConditionState(o.source, o.condition) = "HEALTHY"
      BY <3>2 DEF ConditionState, Unreliable, Good
    <3> QED  BY <3>1, <3>2, <3>3, SingleSource
  <2>9. ASSUME InScope(asked) PROVE SourceState("MISSION_STATE_STORE", c) = "HEALTHY"
    <3> DEFINE o == Observation("MISSION_STATE_STORE", "AVAILABLE",
                                IF mission.commit = head THEN "current" ELSE "stale")
    <3>1. o \in c.observations /\ \A p \in c.observations : p.source = o.source => p = o
      BY <2>1, <2>9 DEF Observations, Observation
    <3>2. o.binding = "current" /\ o.source = "MISSION_STATE_STORE" /\ o.condition = "AVAILABLE"
      BY <2>9 DEF Observation
    <3>3. ConditionState(o.source, o.condition) = "HEALTHY"
      BY <3>2 DEF ConditionState, Unreliable, Good
    <3> QED  BY <3>1, <3>2, <3>3, SingleSource
  <2>10. DimensionState("AUTHORITATIVE_STATE_ACCESS", c) = "HEALTHY"
    <3>1. \A s \in Expected("AUTHORITATIVE_STATE_ACCESS", c) : SourceState(s, c) = "HEALTHY"
      BY <2>1, <2>7, <2>9 DEF Expected
    <3> QED  BY <3>1, HealthyDimension
  <2>11. DimensionState("DEPLOYMENT_CONFIGURATION", c) = "HEALTHY"
    <3>1. \A s \in Expected("DEPLOYMENT_CONFIGURATION", c) : SourceState(s, c) = "HEALTHY"
      BY <2>8 DEF Expected
    <3> QED  BY <3>1, HealthyDimension
  <2> QED  BY <2>4, <2>5, <2>10, <2>11, AllHealthy
<1> QED  BY <1>1, TypeCorrect, PTL

----------------------------------------------------------------------------
(* Maintenance: the locked store and the work that is admitted by it.      *)

Label == {"idle", "decide", "lock", "compare", "replace", "release", "start"}

(* The locals of a call have their four fields, an admission its operation. *)
LocalsOK ==
    /\ call = [p \in Process |-> [seen |-> call[p].seen, context |-> call[p].context,
                                  before |-> call[p].before, candidate |-> call[p].candidate]]
    /\ admission = [p \in Process |-> admission[p]]
    /\ \A p \in Process : admission[p].operation \in Operation \cup {Absent}

MaintenanceInv == LocalsOK /\ LockProtects

(* What one process may do: the cases the proofs distinguish.              *)
Initializes(p) == \E a \in Operator : Initialize(p, a)
Requests(p) ==
    \E a \in Operator, s \in State, r \in Route \cup {Absent} : RequestTransition(p, a, s, r)
Evaluates(p) == \E o \in Considered : Evaluate(p, o)
Enforces(p) == \E o \in Considered : Enforce(p, o)

-----------------------------------------------------------------------------
(* Setting one entry of the labels leaves the other ones alone.            *)
LEMMA GotoFacts ==
    ASSUME LocalsOK, MaintenanceTypeOK, NEW p \in Process, NEW label \in Label, Goto(p, label)
    PROVE  /\ pc' \in [Process -> Label] /\ pc'[p] = label /\ call' = call
           /\ \A q \in Process \ {p} : pc'[q] = pc[q]
  BY DEF Goto, MaintenanceTypeOK, Label

(* A call that ends clears the locals of its own process only.             *)
LEMMA ReturnFacts ==
    ASSUME LocalsOK, MaintenanceTypeOK, NEW p \in Process, Return(p)
    PROVE  /\ pc' \in [Process -> Label] /\ pc'[p] = "idle"
           /\ \A q \in Process \ {p} : pc'[q] = pc[q] /\ call'[q] = call[q]
           /\ call' = [q \in Process |-> [seen |-> call'[q].seen, context |-> call'[q].context,
                                          before |-> call'[q].before, candidate |-> call'[q].candidate]]
  <1>1. pc' \in [Process -> Label] /\ pc'[p] = "idle" /\ \A q \in Process \ {p} : pc'[q] = pc[q]
    BY DEF Return, MaintenanceTypeOK, Label
  <1>2. call' = [call EXCEPT ![p] = NoCall]
    BY DEF Return
  <1>3. \A q \in Process \ {p} : call'[q] = call[q]
    BY <1>2 DEF LocalsOK
  <1>4. call'[p] = NoCall
    BY <1>2 DEF LocalsOK
  <1>5. \A q \in Process : call'[q] = [seen |-> call'[q].seen, context |-> call'[q].context,
                                       before |-> call'[q].before, candidate |-> call'[q].candidate]
    BY <1>3, <1>4 DEF LocalsOK, NoCall
  <1>6. call' = [q \in Process |-> call'[q]]
    BY <1>2 DEF LocalsOK
  <1> QED BY <1>1, <1>3, <1>5, <1>6

(* A submitted candidate and what it extends are where the store reads them. *)
LEMMA SubmitFacts ==
    ASSUME LocalsOK, MaintenanceTypeOK, NEW p \in Process, NEW record, NEW previous,
           Submit(p, record, previous)
    PROVE  /\ pc' \in [Process -> Label] /\ pc'[p] = "lock"
           /\ call'[p].before = previous /\ call'[p].candidate = record
           /\ \A q \in Process \ {p} : pc'[q] = pc[q] /\ call'[q] = call[q]
           /\ call' = [q \in Process |-> [seen |-> call'[q].seen, context |-> call'[q].context,
                                          before |-> call'[q].before, candidate |-> call'[q].candidate]]
  <1>1. pc' \in [Process -> Label] /\ pc'[p] = "lock" /\ \A q \in Process \ {p} : pc'[q] = pc[q]
    BY DEF Submit, MaintenanceTypeOK, Label
  <1>2. call' = [call EXCEPT ![p] = [NoCall EXCEPT !.before = previous, !.candidate = record]]
    BY DEF Submit
  <1>3. \A q \in Process \ {p} : call'[q] = call[q]
    BY <1>2 DEF LocalsOK
  <1>4. call'[p] = [seen |-> Absent, context |-> [head |-> Absent],
                    before |-> previous, candidate |-> record]
    BY <1>2 DEF LocalsOK, NoCall
  <1>5. \A q \in Process : call'[q] = [seen |-> call'[q].seen, context |-> call'[q].context,
                                       before |-> call'[q].before, candidate |-> call'[q].candidate]
    BY <1>3, <1>4 DEF LocalsOK
  <1>6. call' = [q \in Process |-> call'[q]]
    BY <1>2 DEF LocalsOK
  <1> QED BY <1>1, <1>3, <1>4, <1>5, <1>6

(* What was observed is bound to the HEAD of that moment.                  *)
LEMMA ObserveFacts ==
    ASSUME LocalsOK, MaintenanceTypeOK, NEW p \in Process, Observe(p)
    PROVE  /\ pc' \in [Process -> Label] /\ pc'[p] = "decide" /\ call'[p].context.head = checkout
           /\ \A q \in Process \ {p} : pc'[q] = pc[q] /\ call'[q] = call[q]
           /\ call' = [q \in Process |-> [seen |-> call'[q].seen, context |-> call'[q].context,
                                          before |-> call'[q].before, candidate |-> call'[q].candidate]]
  <1>1. pc' \in [Process -> Label] /\ pc'[p] = "decide" /\ \A q \in Process \ {p} : pc'[q] = pc[q]
    BY DEF Observe, MaintenanceTypeOK, Label
  <1>2. PICK o \in Readings :
          call' = [call EXCEPT ![p] = [@ EXCEPT !.seen = file, !.context =
              [head |-> checkout, problems |-> o.problems, healthy |-> o.healthy,
               recovered |-> o.recovered]]]
    BY DEF Observe
  <1> DEFINE c == [head |-> checkout, problems |-> o.problems, healthy |-> o.healthy,
                   recovered |-> o.recovered]
  <1>3. \A q \in Process \ {p} : call'[q] = call[q]
    BY <1>2 DEF LocalsOK
  <1>4. call'[p] = [seen |-> file, context |-> c,
                    before |-> call[p].before, candidate |-> call[p].candidate]
    <2>1. call'[p] = [call[p] EXCEPT !.seen = file, !.context = c]
      BY <1>2 DEF LocalsOK
    <2>2. call[p] = [seen |-> call[p].seen, context |-> call[p].context,
                     before |-> call[p].before, candidate |-> call[p].candidate]
      BY DEF LocalsOK
    <2> QED BY <2>1, <2>2
  <1>5. \A q \in Process : call'[q] = [seen |-> call'[q].seen, context |-> call'[q].context,
                                       before |-> call'[q].before, candidate |-> call'[q].candidate]
    BY <1>3, <1>4 DEF LocalsOK
  <1>6. call' = [q \in Process |-> call'[q]]
    BY <1>2 DEF LocalsOK
  <1>7. call'[p].context.head = checkout
    BY <1>4
  <1> QED BY <1>1, <1>3, <1>5, <1>6, <1>7

(* An admitted candidate of initialize or request_transition follows what  *)
(* it was built on.                                                        *)
LEMMA InitializeFollows ==
    ASSUME MaintenanceTypeOK, NEW p \in Process, NEW a \in Operator, pc[p] = "decide"
    PROVE  Follows(Absent, Created("NORMAL", 1, a, call[p].context.head, Absent, Absent))
  BY DEF MaintenanceTypeOK, Follows, First

(* The candidate of request_transition extends the record that was read.   *)
LEMMA RequestFollows ==
    ASSUME NEW p \in Process, NEW a \in Operator, NEW s \in State, NEW r \in Route \cup {Absent},
           RequestTransition(p, a, s, r)
    PROVE  Follows(file, Created(s, file.revision + 1, a, call[p].context.head, r, file))
  <1>1. file # Absent /\ file.head = call[p].context.head /\ a = file.actor
        /\ s \in Allowed[file.state] /\ RouteFits(s, r)
    BY DEF RequestTransition, Bound
  <1> QED BY <1>1 DEF Follows, Extends

-----------------------------------------------------------------------------
(* Every step keeps the shape of the locals.                               *)
LEMMA StepKeepsLocals ==
    ASSUME LocalsOK, MaintenanceTypeOK, [MaintenanceNext]_maintenanceVars
    PROVE  LocalsOK'
<1>1. CASE UNCHANGED maintenanceVars
  BY <1>1 DEF maintenanceVars, LocalsOK
<1>2. CASE UNCHANGED << call, admission >>
  BY <1>2 DEF LocalsOK
<1>3. ASSUME NEW p \in Process, Step(p)
      PROVE  LocalsOK'
  <2>1. CASE Observe(p)
    <3>1. admission' = admission
      BY <2>1 DEF Observe
    <3> QED BY <2>1, <3>1, ObserveFacts DEF LocalsOK
  <2>2. CASE GiveUp(p) \/ Acquire(p) \/ Release(p) \/ Crash(p) \/ Start(p)
    <3>1. admission' = admission /\ (Return(p) \/ call' = call)
      BY <2>2 DEF GiveUp, Acquire, Release, Crash, Start, Goto
    <3> QED BY <3>1, ReturnFacts DEF LocalsOK
  <2>3. CASE Initializes(p) \/ Requests(p)
    <3>1. admission' = admission /\ \E record, previous : Submit(p, record, previous)
      BY <2>3 DEF Initializes, Requests, Initialize, RequestTransition
    <3> QED BY <3>1, SubmitFacts DEF LocalsOK
  <2>4. CASE Compare(p) \/ Replace(p) \/ Enforces(p) \/ FinishWork(p)
    BY <1>2, <2>4 DEF Compare, Replace, Enforces, Enforce, FinishWork, Goto
  <2>5. CASE Evaluates(p)
    <3>1. PICK o \in Considered : Evaluate(p, o)
      BY <2>5 DEF Evaluates
    <3>2. \E a : /\ admission' = [admission EXCEPT ![p] = a]
                  /\ a.operation \in Operation \cup {Absent}
      <4> DEFINE a == IF AdmissionOf(file, call[p].context, o) = "ADMITTED"
                      THEN [operation |-> o, record |-> file] ELSE NoAdmission
      <4>1. admission' = [admission EXCEPT ![p] = a]
        BY <3>1 DEF Evaluate
      <4>2. a.operation \in Operation \cup {Absent}
        BY ProcessAssumption DEF NoAdmission
      <4> QED BY <4>1, <4>2
    <3>3. admission' = [q \in Process |-> admission'[q]]
          /\ \A q \in Process : admission'[q].operation \in Operation \cup {Absent}
      BY <3>2, ProcessAssumption DEF LocalsOK
    <3>4. Return(p)
      BY <3>1 DEF Evaluate
    <3> QED BY <3>3, <3>4, ReturnFacts DEF LocalsOK
  <2> QED BY <1>3, <2>1, <2>2, <2>3, <2>4, <2>5
          DEF Step, Initializes, Requests, Evaluates, Enforces
<1>4. CASE RemoveStaleLock \/ HeadMoves
  BY <1>2, <1>4 DEF RemoveStaleLock, HeadMoves
<1> QED BY <1>1, <1>3, <1>4 DEF MaintenanceNext

(* Every step keeps the lock with the process that works under it.         *)
LEMMA StepKeepsLock ==
    ASSUME MaintenanceInv, [MaintenanceNext]_maintenanceVars
    PROVE  LockProtects'
<1> USE DEF MaintenanceInv, LockProtects
<1> DEFINE Held(q) ==
      /\ lock = q <=> pc[q] \in {"compare", "replace", "release"}
      /\ pc[q] = "replace" => file = call[q].before
      /\ pc[q] \in {"lock", "compare", "replace"} => Follows(call[q].before, call[q].candidate)
      /\ pc[q] = "decide" => call[q].context.head \in Head
<1>0. ASSUME lock' \in Process \cup {"free", "stale"}, checkout' \in Head,
             pc' \in [Process -> Label], work' \in [Process -> Operation \cup {Absent}],
             \A q \in Process : Held(q)'
      PROVE  LockProtects'
  BY <1>0 DEF MaintenanceTypeOK, Label
<1>1. \A q \in Process : Held(q)
  BY DEF MaintenanceTypeOK
<1>2. CASE UNCHANGED maintenanceVars
  BY <1>2 DEF maintenanceVars, MaintenanceTypeOK, Follows, First, Extends
<1>3. CASE RemoveStaleLock \/ HeadMoves
  <2>1. \A q \in Process : Held(q)'
    BY <1>1, <1>3, ProcessAssumption DEF RemoveStaleLock, HeadMoves
  <2> QED BY <1>0, <1>3, <2>1 DEF RemoveStaleLock, HeadMoves, MaintenanceTypeOK, Label
<1>4. ASSUME NEW p \in Process, Step(p)
      PROVE  LockProtects'
  <2>1. CASE Observe(p)
    <3>1. file' = file /\ lock' = lock /\ checkout' = checkout /\ work' = work /\ pc[p] = "idle"
      BY <2>1 DEF Observe
    <3>2. \A q \in Process : Held(q)'
      BY <1>1, <2>1, <3>1, ObserveFacts DEF MaintenanceTypeOK
    <3> QED BY <1>0, <2>1, <3>1, <3>2, ObserveFacts DEF MaintenanceTypeOK
  <2>2. CASE Initializes(p) \/ Requests(p)
    <3>1. PICK record, previous : Submit(p, record, previous) /\ Follows(previous, record)
      BY <2>2, InitializeFollows, RequestFollows
         DEF Initializes, Requests, Initialize, RequestTransition
    <3>2. file' = file /\ lock' = lock /\ checkout' = checkout /\ work' = work /\ pc[p] = "decide"
      BY <2>2 DEF Initializes, Requests, Initialize, RequestTransition
    <3>3. \A q \in Process : Held(q)'
      BY <1>1, <3>1, <3>2, SubmitFacts
    <3> QED BY <1>0, <3>1, <3>2, <3>3, SubmitFacts DEF MaintenanceTypeOK
  <2>3. CASE GiveUp(p) \/ Evaluates(p)
    <3>1. /\ file' = file /\ lock' = lock /\ checkout' = checkout /\ work' = work
          /\ pc[p] = "decide" /\ Return(p)
      BY <2>3 DEF GiveUp, Evaluates, Evaluate
    <3>2. \A q \in Process : Held(q)'
      BY <1>1, <3>1, ReturnFacts
    <3> QED BY <1>0, <3>1, <3>2, ReturnFacts DEF MaintenanceTypeOK
  <2>4. CASE Acquire(p)
    <3>1. file' = file /\ checkout' = checkout /\ work' = work /\ pc[p] = "lock"
      BY <2>4 DEF Acquire
    <3>2. CASE lock = "free" /\ lock' = p /\ Goto(p, "compare")
      <4>1. \A q \in Process : Held(q)'
        BY <1>1, <3>1, <3>2, GotoFacts, ProcessAssumption DEF Label
      <4> QED BY <1>0, <3>1, <3>2, <4>1, GotoFacts DEF MaintenanceTypeOK, Label
    <3>3. CASE lock' = lock /\ Return(p)
      <4>1. \A q \in Process : Held(q)'
        BY <1>1, <3>1, <3>3, ReturnFacts
      <4> QED BY <1>0, <3>1, <3>3, <4>1, ReturnFacts DEF MaintenanceTypeOK
    <3> QED BY <2>4, <3>2, <3>3 DEF Acquire
  <2>5. CASE Compare(p)
    <3>1. /\ file' = file /\ lock' = lock /\ checkout' = checkout /\ work' = work
          /\ pc[p] = "compare"
          /\ \/ file = call[p].before /\ Goto(p, "replace")
             \/ Goto(p, "release")
      BY <2>5 DEF Compare
    <3>2. \A q \in Process : Held(q)'
      BY <1>1, <3>1, GotoFacts DEF Label
    <3> QED BY <1>0, <3>1, <3>2, GotoFacts DEF MaintenanceTypeOK, Label
  <2>6. CASE Replace(p)
    <3>1. lock' = lock /\ checkout' = checkout /\ work' = work /\ pc[p] = "replace" /\ Goto(p, "release")
      BY <2>6 DEF Replace
    <3>2. \A q \in Process \ {p} : pc[q] # "replace"
      BY <1>1, <3>1
    <3>3. \A q \in Process : Held(q)'
      BY <1>1, <3>1, <3>2, GotoFacts DEF Label
    <3> QED BY <1>0, <3>1, <3>3, GotoFacts DEF MaintenanceTypeOK, Label
  <2>7. CASE Release(p) \/ Crash(p)
    <3>1. /\ file' = file /\ checkout' = checkout /\ work' = work /\ Return(p)
          /\ IF lock = p THEN lock' \in {"free", "stale"} ELSE lock' = lock
      BY <1>1, <2>7 DEF Release, Crash
    <3>2. \A q \in Process : Held(q)'
      BY <1>1, <3>1, ReturnFacts, ProcessAssumption
    <3> QED BY <1>0, <3>1, <3>2, ReturnFacts DEF MaintenanceTypeOK
  <2>8. CASE Enforces(p) \/ FinishWork(p)
    <3>1. /\ file' = file /\ lock' = lock /\ checkout' = checkout /\ call' = call /\ pc[p] = "idle"
          /\ work' \in [Process -> Operation \cup {Absent}]
          /\ pc' = pc \/ Goto(p, "start")
      BY <2>8 DEF Enforces, Enforce, FinishWork, Goto, MaintenanceTypeOK
    <3>2. \A q \in Process : Held(q)'
      BY <1>1, <3>1, GotoFacts DEF Label
    <3> QED BY <1>0, <3>1, <3>2, GotoFacts DEF MaintenanceTypeOK, Label
  <2>9. CASE Start(p)
    <3>1. /\ file' = file /\ lock' = lock /\ checkout' = checkout /\ pc[p] = "start" /\ Return(p)
          /\ work' \in [Process -> Operation \cup {Absent}]
      BY <2>9 DEF Start, MaintenanceTypeOK, LocalsOK
    <3>2. \A q \in Process : Held(q)'
      BY <1>1, <3>1, ReturnFacts
    <3> QED BY <1>0, <3>1, <3>2, ReturnFacts DEF MaintenanceTypeOK
  <2> QED BY <1>4, <2>1, <2>2, <2>3, <2>4, <2>5, <2>6, <2>7, <2>8, <2>9
          DEF Step, Initializes, Requests, Evaluates, Enforces
<1> QED BY <1>2, <1>3, <1>4 DEF MaintenanceNext

-----------------------------------------------------------------------------
(* The inductive invariant: shapes, lock and candidates together.          *)
LEMMA InvHolds == MaintenanceSpec => []MaintenanceInv
<1>1. MaintenanceInit => MaintenanceInv
  BY ProcessAssumption
     DEF MaintenanceInit, MaintenanceInv, LocalsOK, LockProtects, MaintenanceTypeOK, NoCall, NoAdmission
<1>2. MaintenanceInv /\ [MaintenanceNext]_maintenanceVars => MaintenanceInv'
  BY StepKeepsLocals, StepKeepsLock DEF MaintenanceInv, LockProtects
<1> QED BY <1>1, <1>2, PTL DEF MaintenanceSpec

(* The lock file of the maintenance store protects the comparison and the  *)
(* replacement, for any number of processes, crashes and failed releases.  *)
THEOREM LockHolds == MaintenanceSpec => []LockProtects
BY InvHolds, PTL DEF MaintenanceInv

(* Operators, crashes and stale locks included, the stored record changes  *)
(* only as the register allows: the store implements docs/69.              *)
THEOREM Refinement == MaintenanceSpec => ExtendsRegister
<1>1. MaintenanceInit => RegisterInit
  BY DEF MaintenanceInit
<1>2. MaintenanceInv /\ [MaintenanceNext]_maintenanceVars => [RegisterNext]_file
  <2> SUFFICES ASSUME MaintenanceInv, [MaintenanceNext]_maintenanceVars PROVE [RegisterNext]_file
    OBVIOUS
  <2>1. ASSUME NEW p \in Process, Replace(p)
        PROVE  [RegisterNext]_file
    BY <2>1 DEF Replace, MaintenanceInv, LockProtects, RegisterNext
  <2>2. CASE UNCHANGED file
    BY <2>2
  <2>3. CASE UNCHANGED maintenanceVars
    BY <2>2, <2>3 DEF maintenanceVars
  <2>4. ASSUME NEW p \in Process, Step(p)
        PROVE  Replace(p) \/ UNCHANGED file
    BY <2>4 DEF Step, Observe, GiveUp, Initialize, RequestTransition, Acquire, Compare, Release,
                Crash, Evaluate, Enforce, Start, FinishWork
  <2>5. MaintenanceNext =>
           (\E p \in Process : Step(p)) \/ UNCHANGED file
    BY DEF MaintenanceNext, RemoveStaleLock, HeadMoves
  <2> QED BY <2>1, <2>2, <2>3, <2>4, <2>5
<1> QED BY <1>1, <1>2, InvHolds, PTL DEF MaintenanceSpec, ExtendsRegister, RegisterSpec

-----------------------------------------------------------------------------
(* What a process was admitted for, the record it was decided on permits.  *)
AdmissionsPermit ==
    \A p \in Process : admission[p].operation # Absent =>
        Permits(admission[p].record.state, admission[p].operation)

(* evaluate admits nothing that the record before it does not permit.      *)
LEMMA AdmittedIsPermitted ==
    ASSUME NEW record, NEW c, NEW o \in Operation, AdmissionOf(record, c, o) = "ADMITTED"
    PROVE  Permits(record.state, o)
<1>1. CASE o = "READ_DIAGNOSTICS"
  BY <1>1 DEF Permits
<1>2. CASE o # "READ_DIAGNOSTICS"
  <2>1. c.problems \ {"GOVERNANCE_REQUIRES_HUMAN"} = {}
    <3> SUFFICES ASSUME c.problems \ {"GOVERNANCE_REQUIRES_HUMAN"} # {} PROVE AdmissionOf(record, c, o) = "REFUSED"
      OBVIOUS
    <3> QED  BY <1>2 DEF AdmissionOf
  <2>2. record.state = "NORMAL" \/ (record.state = "DRAINING" /\ o = "COMPLETE_IN_FLIGHT")
    BY <1>2, <2>1 DEF AdmissionOf
  <2> QED  BY <2>2 DEF Permits
<1> QED  BY <1>1, <1>2

(* An evaluation replaces the admission of its process; nothing else does. *)
LEMMA StepKeepsAdmissions ==
    ASSUME LocalsOK, AdmissionsPermit, [MaintenanceNext]_maintenanceVars
    PROVE  AdmissionsPermit'
<1>1. ASSUME NEW p \in Process, NEW o \in Considered, Evaluate(p, o)
      PROVE  AdmissionsPermit'
  <2>1. PICK a : /\ admission' = [admission EXCEPT ![p] = a]
                 /\ a = IF AdmissionOf(file, call[p].context, o) = "ADMITTED"
                        THEN [operation |-> o, record |-> file] ELSE NoAdmission
    BY <1>1 DEF Evaluate
  <2>2. a.operation # Absent => Permits(a.record.state, a.operation)
    BY <2>1, AdmittedIsPermitted, ProcessAssumption DEF NoAdmission
  <2>3. admission'[p] = a /\ \A q \in Process \ {p} : admission'[q] = admission[q]
    BY <2>1 DEF LocalsOK
  <2> QED  BY <2>2, <2>3 DEF AdmissionsPermit
<1>2. CASE admission' = admission
  BY <1>2 DEF AdmissionsPermit
<1> QED
  BY <1>1, <1>2 DEF MaintenanceNext, maintenanceVars, RemoveStaleLock, HeadMoves, Step, Observe, GiveUp, Initialize,
     RequestTransition, Acquire, Compare, Replace, Release, Crash, Enforce, Start, FinishWork

(* A process comes to start its work by enforcing an admission only.       *)
LEMMA OnlyEnforceStarts ==
    ASSUME MaintenanceTypeOK, [MaintenanceNext]_maintenanceVars, NEW p \in Process, pc[p] # "start", pc'[p] = "start"
    PROVE  \E o \in Considered : Enforce(p, o)
<1> USE DEF MaintenanceTypeOK
<1>1. CASE pc' = pc
  BY <1>1
<1>2. ASSUME NEW q \in Process, NEW label \in Label \ {"start"}, pc' = [pc EXCEPT ![q] = label]
      PROVE  FALSE
  BY <1>2 DEF Label
<1>3. ASSUME NEW q \in Process, NEW o \in Considered, Enforce(q, o)
      PROVE  \E x \in Considered : Enforce(p, x)
  <2>1. pc' = [pc EXCEPT ![q] = "start"]
    BY <1>3 DEF Enforce, Goto
  <2>2. p = q
    BY <2>1
  <2> QED  BY <1>3, <2>2
<1>4. ASSUME NEW q \in Process, Step(q), ~ \E o \in Considered : Enforce(q, o)
      PROVE  pc' = pc \/ \E label \in Label \ {"start"} : pc' = [pc EXCEPT ![q] = label]
  BY <1>4 DEF Step, Observe, GiveUp, Initialize, RequestTransition, Acquire, Compare, Replace, Release, Crash,
     Evaluate, Start, FinishWork, Goto, Return, Submit, Label
<1> QED  BY <1>1, <1>2, <1>3, <1>4 DEF MaintenanceNext, maintenanceVars, RemoveStaleLock, HeadMoves

(* Work never starts against the record in force, for any number of        *)
(* processes and however old the evaluation is: an admission counts for    *)
(* the very record it was decided on, and that record permits it.          *)
THEOREM WorkIsPermitted == MaintenanceSpec => WorkWasPermitted
<1>1. MaintenanceInit => AdmissionsPermit
  BY DEF MaintenanceInit, AdmissionsPermit, NoAdmission
<1>2. MaintenanceInv /\ AdmissionsPermit /\ [MaintenanceNext]_maintenanceVars => AdmissionsPermit'
  BY StepKeepsAdmissions DEF MaintenanceInv
<1>3. MaintenanceInv /\ AdmissionsPermit /\ [MaintenanceNext]_maintenanceVars =>
         [\A p \in Process : pc[p] # "start" /\ pc'[p] = "start" =>
             Permits(file.state, admission'[p].operation)]_maintenanceVars
  <2> SUFFICES ASSUME MaintenanceInv, AdmissionsPermit, [MaintenanceNext]_maintenanceVars,
                      NEW p \in Process, pc[p] # "start", pc'[p] = "start"
               PROVE  Permits(file.state, admission'[p].operation)
    OBVIOUS
  <2>1. PICK o \in Considered : Enforce(p, o)
    BY OnlyEnforceStarts DEF MaintenanceInv, LockProtects
  <2>2. admission[p].operation = o /\ admission[p].record = file /\ admission' = admission /\ o # Absent
    BY <2>1, ProcessAssumption DEF Enforce
  <2> QED  BY <2>2 DEF AdmissionsPermit
<1> QED  BY <1>1, <1>2, <1>3, InvHolds, PTL DEF MaintenanceSpec, WorkWasPermitted
============================================================================
