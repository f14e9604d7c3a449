----------------------------- MODULE Governance -----------------------------
(***************************************************************************)
(* The evaluators behind the operator's diagnostics, as functions of what  *)
(* they are given: the health of each dimension and of the whole           *)
(* (health_evaluation.py), the decision of the governance policies         *)
(* (governance_policy.py), the admission of a resource budget              *)
(* (resource_budget.py) and the signals that open incidents                *)
(* (incident_manager.py).  They keep no state and grant nothing; what they *)
(* promise is that a source which is missing, doubled, old or foreign is   *)
(* never read as good news.                                                *)
(*                                                                         *)
(* Whether a source belongs to the scope asked for and is recent enough is *)
(* its binding: "current", "stale" (another HEAD, another generation, the  *)
(* future or more than five minutes ago) or "foreign" (another project).   *)
(***************************************************************************)
EXTENDS Integers

CONSTANT None

(* None is no state of a dimension and no kind of incident.                *)
ASSUME NoneAssumption ==
    None \notin {"HEALTHY", "DEGRADED", "UNKNOWN", "BLOCKED",
                 "PERSISTENCE_FAILURE", "RECOVERY_STUCK", "REMEDIATION_LOOP", "GIT_WORKTREE_DIVERGENCE",
                 "CODEX_RUNTIME_FAILURE", "OBSERVABILITY_LOSS"}

---------------------------------------------------------------------------
(* Health states, from the best to the worst one.                          *)

HealthState == {"HEALTHY", "DEGRADED", "UNKNOWN", "BLOCKED"}

Gravity == [s \in HealthState |->
    CASE s = "HEALTHY" -> 0 [] s = "DEGRADED" -> 1 [] s = "UNKNOWN" -> 2 [] OTHER -> 3]

Worst(states) == CHOOSE s \in states : \A t \in states : Gravity[t] <= Gravity[s]

(* What a source can report, and what each report is worth.                *)
Good     == {"AVAILABLE", "RECONCILED", "CLEAR", "VALID"}
Impaired == {"DEGRADED", "SATURATED"}
Bad      == {"UNAVAILABLE", "DRIFT", "RECOVERY_PENDING", "FAILED", "PENDING", "INVALID"}
Condition == Good \cup Impaired \cup Bad \cup {"UNKNOWN", "CORRUPTED"}

(* An event store that is full or out of reach, and a ledger out of reach, *)
(* are unknown rather than impaired or blocked.                            *)
Unreliable(source, condition) ==
    \/ source = "OPERATIONAL_EVENT_STORE" /\ condition \in {"UNAVAILABLE", "SATURATED"}
    \/ source = "EXECUTION_LEDGER" /\ condition = "UNAVAILABLE"

ConditionState(source, condition) ==
    IF Unreliable(source, condition) THEN "UNKNOWN"
    ELSE IF condition \in Good      THEN "HEALTHY"
    ELSE IF condition \in Impaired  THEN "DEGRADED"
    ELSE IF condition \in Bad       THEN "BLOCKED"
    ELSE "UNKNOWN"

---------------------------------------------------------------------------
(* A health context c: whether a mission and a parallel group are active,  *)
(* a set of observations [source, condition, binding, identity], and the   *)
(* metrics, None or [status, binding, persistence, codex] with the numbers *)
(* of failures they count.                                                 *)

Always    == {"AUTHORITATIVE_STATE_ACCESS", "OBSERVABILITY", "PERSISTENCE", "DEPLOYMENT_CONFIGURATION"}
InMission == {"EXECUTION_RECOVERY", "REMEDIATION_TRANSACTION"}
HealthDimension == Always \cup InMission \cup {"GIT_WORKTREES", "CODEX_RUNTIME"}

Required(c) == Always \cup (IF c.mission THEN InMission \cup {"CODEX_RUNTIME"} ELSE {})
                      \cup (IF c.parallel THEN {"GIT_WORKTREES"} ELSE {})

Optional(c) == {"CODEX_RUNTIME"} \ Required(c)

Expected(d, c) ==
    CASE d = "AUTHORITATIVE_STATE_ACCESS" ->
            {"PROJECT_STATE_STORE"} \cup (IF c.mission THEN {"MISSION_STATE_STORE"} ELSE {})
      [] d = "OBSERVABILITY"            -> {"OPERATIONAL_EVENT_STORE"}
      [] d = "GIT_WORKTREES"            -> {"GIT_RECONCILIATION"}
      [] d = "CODEX_RUNTIME"            -> {"CODEX_RUNTIME"}
      [] d = "EXECUTION_RECOVERY"       -> {"EXECUTION_LEDGER"}
      [] d = "PERSISTENCE"              -> {"PERSISTENCE_DIAGNOSTIC"}
      [] d = "REMEDIATION_TRANSACTION"  -> {"REMEDIATION_STORE"}
      [] d = "DEPLOYMENT_CONFIGURATION" -> {"PROJECT_CONFIGURATION"}

Seen(source, c) == {o \in c.observations : o.source = source}

(* Mutant: the scope and the age of the observation are not looked at.     *)
Attested_AnyAge(source, c) == \E o \in Seen(source, c) : Seen(source, c) = {o}

(* Exactly one observation, and a current one.                             *)
Attested(source, c) == \E o \in Seen(source, c) : Seen(source, c) = {o} /\ o.binding = "current"

SourceState(source, c) ==
    IF Attested(source, c)
    THEN LET o == CHOOSE o \in Seen(source, c) : TRUE IN ConditionState(source, o.condition)
    ELSE "UNKNOWN"

MetricsUsable(c) == c.metrics # None /\ c.metrics.binding = "current" /\ c.metrics.status = "COMPLETE"

(* Metrics that cannot be used and observations of another project cast    *)
(* doubt on the observability itself.                                      *)
Blind(c) == ~MetricsUsable(c) \/ \E o \in c.observations : o.binding = "foreign"

Observed(d, c) ==
    Worst({SourceState(s, c) : s \in Expected(d, c)}
            \cup (IF d = "OBSERVABILITY" /\ Blind(c) THEN {"UNKNOWN"} ELSE {}))

(* Failures counted in the running mission degrade what was healthy.       *)
Failing(d, c) ==
    /\ MetricsUsable(c) /\ c.mission
    /\ \/ d = "PERSISTENCE" /\ c.metrics.persistence > 0
       \/ d = "CODEX_RUNTIME" /\ c.metrics.codex > 0

DimensionState(d, c) ==
    IF d \notin Required(c) \cup Optional(c) THEN None
    ELSE LET observed == Observed(d, c)
         IN  IF observed = "HEALTHY" /\ Failing(d, c) THEN "DEGRADED" ELSE observed

States(dims, c) == {DimensionState(d, c) : d \in dims}

GlobalState(c) ==
    LET worst == Worst(States(Required(c), c))
    IN  IF worst = "HEALTHY" /\ States(Optional(c), c) \cap {"BLOCKED", "DEGRADED"} # {}
        THEN "DEGRADED" ELSE worst

(* The snapshot handed on: every dimension, and the whole.                 *)
Snapshot(c) == [dimension |-> [d \in HealthDimension |-> DimensionState(d, c)], global |-> GlobalState(c)]

---------------------------------------------------------------------------
(* Governance: g holds the policies [id, class, domain, enabled, binding,  *)
(* operations, condition, action], the operation asked for, the health     *)
(* snapshot with its binding, the metrics, and the facts of the request,   *)
(* where None is a fact nobody stated.                                     *)

Decision == {"ALLOW", "ALLOW_WITH_WARNING", "REQUIRE_OPERATOR", "BLOCK"}

Severity == [d \in Decision |->
    CASE d = "ALLOW" -> 0 [] d = "ALLOW_WITH_WARNING" -> 1 [] d = "REQUIRE_OPERATOR" -> 2 [] OTHER -> 3]

Strictest(decisions) == CHOOSE d \in decisions : \A e \in decisions : Severity[e] <= Severity[d]

HealthFloor == [s \in HealthState |->
    CASE s = "HEALTHY" -> "ALLOW" [] s = "DEGRADED" -> "ALLOW_WITH_WARNING"
      [] s = "UNKNOWN" -> "REQUIRE_OPERATOR" [] OTHER -> "BLOCK"]

Applicable(g) == {p \in g.policies : p.enabled /\ g.operation \in p.operations}

(* What a condition reads; None when it cannot be answered.                *)
Holds(condition, g) ==
    CASE condition = "ALWAYS"          -> TRUE
      [] condition = "HEALTH_BLOCKED"  -> g.health.global = "BLOCKED"
      [] condition = "HEALTH_UNKNOWN"  -> g.health.global = "UNKNOWN"
      [] condition = "HEALTH_DEGRADED" -> g.health.global = "DEGRADED"
      [] condition = "OBSERVABILITY_NOT_HEALTHY" -> g.health.dimension["OBSERVABILITY"] # "HEALTHY"
      [] condition = "DEPLOYMENT_NOT_HEALTHY" ->
            g.health.dimension["DEPLOYMENT_CONFIGURATION"] # "HEALTHY"
      [] condition = "RECOVERY_NOT_HEALTHY" ->
            g.health.dimension["EXECUTION_RECOVERY"] \notin {"HEALTHY", None}
      [] condition = "CODEX_RUNTIME_NOT_HEALTHY" -> g.health.dimension["CODEX_RUNTIME"] # "HEALTHY"
      [] condition = "METRICS_NOT_COMPLETE" -> g.metrics # None /\ g.metrics.status # "COMPLETE"
      [] condition = "SANDBOX_NONCOMPLIANT" -> g.sandbox = FALSE
      [] condition = "VERIFICATION_INCOMPLETE" -> g.verified = FALSE
      [] condition = "MAINTENANCE_REQUESTED" -> g.maintenance
      [] OTHER -> g.intervention

Unanswered(condition, g) ==
    \/ condition = "RECOVERY_NOT_HEALTHY" /\ g.health.dimension["EXECUTION_RECOVERY"] = None
    \/ condition = "METRICS_NOT_COMPLETE" /\ g.metrics = None
    \/ condition = "SANDBOX_NONCOMPLIANT" /\ g.sandbox = None
    \/ condition = "VERIFICATION_INCOMPLETE" /\ g.verified = None

Matched(g) ==
    {p \in Applicable(g) : p.binding = "current" /\ ~Unanswered(p.condition, g) /\ Holds(p.condition, g)}

Conflicting(policies) ==
    \E p, q \in policies : p.class = q.class /\ p.domain = q.domain /\ p.action # q.action

(* Everything that blocks whatever the policies say.                       *)
Refused(g) ==
    \/ \A p \in g.policies : p.class # "HARD_SAFETY_POLICY"
    \/ g.healthBinding # "current"
    \/ g.metrics # None /\ (g.metrics.binding # "current" \/ g.metrics.status # "COMPLETE")
    \/ \E p \in g.policies : p.binding # "current"
    \/ \E p \in Applicable(g) : Unanswered(p.condition, g)
    \/ Conflicting(Matched(g))

Floor(g) == IF Refused(g) THEN "BLOCK" ELSE HealthFloor[g.health.global]

Govern(g) == Strictest({Floor(g)} \cup {p.action : p \in Matched(g)})

---------------------------------------------------------------------------
(* One domain of a resource budget: budgets [id, class, limit, binding],   *)
(* usage None or [status, binding, coherent, current, requested]; coherent *)
(* sums up the source, the unit, the request and the active identities.    *)

CONSTANT MaxResource

Ceilings(budgets) == {b \in budgets : b.class # "OPERATOR_PREFERENCE"}

EffectiveLimit(budgets) ==
    CHOOSE n \in {b.limit : b \in budgets} : \A b \in budgets : n <= b.limit

Reliable(usage) ==
    usage # None /\ usage.status = "COMPLETE" /\ usage.binding = "current" /\ usage.coherent

Future(usage) == usage.current + usage.requested

Classify(future, limit) ==
    IF future > limit THEN "LIMIT_EXCEEDED"
    ELSE IF future = limit THEN "LIMIT_REACHED"
    ELSE IF limit > 0 /\ future * 5 >= limit * 4 THEN "NEAR_LIMIT"
    ELSE "WITHIN_BUDGET"

Budget(budgets, usage) ==
    IF \/ Ceilings(budgets) = {}
       \/ \E b \in budgets : b.binding # "current"
       \/ ~Reliable(usage)
       \/ Future(usage) > MaxResource
    THEN "UNKNOWN"
    ELSE Classify(Future(usage), EffectiveLimit(budgets))

(* What the execution boundary lets through.                               *)
Admitted(budgets, usage) == Budget(budgets, usage) \in {"WITHIN_BUDGET", "NEAR_LIMIT", "LIMIT_REACHED"}

---------------------------------------------------------------------------
(* Incidents.  An incident is identified by its classification and what it *)
(* is about; i is the context: the health snapshot, the governance decision  *)
(* and the budget decision with their bindings (None when absent), the     *)
(* metrics, the events [class, about, binding] and whether all of them are *)
(* there, and diagnostics [class, about, condition, source, binding].      *)

Critical == {"PERSISTENCE_FAILURE", "RESOURCE_EXHAUSTION", "OBSERVABILITY_LOSS", "UNKNOWN_CRITICAL_STATE"}

DimensionIncident(d) ==
    CASE d = "PERSISTENCE"             -> "PERSISTENCE_FAILURE"
      [] d = "EXECUTION_RECOVERY"      -> "RECOVERY_STUCK"
      [] d = "REMEDIATION_TRANSACTION" -> "REMEDIATION_LOOP"
      [] d = "GIT_WORKTREES"           -> "GIT_WORKTREE_DIVERGENCE"
      [] d = "CODEX_RUNTIME"           -> "CODEX_RUNTIME_FAILURE"
      [] d = "OBSERVABILITY"           -> "OBSERVABILITY_LOSS"
      [] OTHER                         -> None

Incident(class, about) == [class |-> class, about |-> about]

Uncertain(about) == Incident("UNKNOWN_CRITICAL_STATE", about)

(* Mutant: only a dimension known to be impaired raises a signal.          *)
HealthSignals_KnownOnly(i) ==
    IF i.healthBinding # "current" THEN {Uncertain("scope")}
    ELSE {Incident(DimensionIncident(d), "scope") :
            d \in {e \in HealthDimension : DimensionIncident(e) # None
                                        /\ i.health.dimension[e] \in {"BLOCKED", "DEGRADED"}}}

HealthSignals(i) ==
    IF i.healthBinding # "current" THEN {Uncertain("scope")}
    ELSE {IF i.health.dimension[d] = "UNKNOWN" THEN Uncertain("scope")
                                                    ELSE Incident(DimensionIncident(d), "scope") :
            d \in {e \in HealthDimension : DimensionIncident(e) # None
                                        /\ i.health.dimension[e] \notin {None, "HEALTHY"}}}

GovernanceSignals(i) ==
    IF i.governanceBinding # "current" THEN {Uncertain("scope")}
    ELSE IF i.governance = "BLOCK"     THEN {Incident("POLICY_BLOCK", "operation")}
    ELSE {}

BudgetSignals(i) ==
    IF i.budgetBinding # "current"      THEN {Uncertain("scope")}
    ELSE IF i.budget = "UNKNOWN"        THEN {Uncertain("budget")}
    ELSE IF i.budget = "LIMIT_EXCEEDED" THEN {Incident("RESOURCE_EXHAUSTION", "budget")}
    ELSE {}

MetricsSignals(i) ==
    IF i.metrics # None /\ (i.metrics.binding # "current" \/ i.metrics.status # "COMPLETE")
    THEN {Incident("OBSERVABILITY_LOSS", "scope")} ELSE {}

EventSignals(i) ==
    IF ~i.complete THEN {Uncertain("scope")}
    ELSE {IF e.binding = "current" THEN Incident(e.class, e.about) ELSE Uncertain("scope") :
            e \in {f \in i.events : f.class # None \/ f.binding # "current"}}

DiagnosticSignals(i) ==
    {IF d.binding # "current"        THEN Uncertain("scope")
     ELSE IF d.condition = "UNKNOWN" THEN Uncertain(d.about)
     ELSE Incident(d.class, d.about) :
        d \in {e \in i.diagnostics : e.binding # "current" \/ e.condition # "NORMALIZED"}}

Signals(i) ==
    HealthSignals(i) \cup GovernanceSignals(i) \cup BudgetSignals(i) \cup MetricsSignals(i)
        \cup EventSignals(i) \cup DiagnosticSignals(i)

(* The state a new or a reopened incident starts in.                       *)
Opened(incident) == IF incident.class \in Critical THEN "ESCALATED" ELSE "ACKNOWLEDGEMENT_REQUIRED"

(* prior maps every incident to the state of its last revision, None when  *)
(* it has none; so does the assessment, where a resolved incident without  *)
(* a signal is left as it was.                                             *)
Assess(prior, i) ==
    LET shown == Signals(i) IN
    [n \in DOMAIN prior |->
        IF n \in shown /\ prior[n] \in {None, "RESOLVED"} THEN Opened(n) ELSE prior[n]]

Unresolved(state) == state \notin {None, "RESOLVED"}

(* Mutant: the operator's observation alone resolves.                      *)
Resolvable_OnReport(n, source, prior, i) ==
    /\ Unresolved(prior[n])
    /\ \E d \in i.diagnostics : d.class = n.class /\ d.condition = "NORMALIZED"

(* resolve() wants exactly one current observation, by the source the      *)
(* resolution names, that the condition is back to normal, no critical     *)
(* uncertainty and no signal of the incident.                              *)
Resolvable(n, source, prior, i) ==
    /\ Unresolved(prior[n])
    /\ \E d \in i.diagnostics :
          {e \in i.diagnostics : e.class = n.class /\ e.about = n.about
                /\ e.condition = "NORMALIZED" /\ e.source = source /\ e.binding = "current"} = {d}
    /\ \A m \in Signals(i) : m.class # "UNKNOWN_CRITICAL_STATE"
    /\ n \notin Signals(i)
=============================================================================
