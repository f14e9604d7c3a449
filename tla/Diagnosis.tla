------------------------------ MODULE Diagnosis ------------------------------
(***************************************************************************)
(* The read-only diagnostics (diagnostics_cli.py) over the stores of a     *)
(* repository that keeps working, ages and gets damaged, and the operator  *)
(* who records, acknowledges and resolves the incidents they show.         *)
(* What `health', `incidents' and `diagnose' answer is a function of the   *)
(* stores, built by _health_observations, _governance, _budgets and        *)
(* _incidents from the evaluators of module Governance.                    *)
(*                                                                         *)
(* Each command is asked with or without the exact mission on its command  *)
(* line: without it, only an active or blocked mission (OPEN here) counts.  *)
(***************************************************************************)
EXTENDS Governance, FiniteSets

CONSTANTS Heads,        \* commits HEAD may be at
          MaxRunning,   \* maximum_parallel_executions of the configuration
          MaxFaults,    \* damaged stores and commits of somebody else
          MaxGenerations,
          MaxFollowed,  \* incidents the operator keeps records of
          MaxEvents     \* events of one mission

VARIABLES head,       \* HEAD of the repository
          project,    \* project state: "valid", "foreign" or "unreadable"
          mission,    \* None, or [status, commit, generation]; may be "unreadable"
          journal,    \* events: [state of the store, consistent, events]
          ledger,     \* executions of the generation: [readable, running, stuck]
          outcomes,   \* negative outcomes: "clear", "pending" or "unreadable"
          registry,   \* worktrees: "absent", "aligned", "drift" or "unreadable"
          history,    \* last revisions: a set of [scope, incident, state]
          faults

stores == <<head, project, mission, journal, ledger, outcomes, registry>>
vars   == <<stores, history, faults>>

ASSUME LimitAssumption ==
    MaxRunning \in Nat \ {0} /\ MaxFaults \in Nat /\ MaxResource \in Nat /\ MaxResource >= MaxRunning

(* The incidents the diagnostics can show.                                 *)
Incidents ==
    {Incident(c, "scope") : c \in {"UNKNOWN_CRITICAL_STATE", "PERSISTENCE_FAILURE", "RECOVERY_STUCK",
        "REMEDIATION_LOOP", "GIT_WORKTREE_DIVERGENCE", "CODEX_RUNTIME_FAILURE", "OBSERVABILITY_LOSS"}}
      \cup {Incident("POLICY_BLOCK", "operation"), Incident("CODEX_RUNTIME_FAILURE", "execution"),
            Uncertain("budget"), Incident("RESOURCE_EXHAUSTION", "budget")}

Init ==
    /\ head \in Heads /\ project = "valid" /\ mission = None
    /\ journal = [state |-> "AVAILABLE", consistent |-> TRUE, events |-> {}]
    /\ ledger = [readable |-> TRUE, running |-> 0, stuck |-> FALSE]
    /\ outcomes = "clear" /\ registry = "absent"
    /\ history = {}
    /\ faults = 0

---------------------------------------------------------------------------
(* The contexts the commands build.                                        *)

(* A mission state that cannot be read, or a mission asked for that is not *)
(* there, ends the command with an error.                                  *)
Answerable(asked) == IF mission = None THEN ~asked ELSE mission.status # "unreadable"

InScope(asked) == mission # None /\ (asked \/ mission.status = "OPEN")

(* Naming the mission on the command line only matters once it is closed.  *)
Questions == {asked \in BOOLEAN : Answerable(asked) /\ (asked => mission.status = "CLOSED")}

Observation(source, condition, binding) == [source |-> source, condition |-> condition, binding |-> binding]

Parallel == registry \in {"aligned", "drift"}

ProjectCondition ==
    CASE project = "valid" -> "AVAILABLE" [] project = "foreign" -> "UNKNOWN" [] OTHER -> "UNAVAILABLE"

(* Events are read together with the ledger the execution events come from. *)
EventStatus == IF ledger.readable THEN journal.state ELSE "UNAVAILABLE"

EventCondition ==
    CASE EventStatus = "AVAILABLE" -> "AVAILABLE" [] EventStatus = "DEGRADED" -> "SATURATED" [] OTHER -> "CORRUPTED"

(* The persistence diagnostic repeats the two stores always read.          *)
PersistenceCondition ==
    CASE project = "valid" /\ EventStatus # "UNAVAILABLE"     -> "AVAILABLE"
      [] EventStatus = "UNAVAILABLE" \/ project = "foreign"   -> "UNKNOWN"
      [] OTHER                                                -> "FAILED"

LedgerCondition ==
    IF ~ledger.readable THEN "UNAVAILABLE"
    ELSE IF ledger.running > 0 \/ ledger.stuck THEN "RECOVERY_PENDING" ELSE "CLEAR"

OutcomeCondition == CASE outcomes = "clear" -> "CLEAR" [] outcomes = "pending" -> "PENDING" [] OTHER -> "UNKNOWN"

Observations(asked) ==
    {Observation("PROJECT_STATE_STORE", ProjectCondition, "current"),
     Observation("OPERATIONAL_EVENT_STORE", EventCondition, "current"),
     Observation("PERSISTENCE_DIAGNOSTIC", PersistenceCondition, "current"),
     Observation("PROJECT_CONFIGURATION", "VALID", "current"),
     Observation("CODEX_RUNTIME", "AVAILABLE", "current")}
    \cup IF ~InScope(asked) THEN {} ELSE
    {Observation("MISSION_STATE_STORE", "AVAILABLE", IF mission.commit = head THEN "current" ELSE "stale"),
     Observation("EXECUTION_LEDGER", LedgerCondition, "current"),
     Observation("REMEDIATION_STORE", OutcomeCondition, "current")}
    \cup IF ~Parallel THEN {} ELSE
    {Observation("GIT_RECONCILIATION", IF registry = "aligned" THEN "RECONCILED" ELSE "DRIFT", "current")}

(* Metrics count the failures of the mission however old they are; events  *)
(* out of reach give no metrics, a full store incomplete ones.             *)
Failures(class, asked) == IF InScope(asked) /\ \E e \in journal.events : e.class = class THEN 1 ELSE 0

Metrics(asked) ==
    [status      |-> IF EventStatus = "UNAVAILABLE" THEN "UNAVAILABLE"
                     ELSE IF EventStatus = "AVAILABLE" /\ journal.consistent THEN "COMPLETE" ELSE "INCOMPLETE",
     binding     |-> "current",
     persistence |-> 0,
     codex       |-> Failures("CODEX_RUNTIME_FAILURE", asked)]

Health(asked) ==
    Snapshot([mission |-> InScope(asked), parallel |-> InScope(asked) /\ Parallel,
              observations |-> Observations(asked), metrics |-> Metrics(asked)])

(* One hard policy: what is blocked stays blocked.                         *)
HealthGate ==
    [id |-> "operator-diagnostics-health-floor", class |-> "HARD_SAFETY_POLICY", domain |-> "HEALTH_GATING",
     enabled |-> TRUE, binding |-> "current", operations |-> {"VERIFICATION"},
     condition |-> "HEALTH_BLOCKED", action |-> "BLOCK"]

Governed(asked, health) ==
    [policies |-> {HealthGate}, operation |-> "VERIFICATION", health |-> health,
     healthBinding |-> "current", metrics |-> Metrics(asked),
     sandbox |-> None, verified |-> None, maintenance |-> FALSE, intervention |-> FALSE]

(* The probe: one more execution against the configured limit.             *)
Capacity == {[id |-> "project-codex-concurrency", class |-> "HARD_SAFETY_POLICY", limit |-> MaxRunning,
              binding |-> "current"]}

Probe == [status |-> IF ledger.readable THEN "COMPLETE" ELSE "UNAVAILABLE", binding |-> "current",
          coherent |-> TRUE, current |-> ledger.running, requested |-> 1]

Selected(asked) == IF InScope(asked) /\ EventStatus # "UNAVAILABLE" THEN journal.events ELSE {}

Evaluation(asked, diagnostics) ==
    LET health == Health(asked) IN
    [health |-> health, healthBinding |-> "current",
     governance |-> Govern(Governed(asked, health)), governanceBinding |-> "current",
     budget |-> Budget(Capacity, Probe), budgetBinding |-> "current",
     metrics |-> Metrics(asked),
     events |-> {[class |-> e.class, about |-> "execution",
                  binding |-> IF e.recent /\ e.head = head THEN "current" ELSE "stale"] : e \in Selected(asked)},
     complete |-> EventStatus = "AVAILABLE",
     diagnostics |-> diagnostics]

(* HEAD and the generation of the mission, 0 without one.                  *)
Scope(asked) == <<head, IF InScope(asked) THEN mission.generation ELSE 0>>

(* `incidents' and `diagnose' need a history they can read.                *)
Inspectable == journal.state # "UNAVAILABLE"

(* The journal gives the last revision of each incident of a scope.        *)
Latest(scope) ==
    [n \in Incidents |->
        IF \E r \in history : r.scope = scope /\ r.incident = n
        THEN (CHOOSE r \in history : r.scope = scope /\ r.incident = n).state ELSE None]

Shown(asked) == Signals(Evaluation(asked, {}))

---------------------------------------------------------------------------
(* The repository at work.                                                 *)

Prepare ==
    /\ mission = None
    /\ mission' = [status |-> "OPEN", commit |-> head, generation |-> 1]
    /\ UNCHANGED <<head, project, journal, ledger, outcomes, registry, history, faults>>

Running == mission # None /\ mission.status = "OPEN" /\ ledger.readable /\ project = "valid"

Close ==
    /\ Running
    /\ mission' = [mission EXCEPT !.status = "CLOSED"]
    /\ UNCHANGED <<head, project, journal, ledger, outcomes, registry, history, faults>>

(* The execution boundary admits what the same evaluator allows.           *)
Launch ==
    /\ Running /\ mission.commit = head
    /\ Admitted(Capacity, Probe)
    /\ ledger' = [ledger EXCEPT !.running = @ + 1]
    /\ UNCHANGED <<head, project, mission, journal, outcomes, registry, history, faults>>

(* The end of an execution is an event because the ledger records it.      *)
Append(class) ==
    IF Cardinality(journal.events) < MaxEvents
    THEN [journal EXCEPT !.events = @ \cup {[class |-> class, head |-> mission.commit, recent |-> TRUE]}]
    ELSE journal

Finish(failed) ==
    /\ Running /\ ledger.running > 0
    /\ ledger' = [ledger EXCEPT !.running = @ - 1, !.stuck = @ \/ failed]
    /\ journal' = Append(IF failed THEN "CODEX_RUNTIME_FAILURE" ELSE None)
    /\ UNCHANGED <<head, project, mission, outcomes, registry, history, faults>>

Reject ==
    /\ Running /\ outcomes = "clear"
    /\ outcomes' = "pending"
    /\ UNCHANGED <<head, project, mission, journal, ledger, registry, history, faults>>

(* A remediation opens a generation of its own, without failed executions  *)
(* and without an active assignment of a worktree.                         *)
Remediate ==
    /\ Running /\ outcomes = "pending" /\ ledger.running = 0
    /\ mission.commit = head /\ registry # "unreadable"
    /\ mission.generation < MaxGenerations
    /\ outcomes' = "clear" /\ registry' = "absent"
    /\ mission' = [mission EXCEPT !.generation = @ + 1]
    /\ ledger' = [ledger EXCEPT !.stuck = FALSE]
    /\ journal' = [journal EXCEPT !.events = {}]
    /\ UNCHANGED <<head, project, history, faults>>

Worktrees(to) ==
    /\ Running /\ registry # "unreadable"
    /\ <<registry, to>> \in {<<"absent", "aligned">>, <<"aligned", "absent">>}
    /\ registry' = to
    /\ UNCHANGED <<head, project, mission, journal, ledger, outcomes, history, faults>>

(* A promotion takes the mission along, a commit of somebody else does not. *)
Move(h, along) ==
    /\ h # head /\ head' = h
    /\ IF along THEN /\ mission # None /\ mission.commit = head
                     /\ mission' = [mission EXCEPT !.commit = h] /\ UNCHANGED faults
                ELSE /\ faults < MaxFaults /\ faults' = faults + 1 /\ UNCHANGED mission
    /\ UNCHANGED <<project, journal, ledger, outcomes, registry, history>>

(* More than five minutes pass.                                            *)
Age ==
    /\ \E e \in journal.events : e.recent
    /\ journal' = [journal EXCEPT !.events = {[e EXCEPT !.recent = FALSE] : e \in @}]
    /\ UNCHANGED <<head, project, mission, ledger, outcomes, registry, history, faults>>

(* Something goes wrong with one of the stores.                            *)
Damage ==
    /\ faults < MaxFaults /\ faults' = faults + 1
    /\ UNCHANGED <<head, history>>
    /\ \/ /\ project' \in {"foreign", "unreadable"}
          /\ UNCHANGED <<mission, journal, ledger, outcomes, registry>>
       \/ /\ mission # None /\ mission' = [mission EXCEPT !.status = "unreadable"]
          /\ UNCHANGED <<project, journal, ledger, outcomes, registry>>
       \/ /\ journal.state = "AVAILABLE"
          /\ journal' \in {[journal EXCEPT !.state = "DEGRADED"], [journal EXCEPT !.state = "UNAVAILABLE"],
                           [journal EXCEPT !.consistent = FALSE]}
          /\ UNCHANGED <<project, mission, ledger, outcomes, registry>>
       \/ /\ ledger' = [ledger EXCEPT !.readable = FALSE]
          /\ UNCHANGED <<project, mission, journal, outcomes, registry>>
       \/ /\ outcomes' = "unreadable"
          /\ UNCHANGED <<project, mission, journal, ledger, registry>>
       \/ /\ registry' \in {"unreadable"} \cup (IF registry = "aligned" THEN {"drift"} ELSE {})
          /\ UNCHANGED <<project, mission, journal, ledger, outcomes>>

---------------------------------------------------------------------------
(* The operator.  A record goes into the same event store, so it has to    *)
(* take appends.                                                           *)

Writable == Inspectable /\ journal.state = "AVAILABLE"

Revise(asked, n, state) ==
    /\ history' = {r \in history : r.scope # Scope(asked) \/ r.incident # n}
                     \cup {[scope |-> Scope(asked), incident |-> n, state |-> state]}
    /\ UNCHANGED <<stores, faults>>

Record(asked) ==
    LET prior    == Latest(Scope(asked))
        assessed == Assess(prior, Evaluation(asked, {}))
    IN  /\ Writable
        /\ \E n \in Incidents :
              /\ assessed[n] # prior[n]
              /\ prior[n] = None => Cardinality(history) < MaxFollowed
              /\ Revise(asked, n, assessed[n])

Acknowledge(asked, n) ==
    /\ Writable /\ Unresolved(Latest(Scope(asked))[n])
    /\ Revise(asked, n, "ESCALATED")

(* The operator resolves with an observation of one source, which the      *)
(* resolution names.                                                       *)
Normalised(n) == {[class |-> n.class, about |-> n.about, condition |-> "NORMALIZED",
                   source |-> "operator", binding |-> "current"]}

Resolve(asked, n) ==
    /\ Writable
    /\ Resolvable(n, "operator", Latest(Scope(asked)), Evaluation(asked, Normalised(n)))
    /\ Revise(asked, n, "RESOLVED")

Work == \/ Prepare \/ Close \/ Launch \/ Reject \/ Remediate \/ Age \/ Damage
        \/ \E failed \in BOOLEAN : Finish(failed)
        \/ \E to \in {"aligned", "absent"} : Worktrees(to)
        \/ \E h \in Heads, along \in BOOLEAN : Move(h, along)

Operate == \E asked \in Questions :
              Record(asked) \/ \E r \in history : Acknowledge(asked, r.incident) \/ Resolve(asked, r.incident)

Next == Work \/ Operate

Spec == Init /\ [][Next]_vars

---------------------------------------------------------------------------
(* Properties.                                                             *)

TypeOK ==
    /\ head \in Heads
    /\ project \in {"valid", "foreign", "unreadable"}
    /\ mission \in {None} \cup [status : {"OPEN", "CLOSED", "unreadable"}, commit : Heads, generation : Nat]
    /\ journal \in [state : {"AVAILABLE", "DEGRADED", "UNAVAILABLE"}, consistent : BOOLEAN,
                    events : SUBSET [class : {None, "CODEX_RUNTIME_FAILURE"}, head : Heads, recent : BOOLEAN]]
    /\ ledger \in [readable : BOOLEAN, running : Nat, stuck : BOOLEAN]
    /\ outcomes \in {"clear", "pending", "unreadable"}
    /\ registry \in {"absent", "aligned", "drift", "unreadable"}
    /\ history \subseteq [scope : Heads \X Nat, incident : Incidents,
                          state : {"ACKNOWLEDGEMENT_REQUIRED", "ESCALATED", "RESOLVED"}]
    /\ faults \in 0 .. MaxFaults

(* Whatever the command line, `health' answers HEALTHY only when every     *)
(* store it needed could be read, belongs to the project, agrees with HEAD *)
(* and shows nothing unfinished: sources that are stale, corrupt, out of   *)
(* reach or incomplete are never promoted to success.  The registry of     *)
(* worktrees is not among them: one that cannot be read is taken for none. *)
HealthyRestsOnReadStores ==
    \A asked \in Questions :
        Health(asked).global = "HEALTHY" =>
            /\ project = "valid" /\ journal.state = "AVAILABLE" /\ journal.consistent /\ ledger.readable
            /\ InScope(asked) => /\ mission.commit = head /\ outcomes = "clear"
                                 /\ ledger.running = 0 /\ ~ledger.stuck /\ registry # "drift"

(* When the incident manager sees nothing at all, the repository is        *)
(* healthy or the mission state lags behind HEAD: nothing else that lowers *)
(* the health stays without an incident.                                   *)
QuietMeansSound ==
    \A asked \in Questions :
        Inspectable /\ Shown(asked) = {} =>
            \/ Health(asked).global = "HEALTHY"
            \/ InScope(asked) /\ mission.commit # head

(* An incident is closed only while nothing shows it any more and no       *)
(* critical source is in doubt; an evaluation, an acknowledgement, time or *)
(* a store that stops reporting never closes one.                          *)
ClosingIsClear ==
    \A r \in history :
        r.state # "RESOLVED" /\ (\A q \in history' : [q EXCEPT !.state = r.state] = r => q.state = "RESOLVED")
        => \E asked \in Questions :
              /\ r.scope = Scope(asked) /\ r.incident \notin Shown(asked)
              /\ \A m \in Shown(asked) : m.class # "UNKNOWN_CRITICAL_STATE"

ClosedOnlyWhenClear == [][ClosingIsClear]_vars
=============================================================================
