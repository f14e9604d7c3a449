# Verification of Agentic Engineering OS

TLA+ models of Agentic Engineering OS (`src/src/agentic_engineering_os`), the TLC runs that check
them on small instances and the theorems TLAPS proves about them for every instance.
`PROJECT.json` maps every definition to the lines it models, lists the hazards of the code with the
properties that cover them, and gives for each checked property a mutation of the model that the
property catches.

Agentic Engineering OS drives AI coding agents (Codex) through a mission: stories are planned,
implemented in Git worktrees, integrated, tested, reviewed and certified on recorded evidence.  Its
promise is *fail closed*: nothing counts as done, certified, started or permitted unless durable
state proves it.  The state lives in JSON files that are replaced atomically, in append-only
segments and in Git; there is no database and no server.  The difficult behaviour is therefore what
happens *between* two writes: another process or thread, a crash, a stale snapshot, a Git commit.

## Inventory

| component | state it keeps | operations | hard behaviour | what makes it correct |
|---|---|---|---|---|
| Control plane (`control_loop`, `evidence_recorder`, `gate_evaluator`, `human_approval_service`, `certification_service`, `certification_integrity`, `state_transition_service`) | stories with status and approval, evidence, gates, certifications | add stories, record evidence, evaluate gate, apply approval, certify (plain and idempotent), transition | facts about several commits in any order; dependency statuses submitted by the caller; retries of a certification | a CERTIFIED story is and stays proved at one commit; work rests on CERTIFIED dependencies |
| Execution recovery (`execution_recovery`, `execution_state_store`, `single_role_codex`, `parallel_codex_implementers`, `execution_budget_boundary`, `codex_runtime_adapter`) | ledger of execution records, Git state of each worktree | plan, execute, record observation, replay intake, inspect restart; run a group | a crash at every point; threads on one file; an orphaned Codex; records left RUNNING | Codex is started at most once for a request; the ledger only moves forward; the limit holds; every group ends |
| Maintenance governance (`maintenance_governance`, `maintenance_state_store`) | one record, its lock file | initialize, request transition, evaluate, enforce | decisions on earlier observations; competing operators; stale locks | the record is a chain along a closed graph; an admission is for one operation on one record |
| Planning (`dag_validator`, `readiness_engine`, `wave_planner`, `execution_conflict_analyzer`) | none | validate, classify, waves, group | counters, a search with an explicit stack, overlapping scopes | exactly what can run is planned; no two stories of a group write one file |
| Worktrees (`worktree_manager`, `worktree_registry_store`, `parallel_implementer_coordinator`) | registry of assignments; branches and worktrees in Git | plan, activate, complete, commit, fail, cleanup | Git and the registry change in separate steps | an ACTIVE assignment has its worktree; a story is implemented by one commit |
| Integration (`integration_gate`, `merge_coordinator`, `mission_integration`) | a staging worktree; the primary | evaluate gate, stage, promote, recognise, remediate | the gate is evaluated before the merge; everything may move in between | what is promoted is what the gate passed, whole and once |
| Parallel mission workflow (`parallel_mission_workflow`, `_negative_outcome_store`) | generation and status in the mission, ledger of negative outcomes with a pending transaction | prepare, submit, fail, evaluate, merge, recover, accept each role, remediate, block, resume, finalize | artefacts of an older generation; a transaction over two files | a generation opens once and leaves nothing in flight behind |
| Mission runner (`mission_runner`, `mission_planning`, `mission_integration`, `mission_certification`, `mission_lifecycle`, `orchestration_record`) | orchestration record | run, resume | six stores written one after another | a resume continues exactly once from what is durable |
| Sequential mission workflow (`sequential_mission_workflow`, `orchestrator`, `codex_e2e_runtime`) | mission file next to the project state | accept architect, implementer, tester, reviewer, certifier; submit; remediate | several saves for one accepted result; two callers | a story is certified on one chain of results; a divergence stops everything |
| Role results (`result_intake`, `implementer`, `tester`, `reviewer`, `certifier`) | none | take in, validate, build the next input | true and false answers that pass one validator and not the next | what one role gets accepted the next one can use |
| Events, metrics and incident records (`operational_event_store`, `incident_event_journal`, `execution_observability`, `metrics_engine`) | segmented journal with a lock file | append, read, project, decide | torn records, full retention, processes that die holding the lock | an event once; a confirmed decision is served or nothing is |
| Health, policy, budgets, incidents, diagnostics (`health_evaluation`, `governance_policy`, `resource_budget`, `incident_manager`, `diagnostics_cli`) | none; the history of incidents | evaluate, admit, open, acknowledge, resolve | sources that are missing, old, foreign, repeated | loss is never read as good news |
| Installation (`repository_initializer`, `existing_repository_adoption`, `runtime_state_bootstrap`, `repository_upgrade_service`, migrations) | the files of an adopted repository | initialise, adopt, bootstrap, upgrade | steps without rollback, files that change between plan and write | no byte of the user is lost; a repeated call gets through |
| Operation lock and write authority (`repository_operation_lock`, `_authoritative_write`) | lock file | acquire, release; compare, replace | a file left by the dead | one invocation at a time |
| Prompts, context and schemas; archetype, platform and configuration | none | | | not modelled, see the end |

Interactions: the CLI calls the mission runner under the operation lock; the runner composes the
planning, integration and certification services, which call the parallel (or sequential) workflow,
which calls the control loop for every change of a story and saves the mission after it.  Codex is
only ever started through the execution recovery service.  Maintenance is asked before a mission
starts.  At every frontier of a run the sink copies facts into the event journal, and the
diagnostics read all the stores.  Every shared fact travels through the files.

## Modules

```
ControlPlane          the control loop and the project state        <- MCControlPlane, ControlPlane_proofs
CodexExecution        ledgers, restart, executor, pool, budget      <- MCCodexExecution, Executions_proofs
MaintenanceRegister   abstract: an atomic chain of records
Maintenance           the service over its locked file, refines it  <- MCMaintenance, Operations_proofs
MissionGeneration     abstract: atomic generations of a mission
ParallelMission       the parallel workflow, refines it             <- MCParallelMission, ParallelMission_proofs
Scopes                paths, regions, overlaps
Planning              search, waves and groups, over Scopes         <- MCPlanning, Planning_proofs
Worktrees             registry and Git
Integration           gate, staging, promotion, over Worktrees      <- MCIntegration, Integration_proofs
MissionRun            the product runner over its six stores        <- MCMissionRun, Planning_proofs
SequentialMission     the sequential workflow and its callers       <- MCSequentialMission, SequentialMission_proofs
RoleResults           intake, validators, hand-overs                <- MCRoleResults, SequentialMission_proofs
EventJournal          the segmented journal
Observability         sink, incident journal, metrics, over it      <- MCObservability, Executions_proofs
Governance            the evaluators as operators
Diagnosis             the diagnostics over the stores, uses them    <- MCDiagnosis, Operations_proofs
Installation          adoption and upgrade                          <- MCInstallation, Installation_proofs
```

**ControlPlane.**  One action per operation of `ControlLoop`.  Each loads, builds a candidate, and
saves; the save validates the whole candidate (`_validate_integrity`, `certification_integrity`), so
an action ends with the integrity condition on the next state and a refused candidate is no step.
Contracts, observations and requests are constants, so that the theorems hold for any of them.
`observed` holds, per calling workflow, the dependency statuses it last read: the control loop
trusts the statuses submitted with a READY transition.  `requestOf` and `promotedAt` are history.

**CodexExecution.**  The pool threads of `ParallelCodexImplementerExecutor` run
`SingleRoleCodexExecutor.execute` step by step; a ledger write is *propose* (load and compute),
*check* (compare with what was loaded and with the transitions the ledger allows) and *replace*,
each interleaved with the other threads.
`Crash` kills the process anywhere and keeps the ledgers; `GitChanges` lets Codex, an orphan of an
earlier process or an operator change a worktree at any time.  Which ledger a member's executor was
composed with and which one the budget counts are constants.  `WriterAssumption` states how the
code keeps two threads off one ledger: each member has its own (docs/44), or there is one worker,
which is what the product does as long as `codex_capability_discovery.py:134` reports parallelism
UNKNOWN.  Two workers on one ledger would lose records: nothing in the store prevents it.

**Maintenance.**  Each process observes, decides on what it observed, and writes under the lock
file; it may crash at any step, the write and the unlink may fail, an operator removes stale locks.
`MaintenanceRegister` is what docs/69 promises: one record whose versions form a chain.  The
refinement mapping is the identity on `file`: everything else is internal.

**ParallelMission.**  One workflow call runs at a time (`mission_cli.py` holds the operation lock around
it), as the steps between its durable writes: `PrepareGroup`, then one `Assign` and one `Start` per
member; the merge, then `ObserveNewPrimary`; `RejectRole`, `RequireRemediation`, `RecordNegativeDossier`;
the intent of a transaction (`Claim`, inside the action that decides on it), `ApplyProject`,
`ApplyMission`, `Finalize`.  `Abort` ends a call before any of its steps. `OutsideChanges` is somebody
who writes the project state or commits on the primary while no call runs.  The callers' artefacts
(`prepared`, `attempts`, `dossiers`) stay presentable for ever; that is how an artefact of an older
generation comes back.  Verdicts of gate, merge and roles are choices; the gate also answers about a
group that is not complete, but PASS only when it is.  `Promoted` and the generation tests (`Current`,
`Fresh`) are the code's, including the places where it makes none.  `MissionGeneration` is what docs/34
promises: a generation opens in one step and sends back all work in flight.  The refinement mapping is
`Decided`: while a transaction is pending its after-state counts, since from the intent on it can only be
completed or refused.

**Planning** and **Scopes.**  The depth-first search with its colours and stack, the wave loop with
its counters and the first-fit grouping of the first wave run step by step from any graph, status
and approval.  Where the code takes stories in the order of their names, the model takes them in any
order.  A path is a sequence of segments, a region a file or a directory: the closing slash that
keeps `src` out of `src/` is part of the definition of `Within`.

**Worktrees** and **Integration.**  `registry` and Git (`branch`, `tree`, `primary`) are written one
after the other; a call dies, a Git command or the registry write fails in between, and anybody may
commit or change files.  A commit is told apart as the authorised implementation, somebody else's of
the same paths, or a stray one.  A run of Integration prepares or reconstructs the group, submits,
gates, stages one merge per member and fast-forwards; it re-evaluates the gate where the code does.
It keeps nothing but registry, record, outcome and Git, and a resume starts from those.

**MissionRun.**  An invocation of `run` or `resume` over the six stores, one durable write per step; a
crash forgets everything else but the file of the operation lock, which refuses every call until an
operator removes it (`RemoveLock`).  The stories of the mission are independent (Planning has the general
case), the gate, merge and Codex answers are choices (Integration and CodexExecution have
them).  Verification Evidence belongs to one mission, generation, story and commit; the Gate belongs to
the story alone and remembers what Evidence it was evaluated from.  `Stranding` names the crash points
from which the code has no way on; `ResumeReachesReview` says that there are no others.

**SequentialMission.**  A handler reads both states, validates, and then writes the project several
times and the mission once; the workflow itself keeps no second caller out, so these writes
interleave.  The mission write compares with the exact predecessor it read (`_authoritative_write`).
Two callers cannot mix the results of two generations in one certification; three calls that overlap
can.  What rules that out is the operation lock of the CLI (`mission_cli.py:99,109`;
`docs/77-mission-runner-cli.md:20`), and a call through the Python interface does not take it.
`disturbed` remembers the overlaps, and `Serial` says that there was none.  `DivergenceStops` does not
speak of a BLOCKED Architect, whose result is accepted in any state of the story.

**RoleResults.**  One story from its Implementer, who works in a worktree, to Tester, Reviewer and
Certifier on the primary.  Reports are sets and functions, `Canonical` is the spelling that
`_normalize_path` gives, `dirty` what an answer changed on the primary although it was refused.  A
gate that is absent is authorised or not as the request says, which the Certifier's input leaves open.

**EventJournal** and **Observability.**  A reader looks at the lock file and then at the segments;
a writer holds the lock from the duplicate check to the release.  A write may leave nothing, a part
or all of the record; a process may die anywhere; nobody removes the lock of the dead.  On top of it
run the sink of the mission runner, the incident decisions (a chain of revisions) and the metrics.

**Governance** and **Diagnosis.**  The evaluators are operators on sets of observations, policies and
limits.  Diagnosis feeds them from stores that work, age, move and get damaged, with an operator who
records, acknowledges and resolves incidents; a resolution names the source of its observation.

**Installation.**  Two invocations observe, plan, look again and write one file after the other
(initialisation, then bootstrap; or an upgrade with its backups and migrations), while the user
edits and commits.  A file is the text the product does not own and the version of the part it does.
Each write is read back before the next operation.  The profile is read by the initializer, by the
adoption and by the bootstrap, and the initializer's changes are accepted as its own only while the
first two agree; a configuration that tolerates a dirty Git (`Tolerant`) needs no such agreement.

## Runs

| run | question | instance |
|---|---|---|
| `dossier` | Does work start on certified ground, does a promotion stay proved, does a repeated certification give the same record? | a chain of two stories, a mandatory and an optional criterion, a gate, a required approval, two commits, three evidence ids, two certifications |
| `execution` | Launch at most once, budget, no fabricated success, forward-only ledger, every group ends | the product wiring: one ledger, one worker, limit 1, two versions of a request, three executions, crashes |
| `maintenance` | Does the store implement the register; does enforcement follow the record in force? | two processes, two operators, three revisions, two HEADs |
| `parallel_mission` | Do the two stores behave as one record of generations; is all tested work integrated; can a rejection be remediated; does a pending transaction end? | two stories, groups {a, b} and {b}, two generations, one fault, one outside commit and one outside write |
| `integration` | Is what reaches the primary exactly the gated group, once, and does a resumed run get there? | two stories, two faults, two changes by others |
| `planning` | Is everybody planned who could run; does a group share a file? | every graph over four stories and an unknown name, three statuses, scopes over four segments |
| `mission` | Is the intent never behind the mission; is a promotion recognisable; does resuming reach the Reviewer? | two stories, two requests, two crashes, one remediation, one outside commit |
| `sequential` | One chain of results; a divergence stops; an accepted result moves on | two callers, one remediation, one move of HEAD |
| `roles` | Does an accepted result make an input of the next role; is what is READY proven? | six spellings of five paths, a mandatory and an optional criterion, a gate, true and false reports |
| `observation` | One event once; a confirmed decision served; executions counted once; facts arrive | two processes that are runner and operator, segments of two records, two segments, one fault, two revisions |
| `governance` | Is HEALTHY honest, silence sound, closing justified? | two HEADs, one fault, one event, one followed incident, two generations |
| `installation` | One project; no byte lost; adoption and upgrade settle | two invocations with different projects, one of which tolerates a dirty Git, one interruption, one edit |

All of them hold; `PROJECT.json` names for each property a change of the code's model under which it
fails in the same run.

**Bounds.**  Two processes, threads or callers give every pairwise interleaving; the third crash,
execution or revision repeats a situation the second already produced.  `dossier` needs two commits
so that facts about the wrong one exist, two certifications so that verdicts can disagree and a
chain of two stories so that a status can be stale.  `execution` takes the limit equal to the number
of runs that one crash can leave RUNNING, so that the next execution meets a full budget; `MaxGit` =
1 tells the clean baseline from a changed worktree.  Three revisions reach every kind of maintenance
transition and the way back to NORMAL.  In `parallel_mission` two stories tell the story of a failure
from its bystander, two groups tell one gate from another, and the second generation makes every
artefact of the first a stale one.  In `integration` the second fault hits the recovery from the
first, the second outside change what the first made the run look at.  Four stories are the fewest
with a diamond and with two disjoint paths through it.  `mission` has two crashes for the same reason
as `integration`, and a remediation so that a record is one generation behind.  In `observation` a
segment of two and two segments reach the change of segment, the full store and a torn record in
either; `JournalFaults` = 1 means one process that dies holding the lock, or one failed write.  In
`governance` one damaged store is enough, since each dimension is the worst of its sources.  Symmetry
is used only in runs without liveness.

**Fairness.**  No run assumes fairness of crashes, failures or of what other people do.
`execution`: each member's next step and the end of the group; threads are scheduled by the operating
system, and the one outside wait, the Codex process, has a timeout in `codex_runtime_adapter`.
`parallel_mission`: a running call goes on (`WF(Step)`), and the operator repeats `resume_recovery`
(`WF(ResumePending)`), which nothing in the product calls by itself.  `integration` and `mission`: a
running invocation goes on and somebody resumes; in `mission` he also removes a lock file that
belongs to nobody, as the lock claims no recovery of its own.  `sequential`: a call makes its writes,
somebody routes, and somebody presents a result; no particular caller does.  `observation`: sessions
run, calls under way go on, and the sink projects whenever it is allowed to again and again
(`SF(Project)`, because a lock taken in between disables it).  `installation`: the operator repeats
the command, commits while nothing runs, discards an unfinished change and commits what a migration
left. Deadlock is not checked: all these systems may rest.

## Theorems

The proofs hold for every value of the constants that the named assumptions of the modules allow.
Each module below proves its theorems from an inductive invariant; what it adds to the checked
property, and why that is needed, is the argument.

* **ControlPlane_proofs.**  `IntegrityHolds`: the integrity validated by the store is inductive.
  `StartedRests` adds `SnapshotsSafe`: a snapshot may be old, but what it saw CERTIFIED still is,
  because CERTIFIED is terminal.  That is why submitting stale statuses is harmless.  `AppendOnly`,
  then `PromotedStaysProven` (a sound dossier proves its story at its commit, and no later step takes
  a proof away) and `NegativeVerdictBars`.
  `ReplaysPositive`: what a READY certification rests on stays recorded, so that computing it again
  gives the persisted record, unless the request cited Evidence of an optional criterion that did
  not resolve yet.
* **Executions_proofs**, for CodexExecution (assumptions: `CompositionAssumption`,
  `WriterAssumption`).
  `ExecutionInv` says what a call knows at each label (`Stage`), what the ledger says of the launches
  (`Launched`), that no two busy calls share a ledger (`OneWriter`) and that a call that has not
  marked its record yet found room (`Room`).  `OneWriter` makes the snapshot compared by *check* still
  the ledger at *replace*; with it, `Launched` is inductive because RUNNING is durable before the
  launch.  Hence `LaunchesOnce`, `NothingFabricated`, `ForwardOnly` and, by counting the RUNNING
  records, `WithinBudget`.  The run checks the product's wiring; the theorems also cover a group of
  any size with a ledger per member.
* **Executions_proofs**, for Observability.  `JournalInv`: the lock has one holder, and what its holder
  read before the duplicate check is still all of the journal when the record is written (`GroundInv`);
  hence `WrittenOnce`.  For `ConfirmedIsServed` the revisions that a reader accepts form a chain, since
  a smallest place at which it broke would be a record that `ChainHolds` had refused.  `CountedOnce`:
  the metrics count executions, each of which ended once (`ended` is injective), and not events.
* **Operations_proofs**, for Maintenance.  `LockHolds`: the lock belongs to exactly the process
  between acquisition and release, and at the replacement the file is still what the candidate
  extends; both are needed, or another writer could replace the file between comparison and
  replacement.  `Refinement`: every step of the store is a step of `MaintenanceRegister` or a stutter.
  `WorkIsPermitted`: an admission holds the record it was decided on, that record permits the
  operation (`AdmissionsPermit`), and work starts only when the record in force is that very record.
* **ParallelMission_proofs.**  `Inv` adds what a running call holds at each of its steps (`CallOK`)
  and that both stores are before or after the pending transaction, the project first (`PendingOK`).
  A `Start` may put a story in flight only because the `Assign`s before it left assignments of the
  generation (`NoOrphanInFlight`); a replayed transaction may restore a tested status only because
  that story was integrated when the intent was written (`NothingTestedUnintegrated`).
  `ProjectIsFirst` and `NoLostFact` follow from `PendingOK`; `RefinesGeneration` is the refinement.
  `RejectionHasAuthority` adds `RejectionInv`: an outcome of the ledger that was spent is of an older
  generation, a call that is about to record one does so for the generation it is in, and a rejected
  story has one of the two, unless the call that rejected it died in between (`interrupted`).
* **Planning_proofs**, for Planning.  `SafeIsSound` (two SAFE scopes allow no common file),
  `GroupsAreDisjoint`, `WavesAreOrdered`, `PlanningIsComplete` (the counters equal the number of
  unplanned dependencies, and a wave takes whoever reaches zero) and `SearchIsExact` (grey stories are
  a path; a black story reaches only black ones, so a cycle would have been met).
* **Planning_proofs**, for MissionRun.  `RunInv` is in two halves.  `StoresInv` holds wherever an
  invocation dies: names and generations of mission and record agree up to one remediation, every
  reference of the record has a result in a ledger, a durable Gate has its finished members, and a
  commit of the record's generation on the primary has a durable Gate.  `OpeningInv`, `PlaceInv` and
  `MemberInv` say what a running invocation may rely on at its label, so that each write keeps the first
  half.  `ResumeFindsRecord` and `MergedIsRecognised` follow, for any number of stories, crashes,
  remediations and commits of others.
* **SequentialMission_proofs**, for SequentialMission.  `TypesHold`.  `OneChainCertifies` holds for any
  number of callers whose calls do not overlap (`Serial`): the agenda of a call, the writes it still
  has to make, fits the story and the generation (`Fitting`), and an accepted result is of the
  generation and of the result it was handed.  `DivergenceIsFinal` needs no such condition: every
  handler that would move the story first compares its status with the step of the mission, so that
  a save of the mission, in the generation it is in, is all that is left to do.
* **SequentialMission_proofs**, for RoleResults (assumptions: `CriteriaAssumption`,
  `ReportAssumption`).  `ResultsHandOver` and `ControlPlaneGetsProof`: wherever the story stands, the
  result of everybody before was accepted by its validator (`RolesInv`), and what a validator accepts
  satisfies the constructor of the next input, criterion by criterion.
* **Integration_proofs.**  `OnlyTheGatedGroup`, `CommittedOnce`, `GitBacksTheRegistry`,
  `ReplacedIsNotPromoted`, `Typed`.  The strengthening is `Gated` (the gate a run carries is the
  recorded one, what it promotes is the gated chain), `Rooted` (a worktree is on its branch),
  `Uncommitted` and `Placed` (where the member stands that is being submitted, made or removed).
* **Operations_proofs**, for Governance and Diagnosis.  `LossIsNeverHealthy`,
  `HealthBindsEveryPolicy`, `PoliciesOnlyTighten`, `AdmittedIsWithinEveryLimit`,
  `PreferenceNeverAdmits` for every set of observations, policies and limits; `HealthIsHonest`,
  `ClosingIsJustified`, `SilenceIsSound` and `TypeCorrect` for Diagnosis.
* **Installation_proofs.**  `Reliable` (an applied step rests on the plan it was planned with), then
  `ProjectsNeverMix` and `BytesAreKept`: a step of one invocation keeps what another knows of its path,
  because a write keeps the text of a file that is there.  `TypesAreKept`.

Only model-checked are the liveness properties, since fairness and ENABLED are outside the prover's
reach: `GroupTerminates`, `PendingIsResolved`, `GatedIsSettled`, `Settles`, `ResumeReachesReview`,
`FactsAreProjected`, `AdoptionSettles` and `UpgradeSettles`.  `CertifiedOnOneChain` is proved for calls
that do not overlap and checked for two that do.

## Where code and documentation differ

The models contain the following behaviour of the code; no property excludes it.

*Certification and approvals*

1. A refused required approval gives BLOCKED, not REJECTED as in `docs/10-certification-model.md:52`:
   the refusing Human is compared with `approved_by`, which only an approval sets
   (`certification_service.py:452`).
2. Acceptance checks are matched by criterion id without the story (`certification_service.py:423`;
   `docs/06-user-story-contract.md:130`, `docs/10-certification-model.md:27`).
3. In the sequential mission a REJECTED, BLOCKED or repeated certification of a commit bars promotion
   at that commit for ever, against `docs/10-certification-model.md:63-64`.

*Executions and worktrees*

4. The composed executors write the ledger of the root (`mission_composition.py:814`); the coordinator
   and the integration read the worktree's (`parallel_implementer_coordinator.py:443`,
   `mission_integration.py:442`, `docs/44:36`).  The models of integration and of the runner assume
   worktree ledgers where the code reads them.
5. A commit made by somebody else between recognition and completion, of exactly the declared paths,
   becomes the registered result (`mission_integration.py:297-311`;
   `docs/29-worktree-manager.md:90-92`).
6. docs/29 lists PLANNED to FAILED; `worktree_registry_store.py:335` allows FAILED only from ACTIVE.

*Missions*

7. `merge_gated_group` and `accept_integrated_implementer` do not ask whether their attempt is of the
   mission's generation: a group gated in N is promoted in N+1 (`parallel_mission_workflow.py:979`,
   `docs/34:33,66`), and the story then waits in TESTING with a dossier that every role refuses.
8. `reconstruct_group` accepts only IN_PROGRESS, IMPLEMENTED and TESTING stories
   (`parallel_mission_workflow.py:378`), so that once the Tester is accepted every resume stops with
   STORY_NOT_EXECUTABLE.  `docs/77-mission-runner-cli.md:6-9` says that it takes up the next durable
   frontier and stops only on a decision that is not positive.  For the same reason Reviewer,
   Certifier and completion are out of the product runner's reach.
9. A maintenance record is bound for ever to the HEAD of its initialisation
   (`maintenance_governance.py:199`, `docs/69:26`).

*Operations*

10. The diagnostics take an unreadable worktree registry for "no parallel execution"
    (`diagnostics_cli.py`, `_health_observations`) and may answer HEALTHY, against
    `docs/68-operator-diagnostics-cli.md:33-34`.  `HealthyRestsOnReadStores` leaves the registry out.
11. A failed first write of a new segment leaves an empty file that makes the journal unreadable for
    ever, although docs/62 calls WRITE_FAILED an error before any modification.
12. An unresolved incident disappears from `latest` when HEAD moves, since its scope names HEAD, and
    comes back with it; docs/67 says it stays unchanged.
13. A repository whose structure is complete and whose `state.json` is absent is PARTIAL_OR_INCONSISTENT
    for adoption even on a clean baseline (`existing_repository_adoption.py:175-200`), against
    `docs/54-existing-repository-adoption.md:84-87`.  This is `Stranded` in Installation.

Ends without a way on, about which no document says whether they should be:

* Parallel workflow: a call that dies between REMEDIATION_REQUIRED and the record of its outcome
  leaves a rejected story that nothing may remediate (`interrupted`, the exception of
  `RejectionIsAuthorised`); a group prepared before another one of its generation merges keeps a stale
  baseline; a BLOCKED merge that repeats a consumed one at the same commits cannot block again.
* Mission runner: after a remediation the Architect reference keeps the old generation; an approval of
  the root story arrives but nothing makes the mission ACTIVE again; a crash between the fast-forward
  and its observation; a crash between adding the stories and activating the mission; a Tester
  remediation during `run`; a verification command that could not start persists an UNKNOWN gate, with
  which every retry collides; so does the verification of a story in a generation after the one in
  which it was first verified, because a Gate is named by its story alone and its Evidence is not
  (GATE_COLLISION, `verification_coordinator.py:339-361`).
* Sequential mission: a crash between the approval and the resumption; a HEAD that moved.
* Observability: workflow generations repeat facts under new identifiers and a worktree is reported
  created again once it has a result, after which the metrics stay INCOMPLETE; two operators who decide
  on one revision, or open the same incident at different times, leave an unreadable journal; the lock
  of a dead writer is never removed (documented).
* Ledger: `_write` has no limit, but `load` refuses a file above 16 MB, and the executor with it; the
  size of the ledger is not modelled.
* Worktrees: a crash between the removal by Git and CLEANED leaves COMPLETED without a worktree; a
  half-done staging is BLOCKED for good (documented in docs/32).

Two windows are documented: a freeze written between enforcement and the start of a mission does not
stop it (`mission_lifecycle.commit` does not ask again), and a file may be edited between the last
look and `os.replace` (docs/51); `NothingIsLost` excepts exactly that window (`raced`).

## Not modelled

* **Operation lock and write authority.**  MissionRun has the lock file; ParallelMission and Integration
  assume what it gives (one invocation at a time).  A save is one step, as the stores replace a file at
  once; the comparison before it is part of the actions of SequentialMission, CodexExecution and
  Maintenance, and the checks of paths are left out.
* **Prompts, context, output schemas, capability discovery; archetype, platform and project
  configuration; repository reconnaissance beyond what Installation observes.**  Functions over text
  and the host, without state of their own.
* **Parts of modelled components.**  The stories of one mission do not depend on each other in
  ParallelMission and MissionRun.  File contents in worktrees are told apart only by path: an edit of a
  declared file after validation is not modelled.  Cleanup of worktrees has no caller in the product
  but is modelled.  In the intake the text format and the Architect report are left out.  In the
  journal every record takes one unit of its segment and transient, worktree and mission status events
  are left out; its processes overlap, since the operation lock is per user and temporary directory.
  In the diagnostics OPEN stands for ACTIVE and BLOCKED and the runtime probe always answers; storage
  budgets and serialisation are left out.  In Installation the confirmations, tampered or unsafe files
  and left-over temporary files are left out, and an I/O failure and a crash leave the same files; so
  are ignore rules of the user's own that contradict the section of the product, for which the
  bootstrap refuses (`_git_policy_error`).  In ParallelMission nobody writes while a call runs.
* **Wording, logging, time stamps and layout**, except where freshness decides (Governance).
