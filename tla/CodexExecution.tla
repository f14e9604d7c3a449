--------------------------- MODULE CodexExecution ---------------------------
(***************************************************************************)
(* A group of Codex executions and the ledgers that make them restartable: *)
(* ParallelCodexImplementerExecutor runs one SingleRoleCodexExecutor per   *)
(* member in a thread pool, each through the RestartSafeCodexExecution-    *)
(* Service (application/execution_recovery.py) and an ExecutionStateStore. *)
(*                                                                         *)
(* Every member submits one request; its identifier is derived from the    *)
(* mission, the generation and the assignment, so a restart submits it     *)
(* again, with the same or with another context.  A ledger write loads the *)
(* file, compares it with the snapshot the mutation was computed from and  *)
(* replaces it: three separate steps.                                      *)
(***************************************************************************)
EXTENDS Integers, FiniteSets

CONSTANTS
    Member,          \* the members of the group, each with its request
    Version,         \* versions of a request's context (prompt, commit, scope)
    Ledger,          \* execution ledgers (executions.json of a root)
    BudgetLedger,    \* the ledger the budget boundary counts RUNNING in
    LedgerOf,        \* Member -> the ledger its executor was composed with
    Workers,         \* the size of the thread pool
    Limit,           \* maximum_parallel_executions
    MaxGit,          \* bound: Git states of a worktree, 0 the clean baseline
    MaxRounds,       \* bound: how often the group is executed
    None

ASSUME CompositionAssumption ==
    /\ LedgerOf \in [Member -> Ledger] /\ BudgetLedger \in Ledger
    /\ Workers \in Nat \ {0} /\ Limit \in Nat \ {0} /\ MaxGit \in Nat
    /\ IsFiniteSet(Member)
    /\ None \notin 0..MaxGit /\ Version # {}

(* No two threads write one ledger: every member has its own (docs/44), or *)
(* one worker runs them all (mission_composition.py, as long as parallel   *)
(* processes are not known to be supported).                               *)
ASSUME WriterAssumption ==
    Workers = 1 \/ \A m, n \in Member : LedgerOf[m] = LedgerOf[n] => m = n

VARIABLES
    ledgers,   \* Ledger -> the persisted records, by the member whose request they answer
    pc,        \* Member -> where its call of SingleRoleCodexExecutor.execute stands
    call,      \* Member -> the local variables of that call
    git,       \* Member -> the Git state of its worktree
    outcome,   \* Member -> what its last call returned
    group,     \* the group execution: idle, running, or its status
    rounds,    \* how often the group was started
    launches   \* history: Member -> how often Codex was started for its request

vars == << ledgers, pc, call, git, outcome, group, rounds, launches >>

Git == 0..MaxGit

Own(m)     == ledgers[LedgerOf[m]]
HasOwn(m)  == m \in DOMAIN Own(m) /\ Own(m)[m].version = call[m].version
RunningIn(l) == {m \in DOMAIN ledgers[l] : ledgers[l][m].status = "RUNNING"}

(* Mutant: what is requested is not counted.                               *)
WithinLimit_Current(requested) == Cardinality(RunningIn(BudgetLedger)) <= Limit

(* ExecutionBudgetBoundary.authorize: reaching the limit is allowed.       *)
WithinLimit(requested) == Cardinality(RunningIn(BudgetLedger)) + requested <= Limit

Active == {m \in Member : pc[m] \notin {"idle", "queued", "done"}}

Return(m, result) ==
    /\ pc' = [pc EXCEPT ![m] = "done"]
    /\ outcome' = [outcome EXCEPT ![m] = result]

(* A valid result may still say that the work is not ready for test.       *)
Answer(m, status) == \/ Return(m, "blocked")
                     \/ status = "VALIDATED" /\ Return(m, "validated")

Goto(m, label) == pc' = [pc EXCEPT ![m] = label] /\ UNCHANGED outcome

(* A mutation computed from what was just loaded, still to be persisted.   *)
Propose(m, operation, record) ==
    /\ call' = [call EXCEPT ![m].before = Own(m), ![m].record = record, ![m].operation = operation]
    /\ Goto(m, "check")

(* The local variables of a call, before it and after the process.         *)
NoCall == [version |-> CHOOSE v \in Version : TRUE, before |-> << >>,
           record |-> None, operation |-> None]

Init ==
    /\ ledgers = [l \in Ledger |-> << >>]
    /\ pc = [m \in Member |-> "idle"]
    /\ call = [m \in Member |-> NoCall]
    /\ git = [m \in Member |-> 0]
    /\ outcome = [m \in Member |-> "none"]
    /\ group = "idle" /\ rounds = 0
    /\ launches = [m \in Member |-> 0]
-----------------------------------------------------------------------------
(* execute_group: refused unless the budget has room for the whole pool.   *)
StartGroup ==
    /\ group # "running" /\ rounds < MaxRounds
    /\ WithinLimit(Workers)
    /\ group' = "running" /\ rounds' = rounds + 1
    /\ pc' = [m \in Member |-> "queued"]
    /\ outcome' = [m \in Member |-> "none"]
    /\ UNCHANGED << ledgers, call, git, launches >>

(* Mutant: a member waits until the budget has room for it.                *)
Begin_Waits(m, v) ==
    /\ pc[m] = "queued" /\ Cardinality(Active) < Workers /\ WithinLimit(1)
    /\ call' = [call EXCEPT ![m].version = v]
    /\ Goto(m, "plan")
    /\ UNCHANGED << ledgers, git, group, rounds, launches >>

(* A pool thread takes the member; its own budget request may be refused.  *)
Begin(m, v) ==
    /\ pc[m] = "queued" /\ Cardinality(Active) < Workers
    /\ call' = [call EXCEPT ![m].version = v]
    /\ IF WithinLimit(1) THEN Goto(m, "plan") ELSE Return(m, "blocked")
    /\ UNCHANGED << ledgers, git, group, rounds, launches >>

(* plan: an exact record is reused, another record of the request refused. *)
Plan(m) ==
    /\ pc[m] = "plan"
    /\ \/ HasOwn(m) /\ Goto(m, "inspect") /\ UNCHANGED call
       \/ m \in DOMAIN Own(m) /\ ~HasOwn(m) /\ Return(m, "blocked") /\ UNCHANGED call
       \/ /\ m \notin DOMAIN Own(m)
          /\ Propose(m, "PLAN", [version |-> call[m].version, status |-> "PLANNED", after |-> None])
    /\ UNCHANGED << ledgers, git, group, rounds, launches >>

Successor(s) ==
    CASE s = "PLANNED"  -> {"RUNNING"}
      [] s = "RUNNING"  -> {"OBSERVED", "FAILED", "INTERRUPTED"}
      [] s = "OBSERVED" -> {"VALIDATED", "FAILED"}
      [] OTHER          -> {}

Updating == [MARK_RUNNING |-> "PLANNED", RECORD_OBSERVATION |-> "RUNNING",
             RECORD_INTAKE |-> "OBSERVED"]

(* _validate_transition: PLAN adds one PLANNED record, every other         *)
(* operation moves one record of the same identity along the lifecycle.    *)
Legal(before, m, record, operation) ==
    IF operation = "PLAN"
    THEN m \notin DOMAIN before /\ record.status = "PLANNED"
    ELSE /\ m \in DOMAIN before /\ before[m].status = Updating[operation]
         /\ record.version = before[m].version
         /\ record.status \in Successor(before[m].status)

(* _replace_authorized: the ledger must still be what the mutation saw,    *)
(* and the mutation a legal one.                                           *)
Check(m) ==
    /\ pc[m] = "check"
    /\ LET c == call[m] IN
       IF Own(m) = c.before /\ Legal(c.before, m, c.record, c.operation)
       THEN Goto(m, "replace") ELSE Return(m, "blocked")
    /\ UNCHANGED << ledgers, call, git, group, rounds, launches >>

(* Mutant: the file keeps nothing but the record that was changed.         *)
Replace_Alone(m) ==
    /\ pc[m] = "replace"
    /\ LET c == call[m] IN
       /\ ledgers' = [ledgers EXCEPT ![LedgerOf[m]] = [x \in {m} |-> c.record]]
       /\ \/ c.operation = "PLAN" /\ Goto(m, "inspect")
          \/ c.operation = "MARK_RUNNING" /\ Goto(m, "launch")
          \/ c.operation = "RECORD_OBSERVATION" /\ Goto(m, "reinspect")
          \/ /\ c.operation = "RECORD_INTAKE"
             /\ Answer(m, c.record.status)
    /\ UNCHANGED << call, git, group, rounds, launches >>

(* _write: the temporary file replaces the ledger.                         *)
Replace(m) ==
    /\ pc[m] = "replace"
    /\ LET c == call[m] IN
       /\ ledgers' = [ledgers EXCEPT ![LedgerOf[m]] =
                         [x \in DOMAIN c.before \cup {m} |->
                             IF x = m THEN c.record ELSE c.before[x]]]
       /\ \/ c.operation = "PLAN" /\ Goto(m, "inspect")
          \/ c.operation = "MARK_RUNNING" /\ Goto(m, "launch")
          \/ c.operation = "RECORD_OBSERVATION" /\ Goto(m, "reinspect")
          \/ /\ c.operation = "RECORD_INTAKE"
             /\ Answer(m, c.record.status)
    /\ UNCHANGED << call, git, group, rounds, launches >>

(* WRITE_FAILED: the last durable ledger stays; the call raises.           *)
WriteFails(m) ==
    /\ pc[m] = "replace"
    /\ Return(m, "blocked")
    /\ UNCHANGED << ledgers, call, git, group, rounds, launches >>

(* inspect_restart: what may be done with the record in this Git state.    *)
Disposition(m) ==
    LET r == Own(m)[m] IN
    IF r.status = "PLANNED" /\ git[m] = 0 THEN "SAFE_NOT_STARTED"
    ELSE IF r.status = "OBSERVED" /\ git[m] = r.after THEN "INTAKE_REPLAY_AVAILABLE"
    ELSE IF r.status = "VALIDATED" /\ git[m] = r.after THEN "VALIDATED_NO_RERUN"
    ELSE "BLOCKED"

(* The first inspection may start Codex, the one after the run may not.    *)
Inspect(m) ==
    /\ pc[m] \in {"inspect", "reinspect"}
    /\ LET d == IF HasOwn(m) THEN Disposition(m) ELSE "BLOCKED" IN
       \/ d = "SAFE_NOT_STARTED" /\ pc[m] = "inspect" /\ Goto(m, "execute")
       \/ d = "SAFE_NOT_STARTED" /\ pc[m] = "reinspect" /\ Return(m, "blocked")
       \/ d = "INTAKE_REPLAY_AVAILABLE" /\ Goto(m, "intake")
       \/ d = "VALIDATED_NO_RERUN" /\ Answer(m, "VALIDATED")
       \/ d = "BLOCKED" /\ Return(m, "blocked")
    /\ UNCHANGED << ledgers, call, git, group, rounds, launches >>

Raise(m) == Return(m, "blocked") /\ UNCHANGED call
-----------------------------------------------------------------------------
(* Mutant: the run is started before RUNNING is durable.                   *)
Execute_LaunchFirst(m) ==
    /\ pc[m] = "execute"
    /\ IF HasOwn(m) /\ Own(m)[m].status = "PLANNED"
       THEN Goto(m, "launch") /\ UNCHANGED call
       ELSE Raise(m)
    /\ UNCHANGED << ledgers, git, group, rounds, launches >>

(* execute: only a PLANNED record; RUNNING is persisted before the effect. *)
Execute(m) ==
    /\ pc[m] = "execute"
    /\ IF HasOwn(m) /\ Own(m)[m].status = "PLANNED"
       THEN Propose(m, "MARK_RUNNING", [Own(m)[m] EXCEPT !.status = "RUNNING"])
       ELSE Raise(m)
    /\ UNCHANGED << ledgers, git, group, rounds, launches >>

(* The runtime returned status s having last seen Git state g.             *)
Observed(m, s, g) ==
    /\ call' = [call EXCEPT ![m].record = [version |-> call[m].version, status |-> s, after |-> g]]
    /\ Goto(m, "observe")

(* Mutant: a process that could not be spawned ended cleanly.              *)
Launch_SpawnFailureObserved(m) ==
    /\ pc[m] = "launch"
    /\ \/ /\ git[m] = 0
          /\ launches' = [launches EXCEPT ![m] = @ + 1]
          /\ Goto(m, "await") /\ UNCHANGED call
       \/ Observed(m, "OBSERVED", git[m]) /\ UNCHANGED launches
    /\ UNCHANGED << ledgers, git, group, rounds >>

(* CodexRuntimeAdapter.execute: the adapter looks at Git again and starts  *)
(* Codex on the clean baseline only; other prerequisites may fail too.     *)
Launch(m) ==
    /\ pc[m] = "launch"
    /\ \/ /\ git[m] = 0
          /\ launches' = [launches EXCEPT ![m] = @ + 1]
          /\ Goto(m, "await") /\ UNCHANGED call
       \/ \E s \in {"FAILED", "INTERRUPTED"} : Observed(m, s, None) /\ UNCHANGED launches
    /\ UNCHANGED << ledgers, git, group, rounds >>

(* Codex ends, fails, times out or is cancelled; None: Git did not answer. *)
CodexEnds(m) ==
    /\ pc[m] = "await"
    /\ \E s \in {"OBSERVED", "FAILED", "INTERRUPTED"}, g \in {git[m], None} : Observed(m, s, g)
    /\ UNCHANGED << ledgers, git, group, rounds, launches >>

(* RUNTIME_OUTCOME_UNCERTAIN: the runtime raised, RUNNING stays.           *)
RuntimeRaises(m) ==
    /\ pc[m] \in {"launch", "await"}
    /\ Return(m, "blocked")
    /\ UNCHANGED << ledgers, call, git, group, rounds, launches >>

(* The observation is written over a record that must still be RUNNING.    *)
RecordObservation(m) ==
    /\ pc[m] = "observe"
    /\ IF m \in DOMAIN Own(m) /\ Own(m)[m].status = "RUNNING"
       THEN Propose(m, "RECORD_OBSERVATION", call[m].record)
       ELSE Raise(m)
    /\ UNCHANGED << ledgers, git, group, rounds, launches >>

(* replay_intake: only an OBSERVED record; the intake accepts it or not.   *)
Intake(m) ==
    /\ pc[m] = "intake"
    /\ IF HasOwn(m) /\ Own(m)[m].status = "OBSERVED"
       THEN \E s \in {"VALIDATED", "FAILED"} :
                Propose(m, "RECORD_INTAKE", [Own(m)[m] EXCEPT !.status = s])
       ELSE Raise(m)
    /\ UNCHANGED << ledgers, git, group, rounds, launches >>

(* The pool is drained: the group is ready when every member is.           *)
GroupEnds ==
    /\ group = "running" /\ \A m \in Member : pc[m] = "done"
    /\ group' = IF \A m \in Member : outcome[m] = "validated" THEN "READY" ELSE "INCOMPLETE"
    /\ pc' = [m \in Member |-> "idle"] /\ call' = [m \in Member |-> NoCall]
    /\ UNCHANGED << ledgers, git, outcome, rounds, launches >>

(* The process dies: threads and their locals go, the ledgers stay, and a  *)
(* Codex child may live on (its changes are GitChanges).                   *)
Crash ==
    /\ group = "running"
    /\ group' = "idle"
    /\ pc' = [m \in Member |-> "idle"]
    /\ outcome' = [m \in Member |-> "none"] /\ call' = [m \in Member |-> NoCall]
    /\ UNCHANGED << ledgers, git, rounds, launches >>

(* Codex, an orphan of an earlier run or an operator changes a worktree.   *)
GitChanges(m) ==
    /\ \E g \in Git \ {git[m]} : git' = [git EXCEPT ![m] = g]
    /\ UNCHANGED << ledgers, pc, call, outcome, group, rounds, launches >>

Step(m) ==
    \/ \E v \in Version : Begin(m, v)
    \/ Plan(m) \/ Check(m) \/ Replace(m) \/ WriteFails(m)
    \/ Inspect(m) \/ Execute(m) \/ Launch(m) \/ CodexEnds(m) \/ RuntimeRaises(m)
    \/ RecordObservation(m) \/ Intake(m)

Next ==
    \/ StartGroup \/ GroupEnds \/ Crash
    \/ \E m \in Member : Step(m) \/ GitChanges(m)

Spec == Init /\ [][Next]_vars

(* The threads of the pool run, and Codex ends or reaches its timeout.     *)
FairSpec == Spec /\ WF_vars(GroupEnds) /\ \A m \in Member : WF_vars(Step(m))
-----------------------------------------------------------------------------
(* docs/42: no blind retry.  However often the process crashes and the     *)
(* group is started again, Codex is started at most once for a request     *)
(* (RestartSafeCodexExecutionService.execute persists RUNNING first).      *)
LaunchedAtMostOnce == \A m \in Member : launches[m] <= 1

(* A record is never lost, never rebound and only moves along the          *)
(* lifecycle: each write replaces the whole file from a snapshot that was  *)
(* compared some steps earlier (execution_state_store._validate_transition). *)
LifecycleStep ==
    \A l \in Ledger : \A m \in DOMAIN ledgers[l] :
        /\ m \in DOMAIN ledgers'[l]
        /\ ledgers'[l][m].version = ledgers[l][m].version
        /\ \/ ledgers'[l][m] = ledgers[l][m]
           \/ ledgers'[l][m].status \in Successor(ledgers[l][m].status)

LedgerLifecycle == [][LifecycleStep]_vars

(* The ledger never holds more uncertain or live runs than the configured  *)
(* limit, those a crash left behind included (ExecutionBudgetBoundary).    *)
RunningWithinLimit == Cardinality(RunningIn(BudgetLedger)) <= Limit

(* No success is fabricated: a VALIDATED record stems from a process that  *)
(* was started (execution_recovery._observation_status).                   *)
NoFabricatedSuccess ==
    \A l \in Ledger : \A m \in DOMAIN ledgers[l] :
        ledgers[l][m].status = "VALIDATED" => launches[m] > 0

(* Every call of a group returns, or dies with the process.                *)
GroupTerminates == group = "running" ~> group # "running"
=============================================================================
