---------------------------- MODULE Maintenance ----------------------------
(***************************************************************************)
(* Maintenance governance (application/maintenance_governance.py) over its *)
(* store (infrastructure/maintenance_state_store.py): operators move one   *)
(* record along a closed graph, services evaluate operations against it    *)
(* and enforce the admission later, when the work is about to start.       *)
(*                                                                         *)
(* Every process runs on its own: it observes, decides on what it observed *)
(* and writes under an exclusive lock file that nobody removes when its    *)
(* owner dies.  A record's fingerprint is modelled by the record itself.   *)
(***************************************************************************)
EXTENDS MaintenanceRegister

CONSTANTS
    Process,       \* operators' and services' processes
    Readings,      \* what the sources say: [problems, healthy, recovered]
    Considered,    \* bound: the operations that are evaluated
    MaxRevision    \* bound: how many versions of the record are written

NewWork  == {"START_MISSION", "START_ROLE_EXECUTION", "START_PARALLEL_GROUP",
             "CREATE_WORKTREE", "MERGE", "APPLY_ADOPTION_MIGRATION"}
Recovery == {"START_REMEDIATION", "RESUME_RECOVERY"}
Operation == NewWork \cup Recovery \cup {"COMPLETE_IN_FLIGHT", "READ_DIAGNOSTICS"}

ASSUME ProcessAssumption ==
    /\ Process \cap {"free", "stale"} = {}
    /\ Absent \notin Route \cup Head \cup Operator \cup Operation
    /\ MaxRevision \in Nat /\ Considered \subseteq Operation
    /\ \A o \in Readings :
          /\ o.problems \subseteq {"SOURCE_INVALID", "GOVERNANCE_REQUIRES_HUMAN", "REFUSAL"}
          /\ o.healthy \in BOOLEAN /\ o.recovered \in Route \cup {Absent}

VARIABLES
    lock,       \* .maintenance.lock: free, the process that holds it, or stale
    checkout,   \* the repository's HEAD
    pc,         \* Process -> where its call stands
    call,       \* Process -> the locals of that call: the record its caller saw
                \*   (expected fingerprint), the evaluation context with the HEAD it
                \*   was bound to, the record a candidate extends, the candidate
    admission,  \* Process -> the last admission it obtained
    work        \* Process -> the operation it has started

maintenanceVars == << file, lock, checkout, pc, call, admission, work >>

NoCall == [seen |-> Absent, context |-> [head |-> Absent], before |-> Absent, candidate |-> Absent]
NoAdmission == [operation |-> Absent, record |-> Absent]

MaintenanceInit ==
    /\ RegisterInit
    /\ lock = "free" /\ checkout \in Head
    /\ pc = [p \in Process |-> "idle"]
    /\ call = [p \in Process |-> NoCall]
    /\ admission = [p \in Process |-> NoAdmission]
    /\ work = [p \in Process |-> Absent]

Goto(p, label) == pc' = [pc EXCEPT ![p] = label] /\ UNCHANGED call

(* The call returns or raises: its locals are gone.                        *)
Return(p) == pc' = [pc EXCEPT ![p] = "idle"] /\ call' = [call EXCEPT ![p] = NoCall]

(* request_transition and initialize hand their candidate to the store;    *)
(* what they decided on is not needed any more.                            *)
Submit(p, record, previous) ==
    /\ pc' = [pc EXCEPT ![p] = "lock"]
    /\ call' = [call EXCEPT ![p] = [NoCall EXCEPT !.before = previous, !.candidate = record]]
-----------------------------------------------------------------------------
(* _load_bound: the record belongs to the observed repository state.       *)
Bound(record, c) == record # Absent /\ record.head = c.head

(* evaluate: the decision on one operation in one context.                 *)
AdmissionOf(record, c, operation) ==
    LET human == "GOVERNANCE_REQUIRES_HUMAN" \in c.problems
        fatal == c.problems \ {"GOVERNANCE_REQUIRES_HUMAN"} # {}
        escalated == IF human THEN "HUMAN_REQUIRED" ELSE "ADMITTED"
        held(inFlight) == IF operation \in Recovery THEN "HUMAN_REQUIRED"
                          ELSE IF inFlight /\ operation = "COMPLETE_IN_FLIGHT"
                          THEN escalated ELSE "REFUSED"
    IN CASE operation = "READ_DIAGNOSTICS" -> "ADMITTED"
         [] operation # "READ_DIAGNOSTICS" /\ fatal -> "REFUSED"
         [] operation # "READ_DIAGNOSTICS" /\ ~fatal ->
              IF record.state = "NORMAL" THEN escalated ELSE held(record.state = "DRAINING")

(* The sources are read; time passes before anything is decided on them.   *)
Observe(p) ==
    /\ pc[p] = "idle"
    /\ \E o \in Readings :
          call' = [call EXCEPT ![p] = [@ EXCEPT !.seen = file, !.context =
              [head |-> checkout, problems |-> o.problems, healthy |-> o.healthy,
               recovered |-> o.recovered]]]
    /\ pc' = [pc EXCEPT ![p] = "decide"]
    /\ UNCHANGED << file, lock, checkout, admission, work >>

(* The caller gives up, or a check of the service raises.                  *)
GiveUp(p) ==
    /\ pc[p] = "decide" /\ Return(p)
    /\ UNCHANGED << file, lock, checkout, admission, work >>

(* initialize: the candidate is the first record; the store decides.       *)
Initialize(p, a) ==
    /\ pc[p] = "decide"
    /\ Submit(p, Created("NORMAL", 1, a, call[p].context.head, Absent, Absent), Absent)
    /\ UNCHANGED << file, lock, checkout, admission, work >>

(* The way back to NORMAL needs healthy sources and, out of a recovery,    *)
(* a successful observation of the very route that was selected.           *)
MayReturn(record, c) ==
    /\ c.problems \ {"GOVERNANCE_REQUIRES_HUMAN"} = {} /\ c.healthy
    /\ record.state \in {"FROZEN", "RECOVERY_REQUIRED"} =>
          c.recovered # Absent /\ c.recovered = record.route

(* request_transition: an exact, current request of the same operator.     *)
RequestTransition(p, a, target, route) ==
    LET c == call[p].context IN
    /\ pc[p] = "decide"
    /\ Bound(file, c) /\ call[p].seen = file
    /\ a = file.actor /\ file.revision < MaxRevision
    /\ target \in Allowed[file.state] /\ RouteFits(target, route)
    /\ "SOURCE_INVALID" \notin c.problems
    /\ target = "NORMAL" => MayReturn(file, c)
    /\ Submit(p, Created(target, file.revision + 1, a, c.head, route, file), file)
    /\ UNCHANGED << file, lock, checkout, admission, work >>
-----------------------------------------------------------------------------
(* Mutant: the lock file is unlinked even when it was not acquired.        *)
Acquire_ReleasesForeign(p) ==
    /\ pc[p] = "lock"
    /\ \/ lock = "free" /\ lock' = p /\ Goto(p, "compare")
       \/ lock # "free" /\ lock' = "free" /\ Return(p)
    /\ UNCHANGED << file, checkout, admission, work >>

(* _acquire_write_lock: exclusive creation of the lock file, or a refusal. *)
Acquire(p) ==
    /\ pc[p] = "lock"
    /\ \/ lock = "free" /\ lock' = p /\ Goto(p, "compare")
       \/ lock # "free" /\ Return(p) /\ UNCHANGED lock
    /\ UNCHANGED << file, checkout, admission, work >>

(* Under the lock the file must still be what the candidate extends.       *)
Compare(p) ==
    /\ pc[p] = "compare"
    /\ Goto(p, IF file = call[p].before THEN "replace" ELSE "release")
    /\ UNCHANGED << file, lock, checkout, admission, work >>

(* _write: the temporary file replaces the record, or the write fails.     *)
Replace(p) ==
    /\ pc[p] = "replace"
    /\ file' = call[p].candidate \/ UNCHANGED file
    /\ Goto(p, "release")
    /\ UNCHANGED << lock, checkout, admission, work >>

(* _release_write_lock: close and unlink, whatever happened; when that     *)
(* fails the lock file stays.                                              *)
Release(p) ==
    /\ pc[p] = "release"
    /\ lock' \in {"free", "stale"}
    /\ Return(p)
    /\ UNCHANGED << file, checkout, admission, work >>

(* The process dies anywhere; its lock file stays behind.                  *)
Crash(p) ==
    /\ pc[p] # "idle"
    /\ lock' = IF lock = p THEN "stale" ELSE lock
    /\ Return(p)
    /\ UNCHANGED << file, checkout, admission, work >>

(* An operator inspects and removes the lock file of a dead process.       *)
RemoveStaleLock ==
    /\ lock = "stale" /\ lock' = "free"
    /\ UNCHANGED << file, checkout, pc, call, admission, work >>
-----------------------------------------------------------------------------
(* evaluate: an admission bound to the record it was decided on; nothing   *)
(* can be done with one that does not admit.                               *)
Evaluate(p, operation) ==
    /\ pc[p] = "decide" /\ Bound(file, call[p].context)
    /\ admission' = [admission EXCEPT ![p] =
           IF AdmissionOf(file, call[p].context, operation) = "ADMITTED"
           THEN [operation |-> operation, record |-> file] ELSE NoAdmission]
    /\ Return(p)
    /\ UNCHANGED << file, lock, checkout, work >>

(* Mutant: enforce trusts an admission of an earlier record.               *)
Enforce_StaleAdmission(p, operation) ==
    /\ pc[p] = "idle" /\ work[p] = Absent
    /\ admission[p].operation = operation
    /\ Goto(p, "start")
    /\ UNCHANGED << file, lock, checkout, admission, work >>

(* enforce: the admission must be of this operation and of this record.    *)
Enforce(p, operation) ==
    /\ pc[p] = "idle" /\ work[p] = Absent
    /\ admission[p].operation = operation
    /\ admission[p].record = file
    /\ Goto(p, "start")
    /\ UNCHANGED << file, lock, checkout, admission, work >>

(* What was admitted starts (MissionLifecycleService.commit, a launch...). *)
Start(p) ==
    /\ pc[p] = "start"
    /\ work' = [work EXCEPT ![p] = admission[p].operation]
    /\ Return(p)
    /\ UNCHANGED << file, lock, checkout, admission >>

FinishWork(p) ==
    /\ pc[p] = "idle" /\ work[p] # Absent
    /\ work' = [work EXCEPT ![p] = Absent]
    /\ UNCHANGED << file, lock, checkout, pc, call, admission >>

(* A merge or a commit moves HEAD.                                         *)
HeadMoves ==
    /\ \E h \in Head \ {checkout} : checkout' = h
    /\ UNCHANGED << file, lock, pc, call, admission, work >>

Step(p) ==
    \/ Observe(p) \/ GiveUp(p)
    \/ \E a \in Operator : Initialize(p, a)
    \/ \E a \in Operator, s \in State, r \in Route \cup {Absent} : RequestTransition(p, a, s, r)
    \/ Acquire(p) \/ Compare(p) \/ Replace(p) \/ Release(p) \/ Crash(p)
    \/ \E o \in Considered : Evaluate(p, o) \/ Enforce(p, o)
    \/ Start(p) \/ FinishWork(p)

MaintenanceNext == RemoveStaleLock \/ HeadMoves \/ \E p \in Process : Step(p)

MaintenanceSpec == MaintenanceInit /\ [][MaintenanceNext]_maintenanceVars
-----------------------------------------------------------------------------
(* The shape of the state.                                                 *)
MaintenanceTypeOK ==
    /\ lock \in Process \cup {"free", "stale"} /\ checkout \in Head
    /\ pc \in [Process -> {"idle", "decide", "lock", "compare", "replace", "release", "start"}]
    /\ work \in [Process -> Operation \cup {Absent}]
    /\ \A p \in Process : pc[p] = "decide" => call[p].context.head \in Head

(* The lock file belongs to the process that is between _acquire_write_lock *)
(* and _release_write_lock and to no other, whoever crashed before; when it *)
(* replaces the record, that is still the one its candidate extends.        *)
LockProtects ==
    /\ MaintenanceTypeOK
    /\ \A p \in Process :
          /\ lock = p <=> pc[p] \in {"compare", "replace", "release"}
          /\ pc[p] = "replace" => file = call[p].before
          /\ pc[p] \in {"lock", "compare", "replace"} =>
                Follows(call[p].before, call[p].candidate)

(* docs/69, "Persistence": revision, predecessor and operator form a chain *)
(* that survives crashes and competing writers; no write is lost.          *)
ExtendsRegister == RegisterSpec

(* What enforcement lets through, the record in force permits, however     *)
(* long ago the operation was evaluated and whoever moved the record since *)
(* (MaintenanceGovernanceService.enforce).                                 *)
Permits(state, operation) ==
    \/ operation = "READ_DIAGNOSTICS" \/ state = "NORMAL"
    \/ state = "DRAINING" /\ operation = "COMPLETE_IN_FLIGHT"

WorkWasPermitted ==
    [][\A p \in Process : pc[p] # "start" /\ pc'[p] = "start" =>
           Permits(file.state, admission'[p].operation)]_maintenanceVars
=============================================================================
