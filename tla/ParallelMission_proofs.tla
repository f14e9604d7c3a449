----------------------- MODULE ParallelMission_proofs -----------------------
(* Theorems about ParallelMission, for any stories and any bounds.         *)
EXTENDS ParallelMission, TLAPS

Transaction == {"apply", "mission", "finalize"}
Label == Transaction \cup {"idle", "assign", "start", "observe", "implemented", "testing",
                           "rejected", "record"}

Assigned(s) == \E a \in assignments : a.story = s /\ a.generation = mission.generation
IsIntegrated(s) == \E i \in 1 .. Tip : primary[i] # None /\ s \in primary[i].group
Untouched == {"PLANNED", "READY", "IN_PROGRESS"}

(* What a running call holds, at each label.                               *)
Preparing == [of : Groups, left : SUBSET Story]
Accepting == [of : Attempts, story : Story]

CallOK ==
    /\ call = [at |-> call.at, what |-> call.what] /\ call.at \in Label
    /\ call.at # "idle" => (NoPending <=> call.at \notin Transaction)
    /\ call.at \in {"assign", "start"} =>
          /\ call.what \in Preparing
          /\ call.what.of.generation = mission.generation
          /\ call.what.left \subseteq call.what.of.group
    /\ call.at = "assign" => \A s \in call.what.of.group \ call.what.left : Assigned(s)
    /\ call.at = "start" => \A s \in call.what.of.group : Assigned(s)
    /\ call.at = "observe" => call.what \in Attempts
    /\ call.at \in {"implemented", "testing"} =>
          call.what \in Accepting /\ IsIntegrated(call.what.story)
    /\ call.at \in {"rejected", "record"} => call.what \in Dossiers

(* The stores are before or after the pending transaction, the project     *)
(* first; the transaction keeps the facts that others wrote.               *)
PendingOK ==
    ~NoPending =>
        LET txn == ledger.pending IN
        /\ txn.consume => txn.authority \in ledger.recorded
        /\ mission \in {txn.before.mission, txn.after.mission}
        /\ project.status \in {txn.before.project.status, txn.after.project.status}
        /\ mission # txn.before.mission => project.status = txn.after.project.status
        /\ txn.after.project.notes = txn.before.project.notes
        /\ call.at = "mission" => project = txn.after.project
        /\ \A s \in Story : txn.after.project.status[s] \notin Untouched => IsIntegrated(s)

Inv == TypeOK /\ CallOK /\ PendingOK /\ InFlightIsAssigned /\ TestedIsIntegrated
-----------------------------------------------------------------------------
(* The primary is a sequence that only grows: what is integrated stays so. *)
LEMMA TipFacts ==
    ASSUME TypeOK
    PROVE  /\ Tip \in Nat
           /\ \A x \in Groups \cup {None} :
                 /\ Append(primary, x) \in Seq(Groups \cup {None})
                 /\ Len(Append(primary, x)) = Tip + 1
                 /\ Append(primary, x)[Tip + 1] = x
                 /\ \A i \in 1 .. Tip : Append(primary, x)[i] = primary[i]
  BY DEF TypeOK, Tip

(* Recording an outcome leaves the rest of the ledger alone.               *)
LEMMA RecordFacts ==
    ASSUME TypeOK, NEW outcome \in Attempts \cup Dossiers, ledger' = Recorded(outcome)
    PROVE  /\ ledger' \in [recorded : SUBSET (Attempts \cup Dossiers),
                          consumed : SUBSET (Attempts \cup Dossiers), pending : Intents \cup {None}]
           /\ ledger'.recorded = ledger.recorded \cup {outcome}
           /\ ledger'.consumed = ledger.consumed /\ ledger'.pending = ledger.pending
  BY DEF TypeOK, Recorded

(* A claim writes a well-formed intent and nothing else.                   *)
LEMMA ClaimFacts ==
    ASSUME TypeOK, NEW authority \in Groups \cup Attempts \cup Dossiers,
           NEW consume \in BOOLEAN, NEW after \in Stores, Claim(authority, consume, after)
    PROVE  /\ ledger'.pending = Intent(authority, consume, after)
           /\ ledger'.pending # None /\ ~NoPending'
           /\ ledger'.recorded = ledger.recorded
           /\ TypeOK'
  <1>1. Intent(authority, consume, after) \in Intents
    BY DEF Intent, Intents, Now, Stores, TypeOK
  <1>2. /\ ledger'.pending = Intent(authority, consume, after)
        /\ ledger'.recorded = ledger.recorded /\ ledger'.consumed = ledger.consumed
        /\ ledger' \in [recorded : SUBSET (Attempts \cup Dossiers),
                        consumed : SUBSET (Attempts \cup Dossiers), pending : Intents \cup {None}]
    BY <1>1 DEF Claim, TypeOK
  <1>3. TypeOK'
    BY <1>2 DEF Claim, TypeOK
  <1> QED
    BY <1>1, <1>2, <1>3, NoneAssumption DEF NoPending

(* What the two kinds of transactions leave is well formed.                *)
BlockedMission(outcome) ==
    [mission EXCEPT !.status = "BLOCKED", !.blocker =
         IF outcome = "BLOCKED" THEN "MERGE_BLOCKED" ELSE "INTEGRATION_GATE_UNKNOWN"]

LEMMA AfterTypes ==
    ASSUME TypeOK
    PROVE  /\ \A initial : [mission |-> [mission EXCEPT !.generation = @ + 1, !.blocker = None],
                            project |-> Reexecuted(Replay(initial))] \in Stores
           /\ \A outcome : [mission |-> BlockedMission(outcome), project |-> project] \in Stores
  <1>1. [mission EXCEPT !.generation = @ + 1, !.blocker = None] \in Missions
    <2> DEFINE next == [mission EXCEPT !.generation = @ + 1]
    <2>1. mission \in Missions
      BY DEF TypeOK
    <2>2. next \in Missions
      BY <2>1 DEF Missions
    <2>3. [next EXCEPT !.blocker = None] \in Missions
      BY <2>2 DEF Missions
    <2>4. [mission EXCEPT !.generation = @ + 1, !.blocker = None] = [next EXCEPT !.blocker = None]
      BY <2>1 DEF Missions
    <2> QED
      BY <2>3, <2>4
  <1>2. \A initial : Reexecuted(Replay(initial)) \in Projects
    BY DEF TypeOK, Projects, Reexecuted, Status
  <1>3. \A outcome : BlockedMission(outcome) \in Missions
    BY DEF TypeOK, Missions, BlockedMission
  <1> QED
    BY <1>1, <1>2, <1>3 DEF Stores, TypeOK

LEMMA BeginTypes ==
    ASSUME TypeOK, CallOK, PendingOK, Begin
    PROVE  TypeOK'
  <1> USE DEF TypeOK
  <1>1. ASSUME NEW g \in Planned, PrepareGroup(g) PROVE TypeOK'
    BY <1>1 DEF PrepareGroup
  <1>2. ASSUME NEW p \in prepared, SubmitMember(p) \/ FailMember(p) PROVE TypeOK'
    BY <1>2 DEF SubmitMember, FailMember, EndMember, Reassign, OfGroup, Assignments
  <1>3. ASSUME NEW p \in prepared, EvaluateGroup(p) PROVE TypeOK'
    BY <1>3 DEF EvaluateGroup, Latest, Attempts, Groups
  <1>4. ASSUME NEW p \in prepared, RecoverMergedGroup(p) PROVE TypeOK'
    BY <1>4 DEF RecoverMergedGroup
  <1>5. ASSUME NEW p \in prepared, RemediateFailedGroup(p) PROVE TypeOK'
    BY <1>5, AfterTypes, ClaimFacts DEF RemediateFailedGroup, StartRemediation
  <1>6. ASSUME NEW t \in attempts, MergeGatedGroup(t) PROVE TypeOK'
    <2>1. t.of \in Groups
      BY DEF Attempts
    <2>2. CASE /\ primary' = Append(primary, t.of) \/ primary' = primary
               /\ UNCHANGED << ledger, attempts >>
      <3>1. primary' \in Seq(Groups \cup {None})
        BY <2>1, <2>2, TipFacts
      <3> QED
        BY <1>6, <2>2, <3>1 DEF MergeGatedGroup
    <2>3. CASE \E outcome \in {"BLOCKED", "FAILED"} :
                  LET refused == [of |-> t.of, outcome |-> outcome, head |-> Tip] IN
                  /\ ledger' = Recorded(refused) /\ attempts' = Latest(refused)
                  /\ UNCHANGED << primary, call >>
      <3>1. PICK outcome \in {"BLOCKED", "FAILED"} :
                  LET refused == [of |-> t.of, outcome |-> outcome, head |-> Tip] IN
                  /\ ledger' = Recorded(refused) /\ attempts' = Latest(refused)
                  /\ UNCHANGED << primary, call >>
        BY <2>3
      <3>2. [of |-> t.of, outcome |-> outcome, head |-> Tip] \in Attempts
        BY <2>1, TipFacts DEF Attempts
      <3> QED
        BY <1>6, <3>1, <3>2, RecordFacts DEF MergeGatedGroup, Latest
    <2> QED
      BY <1>6, <2>2, <2>3 DEF MergeGatedGroup
  <1>7. ASSUME NEW t \in attempts, NEW s \in Story, AcceptImplementer(t, s) PROVE TypeOK'
    <2>1. [of |-> t.of, outcome |-> "BLOCKED", head |-> Tip] \in Attempts
      BY TipFacts DEF Attempts
    <2> QED
      BY <1>7, <2>1, RecordFacts DEF AcceptImplementer
  <1>8. ASSUME NEW t \in attempts, RemediateIntegration(t) PROVE TypeOK'
    BY <1>8, AfterTypes, ClaimFacts DEF RemediateIntegration, StartRemediation
  <1>9. ASSUME NEW t \in attempts, BlockForRecovery(t) PROVE TypeOK'
    BY <1>9, AfterTypes, ClaimFacts DEF BlockForRecovery, BlockedMission
  <1>10. ASSUME NEW d \in dossiers, AcceptRole(d) PROVE TypeOK'
    <2>1. d \in Dossiers /\ NextStage[d.stage] \in Status
      BY <1>10 DEF AcceptRole, NextStage, Status, InFlight
    <2>2. project' \in Projects
      BY <1>10, <2>1 DEF AcceptRole, Move, Projects
    <2>3. [d EXCEPT !.stage = NextStage[d.stage]] \in Dossiers
      BY <2>1 DEF Dossiers
    <2>4. dossiers' \subseteq Dossiers
      BY <1>10, <2>3 DEF AcceptRole
    <2> QED
      BY <1>10, <2>2, <2>4 DEF AcceptRole
  <1>11. ASSUME NEW d \in dossiers, RejectRole(d) PROVE TypeOK'
    BY <1>11 DEF RejectRole, Move, Dossiers, Projects, Status, InFlight
  <1>12. ASSUME NEW d \in dossiers, RemediateDossier(d) PROVE TypeOK'
    BY <1>12, AfterTypes, ClaimFacts DEF RemediateDossier, StartRemediation
  <1>13. ASSUME RecordFact PROVE TypeOK'
    BY <1>13 DEF RecordFact, Projects
  <1>14. ASSUME ResumePending PROVE TypeOK'
    BY <1>14 DEF ResumePending
  <1>15. ASSUME ResumeRecovery PROVE TypeOK'
    BY <1>15 DEF ResumeRecovery, Missions
  <1>16. ASSUME FinalizeMission PROVE TypeOK'
    BY <1>16, TipFacts DEF FinalizeMission, Missions
  <1> QED
    BY <1>1, <1>2, <1>3, <1>4, <1>5, <1>6, <1>7, <1>8, <1>9, <1>10, <1>11, <1>12,
       <1>13, <1>14, <1>15, <1>16 DEF Begin

(* A step of a running call, its death and the outside keep the types.     *)
LEMMA StepTypes ==
    ASSUME TypeOK, CallOK, PendingOK, Step \/ Abort \/ OutsideChanges
    PROVE  TypeOK'
  <1> USE DEF TypeOK
  <1>1. ASSUME NEW s \in Story, Assign(s) PROVE TypeOK'
    <2>1. call.what.of \in Groups
      BY <1>1 DEF Assign, At, CallOK, Preparing
    <2> DEFINE new == [story |-> s, generation |-> call.what.of.generation,
                       baseline |-> call.what.of.baseline, status |-> "PLANNED"]
    <2>2. new \in Assignments
      BY <2>1 DEF Assignments, Groups
    <2>3. \A a \in assignments : [a EXCEPT !.status = "ACTIVE"] \in Assignments
      BY DEF Assignments
    <2>4. \/ assignments' = assignments
          \/ assignments' = assignments \cup {new}
          \/ \E a \in assignments : Reassign(a, "ACTIVE")
      BY <1>1 DEF Assign, OfGroup
    <2> HIDE DEF new
    <2>5. assignments' \subseteq Assignments
      BY <2>2, <2>3, <2>4 DEF Reassign
    <2> QED
      BY <1>1, <2>5 DEF Assign
  <1>2. ASSUME NEW s \in Story, Start(s) PROVE TypeOK'
    <2>1. call.what.of \in Groups
      BY <1>2 DEF Start, At, CallOK, Preparing
    <2>2. project' \in Projects
      BY <1>2 DEF Start, Move, Projects, Status, InFlight
    <2>3. prepared' \subseteq Groups
      BY <1>2, <2>1 DEF Start
    <2> QED
      BY <1>2, <2>2, <2>3 DEF Start
  <1>3. ASSUME ObserveNewPrimary PROVE TypeOK'
    <2>1. call.what \in Attempts
      BY <1>3 DEF ObserveNewPrimary, At, CallOK
    <2> QED
      BY <1>3, <2>1 DEF ObserveNewPrimary, Latest, Missions, Attempts
  <1>4. ASSUME Implemented PROVE TypeOK'
    BY <1>4 DEF Implemented, Move, Projects, Status, InFlight
  <1>5. ASSUME IntoTesting PROVE TypeOK'
    <2>1. call.what.of \in Attempts /\ call.what.story \in Story
      BY <1>5 DEF IntoTesting, At, CallOK, Accepting
    <2>2. Dossier(call.what.story, call.what.of) \in Dossiers
      BY <2>1 DEF Dossier, Dossiers, Attempts, Groups, Status, InFlight
    <2>3. project' \in Projects
      BY <1>5 DEF IntoTesting, Move, Projects, Status, InFlight
    <2> QED
      BY <1>5, <2>2, <2>3 DEF IntoTesting
  <1>6. ASSUME RequireRemediation PROVE TypeOK'
    BY <1>6 DEF RequireRemediation, Move, Projects, Status, InFlight
  <1>7. ASSUME RecordNegativeDossier PROVE TypeOK'
    <2>1. call.what \in Dossiers
      BY <1>7 DEF RecordNegativeDossier, At, CallOK
    <2> QED
      BY <1>7, <2>1, RecordFacts DEF RecordNegativeDossier
  <1>8. ASSUME At("apply") \/ At("mission") \/ At("finalize")
        PROVE  /\ ~NoPending /\ ledger.pending \in Intents
               /\ ledger.pending.after.project \in Projects
               /\ ledger.pending.after.mission \in Missions
    BY <1>8 DEF At, CallOK, Transaction, NoPending, Intents, Stores
  <1>9. ASSUME ApplyProject PROVE TypeOK'
    BY <1>8, <1>9 DEF ApplyProject
  <1>10. ASSUME ApplyMission PROVE TypeOK'
    BY <1>8, <1>10 DEF ApplyMission
  <1>11. ASSUME Finalize PROVE TypeOK'
    <2>1. ledger' \in [recorded : SUBSET (Attempts \cup Dossiers),
                       consumed : SUBSET (Attempts \cup Dossiers), pending : Intents \cup {None}]
      BY <1>8, <1>11 DEF Finalize, PendingOK
    <2>2. ledger'.consumed \subseteq ledger'.recorded
      BY <1>8, <1>11 DEF Finalize, PendingOK
    <2> QED
      BY <1>11, <2>1, <2>2 DEF Finalize
  <1>12. ASSUME Abort PROVE TypeOK'
    <2>1. call.at \in {"rejected", "record"} => call.what.story \in Story /\ call.what.generation \in Nat
      BY DEF CallOK, Dossiers
    <2>2. faults' \in 0 .. MaxFaults
      BY <1>12, BoundAssumption DEF Abort
    <2>3. interrupted' \subseteq Story \X Nat
      BY <1>12, <2>1 DEF Abort
    <2> QED
      BY <1>12, <2>2, <2>3 DEF Abort
  <1>13. ASSUME OutsideChanges PROVE TypeOK'
    <2>1. primary' \in Seq(Groups \cup {None})
      BY <1>13, TipFacts DEF OutsideChanges
    <2>2. project' \in Projects
      BY <1>13 DEF OutsideChanges, Projects
    <2> QED
      BY <1>13, <2>1, <2>2 DEF OutsideChanges
  <1> QED
    BY <1>1, <1>2, <1>3, <1>4, <1>5, <1>6, <1>7, <1>9, <1>10, <1>11, <1>12, <1>13 DEF Step
-----------------------------------------------------------------------------
(* The primary only grows and assignments keep their story and generation, *)
(* so that what is integrated and what is assigned stays so.               *)
Grows == primary' = primary \/ \E x \in Groups \cup {None} : primary' = Append(primary, x)

LEMMA IntegratedStays ==
    ASSUME TypeOK, Grows
    PROVE  \A s : IsIntegrated(s) => IsIntegrated(s)'
  <1>1. \A i \in 1 .. Tip : i \in 1 .. Tip' /\ primary'[i] = primary[i]
    <2>1. CASE primary' = primary
      BY <2>1 DEF Tip
    <2>2. ASSUME NEW x \in Groups \cup {None}, primary' = Append(primary, x)
          PROVE  \A i \in 1 .. Tip : i \in 1 .. Tip' /\ primary'[i] = primary[i]
      <3>1. Tip' = Tip + 1 /\ Tip \in Nat
        BY <2>2, TipFacts DEF Tip
      <3> QED
        BY <2>2, <3>1, TipFacts
    <2> QED
      BY <2>1, <2>2 DEF Grows
  <1> QED
    BY <1>1 DEF IsIntegrated

LEMMA AssignedStays ==
    ASSUME TypeOK, mission'.generation = mission.generation,
           \/ assignments \subseteq assignments'
           \/ \E a \in assignments, status \in {"ACTIVE", "COMPLETED", "FAILED"} : Reassign(a, status)
    PROVE  \A s : Assigned(s) => Assigned(s)'
  <1>1. CASE assignments \subseteq assignments'
    BY <1>1 DEF Assigned
  <1>2. ASSUME NEW a \in assignments, NEW status, Reassign(a, status),
               NEW s, Assigned(s)
        PROVE  Assigned(s)'
    <2>1. PICK b \in assignments : b.story = s /\ b.generation = mission.generation
      BY <1>2 DEF Assigned
    <2>2. CASE b = a
      <3>1. /\ [a EXCEPT !.status = status] \in assignments'
            /\ [a EXCEPT !.status = status].story = a.story
            /\ [a EXCEPT !.status = status].generation = a.generation
        BY <1>2 DEF Reassign, TypeOK, Assignments
      <3> QED
        BY <2>1, <2>2, <3>1 DEF Assigned
    <2>3. CASE b # a
      BY <1>2, <2>1, <2>3 DEF Reassign, Assigned
    <2> QED
      BY <2>2, <2>3
  <1> QED
    BY <1>1, <1>2

(* A call that begins or ends and does not go on holds nothing.            *)
LEMMA NoCall ==
    ASSUME CallOK, call' = Idle \/ (At("idle") /\ call' = call)
    PROVE  CallOK' /\ call'.at = "idle"
  BY DEF CallOK, Idle, At, Label, Transaction

(* Outside a transaction, a step that leaves the statuses and the          *)
(* generation alone preserves the invariant when it keeps its call right.  *)
Outside == NoPending /\ NoPending' /\ mission'.generation = mission.generation /\ Grows

LEMMA SameStatuses ==
    ASSUME Inv, TypeOK', CallOK', Outside, project'.status = project.status,
           \A s : Assigned(s) => Assigned(s)'
    PROVE  Inv'
  <1>1. PendingOK'
    BY DEF PendingOK, Outside
  <1>2. InFlightIsAssigned'
    BY DEF Inv, Outside, InFlightIsAssigned, Decided, Now, Assigned
  <1>3. TestedIsIntegrated'
    BY IntegratedStays DEF Inv, Outside, TestedIsIntegrated, IsIntegrated
  <1> QED
    BY <1>1, <1>2, <1>3 DEF Inv

(* Outside a transaction, so does the transition of a story that has its   *)
(* assignment, and of one that is integrated when it passes IN_PROGRESS.   *)
LEMMA OneMoves ==
    ASSUME Inv, TypeOK', CallOK', Outside, UNCHANGED << assignments, primary >>,
           NEW s \in Story, NEW from, NEW to, Move(s, from, to),
           to \in InFlight => from \in InFlight \/ Assigned(s),
           to \notin Untouched => from \notin Untouched \/ IsIntegrated(s)
    PROVE  Inv'
  <1>1. /\ project'.status[s] = to /\ project.status[s] = from
        /\ \A r \in Story \ {s} : project'.status[r] = project.status[r]
    BY DEF Inv, TypeOK, Projects, Move
  <1>2. PendingOK'
    BY DEF PendingOK, Outside
  <1>3. \A r \in Story : project.status[r] \in InFlight => Assigned(r)
    BY DEF Inv, Outside, InFlightIsAssigned, Decided, Now, Assigned
  <1>4. \A r \in Story : project'.status[r] \in InFlight => Assigned(r)'
    BY <1>1, <1>3 DEF Outside, Assigned
  <1>5. InFlightIsAssigned'
    BY <1>4 DEF Outside, InFlightIsAssigned, Decided, Now, Assigned
  <1>6. \A r \in Story : project.status[r] \notin Untouched => IsIntegrated(r)
    BY DEF Inv, TestedIsIntegrated, IsIntegrated, Untouched
  <1>7. \A r \in Story : project'.status[r] \notin Untouched => IsIntegrated(r)'
    BY <1>1, <1>6 DEF IsIntegrated, Tip
  <1>8. TestedIsIntegrated'
    BY <1>7 DEF TestedIsIntegrated, IsIntegrated, Untouched
  <1> QED
    BY <1>2, <1>5, <1>8 DEF Inv

(* The claim of a new generation: what is in flight is assigned, hence it  *)
(* is sent back, so that nothing in flight remains to be assigned.         *)
NextGeneration(initial) ==
    [mission |-> [mission EXCEPT !.generation = @ + 1, !.blocker = None],
     project |-> Reexecuted(Replay(initial))]

LEMMA AllReplayed ==
    ASSUME TypeOK, NoPending, InFlightIsAssigned, NEW initial
    PROVE  /\ Replay(initial) \subseteq Story
           /\ \A s \in Story : project.status[s] \in InFlight => s \in Replay(initial)
           /\ \A s \in Story : NextGeneration(initial).project.status[s] =
                  IF s \in Replay(initial) THEN "READY" ELSE project.status[s]
           /\ NextGeneration(initial).project.notes = project.notes
           /\ NextGeneration(initial).mission.generation = mission.generation + 1
           /\ NextGeneration(initial).mission.status = mission.status
  <1>1. \A s \in Story : project.status[s] \in InFlight => s \in Replay(initial)
    BY DEF InFlightIsAssigned, Decided, Now, Replay, InFlight
  <1>2. /\ [mission EXCEPT !.generation = @ + 1, !.blocker = None].generation = mission.generation + 1
        /\ [mission EXCEPT !.generation = @ + 1, !.blocker = None].status = mission.status
    BY DEF TypeOK, Missions
  <1> QED
    BY <1>1, <1>2 DEF NextGeneration, Reexecuted, Replay, TypeOK, Projects

LEMMA ClaimKeepsInv ==
    ASSUME Inv, NoPending, TypeOK', NEW authority, NEW consume \in BOOLEAN, NEW after \in Stores,
           Claim(authority, consume, after), Intent(authority, consume, after) # None,
           consume => authority \in ledger.recorded,
           after.project.notes = project.notes,
           \A s \in Story : /\ after.project.status[s] \in InFlight =>
                                 \E a \in assignments : /\ a.story = s
                                                        /\ a.generation = after.mission.generation
                            /\ after.project.status[s] \notin Untouched => IsIntegrated(s)
    PROVE  Inv'
  <1>1. /\ ledger'.pending = Intent(authority, consume, after) /\ ~NoPending'
        /\ ledger'.recorded = ledger.recorded /\ call' = [at |-> "apply", what |-> None]
        /\ UNCHANGED << mission, project, assignments, primary >>
    BY DEF Claim, NoPending, Goto, Inv, TypeOK
  <1>2. CallOK'
    <2>1. call'.at = "apply" /\ call' = [at |-> call'.at, what |-> call'.what]
      BY <1>1
    <2>2. NoPending' <=> call'.at \notin Transaction
      BY <1>1, <2>1 DEF Transaction
    <2> QED
      BY <2>1, <2>2 DEF CallOK, Label, Transaction
  <1>3. PendingOK'
    BY <1>1 DEF PendingOK, Intent, Now, IsIntegrated, Tip
  <1>4. InFlightIsAssigned'
    BY <1>1 DEF InFlightIsAssigned, Decided, Intent
  <1>5. TestedIsIntegrated'
    BY <1>1 DEF Inv, TestedIsIntegrated, Tip
  <1> QED
    BY <1>2, <1>3, <1>4, <1>5 DEF Inv

LEMMA RemediationKeepsInv ==
    ASSUME Inv, NEW authority \in Groups \cup Attempts \cup Dossiers, NEW consume \in BOOLEAN,
           NEW affected, NEW initial, StartRemediation(authority, consume, affected, initial),
           consume => authority \in ledger.recorded
    PROVE  Inv'
  <1>1. TypeOK /\ NoPending /\ InFlightIsAssigned
    BY DEF Inv, StartRemediation, Free
  <1>2. NextGeneration(initial) \in Stores
    BY <1>1, AfterTypes DEF NextGeneration
  <1>3. Claim(authority, consume, NextGeneration(initial))
    BY DEF StartRemediation, NextGeneration
  <1>4. TypeOK' /\ Intent(authority, consume, NextGeneration(initial)) # None
    BY <1>1, <1>2, <1>3, ClaimFacts
  <1>5. \A s \in Story : /\ NextGeneration(initial).project.status[s] \notin InFlight
                         /\ NextGeneration(initial).project.status[s] \notin Untouched =>
                               project.status[s] \notin Untouched
    BY <1>1, AllReplayed DEF Untouched, InFlight
  <1>6. \A r \in Story : project.status[r] \notin Untouched => IsIntegrated(r)
    BY DEF Inv, TestedIsIntegrated, IsIntegrated, Untouched
  <1> QED
    BY <1>1, <1>2, <1>3, <1>4, <1>5, <1>6, AllReplayed, ClaimKeepsInv

LEMMA BlockKeepsInv ==
    ASSUME Inv, NEW t \in attempts, BlockForRecovery(t)
    PROVE  Inv'
  <1> DEFINE after == [mission |-> BlockedMission(t.outcome), project |-> project]
             consume == t.outcome = "BLOCKED"
  <1>1. TypeOK /\ NoPending /\ InFlightIsAssigned /\ t \in Attempts
    BY DEF Inv, TypeOK, BlockForRecovery, Free
  <1>2. after \in Stores /\ consume \in BOOLEAN
    BY <1>1, AfterTypes
  <1>3. Claim(t, consume, after)
    BY DEF BlockForRecovery, BlockedMission
  <1>4. TypeOK' /\ Intent(t, consume, after) # None
    BY <1>1, <1>2, <1>3, ClaimFacts
  <1>5. consume => t \in ledger.recorded
    BY DEF BlockForRecovery, Unconsumed
  <1>6. after.mission.generation = mission.generation
    BY <1>1 DEF BlockedMission, TypeOK, Missions
  <1>7. \A r \in Story : /\ project.status[r] \notin Untouched => IsIntegrated(r)
                         /\ project.status[r] \in InFlight => Assigned(r)
    BY <1>1 DEF Inv, TestedIsIntegrated, IsIntegrated, Untouched, InFlightIsAssigned,
               Decided, Now, Assigned
  <1> HIDE DEF consume
  <1>8. \A s \in Story : /\ after.project.status[s] \in InFlight =>
                              \E a \in assignments : /\ a.story = s
                                                     /\ a.generation = after.mission.generation
                         /\ after.project.status[s] \notin Untouched => IsIntegrated(s)
    BY <1>6, <1>7 DEF Assigned
  <1>9. after.project.notes = project.notes
    OBVIOUS
  <1> HIDE DEF after
  <1> QED
    BY <1>1, <1>2, <1>3, <1>4, <1>5, <1>8, <1>9, ClaimKeepsInv

LEMMA BeginKeepsInv ==
    ASSUME Inv, Begin
    PROVE  Inv'
  <1>1. TypeOK /\ CallOK /\ PendingOK /\ InFlightIsAssigned /\ TestedIsIntegrated
    BY DEF Inv
  <1>2. TypeOK'
    BY <1>1, BeginTypes
  <1>3. \A r \in Story : project.status[r] \notin Untouched => IsIntegrated(r)
    BY <1>1 DEF TestedIsIntegrated, IsIntegrated, Untouched
  <1>4. ASSUME NEW g \in Planned, PrepareGroup(g) PROVE Inv'
    <2> DEFINE p == [group |-> g, generation |-> mission.generation, baseline |-> mission.observed]
    <2>1. p \in Groups
      BY <1>1, BoundAssumption DEF TypeOK, Missions, Groups
    <2>2. /\ call' = [at |-> "assign", what |-> [of |-> p, left |-> g]]
          /\ NoPending /\ NoPending' /\ UNCHANGED << mission, project, assignments, primary >>
      BY <1>4 DEF PrepareGroup, Free, NoPending, Goto
    <2>3. CallOK'
      BY <2>1, <2>2, BoundAssumption DEF CallOK, Label, Transaction, Preparing
    <2> QED
      BY <1>2, <2>2, <2>3, SameStatuses DEF Outside, Grows, Assigned
  <1>5. ASSUME NEW p \in prepared, SubmitMember(p) \/ FailMember(p) PROVE Inv'
    <2>1. PICK a \in assignments, status \in {"ACTIVE", "COMPLETED", "FAILED"} : Reassign(a, status)
      BY <1>5 DEF SubmitMember, FailMember, EndMember, OfGroup
    <2>2. /\ At("idle") /\ call' = call /\ NoPending /\ NoPending'
          /\ UNCHANGED << mission, project, primary >>
      BY <1>5 DEF SubmitMember, FailMember, EndMember, Free, NoPending
    <2>3. \A s : Assigned(s) => Assigned(s)'
      BY <1>1, <2>1, <2>2, AssignedStays
    <2> QED
      BY <1>1, <1>2, <2>2, <2>3, NoCall, SameStatuses DEF Outside, Grows
  <1>6. ASSUME NEW p \in prepared, EvaluateGroup(p) PROVE Inv'
    <2>1. /\ At("idle") /\ call' = call /\ NoPending /\ NoPending'
          /\ UNCHANGED << mission, project, assignments, primary >>
      BY <1>6 DEF EvaluateGroup, Free, NoPending
    <2> QED
      BY <1>1, <1>2, <2>1, NoCall, SameStatuses DEF Outside, Grows, Assigned
  <1>7. ASSUME NEW p \in prepared, RecoverMergedGroup(p) PROVE Inv'
    <2>1. [of |-> p, outcome |-> "MERGED", head |-> Tip] \in Attempts
      BY <1>1, TipFacts DEF Attempts, TypeOK
    <2>2. /\ call' = [at |-> "observe", what |-> [of |-> p, outcome |-> "MERGED", head |-> Tip]]
          /\ NoPending /\ NoPending' /\ UNCHANGED << mission, project, assignments, primary >>
      BY <1>7 DEF RecoverMergedGroup, Free, NoPending, Goto
    <2>3. CallOK'
      BY <2>1, <2>2 DEF CallOK, Label, Transaction
    <2> QED
      BY <1>2, <2>2, <2>3, SameStatuses DEF Outside, Grows, Assigned
  <1>8. ASSUME NEW p \in prepared, RemediateFailedGroup(p) PROVE Inv'
    <2>1. p \in Groups
      BY <1>1 DEF TypeOK
    <2> QED
      BY <1>8, <2>1, RemediationKeepsInv DEF RemediateFailedGroup
  <1>9. ASSUME NEW t \in attempts, MergeGatedGroup(t) PROVE Inv'
    <2>1. t.of \in Groups
      BY <1>1 DEF TypeOK, Attempts
    <2>2. NoPending /\ At("idle") /\ UNCHANGED << mission, project, assignments >>
      BY <1>9 DEF MergeGatedGroup, Free
    <2>3. CASE /\ primary' = Append(primary, t.of) \/ primary' = primary
               /\ Goto("observe", [of |-> t.of, outcome |-> "MERGED", head |-> Len(primary')])
               /\ UNCHANGED ledger
      <3>1. Len(primary') \in Nat /\ Grows
        BY <1>1, <2>1, <2>3, TipFacts DEF Grows, Tip
      <3>2. [of |-> t.of, outcome |-> "MERGED", head |-> Len(primary')] \in Attempts
        BY <2>1, <3>1 DEF Attempts
      <3>3. NoPending'
        BY <2>2, <2>3 DEF NoPending
      <3>4. CallOK'
        BY <2>3, <3>2, <3>3 DEF CallOK, Label, Transaction, Goto
      <3> QED
        BY <1>2, <2>2, <3>1, <3>3, <3>4, SameStatuses DEF Outside, Assigned
    <2>4. CASE \E outcome \in {"BLOCKED", "FAILED"} :
                  /\ ledger' = Recorded([of |-> t.of, outcome |-> outcome, head |-> Tip])
                  /\ UNCHANGED << primary, call >>
      <3>1. \A outcome \in {"BLOCKED", "FAILED"} :
               [of |-> t.of, outcome |-> outcome, head |-> Tip] \in Attempts
        BY <1>1, <2>1, TipFacts DEF Attempts
      <3>2. NoPending'
        BY <1>1, <2>2, <2>4, <3>1, RecordFacts DEF NoPending
      <3> QED
        BY <1>1, <1>2, <2>2, <2>4, <3>2, NoCall, SameStatuses DEF Outside, Grows, Assigned
    <2> QED
      BY <1>9, <2>3, <2>4 DEF MergeGatedGroup
  <1>10. ASSUME NEW t \in attempts, NEW s \in Story, AcceptImplementer(t, s) PROVE Inv'
    <2>1. t \in Attempts /\ t.of \in Groups
      BY <1>1 DEF TypeOK, Attempts
    <2>2. NoPending /\ At("idle") /\ UNCHANGED << mission, project, assignments, primary >>
      BY <1>10 DEF AcceptImplementer, Free
    <2>3. CASE /\ Promoted(t.of) /\ UNCHANGED ledger
               /\ Goto("implemented", [of |-> t, story |-> s])
      <3>1. IsIntegrated(s)
        BY <1>1, <1>10, <2>1, <2>3, TipFacts, NoneAssumption
           DEF AcceptImplementer, Promoted, IsIntegrated
      <3>2. NoPending' /\ IsIntegrated(s)'
        BY <2>2, <2>3, <3>1 DEF NoPending, IsIntegrated, Tip
      <3>3. CallOK'
        BY <2>1, <2>3, <3>2 DEF CallOK, Label, Transaction, Accepting, Goto
      <3> QED
        BY <1>2, <2>2, <3>2, <3>3, SameStatuses DEF Outside, Grows, Assigned
    <2>4. CASE /\ ledger' = Recorded([of |-> t.of, outcome |-> "BLOCKED", head |-> Tip])
               /\ UNCHANGED call
      <3>1. [of |-> t.of, outcome |-> "BLOCKED", head |-> Tip] \in Attempts
        BY <1>1, <2>1, TipFacts DEF Attempts
      <3>2. NoPending'
        BY <1>1, <2>2, <2>4, <3>1, RecordFacts DEF NoPending
      <3> QED
        BY <1>1, <1>2, <2>2, <2>4, <3>2, NoCall, SameStatuses DEF Outside, Grows, Assigned
    <2> QED
      BY <1>10, <2>3, <2>4 DEF AcceptImplementer
  <1>11. ASSUME NEW t \in attempts, RemediateIntegration(t) PROVE Inv'
    <2>1. t \in Attempts
      BY <1>1 DEF TypeOK
    <2> QED
      BY <1>11, <2>1, RemediationKeepsInv DEF RemediateIntegration, Unconsumed
  <1>12. ASSUME NEW t \in attempts, BlockForRecovery(t) PROVE Inv'
    BY <1>12, BlockKeepsInv
  <1>13. ASSUME NEW d \in dossiers, AcceptRole(d) PROVE Inv'
    <2>1. /\ d.story \in Story /\ d.stage \in InFlight \ Untouched
          /\ NextStage[d.stage] \in Status
      BY <1>1, <1>13 DEF AcceptRole, NextStage, TypeOK, Dossiers, InFlight, Status, Untouched
    <2>2. /\ At("idle") /\ call' = call /\ NoPending /\ NoPending'
          /\ UNCHANGED << mission, assignments, primary >>
          /\ Move(d.story, d.stage, NextStage[d.stage])
      BY <1>13 DEF AcceptRole, Free, NoPending
    <2> QED
      BY <1>1, <1>2, <2>1, <2>2, NoCall, OneMoves DEF Outside, Grows
  <1>14. ASSUME NEW d \in dossiers, RejectRole(d) PROVE Inv'
    <2>1. d.story \in Story /\ d.stage \in InFlight \ Untouched
      BY <1>1, <1>14 DEF RejectRole, NextStage, TypeOK, Dossiers, InFlight, Untouched
    <2>2. /\ call' = [at |-> "rejected", what |-> [d EXCEPT !.rejected = TRUE]]
          /\ NoPending /\ NoPending' /\ UNCHANGED << mission, assignments, primary >>
          /\ Move(d.story, d.stage, "REJECTED")
      BY <1>14 DEF RejectRole, Free, NoPending, Goto
    <2>3. [d EXCEPT !.rejected = TRUE] \in Dossiers
      BY <1>1 DEF TypeOK, Dossiers
    <2>4. CallOK'
      BY <2>2, <2>3 DEF CallOK, Label, Transaction
    <2> QED
      BY <1>2, <2>1, <2>2, <2>4, OneMoves DEF Outside, Grows
  <1>15. ASSUME NEW d \in dossiers, RemediateDossier(d) PROVE Inv'
    <2>1. d \in Dossiers
      BY <1>1 DEF TypeOK
    <2> QED
      BY <1>15, <2>1, RemediationKeepsInv DEF RemediateDossier, Unconsumed
  <1>16. ASSUME RecordFact PROVE Inv'
    <2>1. /\ At("idle") /\ call' = call /\ NoPending /\ NoPending'
          /\ UNCHANGED << mission, assignments, primary >> /\ project'.status = project.status
      BY <1>1, <1>16 DEF RecordFact, Free, NoPending, TypeOK, Projects
    <2> QED
      BY <1>1, <1>2, <2>1, NoCall, SameStatuses DEF Outside, Grows, Assigned
  <1>17. ASSUME ResumePending PROVE Inv'
    <2>1. /\ call' = [at |-> "apply", what |-> None] /\ ~NoPending /\ ~NoPending'
          /\ UNCHANGED << mission, project, assignments, primary, ledger >>
      BY <1>17 DEF ResumePending, NoPending, Goto
    <2>2. CallOK'
      BY <2>1 DEF CallOK, Label, Transaction
    <2>3. PendingOK'
      BY <1>1, <2>1 DEF PendingOK, IsIntegrated, Tip
    <2>4. InFlightIsAssigned' /\ TestedIsIntegrated'
      BY <1>1, <2>1 DEF InFlightIsAssigned, TestedIsIntegrated, Decided, Now, NoPending, Tip
    <2> QED
      BY <1>2, <2>2, <2>3, <2>4 DEF Inv
  <1>18. ASSUME ResumeRecovery \/ FinalizeMission PROVE Inv'
    <2>1. /\ At("idle") /\ call' = call /\ NoPending /\ NoPending'
          /\ UNCHANGED << project, assignments, primary >>
          /\ mission'.generation = mission.generation
      BY <1>1, <1>18 DEF ResumeRecovery, FinalizeMission, Free, NoPending, TypeOK, Missions
    <2> QED
      BY <1>1, <1>2, <2>1, NoCall, SameStatuses DEF Outside, Grows, Assigned
  <1> QED
    BY <1>4, <1>5, <1>6, <1>7, <1>8, <1>9, <1>10, <1>11, <1>12, <1>13, <1>14, <1>15,
       <1>16, <1>17, <1>18 DEF Begin

(* Inside a transaction the intent stands, and the stores go from before   *)
(* to after.                                                               *)
LEMMA InTransaction ==
    ASSUME Inv, TypeOK', CallOK', PendingOK', ~NoPending, ledger'.pending = ledger.pending,
           UNCHANGED assignments, Grows,
           project'.status \in {project.status, ledger.pending.after.project.status}
    PROVE  Inv'
  <1>1. InFlightIsAssigned'
    BY DEF Inv, InFlightIsAssigned, Decided, NoPending
  <1>2. \A r \in Story : /\ project.status[r] \notin Untouched => IsIntegrated(r)
                         /\ ledger.pending.after.project.status[r] \notin Untouched => IsIntegrated(r)
    BY DEF Inv, TestedIsIntegrated, IsIntegrated, Untouched, PendingOK
  <1>3. \A r \in Story : project'.status[r] \notin Untouched => IsIntegrated(r)'
    BY <1>2, IntegratedStays DEF Inv
  <1>4. TestedIsIntegrated'
    BY <1>3 DEF TestedIsIntegrated, IsIntegrated, Untouched
  <1> QED
    BY <1>1, <1>4 DEF Inv

LEMMA StepKeepsInv ==
    ASSUME Inv, Step \/ Abort \/ OutsideChanges
    PROVE  Inv'
  <1>1. TypeOK /\ CallOK /\ PendingOK /\ InFlightIsAssigned /\ TestedIsIntegrated
    BY DEF Inv
  <1>2. TypeOK'
    BY <1>1, StepTypes
  <1>3. \A r \in Story : /\ project.status[r] \notin Untouched => IsIntegrated(r)
                         /\ NoPending /\ project.status[r] \in InFlight => Assigned(r)
    BY <1>1 DEF TestedIsIntegrated, IsIntegrated, Untouched, InFlightIsAssigned, Decided, Now, Assigned
  <1>4. call.at \notin Transaction \cup {"idle"} => NoPending
    BY <1>1 DEF CallOK
  <1>5. call.at \in Transaction => ~NoPending /\ ledger.pending \in Intents
    BY <1>1 DEF CallOK, Transaction, TypeOK, NoPending
  <1>6. ASSUME NEW s \in Story, Assign(s) PROVE Inv'
    <2> DEFINE p == call.what.of
    <2>1. /\ call.at = "assign" /\ call.what \in Preparing /\ p.generation = mission.generation
          /\ call.what.left \subseteq p.group
          /\ \A r \in p.group \ call.what.left : Assigned(r)
      BY <1>1, <1>6 DEF Assign, At, CallOK
    <2>2. NoPending /\ NoPending' /\ UNCHANGED << mission, project, primary >>
      BY <1>4, <1>6, <2>1 DEF Assign, Transaction, NoPending
    <2>3. \A r : Assigned(r) => Assigned(r)'
      BY <1>1, <1>6, <2>2, AssignedStays DEF Assign, OfGroup
    <2>4. CallOK'
      <3>1. CASE UNCHANGED call
        BY <1>1, <2>1, <2>2, <2>3, <3>1 DEF CallOK, Label, Transaction
      <3>2. CASE \E a \in OfGroup(p) : a.story = s
        <4>1. Assigned(s)
          BY <2>1, <3>2 DEF OfGroup, Assigned
        <4>2. \A r \in p.group \ (call.what.left \ {s}) : Assigned(r)'
          BY <2>1, <2>3, <4>1
        <4>3. CASE call.what.left \ {s} = {} /\ Goto("start", [of |-> p, left |-> p.group])
          BY <2>1, <2>2, <4>2, <4>3 DEF CallOK, Label, Transaction, Goto, Preparing, Groups
        <4>4. CASE Goto("assign", [of |-> p, left |-> call.what.left \ {s}])
          BY <2>1, <2>2, <4>2, <4>4 DEF CallOK, Label, Transaction, Goto, Preparing
        <4>5. CASE Return
          BY <1>1, <4>5, NoCall DEF Return
        <4> QED
          BY <1>6, <3>1, <4>3, <4>4, <4>5 DEF Assign
      <3> QED
        BY <1>6, <3>1, <3>2 DEF Assign
    <2> QED
      BY <1>2, <2>2, <2>3, <2>4, SameStatuses DEF Outside, Grows
  <1>7. ASSUME NEW s \in Story, Start(s) PROVE Inv'
    <2> DEFINE p == call.what.of
    <2>1. /\ call.at = "start" /\ call.what \in Preparing /\ p.generation = mission.generation
          /\ call.what.left \subseteq p.group /\ s \in call.what.left
          /\ \A r \in p.group : Assigned(r)
      BY <1>1, <1>7 DEF Start, At, CallOK
    <2>2. NoPending /\ NoPending' /\ UNCHANGED << mission, assignments, primary >>
      BY <1>4, <1>7, <2>1 DEF Start, Transaction, NoPending
    <2>3. \A r : Assigned(r) => Assigned(r)'
      BY <2>2 DEF Assigned
    <2>4. CallOK'
      <3>1. CASE UNCHANGED call
        BY <1>1, <2>1, <2>2, <2>3, <3>1 DEF CallOK, Label, Transaction
      <3>2. CASE Goto("start", [of |-> p, left |-> call.what.left \ {s}])
        BY <2>1, <2>2, <2>3, <3>2 DEF CallOK, Label, Transaction, Goto, Preparing
      <3>3. CASE Return
        BY <1>1, <3>3, NoCall DEF Return
      <3> QED
        BY <1>7, <3>1, <3>2, <3>3 DEF Start
    <2>5. CASE UNCHANGED project
      BY <1>2, <2>2, <2>3, <2>4, <2>5, SameStatuses DEF Outside, Grows
    <2>6. CASE Move(s, "PLANNED", "READY")
      BY <1>2, <2>2, <2>4, <2>6, OneMoves DEF Outside, Grows, InFlight, Untouched
    <2>7. CASE Move(s, "READY", "IN_PROGRESS")
      BY <1>2, <2>1, <2>2, <2>4, <2>7, OneMoves DEF Outside, Grows, Untouched
    <2> QED
      BY <1>7, <2>5, <2>6, <2>7 DEF Start
  <1>8. ASSUME ObserveNewPrimary PROVE Inv'
    <2>1. /\ call' = Idle /\ NoPending /\ NoPending' /\ UNCHANGED << project, assignments, primary >>
          /\ mission'.generation = mission.generation
      BY <1>1, <1>4, <1>8 DEF ObserveNewPrimary, At, Return, Transaction, NoPending, TypeOK, Missions
    <2> QED
      BY <1>1, <1>2, <2>1, NoCall, SameStatuses DEF Outside, Grows, Assigned
  <1>9. ASSUME Implemented PROVE Inv'
    <2> DEFINE s == call.what.story
    <2>1. /\ call.at = "implemented" /\ call.what \in Accepting /\ s \in Story /\ IsIntegrated(s)
      BY <1>1, <1>9 DEF Implemented, At, CallOK, Accepting
    <2>2. /\ call' = [at |-> "testing", what |-> call.what]
          /\ NoPending /\ NoPending' /\ UNCHANGED << mission, assignments, primary >>
      BY <1>4, <1>9, <2>1 DEF Implemented, Goto, Transaction, NoPending
    <2>3. CallOK'
      BY <2>1, <2>2 DEF CallOK, Label, Transaction, IsIntegrated, Tip
    <2>4. CASE UNCHANGED project
      BY <1>2, <2>2, <2>3, <2>4, SameStatuses DEF Outside, Grows, Assigned
    <2>5. CASE Move(s, "IN_PROGRESS", "IMPLEMENTED")
      BY <1>2, <2>1, <2>2, <2>3, <2>5, OneMoves DEF Outside, Grows, InFlight
    <2> QED
      BY <1>9, <2>4, <2>5 DEF Implemented
  <1>10. ASSUME IntoTesting PROVE Inv'
    <2> DEFINE s == call.what.story
    <2>1. /\ call.at = "testing" /\ s \in Story /\ IsIntegrated(s)
      BY <1>1, <1>10 DEF IntoTesting, At, CallOK, Accepting
    <2>2. call' = Idle /\ NoPending /\ NoPending' /\ UNCHANGED << mission, assignments, primary >>
      BY <1>4, <1>10, <2>1 DEF IntoTesting, Return, Transaction, NoPending
    <2>3. CallOK'
      BY <1>1, <2>2, NoCall
    <2>4. CASE UNCHANGED project
      BY <1>2, <2>2, <2>3, <2>4, SameStatuses DEF Outside, Grows, Assigned
    <2>5. CASE Move(s, "IMPLEMENTED", "TESTING")
      BY <1>2, <2>1, <2>2, <2>3, <2>5, OneMoves DEF Outside, Grows, InFlight
    <2> QED
      BY <1>10, <2>4, <2>5 DEF IntoTesting
  <1>11. ASSUME RequireRemediation PROVE Inv'
    <2> DEFINE s == call.what.story
    <2>1. call.at = "rejected" /\ call.what \in Dossiers /\ s \in Story
      BY <1>1, <1>11 DEF RequireRemediation, At, CallOK, Dossiers
    <2>2. /\ call' = [at |-> "record", what |-> call.what]
          /\ NoPending /\ NoPending' /\ UNCHANGED << mission, assignments, primary >>
          /\ Move(s, "REJECTED", "REMEDIATION_REQUIRED")
      BY <1>4, <1>11, <2>1 DEF RequireRemediation, Goto, Transaction, NoPending
    <2>3. CallOK'
      BY <2>1, <2>2 DEF CallOK, Label, Transaction
    <2> QED
      BY <1>2, <2>1, <2>2, <2>3, OneMoves DEF Outside, Grows, InFlight, Untouched
  <1>12. ASSUME RecordNegativeDossier PROVE Inv'
    <2>1. call.at = "record" /\ call.what \in Dossiers
      BY <1>1, <1>12 DEF RecordNegativeDossier, At, CallOK
    <2>2. call' = Idle /\ NoPending /\ UNCHANGED << mission, project, assignments, primary >>
      BY <1>4, <1>12, <2>1 DEF RecordNegativeDossier, Return, Transaction
    <2>3. NoPending'
      BY <1>1, <1>12, <2>1, <2>2, RecordFacts DEF RecordNegativeDossier, NoPending
    <2> QED
      BY <1>1, <1>2, <2>2, <2>3, NoCall, SameStatuses DEF Outside, Grows, Assigned
  <1>13. ASSUME ApplyProject PROVE Inv'
    <2> DEFINE txn == ledger.pending
    <2>1. /\ call.at = "apply" /\ ~NoPending /\ ~NoPending' /\ txn \in Intents
          /\ UNCHANGED << mission, assignments, primary, ledger >>
      BY <1>5, <1>13 DEF ApplyProject, At, Transaction, NoPending
    <2>2. \/ project' = txn.after.project /\ call' = [at |-> "mission", what |-> None]
          \/ project' = project /\ call' = Idle
      BY <1>13 DEF ApplyProject, Goto, Return
    <2>3. CallOK'
      BY <1>1, <2>1, <2>2, NoCall DEF CallOK, Label, Transaction
    <2>4. PendingOK'
      BY <1>1, <2>1, <2>2 DEF PendingOK, IsIntegrated, Tip, Idle
    <2> QED
      BY <1>2, <2>1, <2>2, <2>3, <2>4, InTransaction DEF Grows
  <1>14. ASSUME ApplyMission PROVE Inv'
    <2> DEFINE txn == ledger.pending
    <2>1. /\ call.at = "mission" /\ ~NoPending /\ ~NoPending' /\ mission' = txn.after.mission
          /\ call' = [at |-> "finalize", what |-> None]
          /\ UNCHANGED << project, assignments, primary, ledger >>
      BY <1>5, <1>14 DEF ApplyMission, At, Transaction, NoPending, Goto
    <2>2. CallOK'
      BY <2>1 DEF CallOK, Label, Transaction
    <2>3. PendingOK'
      BY <1>1, <2>1 DEF PendingOK, IsIntegrated, Tip
    <2> QED
      BY <1>2, <2>1, <2>2, <2>3, InTransaction DEF Grows
  <1>15. ASSUME Finalize PROVE Inv'
    <2>1. /\ call.at = "finalize" /\ ~NoPending /\ Now = ledger.pending.after
          /\ call' = Idle /\ UNCHANGED << mission, project, assignments, primary >>
      BY <1>5, <1>15 DEF Finalize, At, Transaction, Return
    <2>2. NoPending'
      BY <1>1, <1>15 DEF Finalize, NoPending, TypeOK
    <2>3. CallOK' /\ PendingOK' /\ Decided' = Decided
      BY <1>1, <2>1, <2>2, NoCall DEF PendingOK, Decided, Now
    <2>4. InFlightIsAssigned' /\ TestedIsIntegrated'
      BY <1>1, <2>1, <2>3 DEF InFlightIsAssigned, TestedIsIntegrated, Tip
    <2> QED
      BY <1>2, <2>3, <2>4 DEF Inv
  <1>16. ASSUME Abort PROVE Inv'
    <2>1. call' = Idle /\ UNCHANGED << mission, project, assignments, primary, ledger >>
      BY <1>16 DEF Abort, Return
    <2>2. CallOK' /\ PendingOK'
      BY <1>1, <2>1, NoCall DEF PendingOK, NoPending, IsIntegrated, Tip
    <2>3. InFlightIsAssigned' /\ TestedIsIntegrated'
      BY <1>1, <2>1 DEF InFlightIsAssigned, TestedIsIntegrated, Decided, Now, NoPending, Tip
    <2> QED
      BY <1>2, <2>2, <2>3 DEF Inv
  <1>17. ASSUME OutsideChanges PROVE Inv'
    <2>1. /\ call.at = "idle" /\ call' = call /\ UNCHANGED << mission, assignments, ledger >>
          /\ project'.status = project.status /\ Grows
      BY <1>1, <1>17 DEF OutsideChanges, At, TypeOK, Projects, Grows
    <2>2. CallOK'
      BY <1>1, <2>1, NoCall DEF At
    <2>3. CASE NoPending
      BY <1>2, <2>1, <2>2, <2>3, SameStatuses DEF Outside, NoPending, Assigned
    <2>4. CASE ~NoPending
      <3>1. \A r : IsIntegrated(r) => IsIntegrated(r)'
        BY <1>1, <2>1, IntegratedStays
      <3>2. PendingOK'
        BY <1>1, <2>1, <2>4, <3>1 DEF PendingOK, NoPending
      <3> QED
        BY <1>2, <2>1, <2>2, <2>4, <3>2, InTransaction
    <2> QED
      BY <2>3, <2>4
  <1> QED
    BY <1>6, <1>7, <1>8, <1>9, <1>10, <1>11, <1>12, <1>13, <1>14, <1>15, <1>16, <1>17 DEF Step
-----------------------------------------------------------------------------
LEMMA InitInv == Init => Inv
  <1> SUFFICES ASSUME Init PROVE Inv
    OBVIOUS
  <1>1. NoPending /\ Decided = Now
    BY DEF Init, NoPending, Decided
  <1>2. project \in Projects /\ mission \in Missions /\ primary \in Seq(Groups \cup {None})
    BY DEF Init, Projects, Missions, Status
  <1>3. TypeOK
    BY <1>2, BoundAssumption DEF Init, TypeOK
  <1>4. CallOK /\ PendingOK
    BY <1>1 DEF Init, CallOK, PendingOK, Idle, Label, Transaction
  <1>5. InFlightIsAssigned /\ TestedIsIntegrated
    BY <1>1 DEF Init, InFlightIsAssigned, TestedIsIntegrated, Now, InFlight
  <1> QED
    BY <1>3, <1>4, <1>5 DEF Inv

LEMMA StutterKeepsInv ==
    ASSUME Inv, UNCHANGED vars
    PROVE  Inv'
  <1>1. TypeOK' /\ CallOK'
    BY DEF Inv, vars, TypeOK, CallOK, NoPending, Assigned, IsIntegrated, Tip
  <1>2. PendingOK'
    BY DEF Inv, vars, PendingOK, NoPending, IsIntegrated, Tip
  <1>3. InFlightIsAssigned' /\ TestedIsIntegrated'
    BY DEF Inv, vars, InFlightIsAssigned, TestedIsIntegrated, Decided, Now, NoPending, Tip
  <1> QED
    BY <1>1, <1>2, <1>3 DEF Inv

LEMMA Invariance == Spec => []Inv
  <1>1. Inv /\ [Next]_vars => Inv'
    BY BeginKeepsInv, StepKeepsInv, StutterKeepsInv DEF Next
  <1> QED
    BY <1>1, InitInv, PTL DEF Spec

(* Every store and every artefact handed to a caller keeps its type, and   *)
(* the ledger never consumes an outcome that it did not record.            *)
THEOREM TypesHold == Spec => []TypeOK
  <1>1. Inv => TypeOK
    BY DEF Inv
  <1> QED
    BY <1>1, Invariance, PTL

(* Whatever crashes, work in flight has an assignment of the generation it *)
(* is in, so that _start_remediation never leaves any of it behind.        *)
THEOREM NoOrphanInFlight == Spec => []InFlightIsAssigned
  <1>1. Inv => InFlightIsAssigned
    BY DEF Inv
  <1> QED
    BY <1>1, Invariance, PTL

(* accept_integrated_implementer lets nothing be tested, judged or         *)
(* certified that is not on the primary, whatever artefact is presented    *)
(* and whatever transaction is interrupted and replayed.                   *)
THEOREM NothingTestedUnintegrated == Spec => []TestedIsIntegrated
  <1>1. Inv => TestedIsIntegrated
    BY DEF Inv
  <1> QED
    BY <1>1, Invariance, PTL

(* _apply_pending_transaction writes ProjectState first: no crash shows a  *)
(* new generation whose stories have not been sent back.                   *)
THEOREM ProjectIsFirst == Spec => []ProjectFirst
  <1>1. Inv => ProjectFirst
    BY DEF Inv, PendingOK, ProjectFirst
  <1> QED
    BY <1>1, Invariance, PTL
-----------------------------------------------------------------------------
LEMMA StepKeepsNotes ==
    ASSUME Inv, [Next]_vars
    PROVE  project'.notes >= project.notes
  <1>1. TypeOK /\ CallOK /\ PendingOK /\ project.notes \in Nat
    BY DEF Inv, TypeOK, Projects
  <1>2. ASSUME NEW s, NEW from, NEW to, Move(s, from, to)
        PROVE  project'.notes = project.notes
    BY <1>1, <1>2 DEF Move, TypeOK, Projects
  <1>3. ASSUME ApplyProject PROVE project'.notes = project.notes
    <2>1. ~NoPending /\ ledger.pending.after.project.notes = ledger.pending.before.project.notes
      BY <1>1, <1>3 DEF ApplyProject, At, CallOK, Transaction, PendingOK
    <2> QED
      BY <1>3, <2>1 DEF ApplyProject, Recognised
  <1>4. ASSUME RecordFact \/ OutsideChanges PROVE project'.notes >= project.notes
    BY <1>1, <1>4 DEF RecordFact, OutsideChanges, TypeOK, Projects
  <1>5. ASSUME Begin
        PROVE  project' = project \/ RecordFact \/ \E s, from, to : Move(s, from, to)
    BY <1>5
       DEF Begin, PrepareGroup, SubmitMember, FailMember, EndMember, EvaluateGroup,
           MergeGatedGroup, RecoverMergedGroup, AcceptImplementer, AcceptRole, RejectRole,
           RemediateFailedGroup, RemediateIntegration, RemediateDossier, StartRemediation,
           BlockForRecovery, Claim, ResumePending, ResumeRecovery, FinalizeMission
  <1>6. ASSUME Step \/ Abort
        PROVE  project' = project \/ ApplyProject \/ \E s, from, to : Move(s, from, to)
    BY <1>6
       DEF Step, Assign, Start, ObserveNewPrimary, Implemented, IntoTesting, RequireRemediation,
           RecordNegativeDossier, ApplyMission, Finalize, Abort
  <1>7. project' = project => project'.notes >= project.notes
    BY <1>1
  <1>8. (ApplyProject \/ \E s, from, to : Move(s, from, to)) => project'.notes >= project.notes
    BY <1>1, <1>2, <1>3
  <1> QED
    BY <1>4, <1>5, <1>6, <1>7, <1>8 DEF Next, vars

(* A replay that finds a foreign write answers BLOCKED_INCONSISTENT: for   *)
(* any interleaving no fact of the project state is ever lost.             *)
THEOREM NoLostFact == Spec => NothingOverwritten
  <1>1. Inv /\ [Next]_vars => [project'.notes >= project.notes]_vars
    BY StepKeepsNotes
  <1> QED
    BY <1>1, Invariance, PTL DEF Spec, NothingOverwritten
-----------------------------------------------------------------------------
(* The two stores and the ledger implement MissionGeneration.              *)
Unseen == UNCHANGED Generation!view

LEMMA SameDecision ==
    ASSUME NoPending, NoPending', mission'.generation = mission.generation,
           mission'.status = mission.status, project'.status = project.status
    PROVE  Unseen
  BY DEF Unseen, Generation!view, Decided, Now

LEMMA MoveIsWork ==
    ASSUME TypeOK, NoPending, NoPending', UNCHANGED mission, NEW s \in Story,
           NEW from, NEW to \in Status, Move(s, from, to), << from, to >> \in Generation!Forward
    PROVE  Generation!GenerationNext
  <1>1. /\ project'.status = [project.status EXCEPT ![s] = to]
        /\ project.status[s] = from
    BY DEF Move, TypeOK, Projects
  <1>2. Decided = Now /\ Decided' = Now'
    BY DEF Decided
  <1>3. Generation!Work
    BY <1>1, <1>2 DEF Generation!Work, Now, Generation!Status, Generation!InFlight, Status, InFlight
  <1> QED
    BY <1>3 DEF Generation!GenerationNext

LEMMA RemediationIsNewGeneration ==
    ASSUME Inv, NEW authority \in Groups \cup Attempts \cup Dossiers, NEW consume \in BOOLEAN,
           NEW affected, NEW initial, StartRemediation(authority, consume, affected, initial)
    PROVE  Generation!GenerationNext
  <1>1. TypeOK /\ NoPending /\ InFlightIsAssigned /\ mission.status = "ACTIVE"
    BY DEF Inv, StartRemediation, Free
  <1>2. NextGeneration(initial) \in Stores
    BY <1>1, AfterTypes DEF NextGeneration
  <1>3. Claim(authority, consume, NextGeneration(initial))
    BY DEF StartRemediation, NextGeneration
  <1>4. Decided = Now /\ Decided' = NextGeneration(initial)
    <2>1. ledger'.pending = Intent(authority, consume, NextGeneration(initial)) /\ ~NoPending'
      BY <1>1, <1>2, <1>3, ClaimFacts
    <2> QED
      BY <1>1, <2>1 DEF Decided, Intent
  <1>5. Decided'.project.status =
            [s \in Story |-> IF s \in Replay(initial) THEN "READY" ELSE Decided.project.status[s]]
    BY <1>1, <1>4 DEF NextGeneration, Reexecuted, Now, TypeOK, Projects
  <1>6. \A s \in Replay(initial) : Decided.project.status[s] # "CERTIFIED"
    BY <1>4 DEF Replay, Now
  <1>7. Generation!NewGeneration
    BY <1>1, <1>4, <1>5, <1>6, AllReplayed
       DEF Generation!NewGeneration, Now, Generation!InFlight, InFlight
  <1> QED
    BY <1>7 DEF Generation!GenerationNext

LEMMA BlockIsBlock ==
    ASSUME Inv, NEW t \in attempts, BlockForRecovery(t)
    PROVE  Generation!GenerationNext
  <1> DEFINE after == [mission |-> BlockedMission(t.outcome), project |-> project]
  <1>1. TypeOK /\ NoPending /\ mission.status = "ACTIVE" /\ t \in Attempts
    BY DEF Inv, TypeOK, BlockForRecovery, Free
  <1>2. after \in Stores
    BY <1>1, AfterTypes
  <1>3. Claim(t, t.outcome = "BLOCKED", after)
    BY DEF BlockForRecovery, BlockedMission
  <1>4. Decided = Now /\ Decided' = after
    <2>1. (t.outcome = "BLOCKED") \in BOOLEAN
      OBVIOUS
    <2>2. ledger'.pending = Intent(t, t.outcome = "BLOCKED", after) /\ ~NoPending'
      BY <1>1, <1>2, <1>3, <2>1, ClaimFacts
    <2> QED
      BY <1>1, <2>2 DEF Decided, Intent
  <1>5. after.mission.generation = mission.generation /\ after.mission.status = "BLOCKED"
    BY <1>1 DEF BlockedMission, TypeOK, Missions
  <1>6. Generation!Block
    BY <1>1, <1>4, <1>5 DEF Generation!Block, Now
  <1> QED
    BY <1>6 DEF Generation!GenerationNext

LEMMA BeginRefines ==
    ASSUME Inv, Begin
    PROVE  Generation!GenerationNext \/ Unseen
  <1>1. TypeOK /\ CallOK
    BY DEF Inv
  <1>2. ASSUME NEW g, PrepareGroup(g) PROVE Unseen
    BY <1>2, SameDecision DEF PrepareGroup, Free, NoPending
  <1>3. ASSUME NEW p \in prepared, SubmitMember(p) \/ FailMember(p) \/ EvaluateGroup(p) \/ RecoverMergedGroup(p)
        PROVE  Unseen
    BY <1>3, SameDecision DEF SubmitMember, FailMember, EndMember, EvaluateGroup,
       RecoverMergedGroup, Free, NoPending
  <1>4. ASSUME NEW p \in prepared, RemediateFailedGroup(p) PROVE Generation!GenerationNext
    <2>1. p \in Groups
      BY <1>1 DEF TypeOK
    <2> QED
      BY <1>4, <2>1, RemediationIsNewGeneration DEF RemediateFailedGroup
  <1>5. ASSUME NEW t \in attempts, NEW s, MergeGatedGroup(t) \/ AcceptImplementer(t, s)
        PROVE  Unseen
    <2>1. /\ NoPending /\ UNCHANGED << mission, project >>
          /\ ledger' = ledger \/ \E outcome : ledger' = Recorded(outcome)
      BY <1>5 DEF MergeGatedGroup, AcceptImplementer, Free
    <2>2. NoPending'
      BY <1>1, <2>1 DEF NoPending, Recorded, TypeOK
    <2> QED
      BY <2>1, <2>2, SameDecision
  <1>6. ASSUME NEW t \in attempts, RemediateIntegration(t) PROVE Generation!GenerationNext
    <2>1. t \in Attempts
      BY <1>1 DEF TypeOK
    <2> QED
      BY <1>6, <2>1, RemediationIsNewGeneration DEF RemediateIntegration
  <1>7. ASSUME NEW t \in attempts, BlockForRecovery(t) PROVE Generation!GenerationNext
    BY <1>7, BlockIsBlock
  <1>8. ASSUME NEW d \in dossiers, AcceptRole(d) PROVE Generation!GenerationNext
    <2>1. /\ d.story \in Story /\ NextStage[d.stage] \in Status
          /\ << d.stage, NextStage[d.stage] >> \in Generation!Forward
      BY <1>1, <1>8 DEF AcceptRole, NextStage, TypeOK, Dossiers, Status, InFlight, Generation!Forward
    <2>2. /\ NoPending /\ NoPending' /\ UNCHANGED mission
          /\ Move(d.story, d.stage, NextStage[d.stage])
      BY <1>8 DEF AcceptRole, Free, NoPending
    <2> QED
      BY <1>1, <2>1, <2>2, MoveIsWork
  <1>9. ASSUME NEW d \in dossiers, RejectRole(d) PROVE Generation!GenerationNext
    <2>1. d.story \in Story /\ << d.stage, "REJECTED" >> \in Generation!Forward
      BY <1>1, <1>9 DEF RejectRole, NextStage, TypeOK, Dossiers, Generation!Forward
    <2>2. NoPending /\ NoPending' /\ UNCHANGED mission /\ Move(d.story, d.stage, "REJECTED")
      BY <1>9 DEF RejectRole, Free, NoPending
    <2> QED
      BY <1>1, <2>1, <2>2, MoveIsWork DEF Status, InFlight
  <1>10. ASSUME NEW d \in dossiers, RemediateDossier(d) PROVE Generation!GenerationNext
    <2>1. d \in Dossiers
      BY <1>1 DEF TypeOK
    <2> QED
      BY <1>10, <2>1, RemediationIsNewGeneration DEF RemediateDossier
  <1>11. ASSUME RecordFact PROVE Unseen
    <2>1. NoPending /\ NoPending' /\ UNCHANGED mission /\ project'.status = project.status
      BY <1>1, <1>11 DEF RecordFact, Free, NoPending, TypeOK, Projects
    <2> QED
      BY <2>1, SameDecision
  <1>12. ASSUME ResumePending PROVE Unseen
    BY <1>12 DEF ResumePending, Unseen, Generation!view, Decided, Now, NoPending
  <1>13. ASSUME ResumeRecovery PROVE Generation!GenerationNext
    <2>1. /\ NoPending /\ NoPending' /\ UNCHANGED project /\ mission.status = "BLOCKED"
          /\ mission'.status = "ACTIVE" /\ mission'.generation = mission.generation
      BY <1>1, <1>13 DEF ResumeRecovery, Free, NoPending, TypeOK, Missions
    <2>2. Generation!Resume
      BY <2>1 DEF Generation!Resume, Decided, Now
    <2> QED
      BY <2>2 DEF Generation!GenerationNext
  <1>14. ASSUME FinalizeMission PROVE Generation!GenerationNext
    <2>1. /\ NoPending /\ NoPending' /\ UNCHANGED project
          /\ \A s \in Story : project.status[s] = "CERTIFIED"
          /\ mission'.status = "COMPLETED" /\ mission'.generation = mission.generation
      BY <1>1, <1>14 DEF FinalizeMission, Free, NoPending, TypeOK, Missions
    <2>2. Generation!Complete
      BY <2>1 DEF Generation!Complete, Decided, Now
    <2> QED
      BY <2>2 DEF Generation!GenerationNext
  <1> QED
    BY <1>2, <1>3, <1>4, <1>5, <1>6, <1>7, <1>8, <1>9, <1>10, <1>11, <1>12, <1>13, <1>14 DEF Begin

LEMMA StepRefines ==
    ASSUME Inv, Step \/ Abort \/ OutsideChanges
    PROVE  Generation!GenerationNext \/ Unseen
  <1>1. TypeOK /\ CallOK
    BY DEF Inv
  <1>2. call.at \notin Transaction \cup {"idle"} => NoPending
    BY <1>1 DEF CallOK
  <1>3. ASSUME NEW s \in Story, NEW from, NEW to \in Status, Move(s, from, to),
               << from, to >> \in Generation!Forward, NoPending, UNCHANGED << mission, ledger >>
        PROVE  Generation!GenerationNext
    BY <1>1, <1>3, MoveIsWork DEF NoPending
  <1>4. ASSUME NoPending, UNCHANGED << project, ledger >>, mission'.generation = mission.generation,
               mission'.status = mission.status
        PROVE  Unseen
    BY <1>4, SameDecision DEF NoPending
  <1>5. ASSUME ledger'.pending = ledger.pending, ~NoPending PROVE Unseen
    <2>1. ~NoPending'
      BY <1>5 DEF NoPending
    <2>2. Decided' = Decided
      BY <1>5, <2>1 DEF Decided
    <2> QED
      BY <2>2 DEF Unseen, Generation!view
  <1>6. ASSUME NEW s \in Story, Assign(s) PROVE Unseen
    BY <1>2, <1>4, <1>6 DEF Assign, At, Transaction
  <1>7. ASSUME NEW s \in Story, Start(s) PROVE Generation!GenerationNext \/ Unseen
    <2>1. NoPending /\ UNCHANGED << mission, ledger >>
      BY <1>2, <1>7 DEF Start, At, Transaction
    <2>2. Move(s, "PLANNED", "READY") \/ Move(s, "READY", "IN_PROGRESS") => Generation!GenerationNext
      BY <1>3, <2>1 DEF Status, InFlight, Generation!Forward
    <2>3. UNCHANGED project => Unseen
      BY <1>4, <2>1
    <2> QED
      BY <1>7, <2>2, <2>3 DEF Start
  <1>8. ASSUME ObserveNewPrimary PROVE Unseen
    <2>1. NoPending
      BY <1>2, <1>8 DEF ObserveNewPrimary, At, Transaction
    <2> QED
      BY <1>1, <1>4, <1>8, <2>1 DEF ObserveNewPrimary, TypeOK, Missions
  <1>9. ASSUME Implemented \/ IntoTesting PROVE Generation!GenerationNext \/ Unseen
    <2>1. NoPending /\ UNCHANGED << mission, ledger >> /\ call.what.story \in Story
      BY <1>1, <1>2, <1>9 DEF Implemented, IntoTesting, At, CallOK, Accepting, Transaction
    <2>2. \/ Move(call.what.story, "IN_PROGRESS", "IMPLEMENTED")
          \/ Move(call.what.story, "IMPLEMENTED", "TESTING")
          => Generation!GenerationNext
      BY <1>3, <2>1 DEF Status, InFlight, Generation!Forward
    <2>3. UNCHANGED project => Unseen
      BY <1>4, <2>1
    <2> QED
      BY <1>9, <2>2, <2>3 DEF Implemented, IntoTesting
  <1>10. ASSUME RequireRemediation PROVE Generation!GenerationNext
    <2>1. NoPending /\ UNCHANGED << mission, ledger >> /\ call.what.story \in Story
      BY <1>1, <1>2, <1>10 DEF RequireRemediation, At, CallOK, Dossiers, Transaction
    <2> QED
      BY <1>3, <1>10, <2>1 DEF RequireRemediation, Status, InFlight, Generation!Forward
  <1>11. ASSUME RecordNegativeDossier PROVE Unseen
    <2>1. NoPending /\ ledger' = Recorded(call.what) /\ UNCHANGED << mission, project >>
      BY <1>2, <1>11 DEF RecordNegativeDossier, At, Transaction
    <2>2. NoPending'
      BY <1>1, <2>1 DEF NoPending, Recorded, TypeOK
    <2> QED
      BY <2>1, <2>2, SameDecision
  <1>12. ASSUME ApplyProject \/ ApplyMission PROVE Unseen
    BY <1>1, <1>5, <1>12 DEF ApplyProject, ApplyMission, At, CallOK, Transaction
  <1>13. ASSUME Finalize PROVE Unseen
    <2>1. /\ ~NoPending /\ Now = ledger.pending.after /\ UNCHANGED << mission, project >>
      BY <1>1, <1>13 DEF Finalize, At, CallOK, Transaction
    <2>2. NoPending'
      BY <1>1, <1>13 DEF Finalize, NoPending, TypeOK
    <2>3. Decided' = Decided
      BY <2>1, <2>2 DEF Decided, Now
    <2> QED
      BY <2>3 DEF Unseen, Generation!view
  <1>14. ASSUME Abort PROVE Unseen
    BY <1>14 DEF Abort, Unseen, Generation!view, Decided, Now, NoPending
  <1>15. ASSUME OutsideChanges PROVE Unseen
    <2>1. UNCHANGED << mission, ledger >> /\ project'.status = project.status
      BY <1>1, <1>15 DEF OutsideChanges, TypeOK, Projects
    <2>2. NoPending => Unseen
      BY <2>1, SameDecision DEF NoPending
    <2> QED
      BY <1>5, <2>1, <2>2
  <1> QED
    BY <1>6, <1>7, <1>8, <1>9, <1>10, <1>11, <1>12, <1>13, <1>14, <1>15 DEF Step

(* docs/34: with the pending transaction counted as done, the two stores   *)
(* behave as one atomic record of generations and transitions, whatever    *)
(* call dies between any two of its writes.                                *)
THEOREM RefinesGeneration == Spec => ImplementsGeneration
  <1>1. Init => Generation!GenerationInit
    <2> SUFFICES ASSUME Init PROVE Generation!GenerationInit
      OBVIOUS
    <2>1. Decided = Now
      BY DEF Init, Decided, NoPending
    <2> QED
      BY <2>1 DEF Init, Now, Generation!GenerationInit
  <1>2. Inv /\ [Next]_vars => [Generation!GenerationNext]_(Generation!view)
    <2>1. UNCHANGED vars => Unseen
      BY DEF vars, Unseen, Generation!view, Decided, Now, NoPending
    <2> QED
      BY <2>1, BeginRefines, StepRefines DEF Next, Unseen
  <1> QED
    BY <1>1, <1>2, Invariance, PTL DEF Spec, ImplementsGeneration, Generation!GenerationSpec
-----------------------------------------------------------------------------
(* A negative verdict that is still being written, or that is recorded,    *)
(* can be consumed: what was consumed belongs to an older generation.      *)
Rejections == {"rejected", "record"}
Negative == {"REJECTED", "REMEDIATION_REQUIRED"}

Spent == ledger.consumed \cup (IF NoPending \/ ~ledger.pending.consume THEN {}
                               ELSE {ledger.pending.authority})

Writing(s) == call.at \in Rejections /\ call.what.story = s

Answers(d, s) ==
    /\ d \in dossiers /\ d \in ledger.recorded /\ d.rejected
    /\ d.story = s /\ d.generation = Decided.mission.generation

SpentIsOlder ==
    \A d \in Spent : d \in Dossiers => d.generation < Decided.mission.generation

WritingIsCurrent ==
    call.at \in Rejections =>
        call.what.rejected /\ call.what.generation = Decided.mission.generation

NegativeIsKnown ==
    \A s \in Story : Decided.project.status[s] \in Negative =>
        \/ Writing(s)
        \/ << s, Decided.mission.generation >> \in interrupted
        \/ \E d \in dossiers : Answers(d, s)

RejectionInv == SpentIsOlder /\ WritingIsCurrent /\ NegativeIsKnown

LEMMA DossierIsNoAttempt == \A d \in Dossiers : d \notin Attempts /\ d \notin Groups
  <1>1. \A d \in Dossiers : DOMAIN d = {"story", "generation", "commit", "stage", "rejected"}
    BY DEF Dossiers
  <1>2. \A t \in Attempts : DOMAIN t = {"of", "head", "outcome"}
    BY DEF Attempts
  <1>3. \A p \in Groups : DOMAIN p = {"group", "generation", "baseline"}
    BY DEF Groups
  <1>4. /\ "commit" \notin {"of", "head", "outcome"}
        /\ "commit" \notin {"group", "generation", "baseline"}
    OBVIOUS
  <1> QED
    BY <1>1, <1>2, <1>3, <1>4

(* A step that rejects no story, spends no verdict and loses none.         *)
LEMMA SameRejections ==
    ASSUME RejectionInv, call.at \notin Rejections, call'.at \notin Rejections,
           Decided'.mission.generation = Decided.mission.generation,
           \A s \in Story : Decided'.project.status[s] \in Negative
                                => Decided.project.status[s] \in Negative,
           \A d \in Spent' : d \in Dossiers => d \in Spent,
           ledger.recorded \subseteq ledger'.recorded, interrupted \subseteq interrupted',
           \A d \in dossiers : d.rejected => d \in dossiers'
    PROVE  RejectionInv'
  <1>1. SpentIsOlder'
    BY DEF RejectionInv, SpentIsOlder
  <1>2. WritingIsCurrent'
    BY DEF WritingIsCurrent
  <1>3. ASSUME NEW s \in Story, Decided'.project.status[s] \in Negative
        PROVE  \/ << s, Decided'.mission.generation >> \in interrupted'
               \/ \E d \in dossiers' : Answers(d, s)'
    <2>1. \/ << s, Decided.mission.generation >> \in interrupted
          \/ \E d \in dossiers : Answers(d, s)
      BY <1>3 DEF RejectionInv, NegativeIsKnown, Writing
    <2> QED
      BY <2>1 DEF Answers
  <1>4. NegativeIsKnown'
    BY <1>3 DEF NegativeIsKnown
  <1> QED
    BY <1>1, <1>2, <1>4 DEF RejectionInv

(* The same when no transaction is pending.                                *)
Untroubled == NoPending /\ NoPending' /\ mission'.generation = mission.generation
              /\ interrupted' = interrupted /\ ledger'.consumed = ledger.consumed
              /\ ledger.recorded \subseteq ledger'.recorded
              /\ (\A d \in dossiers : d.rejected => d \in dossiers')

LEMMA UntroubledFacts ==
    ASSUME Untroubled
    PROVE  /\ Decided = Now /\ Decided' = Now'
           /\ Spent = ledger.consumed /\ Spent' = ledger.consumed
  BY DEF Untroubled, Decided, Spent

LEMMA UntroubledRejections ==
    ASSUME RejectionInv, Untroubled, call.at \notin Rejections, call'.at \notin Rejections,
           \A s \in Story : project'.status[s] \in Negative => project.status[s] \in Negative
    PROVE  RejectionInv'
  <1>1. /\ Decided'.mission.generation = Decided.mission.generation
        /\ \A s \in Story : Decided'.project.status[s] \in Negative
                                => Decided.project.status[s] \in Negative
    BY UntroubledFacts DEF Untroubled, Now
  <1>2. \A d \in Spent' : d \in Dossiers => d \in Spent
    BY UntroubledFacts
  <1> QED
    BY <1>1, <1>2, SameRejections DEF Untroubled

(* One story moves; only a rejection makes it negative.                    *)
LEMMA MovedStatuses ==
    ASSUME TypeOK, NEW s, NEW from, NEW to, Move(s, from, to)
    PROVE  /\ \A r \in Story : project'.status[r] = IF r = s THEN to ELSE project.status[r]
           /\ project.status[s] = from
  BY DEF Move, TypeOK, Projects

(* A new generation leaves no rejected story, and the verdict that opens   *)
(* it belongs to the generation before.                                    *)
LEMMA RemediationSpends ==
    ASSUME Inv, RejectionInv, NEW authority \in Groups \cup Attempts \cup Dossiers,
           NEW consume \in BOOLEAN, NEW affected, NEW initial,
           StartRemediation(authority, consume, affected, initial),
           authority \in Dossiers => authority.generation = mission.generation
    PROVE  RejectionInv'
  <1> DEFINE after == NextGeneration(initial)
  <1>1. TypeOK /\ NoPending /\ InFlightIsAssigned /\ mission.generation \in Nat
    BY DEF Inv, StartRemediation, Free, TypeOK, Missions
  <1>2. after \in Stores /\ Claim(authority, consume, after)
    BY <1>1, AfterTypes DEF StartRemediation, NextGeneration
  <1>3. ledger'.pending = Intent(authority, consume, after) /\ ~NoPending'
    BY <1>1, <1>2, ClaimFacts
  <1>4. /\ call'.at = "apply" /\ ledger'.consumed = ledger.consumed
    BY <1>1, <1>2 DEF Claim, Goto, TypeOK
  <1>5. Decided = Now /\ Decided' = after
    BY <1>1, <1>3 DEF Decided, Intent
  <1>6. after.mission.generation = mission.generation + 1
    BY <1>1, AllReplayed
  <1>7. \A s \in Story : after.project.status[s] \notin Negative
    <2>1. \A s \in Story : project.status[s] \in Negative => s \in Replay(initial)
      BY <1>1, AllReplayed DEF Negative, InFlight
    <2>2. \A s \in Story : after.project.status[s] =
              IF s \in Replay(initial) THEN "READY" ELSE project.status[s]
      BY <1>1, AllReplayed
    <2> QED
      BY <2>1, <2>2 DEF Negative
  <1>8. Spent' \subseteq Spent \cup {authority}
    BY <1>1, <1>3, <1>4 DEF Spent, Intent
  <1>9. SpentIsOlder'
    <2> SUFFICES ASSUME NEW d \in Spent', d \in Dossiers
                 PROVE  d.generation < Decided'.mission.generation
      BY DEF SpentIsOlder
    <2>1. d.generation \in Nat
      BY DEF Dossiers
    <2>2. d.generation < mission.generation \/ d.generation = mission.generation
      BY <1>5, <1>8 DEF RejectionInv, SpentIsOlder, Now
    <2> QED
      BY <1>1, <1>5, <1>6, <2>1, <2>2
  <1> QED
    BY <1>4, <1>5, <1>7, <1>9 DEF RejectionInv, WritingIsCurrent, NegativeIsKnown, Rejections

(* A technical block spends an attempt, never a verdict of a role.         *)
LEMMA BlockSpends ==
    ASSUME Inv, RejectionInv, NEW t \in attempts, BlockForRecovery(t)
    PROVE  RejectionInv'
  <1> DEFINE after == [mission |-> BlockedMission(t.outcome), project |-> project]
  <1>1. TypeOK /\ NoPending /\ call.at = "idle" /\ t \in Attempts
    BY DEF Inv, TypeOK, BlockForRecovery, Free, At
  <1>2. after \in Stores
    BY <1>1, AfterTypes
  <1>3. Claim(t, t.outcome = "BLOCKED", after)
    BY DEF BlockForRecovery, BlockedMission
  <1>4. ledger'.pending = Intent(t, t.outcome = "BLOCKED", after) /\ ~NoPending'
    <2>1. (t.outcome = "BLOCKED") \in BOOLEAN
      OBVIOUS
    <2> QED
      BY <1>1, <1>2, <1>3, <2>1, ClaimFacts
  <1>5. /\ call'.at = "apply" /\ UNCHANGED << dossiers, interrupted >>
        /\ ledger'.recorded = ledger.recorded /\ ledger'.consumed = ledger.consumed
    BY <1>1, <1>3 DEF Claim, Goto, TypeOK
  <1>6. Decided = Now /\ Decided' = after
    BY <1>1, <1>4 DEF Decided, Intent
  <1>7. after.mission.generation = mission.generation
    BY <1>1 DEF BlockedMission, TypeOK, Missions
  <1>8. \A d \in Spent' : d \in Dossiers => d \in Spent
    <2>1. Spent' \subseteq Spent \cup {t}
      BY <1>1, <1>4, <1>5 DEF Spent, Intent
    <2> QED
      BY <1>1, <2>1, DossierIsNoAttempt
  <1>9. /\ Decided'.mission.generation = Decided.mission.generation
        /\ Decided'.project = Decided.project
    BY <1>6, <1>7 DEF Now
  <1>10. call.at \notin Rejections /\ call'.at \notin Rejections
    BY <1>1, <1>5 DEF Rejections
  <1> QED
    BY <1>5, <1>8, <1>9, <1>10, SameRejections

LEMMA BeginKeepsRejections ==
    ASSUME Inv, RejectionInv, Begin
    PROVE  RejectionInv'
  <1>1. TypeOK /\ CallOK
    BY DEF Inv
  <1>2. ASSUME Untroubled, call.at = "idle", call'.at \notin Rejections, project'.status = project.status
        PROVE  RejectionInv'
    BY <1>2, UntroubledRejections DEF Rejections
  <1>3. ASSUME NEW outcome \in Attempts \cup Dossiers, ledger' = Recorded(outcome), NoPending,
               UNCHANGED << mission, dossiers, interrupted >>
        PROVE  Untroubled
    BY <1>1, <1>3, RecordFacts DEF Untroubled, NoPending
  <1>4. ASSUME NoPending, UNCHANGED << ledger, dossiers, interrupted >>,
               mission'.generation = mission.generation
        PROVE  Untroubled
    BY <1>4 DEF Untroubled, NoPending
  <1>5. ASSUME NEW g, PrepareGroup(g) PROVE RejectionInv'
    BY <1>2, <1>4, <1>5 DEF PrepareGroup, Free, At, Goto, Rejections
  <1>6. ASSUME NEW p \in prepared, SubmitMember(p) \/ FailMember(p) \/ EvaluateGroup(p) \/ RecoverMergedGroup(p)
        PROVE  RejectionInv'
    BY <1>2, <1>4, <1>6
       DEF SubmitMember, FailMember, EndMember, EvaluateGroup, RecoverMergedGroup, Free, At,
           Goto, Rejections
  <1>7. ASSUME NEW t \in attempts, NEW s, MergeGatedGroup(t) \/ AcceptImplementer(t, s)
        PROVE  RejectionInv'
    <2>1. /\ NoPending /\ call.at = "idle" /\ UNCHANGED << mission, project, dossiers, interrupted >>
          /\ call' = call \/ call'.at \in {"observe", "implemented"}
      BY <1>7 DEF MergeGatedGroup, AcceptImplementer, Free, At, Goto
    <2>2. \/ ledger' = ledger
          \/ \E outcome \in {"BLOCKED", "FAILED"} :
                ledger' = Recorded([of |-> t.of, outcome |-> outcome, head |-> Tip])
      BY <1>7 DEF MergeGatedGroup, AcceptImplementer
    <2>3. \A outcome \in {"BLOCKED", "FAILED"} :
              [of |-> t.of, outcome |-> outcome, head |-> Tip] \in Attempts
      BY <1>1, TipFacts DEF TypeOK, Attempts
    <2>4. Untroubled
      BY <1>3, <1>4, <2>1, <2>2, <2>3
    <2> QED
      BY <1>2, <2>1, <2>4 DEF Rejections
  <1>8. ASSUME NEW p \in prepared, RemediateFailedGroup(p) PROVE RejectionInv'
    <2>1. p \in Groups /\ p \notin Dossiers
      BY <1>1, DossierIsNoAttempt DEF TypeOK
    <2> QED
      BY <1>8, <2>1, RemediationSpends DEF RemediateFailedGroup
  <1>9. ASSUME NEW t \in attempts, RemediateIntegration(t) PROVE RejectionInv'
    <2>1. t \in Attempts /\ t \notin Dossiers
      BY <1>1, DossierIsNoAttempt DEF TypeOK
    <2> QED
      BY <1>9, <2>1, RemediationSpends DEF RemediateIntegration
  <1>10. ASSUME NEW d \in dossiers, RemediateDossier(d) PROVE RejectionInv'
    <2>1. d \in Dossiers /\ d.generation = mission.generation
      BY <1>1, <1>10 DEF TypeOK, RemediateDossier, Fresh
    <2> QED
      BY <1>10, <2>1, RemediationSpends DEF RemediateDossier
  <1>11. ASSUME NEW t \in attempts, BlockForRecovery(t) PROVE RejectionInv'
    BY <1>11, BlockSpends
  <1>12. ASSUME NEW d \in dossiers, AcceptRole(d) PROVE RejectionInv'
    <2>1. /\ NoPending /\ call.at = "idle" /\ call' = call /\ ~d.rejected
          /\ UNCHANGED << ledger, mission, interrupted >>
          /\ Move(d.story, d.stage, NextStage[d.stage])
          /\ \A e \in dossiers : e # d => e \in dossiers'
      BY <1>12 DEF AcceptRole, Free, At
    <2>2. NextStage[d.stage] \notin Negative
      BY <1>12 DEF AcceptRole, NextStage, Negative
    <2>3. \A s \in Story : project'.status[s] \in Negative => project.status[s] \in Negative
      BY <1>1, <2>1, <2>2, MovedStatuses
    <2>4. Untroubled
      BY <2>1 DEF Untroubled, NoPending
    <2> QED
      BY <2>1, <2>3, <2>4, UntroubledRejections DEF Rejections
  <1>13. ASSUME NEW d \in dossiers, RejectRole(d) PROVE RejectionInv'
    <2> DEFINE verdict == [d EXCEPT !.rejected = TRUE]
    <2>1. /\ NoPending /\ call.at = "idle" /\ call'.at = "rejected" /\ call'.what = verdict
          /\ UNCHANGED << ledger, dossiers, mission, interrupted >>
          /\ Move(d.story, d.stage, "REJECTED") /\ d.generation = mission.generation
      BY <1>13 DEF RejectRole, Free, At, Goto, Fresh
    <2>2. verdict.story = d.story /\ verdict.generation = d.generation /\ verdict.rejected
      BY <1>1 DEF TypeOK, Dossiers
    <2> HIDE DEF verdict
    <2>3. Untroubled
      BY <2>1 DEF Untroubled, NoPending
    <2>4. /\ Decided = Now /\ Decided' = Now' /\ Spent' = Spent
          /\ Decided'.mission = mission /\ Decided.mission = mission
          /\ Decided'.project = project' /\ Decided.project = project
      BY <2>1, <2>3, UntroubledFacts DEF Now
    <2>5. SpentIsOlder'
      BY <2>4 DEF RejectionInv, SpentIsOlder
    <2>6. WritingIsCurrent'
      BY <2>1, <2>2, <2>4 DEF WritingIsCurrent
    <2>7. ASSUME NEW s \in Story, project'.status[s] \in Negative
          PROVE  \/ Writing(s)'
                 \/ << s, mission.generation >> \in interrupted
                 \/ \E e \in dossiers : Answers(e, s)
      <3>1. CASE s = d.story
        BY <2>1, <2>2, <3>1 DEF Writing, Rejections
      <3>2. CASE s # d.story
        <4>1. project.status[s] \in Negative
          BY <1>1, <2>1, <2>7, <3>2, MovedStatuses
        <4> QED
          BY <2>1, <2>4, <4>1 DEF RejectionInv, NegativeIsKnown, Writing, Rejections
      <3> QED
        BY <3>1, <3>2
    <2>8. NegativeIsKnown'
      BY <2>1, <2>4, <2>7 DEF NegativeIsKnown, Answers
    <2> QED
      BY <2>5, <2>6, <2>8 DEF RejectionInv
  <1>14. ASSUME RecordFact PROVE RejectionInv'
    BY <1>1, <1>2, <1>4, <1>14 DEF RecordFact, Free, At, TypeOK, Projects, Rejections
  <1>15. ASSUME ResumePending PROVE RejectionInv'
    <2>1. /\ call.at = "idle" /\ call'.at = "apply"
          /\ UNCHANGED << mission, project, ledger, dossiers, interrupted >>
      BY <1>15 DEF ResumePending, At, Goto
    <2>2. Decided' = Decided /\ Spent' = Spent
      BY <2>1 DEF Decided, Spent, Now, NoPending
    <2> QED
      BY <2>1, <2>2, SameRejections DEF Rejections
  <1>16. ASSUME ResumeRecovery \/ FinalizeMission PROVE RejectionInv'
    <2>1. /\ NoPending /\ call.at = "idle" /\ call' = call
          /\ UNCHANGED << project, ledger, dossiers, interrupted >>
          /\ mission'.generation = mission.generation
      BY <1>1, <1>16 DEF ResumeRecovery, FinalizeMission, Free, At, TypeOK, Missions
    <2> QED
      BY <1>2, <1>4, <2>1 DEF Rejections
  <1> QED
    BY <1>5, <1>6, <1>7, <1>8, <1>9, <1>10, <1>11, <1>12, <1>13, <1>14, <1>15, <1>16 DEF Begin

LEMMA StepKeepsRejections ==
    ASSUME Inv, RejectionInv, Step \/ Abort \/ OutsideChanges
    PROVE  RejectionInv'
  <1>1. TypeOK /\ CallOK
    BY DEF Inv
  <1>2. call.at \notin Transaction \cup {"idle"} => NoPending
    BY <1>1 DEF CallOK
  <1>3. ASSUME NoPending, call.at \notin Rejections, call'.at \notin Rejections,
               UNCHANGED << mission, ledger, interrupted >>, dossiers \subseteq dossiers',
               \/ project' = project
               \/ \E s, from : \E to \in Status \ Negative : Move(s, from, to)
        PROVE  RejectionInv'
    <2>1. \A s \in Story : project'.status[s] \in Negative => project.status[s] \in Negative
      BY <1>1, <1>3, MovedStatuses
    <2>2. Untroubled
      BY <1>3 DEF Untroubled, NoPending
    <2> QED
      BY <1>3, <2>1, <2>2, UntroubledRejections
  <1>4. ASSUME Decided' = Decided, Spent' = Spent, ledger'.recorded = ledger.recorded,
               UNCHANGED << dossiers, interrupted >>,
               call.at \notin Rejections, call'.at \notin Rejections
        PROVE  RejectionInv'
    BY <1>4, SameRejections
  <1>5. ASSUME NEW s \in Story, Assign(s) PROVE RejectionInv'
    <2>1. /\ call.at = "assign" /\ (call' = call \/ call'.at \in {"assign", "start", "idle"})
          /\ UNCHANGED << mission, project, ledger, dossiers, interrupted >>
      BY <1>5 DEF Assign, At, Goto, Return, Idle
    <2> QED
      BY <1>2, <1>3, <2>1 DEF Rejections, Transaction
  <1>6. ASSUME NEW s \in Story, Start(s) PROVE RejectionInv'
    <2>1. /\ call.at = "start" /\ (call' = call \/ call'.at \in {"start", "idle"})
          /\ UNCHANGED << mission, ledger, dossiers, interrupted >>
      BY <1>6 DEF Start, At, Goto, Return, Idle
    <2>2. \/ project' = project
          \/ Move(s, "PLANNED", "READY") \/ Move(s, "READY", "IN_PROGRESS")
      BY <1>6 DEF Start
    <2>3. \/ project' = project
          \/ \E r, from : \E to \in Status \ Negative : Move(r, from, to)
      BY <2>2 DEF Status, InFlight, Negative
    <2> QED
      BY <1>2, <1>3, <2>1, <2>3 DEF Rejections, Transaction
  <1>7. ASSUME ObserveNewPrimary PROVE RejectionInv'
    <2>1. /\ call.at = "observe" /\ call'.at = "idle"
          /\ UNCHANGED << project, ledger, dossiers, interrupted >>
          /\ mission'.generation = mission.generation
      BY <1>1, <1>7 DEF ObserveNewPrimary, At, Return, Idle, TypeOK, Missions
    <2>2. Untroubled
      BY <1>2, <2>1 DEF Untroubled, NoPending, Transaction
    <2> QED
      BY <2>1, <2>2, UntroubledRejections DEF Rejections
  <1>8. ASSUME Implemented \/ IntoTesting PROVE RejectionInv'
    <2>1. /\ call.at \in {"implemented", "testing"} /\ call'.at \in {"testing", "idle"}
          /\ UNCHANGED << mission, ledger, interrupted >> /\ dossiers \subseteq dossiers'
      BY <1>8 DEF Implemented, IntoTesting, At, Goto, Return, Idle
    <2>2. \/ project' = project
          \/ Move(call.what.story, "IN_PROGRESS", "IMPLEMENTED")
          \/ Move(call.what.story, "IMPLEMENTED", "TESTING")
      BY <1>8 DEF Implemented, IntoTesting
    <2>3. \/ project' = project
          \/ \E r, from : \E to \in Status \ Negative : Move(r, from, to)
      BY <2>2 DEF Status, InFlight, Negative
    <2> QED
      BY <1>2, <1>3, <2>1, <2>3 DEF Rejections, Transaction
  <1>9. ASSUME RequireRemediation PROVE RejectionInv'
    <2>1. /\ call.at = "rejected" /\ call'.at = "record" /\ call'.what = call.what
          /\ UNCHANGED << mission, ledger, dossiers, interrupted >>
          /\ Move(call.what.story, "REJECTED", "REMEDIATION_REQUIRED")
      BY <1>9 DEF RequireRemediation, At, Goto
    <2>2. Untroubled
      BY <1>2, <2>1 DEF Untroubled, NoPending, Transaction
    <2>3. /\ Decided.mission = mission /\ Decided'.mission = mission /\ Spent' = Spent
          /\ Decided.project = project /\ Decided'.project = project'
      BY <2>1, <2>2, UntroubledFacts DEF Now
    <2>4. SpentIsOlder' /\ WritingIsCurrent'
      BY <2>1, <2>3 DEF RejectionInv, SpentIsOlder, WritingIsCurrent, Rejections
    <2>5. \A s \in Story : project'.status[s] \in Negative => project.status[s] \in Negative
      BY <1>1, <2>1, MovedStatuses DEF Negative
    <2>6. \A s : Writing(s) => Writing(s)'
      BY <2>1 DEF Writing, Rejections
    <2>7. NegativeIsKnown'
      BY <2>1, <2>3, <2>5, <2>6 DEF RejectionInv, NegativeIsKnown, Answers
    <2> QED
      BY <2>4, <2>7 DEF RejectionInv
  <1>10. ASSUME RecordNegativeDossier PROVE RejectionInv'
    <2> PICK verdict : verdict = call.what
      OBVIOUS
    <2>1. /\ call.at = "record" /\ call'.at = "idle" /\ ledger' = Recorded(verdict)
          /\ UNCHANGED << mission, project, interrupted >>
          /\ dossiers' = (dossiers \ {[verdict EXCEPT !.rejected = FALSE]}) \cup {verdict}
      BY <1>10 DEF RecordNegativeDossier, At, Return, Idle
    <2>2. verdict \in Dossiers /\ [verdict EXCEPT !.rejected = FALSE].rejected = FALSE
      BY <1>1, <2>1 DEF CallOK, Dossiers
    <2>3. Untroubled
      BY <1>1, <1>2, <2>1, <2>2, RecordFacts DEF Untroubled, NoPending, Transaction
    <2>4. /\ Decided.mission = mission /\ Decided'.mission = mission /\ Spent' = Spent
          /\ Decided.project = project /\ Decided'.project = project
      BY <2>1, <2>3, UntroubledFacts DEF Now
    <2>5. SpentIsOlder' /\ WritingIsCurrent'
      BY <2>1, <2>4 DEF RejectionInv, SpentIsOlder, WritingIsCurrent, Rejections
    <2>6. verdict.rejected /\ verdict.generation = mission.generation
      BY <2>1, <2>4 DEF RejectionInv, WritingIsCurrent, Rejections
    <2>7. verdict \in dossiers' /\ verdict \in ledger'.recorded
      BY <1>1, <2>1, <2>2, RecordFacts
    <2>8. ASSUME NEW s \in Story, Writing(s) PROVE Answers(verdict, s)'
      BY <2>4, <2>6, <2>7, <2>8 DEF Answers, Writing
    <2>9. ASSUME NEW s \in Story, NEW d \in dossiers, Answers(d, s)
          PROVE  d \in dossiers' /\ Answers(d, s)'
      BY <2>3, <2>4, <2>9 DEF Answers, Untroubled
    <2>10. NegativeIsKnown'
      BY <2>1, <2>4, <2>7, <2>8, <2>9 DEF RejectionInv, NegativeIsKnown
    <2> QED
      BY <2>5, <2>10 DEF RejectionInv
  <1>11. ASSUME ApplyProject \/ ApplyMission \/ Finalize PROVE RejectionInv'
    <2>1. /\ call.at \in Transaction /\ call'.at \in {"mission", "finalize", "idle"}
          /\ UNCHANGED << dossiers, interrupted >>
      BY <1>11 DEF ApplyProject, ApplyMission, Finalize, At, Goto, Return, Idle, Transaction
    <2>2. ~NoPending
      BY <1>1, <2>1 DEF CallOK, Transaction
    <2>3. CASE UNCHANGED ledger
      <3>1. Decided' = Decided /\ Spent' = Spent
        BY <2>2, <2>3 DEF Decided, Spent, NoPending
      <3> QED
        BY <1>4, <2>1, <2>3, <3>1 DEF Rejections, Transaction
    <2>4. CASE Finalize
      <3>1. /\ Now = ledger.pending.after /\ UNCHANGED << mission, project >>
            /\ ledger'.pending = None /\ ledger'.recorded = ledger.recorded
            /\ ledger'.consumed = IF ledger.pending.consume
                                  THEN ledger.consumed \cup {ledger.pending.authority}
                                  ELSE ledger.consumed
        BY <1>1, <2>4 DEF Finalize, TypeOK
      <3>2. Decided' = Decided /\ Spent' = Spent
        BY <2>2, <3>1 DEF Decided, Spent, NoPending, Now
      <3> QED
        BY <1>4, <2>1, <3>1, <3>2 DEF Rejections, Transaction
    <2> QED
      BY <1>11, <2>3, <2>4 DEF ApplyProject, ApplyMission
  <1>12. ASSUME Abort PROVE RejectionInv'
    <2>1. /\ call'.at = "idle" /\ UNCHANGED << mission, project, ledger, dossiers >>
          /\ interrupted' = IF call.at \in Rejections
                            THEN interrupted \cup {<< call.what.story, call.what.generation >>}
                            ELSE interrupted
      BY <1>12 DEF Abort, Return, Idle, Rejections
    <2>2. Decided' = Decided /\ Spent' = Spent
      BY <2>1 DEF Decided, Spent, Now, NoPending
    <2>3. SpentIsOlder' /\ WritingIsCurrent'
      BY <2>1, <2>2 DEF RejectionInv, SpentIsOlder, WritingIsCurrent, Rejections
    <2>4. \A s : Writing(s) => << s, Decided.mission.generation >> \in interrupted'
      BY <2>1 DEF RejectionInv, WritingIsCurrent, Writing
    <2>5. NegativeIsKnown'
      BY <2>1, <2>2, <2>4 DEF RejectionInv, NegativeIsKnown, Answers
    <2> QED
      BY <2>3, <2>5 DEF RejectionInv
  <1>13. ASSUME OutsideChanges PROVE RejectionInv'
    <2>1. /\ call.at = "idle" /\ call' = call
          /\ UNCHANGED << mission, ledger, dossiers, interrupted >>
          /\ project'.status = project.status
      BY <1>1, <1>13 DEF OutsideChanges, At, TypeOK, Projects
    <2>2. /\ Decided'.mission = Decided.mission /\ Spent' = Spent
          /\ Decided'.project.status = Decided.project.status
      BY <2>1 DEF Decided, Spent, Now, NoPending
    <2> QED
      BY <2>1, <2>2, SameRejections DEF Rejections
  <1> QED
    BY <1>5, <1>6, <1>7, <1>8, <1>9, <1>10, <1>11, <1>12, <1>13 DEF Step

LEMMA RejectionsStay == Spec => []RejectionInv
  <1>1. Init => RejectionInv
    <2> SUFFICES ASSUME Init PROVE RejectionInv
      OBVIOUS
    <2>1. Decided = Now /\ Spent = {} /\ call.at = "idle"
      BY DEF Init, Decided, Spent, NoPending, Idle
    <2> QED
      BY <2>1 DEF Init, RejectionInv, SpentIsOlder, WritingIsCurrent, NegativeIsKnown, Now,
                  Rejections, Negative
  <1>2. Inv /\ RejectionInv /\ [Next]_vars => RejectionInv'
    <2> SUFFICES ASSUME Inv, RejectionInv, [Next]_vars PROVE RejectionInv'
      OBVIOUS
    <2>1. CASE UNCHANGED vars
      <3>1. Decided' = Decided /\ Spent' = Spent
        BY <2>1 DEF vars, Decided, Spent, Now, NoPending
      <3> QED
        BY <2>1, <3>1 DEF vars, RejectionInv, SpentIsOlder, WritingIsCurrent, NegativeIsKnown,
                          Writing, Answers
    <2> QED
      BY <2>1, BeginKeepsRejections, StepKeepsRejections DEF Next
  <1> QED
    BY <1>1, <1>2, Invariance, PTL DEF Spec

(* Whatever calls die in between, a rejected story has the recorded and    *)
(* unused outcome by which it can be remediated, unless the call that      *)
(* rejected it died before it was recorded.                                *)
THEOREM RejectionHasAuthority == Spec => []RejectionIsAuthorised
  <1>1. Inv /\ RejectionInv => RejectionIsAuthorised
    <2> SUFFICES ASSUME TypeOK, RejectionInv, NoPending, call.at \notin Rejections,
                        NEW s \in Story, project.status[s] \in Negative
                 PROVE  \/ << s, mission.generation >> \in interrupted
                        \/ \E d \in dossiers : /\ d.story = s /\ d.rejected
                                              /\ d.generation = mission.generation
                                              /\ Unconsumed(d)
      BY DEF RejectionIsAuthorised, Rejections, Negative, Inv
    <2>1. Decided = Now /\ Spent = ledger.consumed
      BY DEF Decided, Spent
    <2>2. \/ << s, mission.generation >> \in interrupted
          \/ \E d \in dossiers : Answers(d, s)
      BY <2>1 DEF RejectionInv, NegativeIsKnown, Writing, Now
    <2>3. ASSUME NEW d \in dossiers, Answers(d, s) PROVE d \notin ledger.consumed
      <3>1. d \in Dossiers /\ d.generation \in Nat
        BY DEF TypeOK, Dossiers
      <3>2. d \in ledger.consumed => d.generation < d.generation
        BY <2>1, <2>3, <3>1 DEF RejectionInv, SpentIsOlder, Answers, Now
      <3> QED
        BY <3>1, <3>2
    <2> QED
      BY <2>1, <2>2, <2>3 DEF Answers, Unconsumed, Now
  <1> QED
    BY <1>1, Invariance, RejectionsStay, PTL
=============================================================================
