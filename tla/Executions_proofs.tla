------------------------- MODULE Executions_proofs -------------------------
(***************************************************************************)
(* Theorems about CodexExecution, for any number of members, versions,     *)
(* ledgers, workers and Git states, and about Observability, for any       *)
(* number of processes, executions, revisions, segments and faults: what   *)
(* the executions do to their ledgers, and what is recorded of them.       *)
(***************************************************************************)
EXTENDS CodexExecution, Observability, FiniteSetTheorems, WellFoundedInduction, TLAPS

Waiting == {"idle", "queued", "done"}
Busy    == {"plan", "check", "replace", "inspect", "reinspect", "execute", "launch", "await",
            "observe", "intake"}

Status == {"PLANNED", "RUNNING", "OBSERVED", "VALIDATED", "FAILED", "INTERRUPTED"}
Record == [version : Version, status : Status, after : Git \cup {None}]

(* A ledger holds the records of the members composed with it.             *)
LedgersOK ==
    /\ ledgers = [l \in Ledger |-> ledgers[l]]
    /\ \A l \in Ledger : \A m \in DOMAIN ledgers[l] :
          m \in Member /\ LedgerOf[m] = l /\ ledgers[l][m] \in Record

LocalsOK ==
    /\ call = [m \in Member |-> [version |-> call[m].version, before |-> call[m].before,
                                 record |-> call[m].record, operation |-> call[m].operation]]
    /\ \A m \in Member : call[m].version \in Version

CallsOK ==
    /\ pc \in [Member -> Waiting \cup Busy] /\ launches \in [Member -> Nat]
    /\ LocalsOK

GitOK == \A m \in Member : git[m] \in Git

(* No two calls of the running group write one ledger.                     *)
OneWriter ==
    \A m, n \in Member : pc[m] \in Busy /\ pc[n] \in Busy /\ LedgerOf[m] = LedgerOf[n] => m = n

(* The record of m in its ledger is at s and answers the call of m.        *)
At(m, s) == m \in DOMAIN Own(m) /\ Own(m)[m].version = call[m].version /\ Own(m)[m].status = s

(* What the runtime reported of m.                                         *)
Reported(m) ==
    /\ call[m].record \in Record /\ call[m].record.version = call[m].version
    /\ call[m].record.status \in {"OBSERVED", "FAILED", "INTERRUPTED"}
    /\ call[m].record.status = "OBSERVED" => launches[m] > 0

(* What m is about to write follows what its ledger holds now.             *)
Proposed(m) ==
    /\ call[m].before = Own(m) /\ call[m].record \in Record
    /\ call[m].record.version = call[m].version
    /\ \/ /\ call[m].operation = "PLAN"
          /\ m \notin DOMAIN Own(m) /\ call[m].record.status = "PLANNED"
       \/ /\ call[m].operation = "MARK_RUNNING"
          /\ At(m, "PLANNED") /\ call[m].record.status = "RUNNING"
       \/ call[m].operation = "RECORD_OBSERVATION" /\ At(m, "RUNNING") /\ Reported(m)
       \/ /\ call[m].operation = "RECORD_INTAKE"
          /\ At(m, "OBSERVED") /\ call[m].record.status \in {"VALIDATED", "FAILED"}

(* What a call knows at each of its labels.                                *)
Stage(m) ==
    /\ pc[m] \in {"check", "replace"} => Proposed(m)
    /\ pc[m] = "launch" => At(m, "RUNNING") /\ launches[m] = 0
    /\ pc[m] = "await" => At(m, "RUNNING") /\ launches[m] = 1
    /\ pc[m] = "observe" => At(m, "RUNNING") /\ Reported(m)

(* What the ledger says of the launches of m.                              *)
Launched(m) ==
    /\ launches[m] <= 1
    /\ m \notin DOMAIN Own(m) => launches[m] = 0
    /\ m \in DOMAIN Own(m) => /\ Own(m)[m].status = "PLANNED" => launches[m] = 0
                              /\ Own(m)[m].status \in {"OBSERVED", "VALIDATED"} => launches[m] > 0

(* A call that may still mark its record RUNNING found room for it.        *)
Unmarked(m) ==
    \/ pc[m] \in {"plan", "inspect", "execute"}
    \/ pc[m] \in {"check", "replace"} /\ call[m].operation \in {"PLAN", "MARK_RUNNING"}

Room == \A m \in Member : LedgerOf[m] = BudgetLedger /\ Unmarked(m) =>
            Cardinality(RunningIn(BudgetLedger)) + 1 <= Limit

ExecutionInv ==
    /\ LedgersOK /\ CallsOK /\ GitOK /\ OneWriter
    /\ \A m \in Member : Stage(m) /\ Launched(m)
    /\ Room /\ RunningWithinLimit
---------------------------------------------------------------------------
(* The runs of a ledger are runs of members, finitely many.                *)
LEMMA RunningIsFinite ==
    ASSUME LedgersOK, NEW l \in Ledger
    PROVE  IsFiniteSet(RunningIn(l)) /\ Cardinality(RunningIn(l)) \in Nat
<1>1. RunningIn(l) \subseteq Member
  BY DEF RunningIn, LedgersOK
<1> QED  BY <1>1, CompositionAssumption, FS_Subset, FS_CardinalityType

(* A call that changes its label only.                                     *)
LEMMA LabelFacts ==
    ASSUME CallsOK, NEW m \in Member, NEW label \in Waiting \cup Busy,
           pc' = [pc EXCEPT ![m] = label]
    PROVE  /\ pc' \in [Member -> Waiting \cup Busy] /\ pc'[m] = label
           /\ \A n \in Member \ {m} : pc'[n] = pc[n]
  BY DEF CallsOK

(* A call that changes its locals keeps their shape.                       *)
LEMMA LocalFacts ==
    ASSUME LocalsOK, NEW m \in Member, NEW v \in Version, NEW before, NEW record, NEW operation,
           call' = [n \in Member |-> call'[n]], \A n \in Member \ {m} : call'[n] = call[n],
           call'[m] = [version |-> v, before |-> before, record |-> record,
                       operation |-> operation]
    PROVE  LocalsOK'
<1>1. ASSUME NEW n \in Member
      PROVE  /\ call'[n] = [version |-> call'[n].version, before |-> call'[n].before,
                            record |-> call'[n].record, operation |-> call'[n].operation]
             /\ call'[n].version \in Version
  <2>1. CASE n = m  BY <2>1
  <2>2. CASE n # m
    <3>1. call[n] = [version |-> call[n].version, before |-> call[n].before,
                     record |-> call[n].record, operation |-> call[n].operation]
          /\ call[n].version \in Version
      BY DEF LocalsOK
    <3> QED  BY <2>2, <3>1
  <2> QED  BY <2>1, <2>2
<1> QED  BY <1>1 DEF LocalsOK

LEMMA Shape ==
    ASSUME LocalsOK, NEW m \in Member
    PROVE  call[m] = [version |-> call[m].version, before |-> call[m].before,
                      record |-> call[m].record, operation |-> call[m].operation]
           /\ call[m].version \in Version
  BY DEF LocalsOK

(* How an operation on the locals change them.                      *)
LEMMA BeginFacts ==
    ASSUME LocalsOK, NEW m \in Member, NEW v \in Version,
           call' = [call EXCEPT ![m].version = v]
    PROVE  call'[m].version = v /\ LocalsOK' /\ \A n \in Member \ {m} : call'[n] = call[n]
<1>1. /\ \A n \in Member \ {m} : call'[n] = call[n]
      /\ call' = [n \in Member |-> call'[n]]
      /\ call'[m] = [call[m] EXCEPT !.version = v]
  BY DEF LocalsOK
<1>2. call[m] = [version |-> call[m].version, before |-> call[m].before,
                 record |-> call[m].record, operation |-> call[m].operation]
      /\ call[m].version \in Version
  BY Shape
<1>3. call'[m] = [version |-> v, before |-> call[m].before, record |-> call[m].record,
                  operation |-> call[m].operation]
  BY <1>1, <1>2
<1>4. LocalsOK'
  BY <1>1, <1>2, <1>3, LocalFacts
<1> QED  BY <1>1, <1>3, <1>4

LEMMA ProposeFacts ==
    ASSUME LocalsOK, NEW m \in Member, NEW operation, NEW record,
           Propose(m, operation, record)
    PROVE  /\ call'[m].version = call[m].version /\ call'[m].before = Own(m)
           /\ call'[m].record = record /\ call'[m].operation = operation
           /\ LocalsOK' /\ \A n \in Member \ {m} : call'[n] = call[n]
           /\ pc' = [pc EXCEPT ![m] = "check"]
<1>1. /\ \A n \in Member \ {m} : call'[n] = call[n]
      /\ call' = [n \in Member |-> call'[n]]
      /\ call'[m] = [call[m] EXCEPT !.before = Own(m), !.record = record, !.operation = operation]
      /\ pc' = [pc EXCEPT ![m] = "check"]
  BY DEF LocalsOK, Propose, Goto
<1>2. call[m] = [version |-> call[m].version, before |-> call[m].before,
                 record |-> call[m].record, operation |-> call[m].operation]
      /\ call[m].version \in Version
  BY Shape
<1>3. call'[m] = [version |-> call[m].version, before |-> Own(m), record |-> record,
                  operation |-> operation]
  BY <1>1, <1>2
<1>4. LocalsOK'
  BY <1>1, <1>2, <1>3, LocalFacts
<1> QED  BY <1>1, <1>3, <1>4

LEMMA ObservedFacts ==
    ASSUME LocalsOK, NEW m \in Member, NEW s, NEW g,
           Observed(m, s, g)
    PROVE  /\ call'[m].version = call[m].version
           /\ call'[m].record = [version |-> call[m].version, status |-> s, after |-> g]
           /\ LocalsOK' /\ \A n \in Member \ {m} : call'[n] = call[n]
           /\ pc' = [pc EXCEPT ![m] = "observe"]
<1>1. /\ \A n \in Member \ {m} : call'[n] = call[n]
      /\ call' = [n \in Member |-> call'[n]]
      /\ call'[m] = [call[m] EXCEPT !.record = [version |-> call[m].version, status |-> s,
                                              after |-> g]]
      /\ pc' = [pc EXCEPT ![m] = "observe"]
  BY DEF LocalsOK, Observed, Goto
<1>2. call[m] = [version |-> call[m].version, before |-> call[m].before,
                 record |-> call[m].record, operation |-> call[m].operation]
      /\ call[m].version \in Version
  BY Shape
<1>3. call'[m] = [version |-> call[m].version, before |-> call[m].before,
                  record |-> [version |-> call[m].version, status |-> s, after |-> g],
                  operation |-> call[m].operation]
  BY <1>1, <1>2
<1>4. LocalsOK'
  BY <1>1, <1>2, <1>3, LocalFacts
<1> QED  BY <1>1, <1>3, <1>4
---------------------------------------------------------------------------
(* A step of m: what it may write, and that the other calls stand still.   *)
Labels(m) == \E label \in Waiting \cup Busy : pc' = [pc EXCEPT ![m] = label]

LEMMA Frame ==
    ASSUME CallsOK, NEW m \in Member, Step(m)
    PROVE  /\ CallsOK' /\ Labels(m)
           /\ \A n \in Member \ {m} :
                 pc'[n] = pc[n] /\ call'[n] = call[n] /\ launches'[n] = launches[n]
           /\ ledgers' = ledgers \/ Replace(m)
           /\ git' = git
<1>1. CASE Check(m) \/ Replace(m) \/ WriteFails(m) \/ Inspect(m) \/ RuntimeRaises(m)
  <2>1. Labels(m) /\ call' = call /\ launches' = launches /\ git' = git
        /\ (ledgers' = ledgers \/ Replace(m))
    <3>1. CASE Check(m)  BY <3>1 DEF Check, Goto, Return, Labels, Waiting, Busy
    <3>2. CASE Replace(m)  BY <3>2 DEF Replace, Goto, Return, Answer, Labels, Waiting, Busy
    <3>3. CASE WriteFails(m)  BY <3>3 DEF WriteFails, Return, Labels, Waiting, Busy
    <3>4. CASE Inspect(m)  BY <3>4 DEF Inspect, Goto, Return, Answer, Labels, Waiting, Busy
    <3>5. CASE RuntimeRaises(m)  BY <3>5 DEF RuntimeRaises, Return, Labels, Waiting, Busy
    <3> QED  BY <1>1, <3>1, <3>2, <3>3, <3>4, <3>5
  <2> QED  BY <2>1, LabelFacts DEF CallsOK, LocalsOK, Labels
<1>2. ASSUME NEW v \in Version, Begin(m, v)
      PROVE  CallsOK' /\ Labels(m) /\ launches' = launches /\ git' = git /\ ledgers' = ledgers
             /\ \A n \in Member \ {m} : call'[n] = call[n]
  <2>1. Labels(m) /\ launches' = launches /\ git' = git /\ ledgers' = ledgers
        /\ call' = [call EXCEPT ![m].version = v]
    BY <1>2 DEF Begin, Goto, Return, Labels, Waiting, Busy
  <2> QED  BY <2>1, LabelFacts, BeginFacts DEF CallsOK, Labels
<1>3. CASE Plan(m) \/ Execute(m) \/ RecordObservation(m) \/ Intake(m)
           \/ Launch(m) \/ CodexEnds(m)
  <2>1. git' = git /\ ledgers' = ledgers
        /\ (launches' = launches \/ launches' = [launches EXCEPT ![m] = @ + 1])
        /\ \/ call' = call /\ Labels(m)
           \/ \E operation, record : Propose(m, operation, record)
           \/ \E st, g : Observed(m, st, g)
    <3>1. CASE Plan(m)  BY <3>1 DEF Plan, Goto, Return, Labels, Waiting, Busy
    <3>2. CASE Execute(m)  BY <3>2 DEF Execute, Raise, Return, Labels, Waiting, Busy
    <3>3. CASE RecordObservation(m)
      BY <3>3 DEF RecordObservation, Raise, Return, Labels, Waiting, Busy
    <3>4. CASE Intake(m)  BY <3>4 DEF Intake, Raise, Return, Labels, Waiting, Busy
    <3>5. CASE Launch(m)  BY <3>5 DEF Launch, Goto, Labels, Waiting, Busy
    <3>6. CASE CodexEnds(m)  BY <3>6 DEF CodexEnds
    <3> QED  BY <1>3, <3>1, <3>2, <3>3, <3>4, <3>5, <3>6
  <2>2. /\ launches' \in [Member -> Nat]
        /\ \A n \in Member \ {m} : launches'[n] = launches[n]
    BY <2>1 DEF CallsOK
  <2>3. LocalsOK' /\ Labels(m) /\ \A n \in Member \ {m} : call'[n] = call[n]
    <3>1. CASE call' = call /\ Labels(m)  BY <3>1 DEF CallsOK, LocalsOK
    <3>2. CASE \E operation, record : Propose(m, operation, record)
      BY <3>2, ProposeFacts DEF CallsOK, Labels, Busy
    <3>3. CASE \E st, g : Observed(m, st, g)
      BY <3>3, ObservedFacts DEF CallsOK, Labels, Busy
    <3> QED  BY <2>1, <3>1, <3>2, <3>3
  <2> QED  BY <2>1, <2>2, <2>3, LabelFacts DEF CallsOK, Labels
<1> QED  BY <1>1, <1>2, <1>3, LabelFacts DEF Step, Labels

(* No step lets two calls that share a ledger be busy.                     *)
LEMMA OneWriterKept ==
    ASSUME CallsOK, OneWriter, NEW m \in Member, Step(m)
    PROVE  OneWriter'
<1>1. /\ pc' \in [Member -> Waiting \cup Busy]
      /\ \A n \in Member \ {m} : pc'[n] = pc[n]
  BY Frame DEF CallsOK
<1>2. CASE pc[m] \in Busy
  BY <1>1, <1>2 DEF OneWriter
<1>3. CASE pc[m] \notin Busy
  <2>1. pc[m] = "queued" /\ Cardinality(Active) < Workers
    BY <1>3 DEF Step, Busy, Begin, Plan, Check, Replace, WriteFails, Inspect, Execute, Launch,
                CodexEnds, RuntimeRaises, RecordObservation, Intake
  <2>2. CASE Workers = 1
    <3>1. IsFiniteSet(Active) /\ Cardinality(Active) = 0
      <4>1. IsFiniteSet(Active)
        BY CompositionAssumption, FS_Subset DEF Active
      <4> QED  BY <2>1, <2>2, <4>1, FS_CardinalityType
    <3>2. Active = {}
      BY <3>1, FS_EmptySet
    <3>3. \A n \in Member : pc[n] \notin Busy
      BY <3>2 DEF Active, Busy
    <3> QED  BY <1>1, <3>3 DEF OneWriter
  <2> QED  BY <2>2, WriterAssumption DEF OneWriter
<1> QED  BY <1>2, <1>3
---------------------------------------------------------------------------
(* The one step that writes: the record of m joins or replaces its own.    *)
LEMMA ReplaceFacts ==
    ASSUME LedgersOK, CallsOK, NEW m \in Member, Proposed(m), Replace(m)
    PROVE  /\ LedgersOK'
           /\ \A l \in Ledger \ {LedgerOf[m]} : ledgers'[l] = ledgers[l]
           /\ m \in DOMAIN Own(m)' /\ Own(m)'[m] = call[m].record
           /\ \A n \in Member \ {m} : LedgerOf[n] = LedgerOf[m] =>
                 /\ n \in DOMAIN Own(n)' <=> n \in DOMAIN Own(n)
                 /\ n \in DOMAIN Own(n) => Own(n)'[n] = Own(n)[n]
<1> DEFINE k == LedgerOf[m]
           f == [x \in DOMAIN ledgers[k] \cup {m} |->
                     IF x = m THEN call[m].record ELSE ledgers[k][x]]
<1>1. k \in Ledger /\ call[m].record \in Record /\ call[m].before = ledgers[k]
  BY CompositionAssumption DEF Proposed, Own
<1>2. ledgers' = [ledgers EXCEPT ![k] = f]
  BY <1>1 DEF Replace
<1>3. ledgers' = [l \in Ledger |-> IF l = k THEN f ELSE ledgers[l]]
  BY <1>2 DEF LedgersOK
<1>4. ledgers' = [l \in Ledger |-> ledgers'[l]] /\ ledgers'[k] = f
      /\ \A l \in Ledger \ {k} : ledgers'[l] = ledgers[l]
  BY <1>1, <1>3
<1>5. DOMAIN f = DOMAIN ledgers[k] \cup {m} /\ f[m] = call[m].record
      /\ \A x \in DOMAIN ledgers[k] \ {m} : f[x] = ledgers[k][x]
  OBVIOUS
<1> HIDE DEF f
<1>6. LedgersOK'
  <2> SUFFICES ASSUME NEW l \in Ledger, NEW x \in DOMAIN ledgers'[l]
               PROVE  x \in Member /\ LedgerOf[x] = l /\ ledgers'[l][x] \in Record
    BY <1>4 DEF LedgersOK
  <2>1. CASE l # k  BY <1>4, <2>1 DEF LedgersOK
  <2>2. CASE l = k /\ x = m  BY <1>1, <1>4, <1>5, <2>2
  <2>3. CASE l = k /\ x # m  BY <1>1, <1>4, <1>5, <2>3 DEF LedgersOK
  <2> QED  BY <2>1, <2>2, <2>3
<1> QED  BY <1>1, <1>4, <1>5, <1>6 DEF Own

(* A call that does not step knows and finds what it did.                  *)
LEMMA OthersKept ==
    ASSUME ExecutionInv, NEW m \in Member, Step(m), NEW n \in Member \ {m}
    PROVE  Stage(n)' /\ Launched(n)'
<1>1. pc'[n] = pc[n] /\ call'[n] = call[n] /\ launches'[n] = launches[n]
      /\ (ledgers' = ledgers \/ Replace(m))
  BY Frame DEF ExecutionInv
<1>2. Stage(n) /\ Launched(n) /\ LedgerOf[n] \in Ledger
  BY CompositionAssumption DEF ExecutionInv
<1>3. CASE ledgers' = ledgers \/ (Replace(m) /\ LedgerOf[n] # LedgerOf[m])
  <2>1. ledgers'[LedgerOf[n]] = ledgers[LedgerOf[n]]
    <3>1. CASE ledgers' = ledgers  BY <3>1
    <3>2. CASE Replace(m) /\ LedgerOf[n] # LedgerOf[m]
      <4>1. Proposed(m)
        BY <3>2 DEF ExecutionInv, Stage, Replace
      <4> QED  BY <1>2, <3>2, <4>1, ReplaceFacts DEF ExecutionInv
    <3> QED  BY <1>3, <3>1, <3>2
  <2> QED  BY <1>1, <1>2, <2>1 DEF Stage, Launched, Proposed, Reported, At, Own
<1>4. CASE Replace(m) /\ LedgerOf[n] = LedgerOf[m]
  <2>1. Proposed(m)
    BY <1>4 DEF ExecutionInv, Stage, Replace
  <2>2. /\ n \in DOMAIN Own(n)' <=> n \in DOMAIN Own(n)
        /\ n \in DOMAIN Own(n) => Own(n)'[n] = Own(n)[n]
    BY <1>4, <2>1, ReplaceFacts DEF ExecutionInv
  <2>3. pc[n] \notin Busy
    <3>1. pc[m] \in Busy
      BY <1>4 DEF Replace, Busy
    <3> QED  BY <1>4, <3>1 DEF ExecutionInv, OneWriter
  <2>4. Stage(n)'
    BY <1>1, <2>3 DEF Stage, Busy
  <2> QED  BY <1>1, <1>2, <2>2, <2>4 DEF Launched
<1> QED  BY <1>1, <1>3, <1>4
(* The call that steps keeps what it knows in line with its ledger.        *)
LEMMA OwnKept ==
    ASSUME ExecutionInv, NEW m \in Member, Step(m)
    PROVE  Stage(m)' /\ Launched(m)'
<1>1. /\ LocalsOK /\ CallsOK /\ LedgersOK /\ Stage(m) /\ Launched(m)
      /\ pc \in [Member -> Waiting \cup Busy] /\ launches \in [Member -> Nat]
      /\ call[m].version \in Version /\ LedgerOf[m] \in Ledger
  BY CompositionAssumption DEF ExecutionInv, CallsOK, LocalsOK
<1>2. ASSUME ledgers' = ledgers, launches' = launches, pc' \in [Member -> Waiting \cup Busy],
             pc'[m] \notin {"check", "replace", "launch", "await", "observe"}
      PROVE  Stage(m)' /\ Launched(m)'
  BY <1>1, <1>2 DEF Stage, Launched, Own
<1>3. ASSUME ledgers' = ledgers, launches' = launches, Return(m, "blocked") \/ Return(m, "validated")
      PROVE  Stage(m)' /\ Launched(m)'
  <2>1. pc'[m] = "done"
    BY <1>1, <1>3 DEF Return
  <2> QED  BY <1>1, <1>3, <2>1 DEF Stage, Launched, Own
<1>4. ASSUME NEW operation, NEW record, Propose(m, operation, record),
             ledgers' = ledgers, launches' = launches, record \in Record,
             record.version = call[m].version,
             \/ /\ operation = "PLAN" /\ m \notin DOMAIN Own(m) /\ record.status = "PLANNED"
             \/ operation = "MARK_RUNNING" /\ At(m, "PLANNED") /\ record.status = "RUNNING"
             \/ /\ operation = "RECORD_OBSERVATION" /\ At(m, "RUNNING") /\ Reported(m)
                /\ record = call[m].record
             \/ /\ operation = "RECORD_INTAKE" /\ At(m, "OBSERVED")
                /\ record.status \in {"VALIDATED", "FAILED"}
      PROVE  Stage(m)' /\ Launched(m)'
  <2>1. /\ call'[m].version = call[m].version /\ call'[m].before = Own(m)
        /\ call'[m].record = record /\ call'[m].operation = operation
        /\ pc'[m] = "check"
    BY <1>1, <1>4, ProposeFacts
  <2>2. Own(m)' = Own(m)
    BY <1>4 DEF Own
  <2>3. \A st : At(m, st)' <=> At(m, st)
    BY <2>1, <2>2 DEF At
  <2>4. Reported(m) /\ record = call[m].record => Reported(m)'
    BY <1>4, <2>1 DEF Reported
  <2>5. Proposed(m)'
    BY <1>4, <2>1, <2>2, <2>3, <2>4 DEF Proposed
  <2> QED  BY <1>1, <1>4, <2>1, <2>2, <2>5 DEF Stage, Launched
<1>5. ASSUME NEW st \in {"OBSERVED", "FAILED", "INTERRUPTED"}, NEW g \in Git \cup {None},
             Observed(m, st, g), ledgers' = ledgers, launches' = launches, At(m, "RUNNING"),
             st = "OBSERVED" => launches[m] > 0
      PROVE  Stage(m)' /\ Launched(m)'
  <2>1. /\ call'[m].version = call[m].version /\ pc'[m] = "observe"
        /\ call'[m].record = [version |-> call[m].version, status |-> st, after |-> g]
    BY <1>1, <1>5, ObservedFacts
  <2>2. Own(m)' = Own(m)
    BY <1>5 DEF Own
  <2>3. At(m, "RUNNING")'
    BY <1>5, <2>1, <2>2 DEF At
  <2>4. Reported(m)'
    BY <1>1, <1>5, <2>1 DEF Reported, Record, Status
  <2> QED  BY <1>1, <1>5, <2>1, <2>2, <2>3, <2>4 DEF Stage, Launched
<1>6. CASE \E v \in Version : Begin(m, v)
  <2>1. ledgers' = ledgers /\ launches' = launches /\ pc'[m] \in {"plan", "done"}
        /\ pc' \in [Member -> Waiting \cup Busy]
    BY <1>1, <1>6 DEF Begin, Goto, Return, Waiting, Busy
  <2> QED  BY <1>2, <2>1
<1>7. CASE Plan(m)
  <2>1. ledgers' = ledgers /\ launches' = launches
    BY <1>7 DEF Plan
  <2>2. CASE Goto(m, "inspect")
    <3>1. pc'[m] = "inspect" /\ pc' \in [Member -> Waiting \cup Busy]
      BY <1>1, <2>2 DEF Goto, Busy
    <3> QED  BY <1>2, <2>1, <3>1
  <2>3. CASE Return(m, "blocked")
    BY <1>3, <2>1, <2>3
  <2>4. CASE /\ m \notin DOMAIN Own(m)
             /\ Propose(m, "PLAN", [version |-> call[m].version, status |-> "PLANNED",
                                    after |-> None])
    <3>1. [version |-> call[m].version, status |-> "PLANNED", after |-> None] \in Record
      BY <1>1 DEF Record, Status
    <3> QED  BY <1>4, <2>1, <2>4, <3>1
  <2> QED  BY <1>7, <2>2, <2>3, <2>4 DEF Plan
<1>8. CASE Check(m)
  <2>1. ledgers' = ledgers /\ launches' = launches /\ call' = call /\ Proposed(m)
    BY <1>1, <1>8 DEF Check, Stage
  <2>2. CASE Goto(m, "replace")
    <3>1. pc'[m] = "replace"
      BY <1>1, <2>2 DEF Goto
    <3>2. Proposed(m)'
      BY <2>1 DEF Proposed, Reported, At, Own
    <3> QED  BY <1>1, <2>1, <3>1, <3>2 DEF Stage, Launched, Own
  <2>3. CASE Return(m, "blocked")
    BY <1>3, <2>1, <2>3
  <2> QED  BY <1>8, <2>2, <2>3 DEF Check
<1>9. CASE Replace(m)
  <2>1. launches' = launches /\ call' = call /\ Proposed(m)
    BY <1>1, <1>9 DEF Replace, Stage
  <2>2. m \in DOMAIN Own(m)' /\ Own(m)'[m] = call[m].record
    BY <1>1, <1>9, <2>1, ReplaceFacts
  <2>3. /\ call[m].operation \in {"PLAN", "MARK_RUNNING", "RECORD_OBSERVATION", "RECORD_INTAKE"}
        /\ pc'[m] \in {"inspect", "launch", "reinspect", "done"}
        /\ pc'[m] = "launch" => call[m].operation = "MARK_RUNNING"
    BY <1>1, <1>9 DEF Replace, Goto, Answer, Return
  <2>4. Launched(m)'
    BY <1>1, <2>1, <2>2 DEF Launched, Proposed, Reported, At
  <2>5. pc'[m] = "launch" => At(m, "RUNNING")' /\ launches'[m] = 0
    BY <1>1, <2>1, <2>2, <2>3 DEF Launched, Proposed, At
  <2> QED  BY <2>3, <2>4, <2>5 DEF Stage
<1>10. CASE WriteFails(m) \/ RuntimeRaises(m)
  BY <1>3, <1>10 DEF WriteFails, RuntimeRaises
<1>11. CASE Inspect(m)
  <2>1. ledgers' = ledgers /\ launches' = launches /\ pc'[m] \in {"execute", "intake", "done"}
        /\ pc' \in [Member -> Waiting \cup Busy]
    BY <1>1, <1>11 DEF Inspect, Goto, Answer, Return, Waiting, Busy
  <2> QED  BY <1>2, <2>1
<1>12. CASE Execute(m)
  <2>1. ledgers' = ledgers /\ launches' = launches
    BY <1>12 DEF Execute
  <2>2. CASE Raise(m)
    BY <1>3, <2>1, <2>2 DEF Raise
  <2>3. CASE /\ HasOwn(m) /\ Own(m)[m].status = "PLANNED"
             /\ Propose(m, "MARK_RUNNING", [Own(m)[m] EXCEPT !.status = "RUNNING"])
    <3>1. Own(m)[m] \in Record
      BY <1>1, <2>3 DEF LedgersOK, HasOwn, Own
    <3>2. /\ [Own(m)[m] EXCEPT !.status = "RUNNING"] \in Record
          /\ [Own(m)[m] EXCEPT !.status = "RUNNING"].version = Own(m)[m].version
          /\ [Own(m)[m] EXCEPT !.status = "RUNNING"].status = "RUNNING"
      BY <3>1 DEF Record, Status
    <3>3. At(m, "PLANNED")
      BY <2>3 DEF At, HasOwn
    <3> QED  BY <1>4, <2>1, <2>3, <3>2, <3>3 DEF HasOwn
  <2> QED  BY <1>12, <2>2, <2>3 DEF Execute
<1>13. CASE Launch(m)
  <2>1. ledgers' = ledgers /\ At(m, "RUNNING") /\ launches[m] = 0
    BY <1>1, <1>13 DEF Launch, Stage
  <2>2. CASE launches' = [launches EXCEPT ![m] = @ + 1] /\ Goto(m, "await") /\ UNCHANGED call
    <3>1. launches'[m] = 1 /\ pc'[m] = "await"
      BY <1>1, <2>1, <2>2 DEF Goto
    <3>2. At(m, "RUNNING")'
      BY <2>1, <2>2 DEF At, Own
    <3> QED  BY <3>1, <3>2 DEF Stage, Launched, At
  <2>3. CASE \E st \in {"FAILED", "INTERRUPTED"} : Observed(m, st, None) /\ UNCHANGED launches
    BY <1>5, <2>1, <2>3
  <2> QED  BY <1>13, <2>2, <2>3 DEF Launch
<1>14. CASE CodexEnds(m)
  <2>1. ledgers' = ledgers /\ launches' = launches /\ At(m, "RUNNING") /\ launches[m] > 0
    BY <1>1, <1>14 DEF CodexEnds, Stage
  <2>2. git[m] \in Git
    BY DEF ExecutionInv, GitOK
  <2> QED  BY <1>5, <1>14, <2>1, <2>2 DEF CodexEnds
<1>15. CASE RecordObservation(m)
  <2>1. ledgers' = ledgers /\ launches' = launches /\ At(m, "RUNNING") /\ Reported(m)
    BY <1>1, <1>15 DEF RecordObservation, Stage
  <2>2. CASE Raise(m)
    BY <1>3, <2>1, <2>2 DEF Raise
  <2>3. CASE Propose(m, "RECORD_OBSERVATION", call[m].record)
    BY <1>4, <2>1, <2>3 DEF Reported
  <2> QED  BY <1>15, <2>2, <2>3 DEF RecordObservation
<1>16. CASE Intake(m)
  <2>1. ledgers' = ledgers /\ launches' = launches
    BY <1>16 DEF Intake
  <2>2. CASE Raise(m)
    BY <1>3, <2>1, <2>2 DEF Raise
  <2>3. ASSUME NEW st \in {"VALIDATED", "FAILED"}, HasOwn(m), Own(m)[m].status = "OBSERVED",
               Propose(m, "RECORD_INTAKE", [Own(m)[m] EXCEPT !.status = st])
        PROVE  Stage(m)' /\ Launched(m)'
    <3>1. Own(m)[m] \in Record
      BY <1>1, <2>3 DEF LedgersOK, HasOwn, Own
    <3>2. /\ [Own(m)[m] EXCEPT !.status = st] \in Record
          /\ [Own(m)[m] EXCEPT !.status = st].version = Own(m)[m].version
          /\ [Own(m)[m] EXCEPT !.status = st].status = st
      BY <3>1 DEF Record, Status
    <3>3. At(m, "OBSERVED")
      BY <2>3 DEF At, HasOwn
    <3> QED  BY <1>4, <2>1, <2>3, <3>2, <3>3 DEF HasOwn
  <2> QED  BY <1>16, <2>2, <2>3 DEF Intake
<1> QED  BY <1>6, <1>7, <1>8, <1>9, <1>10, <1>11, <1>12, <1>13, <1>14, <1>15, <1>16 DEF Step
---------------------------------------------------------------------------
(* The budget.  The runs of its ledger grow by a marked record only.       *)
Marks(m) == Replace(m) /\ LedgerOf[m] = BudgetLedger /\ call[m].operation = "MARK_RUNNING"

LEMMA RunningGrows ==
    ASSUME ExecutionInv, NEW m \in Member, Step(m)
    PROVE  /\ LedgersOK'
           /\ RunningIn(BudgetLedger)' \subseteq RunningIn(BudgetLedger) \cup {m}
           /\ ~Marks(m) => RunningIn(BudgetLedger)' \subseteq RunningIn(BudgetLedger)
<1>1. LedgersOK /\ CallsOK /\ Stage(m) /\ BudgetLedger \in Ledger
      /\ (ledgers' = ledgers \/ Replace(m))
  BY CompositionAssumption, Frame DEF ExecutionInv
<1>2. CASE ledgers' = ledgers
  BY <1>1, <1>2 DEF LedgersOK, RunningIn
<1>3. CASE Replace(m)
  <2>1. Proposed(m)
    BY <1>1, <1>3 DEF Replace, Stage
  <2>2. /\ LedgersOK'
        /\ \A l \in Ledger \ {LedgerOf[m]} : ledgers'[l] = ledgers[l]
        /\ Own(m)'[m] = call[m].record
        /\ \A n \in Member \ {m} : LedgerOf[n] = LedgerOf[m] =>
              /\ n \in DOMAIN Own(n)' <=> n \in DOMAIN Own(n)
              /\ n \in DOMAIN Own(n) => Own(n)'[n] = Own(n)[n]
    BY <1>1, <1>3, <2>1, ReplaceFacts
  <2>3. CASE LedgerOf[m] # BudgetLedger
    BY <1>1, <2>2, <2>3 DEF RunningIn
  <2>4. CASE LedgerOf[m] = BudgetLedger
    <3>1. ASSUME NEW n \in RunningIn(BudgetLedger)'
          PROVE  n \in RunningIn(BudgetLedger) \/ (n = m /\ Marks(m))
      <4>1. n \in DOMAIN ledgers'[BudgetLedger] /\ ledgers'[BudgetLedger][n].status = "RUNNING"
            /\ n \in Member /\ LedgerOf[n] = BudgetLedger
        BY <1>1, <2>2, <3>1 DEF RunningIn, LedgersOK
      <4>2. CASE n = m
        <5>1. call[m].record.status = "RUNNING"
          BY <2>2, <2>4, <4>1, <4>2 DEF Own
        <5>2. call[m].operation = "MARK_RUNNING"
          BY <2>1, <5>1 DEF Proposed, Reported
        <5> QED  BY <1>3, <2>4, <4>2, <5>2 DEF Marks
      <4>3. CASE n # m
        BY <2>2, <2>4, <4>1, <4>3 DEF Own, RunningIn
      <4> QED  BY <4>2, <4>3
    <3> QED  BY <2>2, <3>1
  <2> QED  BY <2>3, <2>4
<1> QED  BY <1>1, <1>2, <1>3

(* A call is let in on room, and has marked its record when it leaves.     *)
LEMMA UnmarkedEarlier ==
    ASSUME CallsOK, NEW m \in Member, Step(m), Unmarked(m)'
    PROVE  \/ Unmarked(m) /\ ~Marks(m)
           \/ Cardinality(RunningIn(BudgetLedger)) + 1 <= Limit /\ ledgers' = ledgers
<1>1. pc \in [Member -> Waiting \cup Busy] /\ LocalsOK
  BY DEF CallsOK
<1>2. CASE \E v \in Version : Begin(m, v)
  <2>1. ledgers' = ledgers /\ (WithinLimit(1) \/ pc'[m] = "done")
    BY <1>1, <1>2 DEF Begin, Return
  <2> QED  BY <2>1 DEF WithinLimit, Unmarked
<1>3. CASE Plan(m) \/ Execute(m)
  BY <1>3 DEF Plan, Execute, Unmarked, Marks, Replace
<1>4. CASE Check(m)
  BY <1>1, <1>4 DEF Check, Goto, Return, Unmarked, Marks, Replace
<1>5. CASE Replace(m)
  BY <1>1, <1>5 DEF Replace, Goto, Answer, Return, Unmarked, Marks
<1>6. CASE Inspect(m)
  BY <1>1, <1>6 DEF Inspect, Goto, Answer, Return, Unmarked, Marks, Replace
<1>7. ASSUME NEW operation \in {"RECORD_OBSERVATION", "RECORD_INTAKE"}, NEW record,
             Propose(m, operation, record)
      PROVE  FALSE
  <2>1. call'[m].operation = operation /\ pc'[m] = "check"
    BY <1>1, <1>7, ProposeFacts
  <2> QED  BY <2>1 DEF Unmarked
<1>8. ASSUME Return(m, "blocked") PROVE FALSE
  BY <1>1, <1>8 DEF Return, Unmarked
<1>9. CASE RecordObservation(m) \/ Intake(m)
  BY <1>7, <1>8, <1>9 DEF RecordObservation, Intake, Raise
<1>10. CASE WriteFails(m) \/ RuntimeRaises(m)
  BY <1>8, <1>10 DEF WriteFails, RuntimeRaises
<1>11. CASE Launch(m) \/ CodexEnds(m)
  <2>1. Goto(m, "await") \/ \E st, g : Observed(m, st, g)
    BY <1>11 DEF Launch, CodexEnds
  <2>2. pc'[m] \in {"await", "observe"}
    BY <1>1, <2>1, ObservedFacts DEF Goto
  <2> QED  BY <2>2 DEF Unmarked
<1> QED  BY <1>2, <1>3, <1>4, <1>5, <1>6, <1>9, <1>10, <1>11 DEF Step

LEMMA RoomKept ==
    ASSUME ExecutionInv, NEW m \in Member, Step(m)
    PROVE  Room' /\ RunningWithinLimit'
<1> DEFINE R == RunningIn(BudgetLedger)
<1>1. /\ IsFiniteSet(R) /\ Cardinality(R) \in Nat /\ Cardinality(R) <= Limit /\ Limit \in Nat
      /\ LedgersOK' /\ R' \subseteq R \cup {m} /\ (~Marks(m) => R' \subseteq R)
      /\ IsFiniteSet(R') /\ Cardinality(R') \in Nat
  <2>1. LedgersOK' /\ R' \subseteq R \cup {m} /\ (~Marks(m) => R' \subseteq R)
    BY RunningGrows
  <2>2. IsFiniteSet(R) /\ Cardinality(R) \in Nat
    BY CompositionAssumption, RunningIsFinite DEF ExecutionInv
  <2>3. IsFiniteSet(R') /\ Cardinality(R') \in Nat
    <3>1. IsFiniteSet(R \cup {m})
      BY <2>2, FS_AddElement
    <3> QED  BY <2>1, <3>1, FS_Subset, FS_CardinalityType
  <2> QED  BY <2>1, <2>2, <2>3, CompositionAssumption DEF ExecutionInv, RunningWithinLimit
<1>2. \A n \in Member \ {m} : pc'[n] = pc[n] /\ call'[n] = call[n]
  BY Frame DEF ExecutionInv
<1> HIDE DEF R
<1>3. CASE ~Marks(m)
  <2>1. Cardinality(R') <= Cardinality(R)
    BY <1>1, <1>3, FS_Subset
  <2>2. ASSUME NEW n \in Member, LedgerOf[n] = BudgetLedger, Unmarked(n)'
        PROVE  Cardinality(R) + 1 <= Limit
    <3>1. CASE n # m
      <4>1. Unmarked(n)
        BY <1>2, <2>2, <3>1 DEF Unmarked
      <4> QED  BY <2>2, <4>1 DEF ExecutionInv, Room, R
    <3>2. CASE n = m
      <4>1. Unmarked(m) \/ Cardinality(RunningIn(BudgetLedger)) + 1 <= Limit
        BY <2>2, <3>2, UnmarkedEarlier DEF ExecutionInv
      <4> QED  BY <2>2, <3>2, <4>1 DEF ExecutionInv, Room, R
    <3> QED  BY <3>1, <3>2
  <2> QED  BY <1>1, <2>1, <2>2 DEF Room, RunningWithinLimit, R
<1>4. CASE Marks(m)
  <2>1. Cardinality(R) + 1 <= Limit
    <3>1. Unmarked(m) /\ LedgerOf[m] = BudgetLedger
      BY <1>4 DEF Marks, Unmarked, Replace
    <3> QED  BY <3>1 DEF ExecutionInv, Room, R
  <2>2. Cardinality(R') <= Limit
    <3>1. Cardinality(R \cup {m}) <= Cardinality(R) + 1 /\ IsFiniteSet(R \cup {m})
          /\ Cardinality(R \cup {m}) \in Nat
      <4>1. IsFiniteSet(R \cup {m})
            /\ (Cardinality(R \cup {m}) = Cardinality(R)
                \/ Cardinality(R \cup {m}) = Cardinality(R) + 1)
        BY <1>1, FS_AddElement
      <4> QED  BY <1>1, <4>1
    <3>2. Cardinality(R') <= Cardinality(R \cup {m})
      BY <1>1, <3>1, FS_Subset
    <3> QED  BY <1>1, <2>1, <3>1, <3>2
  <2>3. ASSUME NEW n \in Member, LedgerOf[n] = BudgetLedger, Unmarked(n)'
        PROVE  FALSE
    <3>1. CASE n = m
      <4>1. pc'[m] = "launch"
        BY <1>4 DEF Marks, Replace, Goto, ExecutionInv, CallsOK
      <4> QED  BY <2>3, <3>1, <4>1 DEF Unmarked
    <3>2. CASE n # m
      <4>1. pc[n] \in Busy /\ pc[m] \in Busy
        BY <1>2, <1>4, <2>3, <3>2 DEF Unmarked, Busy, Marks, Replace
      <4> QED  BY <1>4, <2>3, <3>2, <4>1 DEF Marks, ExecutionInv, OneWriter
    <3> QED  BY <3>1, <3>2
  <2> QED  BY <2>2, <2>3 DEF Room, RunningWithinLimit, R
<1> QED  BY <1>3, <1>4
---------------------------------------------------------------------------
(* The invariant holds initially and every step keeps it.                  *)
LEMMA InitEstablishes ==
    ASSUME Init
    PROVE  ExecutionInv
<1>1. \A l \in Ledger : ledgers[l] = << >> /\ DOMAIN ledgers[l] = {}
  BY DEF Init
<1>2. LedgersOK
  BY <1>1 DEF Init, LedgersOK
<1>3. NoCall.version \in Version
  BY CompositionAssumption DEF NoCall
<1>4. LocalsOK
  BY <1>3 DEF Init, LocalsOK, NoCall
<1>5. CallsOK /\ GitOK /\ OneWriter
  BY <1>4, CompositionAssumption DEF Init, CallsOK, GitOK, Git, OneWriter, Waiting, Busy
<1>6. ASSUME NEW m \in Member PROVE Stage(m) /\ Launched(m)
  BY <1>1, CompositionAssumption DEF Init, Stage, Launched, Own
<1>7. RunningIn(BudgetLedger) = {}
  BY <1>1, CompositionAssumption DEF RunningIn
<1>8. Room /\ RunningWithinLimit
  BY <1>7, FS_EmptySet, CompositionAssumption DEF Init, Room, RunningWithinLimit, Unmarked
<1> QED  BY <1>2, <1>5, <1>6, <1>8 DEF ExecutionInv

(* What the group does as a whole touches no ledger and ends every call.   *)
LEMMA GroupKeeps ==
    ASSUME ExecutionInv, StartGroup \/ GroupEnds \/ Crash
    PROVE  ExecutionInv'
<1>1. /\ ledgers' = ledgers /\ git' = git /\ launches' = launches
      /\ pc' \in [Member -> Waiting] /\ \A m \in Member : pc'[m] \in Waiting
      /\ call' = call \/ call' = [m \in Member |-> NoCall]
  BY DEF StartGroup, GroupEnds, Crash, Waiting
<1>2. NoCall.version \in Version
  BY CompositionAssumption DEF NoCall
<1>3. LocalsOK'
  <2>1. CASE call' = call  BY <2>1 DEF ExecutionInv, CallsOK, LocalsOK
  <2>2. CASE call' = [m \in Member |-> NoCall]  BY <1>2, <2>2 DEF LocalsOK, NoCall
  <2> QED  BY <1>1, <2>1, <2>2
<1>4. CallsOK' /\ LedgersOK' /\ GitOK'
  BY <1>1, <1>3 DEF ExecutionInv, CallsOK, LedgersOK, GitOK
<1>5. OneWriter' /\ \A m \in Member : Stage(m)' /\ ~Unmarked(m)'
  BY <1>1 DEF OneWriter, Stage, Unmarked, Waiting, Busy
<1>6. ASSUME NEW m \in Member PROVE Launched(m)'
  BY <1>1 DEF ExecutionInv, Launched, Own
<1>7. RunningWithinLimit' /\ Room'
  BY <1>1, <1>5 DEF ExecutionInv, RunningWithinLimit, RunningIn, Room
<1> QED  BY <1>4, <1>5, <1>6, <1>7 DEF ExecutionInv

(* Neither does whoever changes a worktree.                                *)
LEMMA GitKeeps ==
    ASSUME ExecutionInv, NEW m \in Member, GitChanges(m)
    PROVE  ExecutionInv'
<1>1. GitOK' /\ UNCHANGED << ledgers, pc, call, launches >>
  BY DEF GitChanges, ExecutionInv, GitOK
<1>2. ASSUME NEW n \in Member PROVE Stage(n)' /\ Launched(n)'
  BY <1>1 DEF ExecutionInv, Stage, Launched, Proposed, Reported, At, Own
<1>3. CallsOK' /\ LedgersOK' /\ OneWriter'
  BY <1>1 DEF ExecutionInv, CallsOK, LocalsOK, LedgersOK, OneWriter
<1>4. RunningWithinLimit' /\ Room'
  BY <1>1 DEF ExecutionInv, RunningWithinLimit, RunningIn, Room, Unmarked
<1> QED  BY <1>1, <1>2, <1>3, <1>4 DEF ExecutionInv

LEMMA StepKeeps ==
    ASSUME ExecutionInv, NEW m \in Member, Step(m)
    PROVE  ExecutionInv'
<1>1. CallsOK' /\ GitOK'
  BY Frame DEF ExecutionInv, GitOK
<1>2. OneWriter'
  BY OneWriterKept DEF ExecutionInv
<1>3. ASSUME NEW n \in Member PROVE Stage(n)' /\ Launched(n)'
  <2>1. CASE n = m  BY <2>1, OwnKept
  <2>2. CASE n # m  BY <2>2, OthersKept
  <2> QED  BY <2>1, <2>2
<1>4. LedgersOK' /\ Room' /\ RunningWithinLimit'
  BY RunningGrows, RoomKept
<1> QED  BY <1>1, <1>2, <1>3, <1>4 DEF ExecutionInv

LEMMA Inductive == Init /\ [][Next]_vars => []ExecutionInv
<1>1. Init => ExecutionInv
  BY InitEstablishes
<1>2. ExecutionInv /\ [Next]_vars => ExecutionInv'
  <2> SUFFICES ASSUME ExecutionInv, [Next]_vars PROVE ExecutionInv'
    OBVIOUS
  <2>1. CASE UNCHANGED vars
    <3>1. UNCHANGED << ledgers, pc, call, git, launches >>
      BY <2>1 DEF vars
    <3>2. ASSUME NEW n \in Member PROVE Stage(n)' /\ Launched(n)'
      BY <3>1 DEF ExecutionInv, Stage, Launched, Proposed, Reported, At, Own
    <3> QED  BY <3>1, <3>2 DEF ExecutionInv, CallsOK, LocalsOK, GitOK, LedgersOK, OneWriter,
                               RunningWithinLimit, RunningIn, Room, Unmarked
  <2>2. CASE StartGroup \/ GroupEnds \/ Crash
    BY <2>2, GroupKeeps
  <2>3. CASE \E m \in Member : Step(m)
    BY <2>3, StepKeeps
  <2>4. CASE \E m \in Member : GitChanges(m)
    BY <2>4, GitKeeps
  <2> QED  BY <2>1, <2>2, <2>3, <2>4 DEF Next
<1> QED  BY <1>1, <1>2, PTL
---------------------------------------------------------------------------
(* Codex is started at most once for a request, whatever crashes and       *)
(* restarts happen (RestartSafeCodexExecutionService.execute).             *)
THEOREM LaunchesOnce == Spec => []LaunchedAtMostOnce
<1>1. ExecutionInv => LaunchedAtMostOnce
  BY DEF ExecutionInv, Launched, LaunchedAtMostOnce
<1> QED  BY <1>1, Inductive, PTL DEF Spec

(* The uncertain and the live runs of a ledger stay within the configured  *)
(* limit (ExecutionBudgetBoundary.authorize).                              *)
THEOREM WithinBudget == Spec => []RunningWithinLimit
<1>1. ExecutionInv => RunningWithinLimit
  BY DEF ExecutionInv
<1> QED  BY <1>1, Inductive, PTL DEF Spec

(* A VALIDATED record stems from a process that was started                *)
(* (execution_recovery._observation_status).                               *)
THEOREM NothingFabricated == Spec => []NoFabricatedSuccess
<1>1. ASSUME ExecutionInv, NEW l \in Ledger, NEW m \in DOMAIN ledgers[l],
             ledgers[l][m].status = "VALIDATED"
      PROVE  launches[m] > 0
  <2>1. m \in Member /\ LedgerOf[m] = l
    BY <1>1 DEF ExecutionInv, LedgersOK
  <2> QED  BY <1>1, <2>1 DEF ExecutionInv, Launched, Own
<1>2. ExecutionInv => NoFabricatedSuccess
  BY <1>1 DEF NoFabricatedSuccess
<1> QED  BY <1>2, Inductive, PTL DEF Spec

(* What a ledger holds only moves forward: the snapshot a write replaces   *)
(* is still what is there (ExecutionStateStore._replace_authorized).       *)
LEMMA ForwardStep ==
    ASSUME ExecutionInv, NEW m \in Member, Step(m)
    PROVE  LifecycleStep
<1> SUFFICES ASSUME NEW l \in Ledger, NEW n \in DOMAIN ledgers[l]
             PROVE  /\ n \in DOMAIN ledgers'[l]
                    /\ ledgers'[l][n].version = ledgers[l][n].version
                    /\ \/ ledgers'[l][n] = ledgers[l][n]
                       \/ ledgers'[l][n].status \in Successor(ledgers[l][n].status)
  BY DEF LifecycleStep
<1>1. CASE ledgers' = ledgers
  BY <1>1
<1>2. CASE Replace(m)
  <2>1. Proposed(m) /\ n \in Member /\ LedgerOf[n] = l
    BY <1>2 DEF ExecutionInv, LedgersOK, Stage, Replace
  <2>2. /\ \A k \in Ledger \ {LedgerOf[m]} : ledgers'[k] = ledgers[k]
        /\ m \in DOMAIN Own(m)' /\ Own(m)'[m] = call[m].record
        /\ \A x \in Member \ {m} : LedgerOf[x] = LedgerOf[m] =>
              /\ x \in DOMAIN Own(x)' <=> x \in DOMAIN Own(x)
              /\ x \in DOMAIN Own(x) => Own(x)'[x] = Own(x)[x]
    BY <1>2, <2>1, ReplaceFacts DEF ExecutionInv
  <2>3. CASE l # LedgerOf[m]
    BY <2>2, <2>3
  <2>4. CASE l = LedgerOf[m] /\ n # m
    BY <2>1, <2>2, <2>4 DEF Own
  <2>5. CASE n = m
    <3>1. /\ m \in DOMAIN Own(m) /\ call[m].record.version = Own(m)[m].version
          /\ \/ Own(m)[m].status = "PLANNED" /\ call[m].record.status = "RUNNING"
             \/ /\ Own(m)[m].status = "RUNNING"
                /\ call[m].record.status \in {"OBSERVED", "FAILED", "INTERRUPTED"}
             \/ /\ Own(m)[m].status = "OBSERVED"
                /\ call[m].record.status \in {"VALIDATED", "FAILED"}
      BY <2>1, <2>5 DEF Proposed, Reported, At, Own
    <3>2. call[m].record.status \in Successor(Own(m)[m].status)
      BY <3>1 DEF Successor
    <3> QED  BY <2>1, <2>2, <2>5, <3>1, <3>2 DEF Own
  <2> QED  BY <2>1, <2>3, <2>4, <2>5
<1> QED  BY <1>1, <1>2, Frame DEF ExecutionInv

(* Whatever member writes its ledger, and however often the process died   *)
(* before: every record keeps its context and only moves along its         *)
(* lifecycle (ExecutionStateStore._replace_authorized).                    *)
THEOREM ForwardOnly == Spec => LedgerLifecycle
<1>1. ExecutionInv /\ [Next]_vars => [LifecycleStep]_vars
  <2> SUFFICES ASSUME ExecutionInv, Next PROVE LifecycleStep
    BY DEF LifecycleStep
  <2>1. CASE \E m \in Member : Step(m)
    BY <2>1, ForwardStep
  <2>2. CASE ledgers' = ledgers
    BY <2>2 DEF LifecycleStep
  <2> QED  BY <2>1, <2>2 DEF Next, StartGroup, GroupEnds, Crash, GitChanges
<1> QED  BY <1>1, Inductive, PTL DEF Spec, LedgerLifecycle
---------------------------------------------------------------------------
(* The event journal and what is observed through it, for any number of    *)
(* processes, executions, evidence, revisions, segments and faults.        *)

Decisions == [state : OpenStates \union {"RESOLVED"}, by : Responder]

Chain == Seq(Decisions) \ {<< >>}

Event ==
    [execution : Execution, operation : {"STARTED", "FINISHED"}]
        \union [evidence : Evidence] \union [incident : Chain]

JournalType ==
    /\ entries \in Seq(Event) /\ ended \in Seq(Execution) /\ evidence \in Seq(Evidence)
    /\ session = [c \in Caller |-> [at |-> session[c].at, event |-> session[c].event]]
    /\ \A c \in Caller : session[c].at \in Steps

(* One process at most is past the creation of the lock file.              *)
LockInv ==
    /\ \A c \in Caller : HoldsLock(c) => writerLock
    /\ \A c, d \in Caller : HoldsLock(c) /\ HoldsLock(d) => c = d

(* An event of an execution is one of an execution that has ended.         *)
Grounded(e) == e \in Event /\ (IsExecution(e) => \E k \in 1 .. Len(ended) : ended[k] = e.execution)

GroundInv ==
    /\ \A i \in 1 .. Len(entries) : Grounded(entries[i])
    /\ \A c \in Caller : session[c].at \notin {"idle", "read"} => Grounded(session[c].event)

ListInv ==
    /\ IsInjective(entries)
    /\ \A c \in Caller : session[c].at = "write" => ~Listed(session[c].event)
    /\ \A c \in Caller : session[c].at = "release" => Listed(session[c].event)
    /\ \A e \in receipts : Listed(e)

JournalInv == JournalType /\ LockInv /\ GroundInv /\ ListInv /\ IsInjective(ended)

LEMMA LeastPlace ==
    ASSUME NEW S \in SUBSET Nat, S # {}
    PROVE  Min(S) \in S /\ \A m \in S : Min(S) <= m
<1>1. PICK n \in S : \A m \in S : ~(<<m, n>> \in OpToRel(<, Nat))
  BY NatLessThanWellFounded, WFMin
<1>2. \A m \in S : ~(m < n)
  BY <1>1 DEF OpToRel
<1>3. \A m \in S : n <= m
  BY <1>2
<1> QED  BY <1>3 DEF Min

LEMMA LastPlace ==
    ASSUME NEW n \in Nat, NEW S \in SUBSET (1 .. n), S # {}
    PROVE  Max(S) \in S /\ \A m \in S : m <= Max(S)
<1> DEFINE R == {b \in Nat : \A m \in S : m <= b}
<1>1. n \in R /\ R \in SUBSET Nat
  OBVIOUS
<1>2. PICK b \in R : \A r \in R : b <= r
  BY <1>1, LeastPlace
<1>3. b \in S
  <2> SUFFICES ASSUME b \notin S PROVE FALSE
    OBVIOUS
  <2>1. b \in Nat /\ \A m \in S : m \in Nat /\ m >= 1 /\ m < b
    BY <1>2
  <2>2. b - 1 \in Nat
    <3>1. PICK m \in S : TRUE
      OBVIOUS
    <3>2. m \in Nat /\ m >= 1 /\ m < b
      BY <2>1, <3>1
    <3> QED  BY <2>1, <3>2
  <2>3. b - 1 \in R
    BY <2>1, <2>2
  <2> QED  BY <1>2, <2>1, <2>3
<1> QED  BY <1>2, <1>3 DEF Max

(* The shapes of an event tell them apart.                                 *)
LEMMA EventShapes ==
    ASSUME NEW e \in Event
    PROVE  /\ IsRevision(e) <=> e \in [incident : Chain]
           /\ IsExecution(e) <=> e \in [execution : Execution, operation : {"STARTED", "FINISHED"}]
<1>1. CASE e \in [execution : Execution, operation : {"STARTED", "FINISHED"}]
  <2>1. DOMAIN e = {"execution", "operation"}
    BY <1>1
  <2>2. \A f \in [incident : Chain] : DOMAIN f = {"incident"}
    OBVIOUS
  <2> QED  BY <1>1, <2>1, <2>2 DEF IsRevision, IsExecution
<1>2. CASE e \in [evidence : Evidence]
  <2>1. DOMAIN e = {"evidence"}
    BY <1>2
  <2>2. \A f \in [incident : Chain] : DOMAIN f = {"incident"}
    OBVIOUS
  <2>3. \A f \in [execution : Execution, operation : {"STARTED", "FINISHED"}] :
            DOMAIN f = {"execution", "operation"}
    OBVIOUS
  <2> QED  BY <1>2, <2>1, <2>2, <2>3 DEF IsRevision, IsExecution
<1>3. CASE e \in [incident : Chain]
  <2>1. DOMAIN e = {"incident"}
    BY <1>3
  <2>2. \A f \in [execution : Execution, operation : {"STARTED", "FINISHED"}] :
            DOMAIN f = {"execution", "operation"}
    OBVIOUS
  <2> QED  BY <1>3, <2>1, <2>2 DEF IsRevision, IsExecution
<1> QED  BY <1>1, <1>2, <1>3 DEF Event

LEMMA ExecutionEventShape ==
    ASSUME ended \in Seq(Execution), NEW k \in 1 .. 2 * Len(ended)
    PROVE  /\ ExecutionEvents[k] \in [execution : Execution, operation : {"STARTED", "FINISHED"}]
           /\ \E i \in 1 .. Len(ended) : ended[i] = ExecutionEvents[k].execution
<1>1. CASE k % 2 = 1
  <2>1. PICK i \in 1 .. Len(ended) : k = 2 * i - 1 /\ (k + 1) \div 2 = i
    BY <1>1
  <2> QED  BY <1>1, <2>1 DEF ExecutionEvents, ExecutionEvent
<1>2. CASE k % 2 # 1
  <2>1. PICK i \in 1 .. Len(ended) : k = 2 * i /\ k \div 2 = i
    BY <1>2
  <2> QED  BY <1>2, <2>1 DEF ExecutionEvents, ExecutionEvent
<1> QED  BY <1>1, <1>2

LEMMA Joined ==
    ASSUME NEW A, NEW B, NEW s \in Seq(A), NEW t \in Seq(B), NEW k \in 1 .. Len(s \o t)
    PROVE  \/ k \in 1 .. Len(s) /\ (s \o t)[k] = s[k]
           \/ \E i \in 1 .. Len(t) : (s \o t)[k] = t[i]
<1>1. Len(s) \in Nat /\ Len(t) \in Nat /\ Len(s \o t) = Len(s) + Len(t)
  OBVIOUS
<1>2. CASE k <= Len(s)
  BY <1>1, <1>2
<1>3. CASE k > Len(s)
  <2>1. k - Len(s) \in 1 .. Len(t)
    BY <1>1, <1>3
  <2>2. (s \o t)[k] = t[k - Len(s)]
    BY <1>1, <1>3
  <2> QED  BY <2>1, <2>2
<1> QED  BY <1>1, <1>2, <1>3

LEMMA ProjectionGrounded ==
    ASSUME JournalType, NEW k \in 1 .. Len(Projection)
    PROVE  Grounded(Projection[k])
<1>1. ended \in Seq(Execution) /\ evidence \in Seq(Evidence)
  BY DEF JournalType
<1>2. /\ ExecutionEvents \in Seq([execution : Execution, operation : {"STARTED", "FINISHED"}])
      /\ Len(ExecutionEvents) = 2 * Len(ended)
  <2>1. 2 * Len(ended) \in Nat
    BY <1>1
  <2> QED  BY <1>1, <2>1, ExecutionEventShape DEF ExecutionEvents
<1>3. EvidenceEvents \in Seq([evidence : Evidence])
  BY <1>1 DEF EvidenceEvents, EvidenceEvent
<1>4. \/ k \in 1 .. Len(ExecutionEvents) /\ Projection[k] = ExecutionEvents[k]
      \/ \E i \in 1 .. Len(EvidenceEvents) : Projection[k] = EvidenceEvents[i]
  BY <1>2, <1>3, Joined DEF Projection
<1>5. CASE k \in 1 .. Len(ExecutionEvents) /\ Projection[k] = ExecutionEvents[k]
  BY <1>1, <1>2, <1>5, ExecutionEventShape DEF Grounded, Event
<1>6. CASE \E i \in 1 .. Len(EvidenceEvents) : Projection[k] = EvidenceEvents[i]
  <2>1. Projection[k] \in [evidence : Evidence]
    <3>1. PICK i \in 1 .. Len(EvidenceEvents) : Projection[k] = EvidenceEvents[i]
      BY <1>6
    <3>2. i \in 1 .. Len(evidence) /\ EvidenceEvents[i] = EvidenceEvent(evidence[i])
      BY <1>1 DEF EvidenceEvents
    <3>3. EvidenceEvents[i] \in [evidence : Evidence]
      BY <1>1, <3>2 DEF EvidenceEvent
    <3> QED  BY <3>1, <3>3
  <2>2. Projection[k] \in Event /\ ~IsExecution(Projection[k])
    BY <2>1 DEF Event, IsExecution
  <2> QED  BY <2>2 DEF Grounded
<1> QED  BY <1>4, <1>5, <1>6

LEMMA LatestShape ==
    ASSUME entries \in Seq(Event), NEW known \in SUBSET Revisions
    PROVE  LatestOf(known) \in Seq(Decisions)
<1>1. CASE known = {}
  BY <1>1 DEF LatestOf
<1>2. CASE known # {}
  <2>1. Max(known) \in Revisions
    <3>1. Len(entries) \in Nat /\ known \in SUBSET (1 .. Len(entries))
      BY DEF Revisions
    <3>2. Max(known) \in known
      BY <1>2, <3>1, LastPlace
    <3> QED  BY <3>2
  <2>2. entries[Max(known)] \in [incident : Chain]
    BY <2>1, EventShapes DEF Revisions
  <2> QED  BY <1>2, <2>2 DEF LatestOf, Chain
<1> QED  BY <1>1, <1>2

LEMMA DecisionGrounded ==
    ASSUME JournalType, NEW c \in Responder, NEW s \in OpenStates \union {"RESOLVED"}
    PROVE  Grounded(DecisionOf(c, LatestOf(Revisions), s))
<1>1. LatestOf(Revisions) \in Seq(Decisions)
  BY LatestShape DEF JournalType
<1>2. [state |-> s, by |-> c] \in Decisions
  BY DEF Decisions
<1>3. Append(LatestOf(Revisions), [state |-> s, by |-> c]) \in Chain
  <2>1. PICK chain, d : chain = LatestOf(Revisions) /\ d = [state |-> s, by |-> c]
    OBVIOUS
  <2>2. Append(chain, d) \in Seq(Decisions) /\ Len(Append(chain, d)) # 0
    BY <1>1, <1>2, <2>1
  <2> QED  BY <2>1, <2>2 DEF Chain
<1>4. DecisionOf(c, LatestOf(Revisions), s) \in [incident : Chain]
  BY <1>3 DEF DecisionOf, Revision
<1> QED  BY <1>4 DEF Grounded, Event, IsExecution

Held == {"check", "write", "release", "refuse"}

(* The process c goes on to x: what it may do to the lock and the receipts. *)
Moves(c, x) ==
    /\ session' = [session EXCEPT ![c] = x]
    /\ x = [at |-> x.at, event |-> x.event] /\ x.at \in Steps
    /\ UNCHANGED factVars
    /\ x.at \in Held => writerLock' /\ (HoldsLock(c) \/ ~writerLock)
    /\ writerLock' = writerLock \/ HoldsLock(c) \/ ~writerLock
    /\ x.at \notin {"idle", "read"} => Grounded(x.event)

LEMMA SessionShape ==
    ASSUME JournalType, NEW c \in Caller, NEW x, x = [at |-> x.at, event |-> x.event], x.at \in Steps,
           session' = [d \in Caller |-> IF d = c THEN x ELSE session[d]]
    PROVE  /\ session' = [d \in Caller |-> [at |-> session'[d].at, event |-> session'[d].event]]
           /\ \A d \in Caller : session'[d].at \in Steps
<1>1. \A d \in Caller : session'[d] = IF d = c THEN x ELSE session[d]
  OBVIOUS
<1>2. \A d \in Caller : session[d] = [at |-> session[d].at, event |-> session[d].event]
  BY DEF JournalType
<1>3. \A d \in Caller : session'[d] = [at |-> session'[d].at, event |-> session'[d].event]
  BY <1>1, <1>2
<1>4. \A d \in Caller : session'[d].at \in Steps
  BY <1>1 DEF JournalType
<1>5. session' = [d \in Caller |-> session'[d]]
  OBVIOUS
<1> QED  BY <1>3, <1>4, <1>5

LEMMA SessionMoves ==
    ASSUME JournalInv, NEW c \in Caller, NEW x, Moves(c, x), entries' = entries,
           x.at = "write" => ~Listed(x.event), x.at = "release" => Listed(x.event),
           \A e \in receipts' : Listed(e)
    PROVE  JournalInv'
<1> USE DEF JournalInv, Moves, factVars
<1>1. /\ session' = [d \in Caller |-> IF d = c THEN x ELSE session[d]]
      /\ \A d \in Caller : session'[d] = IF d = c THEN x ELSE session[d]
  BY DEF JournalType
<1>2. JournalType'
  <2>1. /\ session' = [d \in Caller |-> [at |-> session'[d].at, event |-> session'[d].event]]
        /\ \A d \in Caller : session'[d].at \in Steps
    BY <1>1, SessionShape
  <2> QED  BY <2>1 DEF JournalType
<1>3. \A d \in Caller : HoldsLock(d)' <=> IF d = c THEN x.at \in Held ELSE HoldsLock(d)
  BY <1>1 DEF HoldsLock, Held
<1>4. LockInv'
  BY <1>3 DEF LockInv
<1>5. \A e : (Listed(e)' <=> Listed(e)) /\ (Grounded(e)' <=> Grounded(e))
  BY DEF Listed, Grounded
<1>6. GroundInv'
  BY <1>1, <1>5 DEF GroundInv
<1>7. ListInv'
  BY <1>1, <1>5 DEF ListInv
<1> QED  BY <1>2, <1>4, <1>6, <1>7

LEMMA AppendedPlaces ==
    ASSUME NEW A, NEW s \in Seq(A), NEW e \in A
    PROVE  /\ Append(s, e) \in Seq(A)
           /\ Len(Append(s, e)) = Len(s) + 1 /\ Len(s) \in Nat
           /\ Append(s, e)[Len(s) + 1] = e
           /\ \A i \in 1 .. Len(s) : Append(s, e)[i] = s[i]
           /\ \A i \in 1 .. Len(Append(s, e)) : i \in 1 .. Len(s) \/ i = Len(s) + 1
  OBVIOUS

LEMMA AppendedOnce ==
    ASSUME NEW A, NEW s \in Seq(A), NEW e \in A, IsInjective(s),
           \A i \in 1 .. Len(s) : s[i] # e
    PROVE  IsInjective(Append(s, e))
<1> DEFINE t == Append(s, e)
<1>1. /\ DOMAIN s = 1 .. Len(s) /\ DOMAIN t = 1 .. Len(t)
  OBVIOUS
<1>2. \A i \in DOMAIN t : \/ i \in DOMAIN s /\ t[i] = s[i]
                          \/ i = Len(s) + 1 /\ t[i] = e
  BY <1>1, AppendedPlaces
<1> HIDE DEF t
<1>3. \A i, j \in DOMAIN t : t[i] = t[j] => i = j
  BY <1>1, <1>2 DEF IsInjective
<1> QED  BY <1>3 DEF IsInjective, t

LEMMA RecordMoves ==
    ASSUME JournalInv, NEW c \in Caller, NEW x, Moves(c, x),
           session[c].at = "write", entries' = Append(entries, session[c].event),
           x.at \in {"idle", "release", "refuse"}, receipts' = receipts,
           x.at # "idle" => x.event = session[c].event
    PROVE  JournalInv'
<1> USE DEF JournalInv, Moves, factVars
<1> DEFINE e == session[c].event
<1>1. /\ session' = [d \in Caller |-> IF d = c THEN x ELSE session[d]]
      /\ \A d \in Caller : session'[d] = IF d = c THEN x ELSE session[d]
  BY DEF JournalType
<1>2. /\ HoldsLock(c) /\ Grounded(e) /\ ~Listed(e) /\ e \in Event
      /\ entries \in Seq(Event) /\ IsInjective(entries)
  BY DEF HoldsLock, GroundInv, ListInv, Grounded, JournalType
<1> HIDE DEF e
<1>3. entries' = Append(entries, e)
  BY DEF e
<1>4. /\ entries' \in Seq(Event) /\ IsInjective(entries')
      /\ \A i \in 1 .. Len(entries') : entries'[i] = e \/ \E j \in 1 .. Len(entries) : entries'[i] = entries[j]
  BY <1>2, <1>3, AppendedPlaces, AppendedOnce DEF Listed
<1>5. \A d : Listed(d)' <=> Listed(d) \/ d = e
  BY <1>2, <1>3, AppendedPlaces DEF Listed
<1>6. JournalType'
  <2>1. /\ session' = [d \in Caller |-> [at |-> session'[d].at, event |-> session'[d].event]]
        /\ \A d \in Caller : session'[d].at \in Steps
    BY <1>1, SessionShape
  <2> QED  BY <1>4, <2>1 DEF JournalType
<1>7. \A d \in Caller : HoldsLock(d)' <=> IF d = c THEN x.at \in Held ELSE HoldsLock(d)
  BY <1>1 DEF HoldsLock, Held
<1>8. LockInv'
  BY <1>7 DEF LockInv
<1>9. \A d : Grounded(d)' <=> Grounded(d)
  BY DEF Grounded
<1>10. GroundInv'
  <2>1. \A i \in 1 .. Len(entries') : Grounded(entries'[i])
    BY <1>2, <1>4 DEF GroundInv
  <2>2. \A d \in Caller : session'[d].at \notin {"idle", "read"} => Grounded(session'[d].event)
    BY <1>1 DEF GroundInv
  <2> QED  BY <1>9, <2>1, <2>2 DEF GroundInv
<1>11. ListInv'
  <2>1. \A d \in Caller \ {c} : session[d].at # "write"
    BY <1>2 DEF LockInv, HoldsLock
  <2>2. \A d \in Caller : session'[d].at # "write"
    BY <1>1, <2>1
  <2>3. ASSUME NEW d \in Caller, session'[d].at = "release" PROVE Listed(session[d].event)'
    <3>1. PICK f : f = session'[d].event
      OBVIOUS
    <3>2. f = e \/ Listed(f)
      BY <1>1, <2>3, <3>1 DEF ListInv, e
    <3> QED  BY <1>5, <3>1, <3>2
  <2>4. \A d \in receipts' : Listed(d)'
    BY <1>5 DEF ListInv
  <2> QED  BY <1>4, <2>2, <2>3, <2>4 DEF ListInv
<1> QED  BY <1>6, <1>8, <1>10, <1>11

LEMMA JournalStart == ObservedInit => JournalInv
<1> SUFFICES ASSUME ObservedInit PROVE JournalInv
  OBVIOUS
<1> USE DEF ObservedInit, JournalInit
<1>1. JournalType
  BY DEF JournalType, Idle, Steps
<1>2. LockInv
  BY DEF LockInv, HoldsLock, Idle
<1>3. GroundInv
  BY DEF GroundInv, Idle
<1>4. ListInv
  BY DEF ListInv, Idle, IsInjective
<1> QED  BY <1>1, <1>2, <1>3, <1>4 DEF JournalInv, IsInjective

(* Going to another step, and leaving, are moves of the process.           *)
LEMMA Moving ==
    ASSUME JournalType, NEW c \in Caller, NEW step \in Steps
    PROVE  /\ Go(c, step) => session' = [session EXCEPT ![c] = [at |-> step, event |-> session[c].event]]
           /\ Leave(c) => session' = [session EXCEPT ![c] = Idle]
<1>1. session[c] = [at |-> session[c].at, event |-> session[c].event]
  BY DEF JournalType
<1>2. [session[c] EXCEPT !.at = step] = [at |-> step, event |-> session[c].event]
  BY <1>1
<1> QED  BY <1>2 DEF Go, Leave

LEMMA FactsKeep == JournalInv /\ Facts => JournalInv'
<1> SUFFICES ASSUME JournalInv, Facts PROVE JournalInv'
  OBVIOUS
<1> USE DEF JournalInv
<1>1. UNCHANGED journalVars
  BY DEF Facts, ExecutionEnds, EvidenceSaved
<1>2. /\ ended' \in Seq(Execution) /\ evidence' \in Seq(Evidence) /\ IsInjective(ended')
      /\ Len(ended) \in Nat /\ Len(ended) <= Len(ended')
      /\ \A k \in 1 .. Len(ended) : ended'[k] = ended[k]
  <2>1. CASE \E x \in Execution : ExecutionEnds(x)
    <3>1. PICK x \in Execution : ExecutionEnds(x)
      BY <2>1
    <3>2. ended' = Append(ended, x) /\ evidence' = evidence /\ \A i \in 1 .. Len(ended) : ended[i] # x
      BY <3>1 DEF ExecutionEnds, Contains
    <3>3. ended \in Seq(Execution) /\ evidence \in Seq(Evidence)
      BY DEF JournalType
    <3>4. IsInjective(ended')
      BY <3>2, <3>3, AppendedOnce
    <3> QED  BY <3>2, <3>3, <3>4, AppendedPlaces
  <2>2. CASE \E e \in Evidence : EvidenceSaved(e)
    BY <2>2 DEF EvidenceSaved, JournalType
  <2> QED  BY <2>1, <2>2 DEF Facts
<1>3. JournalType'
  BY <1>1, <1>2 DEF JournalType, journalVars
<1>4. LockInv' /\ ListInv'
  BY <1>1 DEF LockInv, ListInv, HoldsLock, Listed, journalVars
<1>5. \A e : Grounded(e) => Grounded(e)'
  BY <1>2 DEF Grounded
<1>6. GroundInv'
  BY <1>1, <1>5 DEF GroundInv, journalVars
<1> QED  BY <1>2, <1>3, <1>4, <1>6

LEMMA ServeKeeps ==
    ASSUME JournalInv, NEW c \in Caller, NEW e, Serve(c, e), UNCHANGED factVars,
           e # NoEvent => Grounded(e)
    PROVE  JournalInv'
<1> DEFINE x == IF e = NoEvent THEN Idle ELSE [at |-> "append", event |-> e]
<1>1. /\ x = [at |-> x.at, event |-> x.event]
      /\ x.at \in {"idle", "append"} /\ (x.at # "idle" => Grounded(x.event))
  BY DEF Idle
<1>2. session' = [session EXCEPT ![c] = x] /\ UNCHANGED << entries, writerLock, receipts >>
  BY DEF Serve
<1> HIDE DEF x
<1>3. Moves(c, x)
  BY <1>1, <1>2 DEF Moves, Held, Steps
<1>4. \A d \in receipts' : Listed(d)
  BY <1>2 DEF JournalInv, ListInv
<1> QED  BY <1>1, <1>2, <1>3, <1>4, SessionMoves

LEMMA ProjectKeeps ==
    ASSUME JournalInv, NEW c \in Runner, Project(c)
    PROVE  JournalInv'
<1> DEFINE e == IF Missing = {} THEN NoEvent ELSE Projection[Min(Missing)]
<1>1. Serve(c, e) /\ UNCHANGED factVars /\ c \in Caller
  BY DEF Project, Caller
<1>2. e # NoEvent => Grounded(e)
  <2> SUFFICES ASSUME Missing # {} PROVE Grounded(Projection[Min(Missing)])
    OBVIOUS
  <2>1. Missing \in SUBSET Nat /\ Missing \in SUBSET (1 .. Len(Projection))
    BY DEF Missing
  <2>2. Min(Missing) \in 1 .. Len(Projection)
    BY <2>1, LeastPlace
  <2> QED  BY <2>2, ProjectionGrounded DEF JournalInv
<1> HIDE DEF e
<1> QED  BY <1>1, <1>2, ServeKeeps

LEMMA DecideKeeps ==
    ASSUME JournalInv, NEW c \in Responder, Decide(c) \/ LookAway(c)
    PROVE  JournalInv'
<1>1. /\ UNCHANGED factVars /\ c \in Caller
      /\ \/ Serve(c, NoEvent)
         \/ \E s \in OpenStates \union {"RESOLVED"} : Serve(c, DecisionOf(c, LatestOf(Revisions), s))
  BY DEF Decide, LookAway, Signalled, Acknowledged, Resolved, OpenStates, Caller
<1>2. \A s \in OpenStates \union {"RESOLVED"} : Grounded(DecisionOf(c, LatestOf(Revisions), s))
  BY DecisionGrounded DEF JournalInv
<1> QED  BY <1>1, <1>2, ServeKeeps

(* The steps that change nothing but the process, the lock and, with what  *)
(* is listed already, the receipts.                                        *)
LEMMA PlainKeeps ==
    ASSUME JournalInv, NEW c \in Caller, UNCHANGED << entries, factVars >>,
           \/ OpenRead(c) \/ ReadFails(c) \/ TakeLock(c) \/ CheckAppend(c) \/ ReleaseLock(c)
           \/ LockFails(c) \/ ReleaseFails(c)
           \/ (AppendFails(c) \/ Die(c))
    PROVE  JournalInv'
<1> USE DEF JournalInv
<1>1. /\ Idle = [at |-> Idle.at, event |-> Idle.event] /\ Idle.at = "idle"
      /\ \A s : LET x == [at |-> s, event |-> session[c].event]
              IN  x = [at |-> x.at, event |-> x.event] /\ x.at = s /\ x.event = session[c].event
  BY DEF Idle
<1>2. /\ session[c].at \notin {"idle", "read"} => Grounded(session[c].event)
      /\ \A d \in receipts : Listed(d)
      /\ session[c].at = "release" => Listed(session[c].event)
  BY DEF GroundInv, ListInv
<1>3. ASSUME NEW s \in Steps, Go(c, s), s # "idle", s # "read" => session[c].at \notin {"idle", "read"},
             s \in Held => writerLock' /\ (HoldsLock(c) \/ ~writerLock),
             writerLock' = writerLock \/ HoldsLock(c) \/ ~writerLock,
             s = "write" => ~Listed(session[c].event), s # "release", receipts' = receipts
      PROVE  JournalInv'
  <2> DEFINE x == [at |-> s, event |-> session[c].event]
  <2>1. Moves(c, x)
    BY <1>1, <1>2, <1>3, Moving DEF Moves
  <2>2. x.at = s /\ x.event = session[c].event
    OBVIOUS
  <2> HIDE DEF x
  <2> QED  BY <1>2, <1>3, <2>1, <2>2, SessionMoves
<1>4. ASSUME Leave(c), writerLock' = writerLock \/ HoldsLock(c) \/ ~writerLock,
             \A d \in receipts' : Listed(d)
      PROVE  JournalInv'
  <2>1. Moves(c, Idle)
    BY <1>1, <1>4 DEF Moves, Leave, Held, Steps
  <2> QED  BY <1>1, <1>4, <2>1, SessionMoves
<1>5. CASE OpenRead(c)
  BY <1>3, <1>5 DEF OpenRead, Steps, Held
<1>6. CASE ReadFails(c)
  BY <1>2, <1>4, <1>6 DEF ReadFails
<1>7. CASE TakeLock(c)
  <2>1. CASE writerLock
    BY <1>2, <1>4, <1>7, <2>1 DEF TakeLock
  <2>2. CASE ~writerLock
    BY <1>3, <1>7, <2>2 DEF TakeLock, Steps
  <2> QED  BY <2>1, <2>2
<1>8. CASE CheckAppend(c)
  <2>1. HoldsLock(c) /\ writerLock
    BY <1>8 DEF CheckAppend, HoldsLock, LockInv
  <2>2. /\ writerLock' = writerLock /\ receipts' = receipts /\ session[c].at = "check"
        /\ Go(c, "refuse") \/ (Go(c, "write") /\ ~Listed(session[c].event))
    BY <1>8 DEF CheckAppend, Duplicate
  <2> QED  BY <1>3, <2>1, <2>2 DEF Steps
<1>9. CASE ReleaseLock(c)
  <2>1. HoldsLock(c)
    BY <1>9 DEF ReleaseLock, HoldsLock
  <2>2. \A d \in receipts' : Listed(d)
    BY <1>2, <1>9 DEF ReleaseLock
  <2> QED  BY <1>4, <1>9, <2>1, <2>2 DEF ReleaseLock
<1>10. CASE LockFails(c)
  BY <1>2, <1>4, <1>10 DEF LockFails
<1>11. CASE ReleaseFails(c)
  BY <1>2, <1>4, <1>11 DEF ReleaseFails
<1>12. CASE AppendFails(c)
  <2>1. HoldsLock(c) /\ writerLock
    BY <1>12 DEF AppendFails, HoldsLock, LockInv
  <2> QED  BY <1>3, <1>12, <2>1 DEF AppendFails, Steps
<1>13. CASE Die(c)
  BY <1>2, <1>4, <1>13 DEF Die
<1> QED  BY <1>5, <1>6, <1>7, <1>8, <1>9, <1>10, <1>11, <1>12, <1>13

LEMMA RecordKeeps ==
    ASSUME JournalInv, NEW c \in Caller, UNCHANGED factVars, Recorded(c),
           Write(c) \/ AppendFails(c) \/ (Die(c) /\ session[c].at = "write")
    PROVE  JournalInv'
<1>1. /\ session[c].at = "write" /\ HoldsLock(c) /\ writerLock /\ Grounded(session[c].event)
      /\ writerLock' = writerLock /\ receipts' = receipts /\ JournalType
      /\ entries' = Append(entries, session[c].event)
      /\ Go(c, "release") \/ Go(c, "refuse") \/ Leave(c)
  BY DEF Write, AppendFails, Die, JournalInv, HoldsLock, LockInv, GroundInv, Recorded
<1>2. ASSUME NEW x, session' = [session EXCEPT ![c] = x], x = [at |-> x.at, event |-> x.event],
             x.at \in {"idle", "release", "refuse"}, x.at # "idle" => x.event = session[c].event
      PROVE  JournalInv'
  <2>1. Moves(c, x)
    BY <1>1, <1>2 DEF Moves, Steps
  <2> QED  BY <1>1, <1>2, <2>1, RecordMoves
<1>3. ASSUME NEW s \in {"release", "refuse"}, Go(c, s) PROVE JournalInv'
  <2> DEFINE x == [at |-> s, event |-> session[c].event]
  <2>1. session' = [session EXCEPT ![c] = x]
    BY <1>1, <1>3, Moving DEF Steps
  <2>2. x = [at |-> x.at, event |-> x.event] /\ x.at = s /\ x.event = session[c].event
    OBVIOUS
  <2> HIDE DEF x
  <2> QED  BY <1>2, <2>1, <2>2
<1>4. CASE Leave(c)
  <2>1. session' = [session EXCEPT ![c] = Idle]
    BY <1>4 DEF Leave
  <2>2. Idle = [at |-> Idle.at, event |-> Idle.event] /\ Idle.at = "idle"
    BY DEF Idle
  <2> QED  BY <1>2, <2>1, <2>2
<1> QED  BY <1>1, <1>3, <1>4

LEMMA JournalKeeps == JournalInv /\ [ObservedNext]_observedVars => JournalInv'
<1> SUFFICES ASSUME JournalInv, [ObservedNext]_observedVars PROVE JournalInv'
  OBVIOUS
<1>1. CASE Facts
  BY <1>1, FactsKeep
<1>2. ASSUME NEW c \in Caller, Session(c) \/ UnderWay(c) \/ Faults(c) PROVE JournalInv'
  <2>1. UNCHANGED factVars
    BY <1>2 DEF Session, UnderWay, Faults
  <2>2. \/ OpenRead(c) /\ UNCHANGED entries
        \/ ReadFails(c) /\ UNCHANGED entries
        \/ TakeLock(c) /\ UNCHANGED entries
        \/ CheckAppend(c) /\ UNCHANGED entries
        \/ Write(c) /\ Recorded(c)
        \/ ReleaseLock(c) /\ UNCHANGED entries
        \/ LockFails(c) /\ UNCHANGED entries
        \/ AppendFails(c) /\ (Recorded(c) \/ UNCHANGED entries)
        \/ ReleaseFails(c) /\ UNCHANGED entries
        \/ Die(c) /\ ((session[c].at = "write" /\ Recorded(c)) \/ UNCHANGED entries)
    BY <1>2 DEF Session, UnderWay, Faults, Proceed, Faulty, OpenRead, ReadFails, TakeLock,
               CheckAppend, Write, ReleaseLock, LockFails, AppendFails, ReleaseFails, Die,
               Broken, Untouched
  <2> QED  BY <2>1, <2>2, PlainKeeps, RecordKeeps
<1>3. ASSUME NEW c \in Runner, Project(c) PROVE JournalInv'
  BY <1>3, ProjectKeeps
<1>4. ASSUME NEW c \in Responder, Decide(c) \/ LookAway(c) PROVE JournalInv'
  BY <1>4, DecideKeeps
<1>5. CASE UNCHANGED observedVars
  BY <1>5 DEF observedVars, journalVars, factVars, JournalInv, JournalType, LockInv, GroundInv,
              ListInv, HoldsLock, Grounded, Listed
<1> QED  BY <1>1, <1>2, <1>3, <1>4, <1>5 DEF ObservedNext

LEMMA JournalSound == ObservedSpec => []JournalInv
  BY JournalStart, JournalKeeps, PTL DEF ObservedSpec

(* Whoever appends and whatever fails or dies, the journal never holds an  *)
(* event twice: the duplicate check of OperationalEventStore.append is     *)
(* made and used under one lock.                                           *)
THEOREM WrittenOnce == ObservedSpec => []EachEventOnce
<1>1. JournalInv => EachEventOnce
  BY DEF JournalInv, ListInv, EachEventOnce
<1> QED  BY <1>1, JournalSound, PTL

(* A prefix of the front of a chain is a prefix of the chain.              *)
LEMMA PrefixOfFront ==
    ASSUME NEW A, NEW s \in Seq(A), NEW t \in Seq(A), Len(t) > 0, IsPrefix(s, Front(t))
    PROVE  IsPrefix(s, t)
<1> DEFINE f == Front(t)
<1>1. /\ Len(t) \in Nat /\ Len(s) \in Nat /\ Len(f) = Len(t) - 1
      /\ \A i \in 1 .. Len(f) : f[i] = t[i]
  <2>1. PICK n : n = Len(t) - 1
    OBVIOUS
  <2>2. n \in Nat /\ n <= Len(t) /\ Len(t) \in Nat /\ Len(s) \in Nat
    BY <2>1
  <2>3. Len(SubSeq(t, 1, n)) = n /\ \A i \in 1 .. n : SubSeq(t, 1, n)[i] = t[i]
    BY <2>2
  <2> QED  BY <2>1, <2>2, <2>3 DEF Front
<1>2. f \in Seq(A)
  BY <1>1 DEF Front
<1> HIDE DEF f
<1>3. Len(s) <= Len(f) /\ SubSeq(s, 1, Len(s)) = SubSeq(f, 1, Len(s))
  BY DEF IsPrefix, f
<1>4. \A i \in 1 .. Len(s) : s[i] = f[i]
  <2>1. ASSUME NEW i \in 1 .. Len(s)
        PROVE  SubSeq(s, 1, Len(s))[i] = s[i] /\ SubSeq(f, 1, Len(s))[i] = f[i]
    BY <1>1, <1>2, <1>3
  <2> QED  BY <1>3, <2>1
<1>5. SubSeq(s, 1, Len(s)) = SubSeq(t, 1, Len(s))
  BY <1>1, <1>3, <1>4
<1> QED  BY <1>1, <1>3, <1>5 DEF IsPrefix

LEMMA PrefixOfItself ==
    ASSUME NEW A, NEW s \in Seq(A)
    PROVE  IsPrefix(s, s)
  BY DEF IsPrefix

(* In a chain that holds, every revision begins with those before it.      *)
LEMMA ChainGrows ==
    ASSUME entries \in Seq(Event), ChainHolds, NEW i \in Revisions, NEW j \in Revisions, i <= j
    PROVE  IsPrefix(entries[i].incident, entries[j].incident)
<1>1. \A k \in Revisions : k \in Nat /\ k \in 1 .. Len(entries) /\ entries[k].incident \in Chain
  <2> SUFFICES ASSUME NEW k \in Revisions
               PROVE  k \in Nat /\ k \in 1 .. Len(entries) /\ entries[k].incident \in Chain
    OBVIOUS
  <2>1. k \in 1 .. Len(entries) /\ IsRevision(entries[k]) /\ entries[k] \in Event
    BY DEF Revisions
  <2> QED  BY <2>1, EventShapes
<1> DEFINE Wrong == {k \in Revisions : i <= k /\ ~IsPrefix(entries[i].incident, entries[k].incident)}
<1>2. SUFFICES ASSUME Wrong # {} PROVE FALSE
  OBVIOUS
<1>3. Wrong \in SUBSET Nat
  BY <1>1
<1>4. PICK k \in Wrong : \A m \in Wrong : k <= m
  BY <1>2, <1>3, LeastPlace
<1> DEFINE earlier == {m \in Revisions : m < k}
<1>5. k \in Revisions /\ k \in Nat /\ i \in Nat /\ i <= k /\ i # k
  <2>1. IsPrefix(entries[i].incident, entries[i].incident)
    BY <1>1, PrefixOfItself DEF Chain
  <2> QED  BY <1>1, <1>4, <2>1
<1>6. i \in earlier
  BY <1>5
<1>7. Max(earlier) \in earlier /\ i <= Max(earlier)
  <2>1. Len(entries) \in Nat /\ earlier \in SUBSET (1 .. Len(entries))
    BY <1>1
  <2> HIDE DEF earlier
  <2> QED  BY <1>6, <2>1, LastPlace
<1>8. Front(entries[k].incident) = entries[Max(earlier)].incident
  BY <1>5, <1>6 DEF ChainHolds, LatestOf
<1>9. Max(earlier) \notin Wrong
  <2>1. PICK p : p = Max(earlier)
    OBVIOUS
  <2>2. p \in Revisions /\ p < k
    BY <1>7, <2>1
  <2>3. p \in Nat /\ ~(k <= p)
    BY <1>1, <1>5, <2>2
  <2>4. p \notin Wrong
    BY <1>4, <2>3
  <2> QED  BY <2>1, <2>4
<1>10. IsPrefix(entries[i].incident, Front(entries[k].incident))
  BY <1>7, <1>8, <1>9
<1>11. /\ entries[i].incident \in Seq(Decisions) /\ entries[k].incident \in Seq(Decisions)
       /\ Len(entries[k].incident) > 0
  <2>1. entries[k].incident \in Seq(Decisions) /\ entries[k].incident # << >>
    BY <1>1, <1>5 DEF Chain
  <2> QED  BY <1>1, <2>1 DEF Chain
<1>12. IsPrefix(entries[i].incident, entries[k].incident)
  BY <1>10, <1>11, PrefixOfFront
<1> QED  BY <1>4, <1>12

(* A decision whose author has a receipt is part of every history that     *)
(* IncidentEventJournal serves, however many operators decide at once: the *)
(* chain check lets no history through in which one was passed over.       *)
THEOREM ConfirmedIsServed == ObservedSpec => []DecisionIsServed
<1>1. JournalInv => DecisionIsServed
  <2> SUFFICES ASSUME JournalInv, ChainHolds, NEW e \in receipts, IsRevision(e)
               PROVE  IsPrefix(e.incident, LatestOf(Revisions))
    BY DEF DecisionIsServed
  <2>1. entries \in Seq(Event) /\ Len(entries) \in Nat
    BY DEF JournalInv, JournalType
  <2>2. PICK i \in 1 .. Len(entries) : entries[i] = e
    BY DEF JournalInv, ListInv, Listed
  <2>3. i \in Revisions
    BY <2>2 DEF Revisions
  <2>4. Max(Revisions) \in Revisions /\ i <= Max(Revisions)
    BY <2>1, <2>3, LastPlace DEF Revisions
  <2> QED  BY <2>1, <2>2, <2>3, <2>4, ChainGrows DEF LatestOf
<1> QED  BY <1>1, JournalSound, PTL

(* The projection holds the two events of every execution that ended, and  *)
(* as many of either kind as executions ended.                             *)
LEMMA ProjectedTwice ==
    ASSUME ended \in Seq(Execution), NEW i \in 1 .. Len(ended)
    PROVE  /\ 2 * i - 1 \in 1 .. 2 * Len(ended) /\ 2 * i \in 1 .. 2 * Len(ended)
           /\ ExecutionEvents[2 * i - 1] = ExecutionEvent(ended[i], "STARTED")
           /\ ExecutionEvents[2 * i] = ExecutionEvent(ended[i], "FINISHED")
<1>1. /\ Len(ended) \in Nat
      /\ 2 * i - 1 \in 1 .. 2 * Len(ended) /\ 2 * i \in 1 .. 2 * Len(ended)
      /\ (2 * i - 1) % 2 = 1 /\ ((2 * i - 1) + 1) \div 2 = i
      /\ (2 * i) % 2 # 1 /\ (2 * i) \div 2 = i
  OBVIOUS
<1> QED  BY <1>1 DEF ExecutionEvents

LEMMA ProjectedCount ==
    ASSUME ended \in Seq(Execution), NEW operation \in {"STARTED", "FINISHED"}
    PROVE  Cardinality({k \in DOMAIN ExecutionEvents : ExecutionEvents[k].operation = operation})
               = Len(ended)
<1> DEFINE n == Len(ended)
           T == {k \in DOMAIN ExecutionEvents : ExecutionEvents[k].operation = operation}
           f == [i \in 1 .. n |-> IF operation = "STARTED" THEN 2 * i - 1 ELSE 2 * i]
<1>1. n \in Nat /\ DOMAIN ExecutionEvents = 1 .. 2 * n
  BY DEF ExecutionEvents
<1>2. \A k \in 1 .. 2 * n :
          ExecutionEvents[k].operation = IF k % 2 = 1 THEN "STARTED" ELSE "FINISHED"
  BY <1>1 DEF ExecutionEvents, ExecutionEvent
<1>3. f \in [1 .. n -> T]
  <2> SUFFICES ASSUME NEW i \in 1 .. n
               PROVE  (IF operation = "STARTED" THEN 2 * i - 1 ELSE 2 * i) \in T
    OBVIOUS
  <2>1. /\ 2 * i - 1 \in 1 .. 2 * n /\ 2 * i \in 1 .. 2 * n
        /\ (2 * i - 1) % 2 = 1 /\ (2 * i) % 2 # 1
    BY <1>1
  <2> QED  BY <1>1, <1>2, <2>1
<1>4. \A i, j \in 1 .. n : f[i] = f[j] => i = j
  BY <1>1
<1>5. \A k \in T : \E i \in 1 .. n : f[i] = k
  <2> SUFFICES ASSUME NEW k \in T PROVE \E i \in 1 .. n : f[i] = k
    OBVIOUS
  <2>1. k \in 1 .. 2 * n /\ (operation = "STARTED" <=> k % 2 = 1)
    BY <1>1, <1>2
  <2>2. CASE operation = "STARTED"
    <3>1. PICK i \in 1 .. n : k = 2 * i - 1
      <4>1. k \in Nat /\ k % 2 = 1 /\ k <= 2 * n /\ n \in Nat
        BY <1>1, <2>1, <2>2
      <4> HIDE DEF n
      <4>2. (k + 1) \div 2 \in 1 .. n /\ k = 2 * ((k + 1) \div 2) - 1
        BY <4>1
      <4> QED  BY <4>2
    <3> QED  BY <2>2, <3>1
  <2>3. CASE operation = "FINISHED"
    <3>1. PICK i \in 1 .. n : k = 2 * i
      BY <1>1, <2>1, <2>3
    <3> QED  BY <2>3, <3>1
  <2> QED  BY <2>2, <2>3
<1> HIDE DEF f, T, n
<1>6. f \in Bijection(1 .. n, T)
  BY <1>3, <1>4, <1>5 DEF Bijection, Injection, Surjection, IsInjective
<1>7. ExistsBijection(1 .. n, T)
  BY <1>6 DEF ExistsBijection
<1>8. IsFiniteSet(1 .. n) /\ Cardinality(1 .. n) = n
  BY <1>1, FS_Interval
<1>9. Cardinality(T) = n
  BY <1>7, <1>8, FS_Bijection
<1> QED  BY <1>9 DEF T, n

(* The metrics count each execution the ledger has ended once, however far *)
(* the sink has got and wherever it died: every stored event of one is     *)
(* replaced by the projection, which has it once.                          *)
THEOREM CountedOnce == ObservedSpec => []ExecutionsCountedOnce
<1>1. JournalInv => ExecutionsCountedOnce
  <2> SUFFICES ASSUME JournalInv, NEW operation \in {"STARTED", "FINISHED"}
               PROVE  Executions(operation) = Len(ended)
    BY DEF ExecutionsCountedOnce
  <2>1. ended \in Seq(Execution) /\ Len(ended) \in Nat
    BY DEF JournalInv, JournalType
  <2>2. \A i \in 1 .. Len(entries) : IsExecution(entries[i]) => Contains(ExecutionEvents, entries[i])
    <3> SUFFICES ASSUME NEW i \in 1 .. Len(entries), IsExecution(entries[i])
                 PROVE  Contains(ExecutionEvents, entries[i])
      OBVIOUS
    <3>1. /\ entries[i] \in [execution : Execution, operation : {"STARTED", "FINISHED"}]
          /\ \E k \in 1 .. Len(ended) : ended[k] = entries[i].execution
      BY EventShapes DEF JournalInv, GroundInv, Grounded
    <3>2. PICK k \in 1 .. Len(ended) : ended[k] = entries[i].execution
      BY <3>1
    <3>3. \/ entries[i] = ExecutionEvent(ended[k], "STARTED")
          \/ entries[i] = ExecutionEvent(ended[k], "FINISHED")
      BY <3>1, <3>2 DEF ExecutionEvent
    <3>4. \E j \in 1 .. 2 * Len(ended) : ExecutionEvents[j] = entries[i]
      BY <2>1, <3>3, ProjectedTwice
    <3>5. Len(ExecutionEvents) = 2 * Len(ended)
      BY <2>1 DEF ExecutionEvents
    <3> QED  BY <3>4, <3>5 DEF Contains
  <2>3. {i \in Retained : IsExecution(entries[i]) /\ entries[i].operation = operation} = {}
    BY <2>2 DEF Retained
  <2>4. Cardinality({i \in Retained : IsExecution(entries[i]) /\ entries[i].operation = operation}) = 0
    BY <2>3, FS_EmptySet
  <2>5. Cardinality({k \in DOMAIN ExecutionEvents : ExecutionEvents[k].operation = operation})
            = Len(ended)
    BY <2>1, ProjectedCount
  <2>6. Executions(operation) = 0 + Len(ended)
    BY <2>4, <2>5 DEF Executions
  <2> QED  BY <2>1, <2>6
<1> QED  BY <1>1, JournalSound, PTL
============================================================================
