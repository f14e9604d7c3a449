------------------------- MODULE Integration_proofs -------------------------
(***************************************************************************)
(* Proofs about Integration, for every group, order and number of faults   *)
(* and outside changes: the primary only ever receives the gated group, a  *)
(* story is implemented by one commit, the registry is backed by Git and   *)
(* what remediation replaces was not promoted.                             *)
(*                                                                         *)
(* The strengthening says what a run may rely on at each of its points:    *)
(* that the gate it carries is the recorded one and that what it promotes  *)
(* is the gated chain (Gated), that nothing is committed twice             *)
(* (Uncommitted), and where the member stands whose worktree is being made *)
(* or removed (Placed).                                                    *)
(***************************************************************************)
EXTENDS Integration, SequenceTheorems, TLAPS

(* The gate a run relies on is the recorded one, it stages on an existing  *)
(* worktree, and what it has staged is the gated chain before it may be    *)
(* promoted.                                                               *)
Gated(k, gate, commits) ==
    /\ k.at \in {"gate", "inspect"} =>
          IF k.purpose = "first" THEN gate = None ELSE gate # None
    /\ k.at \in Merging => gate # None
    /\ k.at \in {"drift", "member"} => commits \in Commits
    /\ k.at \in {"promote", "forward"} \/ (k.at = "drift" /\ k.left = << >>) =>
          k.staged = Chain(gate)

NoImplementation(tip) == tip # None => \A i \in DOMAIN tip : tip[i] # "impl"

(* The member that is about to be committed has no implementation commit.  *)
Uncommitted(k, tips) ==
    k.at = "commit" => \A s \in Story : k.left # << >> /\ Head(k.left) = s => NoImplementation(tips[s])

(* Where the member stands whose worktree is being made or removed.        *)
Placed(k, s, entry, tip, state, nobody) ==
    k.left # << >> /\ Head(k.left) = s =>
        /\ k.at \in {"activate", "activated"} => entry.status = "PLANNED"
        /\ k.at = "activated" /\ nobody => state = "clean" /\ tip = Baseline
        /\ k.at = "cleaned" => entry.status \in {"COMPLETED", "FAILED"}
        /\ k.at = "cleaned" /\ nobody => state = "none"

(* A worktree is on its branch.                                            *)
Rooted == \A s \in Story : Bound(s) => branch[s] # None

IInv ==
    /\ TypeOK
    /\ PromotedIsGated /\ OneImplementation /\ RegistryIsBacked /\ AbandonedIsNotPromoted
    /\ Rooted
    /\ abandoned => call.at \in {"idle", "cleaned"}
    /\ Gated(call, record.gate, staging.commits)
    /\ Uncommitted(call, branch)
    /\ \A s \in Story : Placed(call, s, registry[s], branch[s], tree[s], outside = 0)
---------------------------------------------------------------------------
(* Types of the values a run computes.                                     *)

LEMMA Literals ==
    /\ Baseline \in Tip /\ Baseline \in Commits /\ Foreign \in [of : Story \cup {None}, commit : ResultCommit]
    /\ \A s \in Story, c \in ResultCommit : Merge(s, c) \in [of : Story \cup {None}, commit : ResultCommit]
    /\ Foreign.of = None /\ \A s \in Story : \A c : Merge(s, c).of = s
    /\ None \notin Story /\ None \notin Tip
    /\ Order \in Seq(Story) /\ Len(Order) \in Nat /\ Len(Order) > 0
    /\ \A i \in 1 .. Len(Order) : Order[i] \in Story
<1>1. Baseline \in Tip /\ Baseline \in Commits
  BY DEF Baseline, Tip, Commits
<1>2. Baseline \in ResultCommit
  BY <1>1 DEF ResultCommit
<1> QED  BY <1>1, <1>2, GroupAssumption DEF Foreign, Merge, Tip

LEMMA NoCallType == NoCall \in Calls /\ NoCall.at = "idle"
<1>1. << >> \in Seq(Story)
  OBVIOUS
<1>2. Baseline \in Tip /\ Baseline \in Commits
  BY Literals
<1> HIDE DEF Baseline
<1> QED  BY <1>1, <1>2 DEF NoCall, Calls

LEMMA FunctionIsSeq ==
    ASSUME NEW S, NEW n \in Nat, NEW f \in [1 .. n -> S]
    PROVE  f \in Seq(S) /\ Len(f) = n
  BY SeqDef

LEMMA ChainType ==
    ASSUME NEW gate \in [Story -> ResultCommit]
    PROVE  /\ Chain(gate) \in Commits /\ Len(Chain(gate)) = Len(Order)
           /\ DOMAIN Chain(gate) = 1 .. Len(Order)
           /\ \A i \in 1 .. Len(Order) : Chain(gate)[i].of \in Story
<1>1. \A i \in 1 .. Len(Order) : Order[i] \in Story /\ gate[Order[i]] \in ResultCommit
  BY Literals
<1>2. Chain(gate) \in [1 .. Len(Order) -> [of : Story \cup {None}, commit : ResultCommit]]
  BY <1>1, Literals DEF Chain
<1>3. Chain(gate) \in Commits
  BY <1>2, Literals, FunctionIsSeq DEF Commits
<1>4. DOMAIN Chain(gate) = 1 .. Len(Order) /\ Len(Chain(gate)) = Len(Order)
  BY <1>2, Literals, FunctionIsSeq
<1> QED  BY <1>1, <1>3, <1>4, Literals DEF Chain

(* What a run does with its own record. *)
LEMMA Gotos ==
    ASSUME TypeOK, NEW l, Goto(l), [call EXCEPT !.at = l] \in Calls
    PROVE  /\ call' \in Calls /\ call'.at = l /\ call'.left = call.left
           /\ call'.staged = call.staged /\ call'.purpose = call.purpose
  BY DEF Goto, TypeOK, Calls

LEMMA Eachs ==
    ASSUME TypeOK, NEW l \in {"prepare", "execute", "submit", "drift"}, Each(l)
    PROVE  /\ call' \in Calls /\ call'.at = l /\ call'.left = Order
           /\ call'.staged = call.staged /\ call'.purpose = call.purpose
<1>1. call \in Calls /\ Order \in Seq(Story)
  BY Literals DEF TypeOK
<1>2. l \in {"idle", "cleaned", "gate", "inspect", "confirm", "merged"} \cup Preparing \cup Submitting
           \cup Merging
  BY DEF Preparing, Submitting, Merging
<1> QED  BY <1>1, <1>2 DEF Each, Calls

LEMMA Proceeds ==
    ASSUME TypeOK, NEW l \in {"prepare", "submit"}, NEW s, This(s), Proceed(l)
    PROVE  /\ call' \in Calls /\ call'.at = l
           /\ call'.staged = call.staged /\ call'.purpose = call.purpose
<1>1. Tail(call.left) \in Seq(Story)
  BY DEF This, TypeOK, Calls
<1> QED  BY <1>1 DEF Proceed, TypeOK, Calls, Preparing, Submitting

LEMMA Returns == Return => call' \in Calls /\ call'.at = "idle"
  BY NoCallType DEF Return

---------------------------------------------------------------------------
(* Parts of the invariant that hold of a run that is in no critical place. *)

LEMMA Elsewhere ==
    ASSUME NEW k, k.at \notin {"gate", "inspect", "commit", "activate", "activated", "cleaned"} \cup Merging
    PROVE  /\ \A gate, commits : Gated(k, gate, commits)
           /\ \A tips : Uncommitted(k, tips)
           /\ \A s, entry, tip, state, nobody : Placed(k, s, entry, tip, state, nobody)
  BY DEF Gated, Uncommitted, Placed, Merging

(* A step that changes neither Git, the registry nor the recorded gate. *)
LEMMA Control ==
    ASSUME IInv, TypeOK',
           UNCHANGED << registry, branch, tree, primary, outside, abandoned >>,
           record'.gate = record.gate,
           abandoned => call'.at \in {"idle", "cleaned"},
           Gated(call', record.gate, staging'.commits), Uncommitted(call', branch),
           \A s \in Story : Placed(call', s, registry[s], branch[s], tree[s], outside = 0)
    PROVE  IInv'
<1>1. PromotedIsGated' /\ AbandonedIsNotPromoted'
  BY DEF IInv, PromotedIsGated, AbandonedIsNotPromoted, Merged
<1>2. OneImplementation' /\ RegistryIsBacked' /\ Rooted'
  BY DEF IInv, OneImplementation, RegistryIsBacked, Bound, Rooted
<1> QED  BY <1>1, <1>2 DEF IInv

LEMMA Passes ==
    ASSUME IInv, TypeOK',
           UNCHANGED << registry, branch, tree, primary, outside, abandoned >>,
           record'.gate = record.gate,
           abandoned => call'.at \in {"idle", "cleaned"},
           call'.at \notin {"gate", "inspect", "commit", "activate", "activated", "cleaned"}
                              \cup Merging
    PROVE  IInv'
  BY Control, Elsewhere

(* The simplest of them: only the run and the faults. *)
LEMMA Walks ==
    ASSUME IInv, call' \in Calls, UNCHANGED faults \/ Fault, Unchanged,
           UNCHANGED << staging, abandoned >>, record' = record,
           abandoned => call'.at \in {"idle", "cleaned"},
           Gated(call', record.gate, staging.commits), Uncommitted(call', branch),
           \A s \in Story : Placed(call', s, registry[s], branch[s], tree[s], outside = 0)
    PROVE  IInv'
<1>1. TypeOK'
  BY DEF IInv, TypeOK, Unchanged, Fault
<1> QED  BY <1>1, Control DEF Unchanged

LEMMA Strolls ==
    ASSUME IInv, call' \in Calls, UNCHANGED faults \/ Fault, Unchanged,
           UNCHANGED << staging, abandoned >>, record' = record,
           abandoned => call'.at \in {"idle", "cleaned"},
           call'.at \notin {"gate", "inspect", "commit", "activate", "activated", "cleaned"}
                              \cup Merging
    PROVE  IInv'
  BY Walks, Elsewhere

(* A run that ends changes nothing else; every refusal is one. *)
LEMMA Ends ==
    ASSUME IInv, Return, UNCHANGED faults \/ Fault, Unchanged,
           UNCHANGED << staging, abandoned >>, record' = record
    PROVE  IInv'
<1>1. call' \in Calls /\ call'.at = "idle"
  BY Returns
<1> QED  BY <1>1, Strolls DEF Merging

---------------------------------------------------------------------------
(* The run.                                                                *)

LEMMA PrepareStep == ASSUME IInv, Prepare PROVE IInv'
<1>1. call' \in Calls /\ call'.at = "prepare"
  BY Eachs DEF Prepare, IInv
<1> QED  BY <1>1, Strolls DEF Prepare, integrationVars, Merging

LEMMA StartStoriesStep == ASSUME IInv, StartStories PROVE IInv'
<1>1. call' \in Calls /\ call'.at = "members"
  BY DEF StartStories, Goto, IInv, TypeOK, Calls, Preparing
<1>2. TypeOK'
  BY <1>1 DEF StartStories, Unchanged, IInv, TypeOK
<1>3. ~abandoned
  BY DEF StartStories, At, IInv
<1> QED  BY <1>1, <1>2, <1>3, Passes DEF StartStories, Unchanged, Merging, IInv, TypeOK

LEMMA ReconstructStep == ASSUME IInv, Reconstruct PROVE IInv'
<1>1. call' \in Calls /\ call'.at = "members"
  BY DEF Reconstruct, Goto, IInv, TypeOK, Calls, Preparing
<1> QED  BY <1>1, Strolls DEF Reconstruct, integrationVars, Merging

LEMMA ReconstructMembersStep == ASSUME IInv, ReconstructMembers PROVE IInv'
<1>1. call' \in Calls /\ call'.at \in {"execute", "submit", "idle"}
  BY Eachs, Returns DEF ReconstructMembers, IInv
<1>2. ~abandoned
  BY DEF ReconstructMembers, At, IInv
<1> QED  BY <1>1, <1>2, Strolls DEF ReconstructMembers, integrationVars, Merging

LEMMA GroupExecutedStep == ASSUME IInv, GroupExecuted PROVE IInv'
<1>1. call' \in Calls /\ call'.at \in {"submit", "idle"}
  BY Eachs, Returns DEF GroupExecuted, IInv
<1>2. ~abandoned
  BY DEF GroupExecuted, At, IInv
<1> QED  BY <1>1, <1>2, Strolls DEF GroupExecuted, integrationVars, Merging

LEMMA TakeCompletedStep == ASSUME IInv, NEW s \in Story, TakeCompleted(s) PROVE IInv'
<1>1. call' \in Calls /\ call'.at = "submit"
  BY Proceeds DEF TakeCompleted, IInv
<1>2. ~abandoned
  BY DEF TakeCompleted, At, IInv
<1> QED  BY <1>1, <1>2, Strolls DEF TakeCompleted, integrationVars, Merging

LEMMA CompleteGroupStep == ASSUME IInv, CompleteGroup PROVE IInv'
<1>1. ~abandoned
  BY DEF CompleteGroup, At, IInv
<1>2. CASE Return
  BY <1>2, Ends DEF CompleteGroup, integrationVars
<1>3. CASE ~Return
  <2>1. PICK p \in {"first", "again", "recover"}, n \in {Baseline, primary.commits} :
           /\ call' = [call EXCEPT !.at = "gate", !.purpose = p, !.seen = n]
           /\ IF p = "first" THEN record.gate = None ELSE record.gate # None
    BY <1>3 DEF CompleteGroup
  <2>2. n \in Commits
    BY <2>1, Literals DEF IInv, TypeOK, Primaries
  <2>3. call' \in Calls /\ call'.at = "gate" /\ call'.purpose = p
    BY <2>1, <2>2 DEF IInv, TypeOK, Calls
  <2>4. Gated(call', record.gate, staging.commits) /\ Uncommitted(call', branch)
        /\ \A s \in Story : Placed(call', s, registry[s], branch[s], tree[s], outside = 0)
    BY <2>1, <2>3 DEF Gated, Uncommitted, Placed, Merging
  <2> QED  BY <1>1, <2>3, <2>4, Walks DEF CompleteGroup, integrationVars
<1> QED  BY <1>2, <1>3

---------------------------------------------------------------------------
(* The gate.                                                               *)

LEMMA WorstType == \A verdicts : Worst(verdicts) \in Verdicts
  BY DEF Worst, Verdicts

LEMMA ObservePrimaryStep == ASSUME IInv, ObservePrimary PROVE IInv'
<1>1. ~abandoned
  BY DEF ObservePrimary, At, IInv
<1>2. PrimaryVerdict(call.seen) \in Verdicts
  BY WorstType DEF PrimaryVerdict
<1>3. /\ call' \in Calls /\ call'.at = "inspect" /\ call'.purpose = call.purpose
      /\ call.at = "gate"
  <2>1. call \in Calls /\ primary \in Primaries /\ Order \in Seq(Story)
    BY Literals DEF IInv, TypeOK
  <2> QED  BY <1>2, <2>1 DEF ObservePrimary, At, Calls
<1>4. Gated(call', record.gate, staging.commits) /\ Uncommitted(call', branch)
      /\ \A s \in Story : Placed(call', s, registry[s], branch[s], tree[s], outside = 0)
  BY <1>3 DEF Gated, Uncommitted, Placed, Merging, IInv
<1> QED  BY <1>1, <1>3, <1>4, Walks DEF ObservePrimary, integrationVars

LEMMA InspectMemberStep == ASSUME IInv, NEW s \in Story, InspectMember(s) PROVE IInv'
<1>1. ~abandoned
  BY DEF InspectMember, At, IInv
<1>2. Tail(call.left) \in Seq(Story)
  BY DEF InspectMember, This, IInv, TypeOK, Calls
<1>3. Worst({call.verdict, MemberVerdict(s)}) \in Verdicts
  BY WorstType
<1>4. /\ call' \in Calls /\ call'.at = "inspect" /\ call'.purpose = call.purpose
      /\ call.at = "inspect"
  BY <1>2, <1>3 DEF InspectMember, At, IInv, TypeOK, Calls
<1>5. Gated(call', record.gate, staging.commits) /\ Uncommitted(call', branch)
      /\ \A t \in Story : Placed(call', t, registry[t], branch[t], tree[t], outside = 0)
  BY <1>4 DEF Gated, Uncommitted, Placed, Merging, IInv
<1> QED  BY <1>1, <1>4, <1>5, Walks DEF InspectMember, integrationVars

(* The recorded gate is written while there is none, so nothing was merged. *)
LEMMA FirstGateStep == ASSUME IInv, FirstGate PROVE IInv'
<1>1. ~abandoned /\ record.gate = None
  BY DEF FirstGate, At, IInv, Gated
<1>2. CASE ~GatePasses
  BY <1>2, Ends DEF FirstGate
<1>3. CASE GatePasses
  <2>1. Results \in [Story -> ResultCommit] /\ Results # None
    BY GroupAssumption DEF Results, IInv, TypeOK, Registries, ResultCommit, Tip
  <2>2. record' = [record EXCEPT !.gate = Results] /\ Goto("merge")
    BY <1>3 DEF FirstGate
  <2>3. call' \in Calls /\ call'.at = "merge"
    BY <2>2 DEF Goto, IInv, TypeOK, Calls, Merging
  <2>4. record'.gate = Results
    BY <2>2 DEF IInv, TypeOK
  <2>5. TypeOK'
    BY <2>1, <2>2, <2>3 DEF FirstGate, Unchanged, IInv, TypeOK
  <2>6. ~Merged' /\ PromotedIsGated' /\ AbandonedIsNotPromoted'
    BY <1>1 DEF FirstGate, Unchanged, IInv, PromotedIsGated, AbandonedIsNotPromoted, Merged
  <2>7. OneImplementation' /\ RegistryIsBacked' /\ Rooted'
    BY DEF FirstGate, Unchanged, IInv, OneImplementation, RegistryIsBacked, Bound, Rooted
  <2>8. Gated(call', record'.gate, staging'.commits)
    BY <2>1, <2>3, <2>4 DEF Gated, Merging
  <2>9. Uncommitted(call', branch')
        /\ \A s \in Story : Placed(call', s, registry'[s], branch'[s], tree'[s], (outside = 0)')
    BY <2>3 DEF Uncommitted, Placed
  <2> QED  BY <1>1, <2>5, <2>6, <2>7, <2>8, <2>9 DEF IInv, FirstGate
<1> QED  BY <1>2, <1>3

(* The gate of a run that relies on one that passed before. *)
LEMMA HasGate ==
    ASSUME IInv,
           call.at \in Merging \/ (call.at \in {"gate", "inspect"} /\ call.purpose # "first")
    PROVE  /\ record.gate # None /\ ~abandoned
           /\ record.gate \in [Story -> ResultCommit]
<1>1. record.gate # None
  BY DEF IInv, Gated, Merging
<1>2. ~abandoned
  BY DEF IInv, Merging
<1> QED  BY <1>1, <1>2 DEF IInv, TypeOK

LEMMA LaterGateStep == ASSUME IInv, LaterGate PROVE IInv'
<1>1. record.gate # None /\ ~abandoned
  BY HasGate DEF LaterGate, At
<1>2. CASE GatePasses
  <2>1. call' \in Calls /\ call'.at = "merge"
    BY <1>2 DEF LaterGate, Goto, IInv, TypeOK, Calls, Merging
  <2>3. Gated(call', record.gate, staging.commits) /\ Uncommitted(call', branch)
        /\ \A s \in Story : Placed(call', s, registry[s], branch[s], tree[s], outside = 0)
    BY <1>1, <2>1 DEF Gated, Uncommitted, Placed, Merging
  <2> QED  BY <1>1, <2>1, <2>3, Walks DEF LaterGate, integrationVars
<1>3. CASE ~GatePasses
  BY <1>3, Ends DEF LaterGate, integrationVars
<1> QED  BY <1>2, <1>3

---------------------------------------------------------------------------
(* The merge.                                                              *)

(* An answer that is not MERGED ends the run and leaves Git as it is. *)
LEMMA Answers ==
    ASSUME IInv, Return, UNCHANGED faults \/ Fault, Unchanged, TypeOK',
           record'.gate = record.gate, abandoned' = abandoned
    PROVE  IInv'
<1>1. call' \in Calls /\ call'.at = "idle"
  BY Returns
<1> QED  BY <1>1, Passes DEF Unchanged, Merging

LEMMA Refuses ==
    ASSUME IInv, NEW code, Blocked(code), Unchanged, UNCHANGED << record, abandoned >>
    PROVE  IInv'
  BY Ends DEF Blocked, Answer

LEMMA StartMergeStep == ASSUME IInv, StartMerge PROVE IInv'
<1>1. record.gate # None /\ ~abandoned
  BY HasGate DEF StartMerge, At, Merging
<1>2. CASE \E code : Blocked(code)
  BY <1>2, Refuses DEF StartMerge
<1>3. CASE Goto("merged") /\ UNCHANGED << faults, staging, outcome >>
  <2>1. call' \in Calls /\ call'.at = "merged"
    BY <1>3 DEF Goto, IInv, TypeOK, Calls
  <2> QED  BY <1>1, <1>3, <2>1, Strolls DEF StartMerge, Merging
<1>4. CASE /\ call' = [call EXCEPT !.at = "gate", !.purpose = "fresh", !.seen = Baseline]
           /\ UNCHANGED << faults, staging, outcome >>
  <2>1. call' \in Calls /\ call'.at = "gate" /\ call'.purpose = "fresh"
    <3>1. call \in Calls /\ Baseline \in Commits
      BY Literals DEF IInv, TypeOK
    <3> QED  BY <1>4, <3>1 DEF Calls
  <2>2. Gated(call', record.gate, staging.commits) /\ Uncommitted(call', branch)
        /\ \A s \in Story : Placed(call', s, registry[s], branch[s], tree[s], outside = 0)
    BY <1>1, <2>1 DEF Gated, Uncommitted, Placed, Merging
  <2> QED  BY <1>1, <1>4, <2>1, <2>2, Walks DEF StartMerge
<1> QED  BY <1>2, <1>3, <1>4 DEF StartMerge

LEMMA FreshGateStep == ASSUME IInv, FreshGate PROVE IInv'
<1>1. record.gate # None /\ ~abandoned
  BY HasGate DEF FreshGate, At
<1>2. CASE GatePasses
  <2>1. call' = [call EXCEPT !.at = "stage", !.members = registry]
    BY <1>2 DEF FreshGate
  <2>2. call' \in Calls /\ call'.at = "stage"
    BY <2>1 DEF IInv, TypeOK, Calls, Merging
  <2>3. Gated(call', record.gate, staging.commits) /\ Uncommitted(call', branch)
        /\ \A s \in Story : Placed(call', s, registry[s], branch[s], tree[s], outside = 0)
    BY <1>1, <2>2 DEF Gated, Uncommitted, Placed, Merging
  <2> QED  BY <1>1, <1>2, <2>2, <2>3, Walks DEF FreshGate
<1>3. CASE ~GatePasses
  BY <1>3, Refuses DEF FreshGate
<1> QED  BY <1>2, <1>3

LEMMA PrepareStagingStep == ASSUME IInv, PrepareStaging PROVE IInv'
<1>1. record.gate # None /\ ~abandoned
  BY HasGate DEF PrepareStaging, At, Merging
<1>2. CASE staging' = [commits |-> Baseline, clean |-> TRUE] /\ Each("drift")
           /\ UNCHANGED << faults, outcome >>
  <2>1. call' \in Calls /\ call'.at = "drift" /\ call'.left = Order
    BY <1>2, Eachs DEF IInv
  <2>2. call'.left # << >>
    BY <2>1, Literals
  <2>3. Gated(call', record.gate, staging'.commits) /\ Uncommitted(call', branch)
        /\ \A s \in Story : Placed(call', s, registry[s], branch[s], tree[s], outside = 0)
    BY <1>1, <1>2, <2>1, <2>2, Literals DEF Gated, Uncommitted, Placed, Merging
  <2>4. staging' \in [commits : Commits \cup {None}, clean : BOOLEAN]
    BY <1>2, Literals
  <2>5. TypeOK'
    BY <1>2, <2>1, <2>4 DEF PrepareStaging, Unchanged, IInv, TypeOK
  <2> QED  BY <1>1, <2>3, <2>5, Control DEF PrepareStaging, Unchanged
<1>3. CASE Blocked("TEMP_RESOURCE_DIVERGENCE")
  BY <1>3, Refuses DEF PrepareStaging
<1> QED  BY <1>2, <1>3 DEF PrepareStaging

LEMMA CheckDriftStep == ASSUME IInv, CheckDrift PROVE IInv'
<1>1. record.gate # None /\ ~abandoned /\ call.at = "drift"
  BY HasGate DEF CheckDrift, At, Merging
<1>2. CASE Drift # None
  BY <1>2, Refuses DEF CheckDrift
<1>3. CASE Drift = None /\ call.left # << >>
  <2>1. Goto("member") /\ UNCHANGED << faults, staging, outcome >>
    BY <1>3 DEF CheckDrift
  <2>2. call' \in Calls /\ call'.at = "member"
    BY <2>1 DEF Goto, IInv, TypeOK, Calls, Merging
  <2>3. Gated(call', record.gate, staging.commits) /\ Uncommitted(call', branch)
        /\ \A s \in Story : Placed(call', s, registry[s], branch[s], tree[s], outside = 0)
    BY <1>1, <2>2 DEF Gated, Uncommitted, Placed, Merging, IInv
  <2> QED  BY <1>1, <2>1, <2>2, <2>3, Walks DEF CheckDrift
<1>4. CASE Drift = None /\ call.left = << >>
  <2>1. Goto("promote") /\ UNCHANGED << faults, staging, outcome >>
    BY <1>4 DEF CheckDrift
  <2>2. call' \in Calls /\ call'.at = "promote" /\ call'.staged = call.staged
    BY <2>1 DEF Goto, IInv, TypeOK, Calls, Merging
  <2>3. call.staged = Chain(record.gate)
    BY <1>1, <1>4 DEF IInv, Gated
  <2>4. Gated(call', record.gate, staging.commits) /\ Uncommitted(call', branch)
        /\ \A s \in Story : Placed(call', s, registry[s], branch[s], tree[s], outside = 0)
    BY <1>1, <2>2, <2>3 DEF Gated, Uncommitted, Placed, Merging
  <2> QED  BY <1>1, <2>1, <2>2, <2>4, Walks DEF CheckDrift
<1> QED  BY <1>2, <1>3, <1>4

LEMMA MergedType ==
    ASSUME IInv, NEW s \in Story, call.at = "member"
    PROVE  /\ Append(staging.commits, Merge(s, record.gate[s])) \in Commits
           /\ staging.commits \in Commits
<1>1. record.gate \in [Story -> ResultCommit]
  BY HasGate DEF Merging
<1>2. Merge(s, record.gate[s]) \in [of : Story \cup {None}, commit : ResultCommit]
  BY <1>1, Literals
<1>3. staging.commits \in Commits
  BY DEF IInv, Gated
<1> QED  BY <1>2, <1>3 DEF Commits

LEMMA MergeMemberStep == ASSUME IInv, NEW s \in Story, MergeMember(s) PROVE IInv'
<1> DEFINE merged == Append(staging.commits, Merge(s, record.gate[s]))
           left == Tail(call.left)
<1>1. record.gate # None /\ ~abandoned /\ call.at = "member"
  BY HasGate DEF MergeMember, At, Merging
<1>2. merged \in Commits
  BY <1>1, MergedType
<1>3. left \in Seq(Story)
  BY DEF MergeMember, This, IInv, TypeOK, Calls
<1>4. staging' = [staging EXCEPT !.commits = merged]
  BY DEF MergeMember
<1>5. CASE left = << >> /\ merged # Chain(record.gate)
  <2>1. Answer("BLOCKED", "FINAL_STATE_INVALID", primary.commits)
    BY <1>5 DEF MergeMember
  <2> HIDE DEF merged
  <2>2. TypeOK'
    BY <1>2, <1>4, <2>1, Returns DEF MergeMember, Answer, Unchanged, IInv, TypeOK
  <2> QED  BY <2>1, <2>2, Answers DEF MergeMember, Answer
<1>6. CASE ~(left = << >> /\ merged # Chain(record.gate))
  <2>1. call' = [call EXCEPT !.at = "drift", !.left = left, !.staged = merged]
    BY <1>6 DEF MergeMember
  <2> HIDE DEF merged, left
  <2>2. call' \in Calls /\ call'.at = "drift" /\ call'.left = left /\ call'.staged = merged
    BY <1>2, <1>3, <2>1 DEF IInv, TypeOK, Calls, Merging
  <2>3. TypeOK' /\ staging'.commits = merged
    BY <1>2, <1>4, <2>2 DEF MergeMember, Unchanged, IInv, TypeOK
  <2>4. Gated(call', record.gate, staging'.commits) /\ Uncommitted(call', branch)
        /\ \A t \in Story : Placed(call', t, registry[t], branch[t], tree[t], outside = 0)
    BY <1>1, <1>2, <1>6, <2>2, <2>3 DEF Gated, Uncommitted, Placed, Merging
  <2> QED  BY <1>1, <2>3, <2>4, Control DEF MergeMember, Unchanged
<1> QED  BY <1>5, <1>6

LEMMA MergeMemberFailsStep == ASSUME IInv, NEW s \in Story, MergeMemberFails(s) PROVE IInv'
<1>1. call.at = "member"
  BY DEF MergeMemberFails, At
<1>2. Append(staging.commits, Merge(s, record.gate[s])) \in Commits
  BY <1>1, MergedType
<1>3. staging' \in [commits : Commits \cup {None}, clean : BOOLEAN]
  BY <1>2 DEF MergeMemberFails, IInv, TypeOK
<1>4. faults' \in Nat /\ (UNCHANGED faults \/ Fault)
  BY DEF MergeMemberFails, Fault, NoFault, IInv, TypeOK
<1>5. TypeOK'
  BY <1>3, <1>4, Returns DEF MergeMemberFails, Answer, Unchanged, IInv, TypeOK
<1> QED  BY <1>4, <1>5, Answers DEF MergeMemberFails, Answer

LEMMA CheckPromotionStep == ASSUME IInv, CheckPromotion PROVE IInv'
<1>1. record.gate # None /\ ~abandoned /\ call.at = "promote"
  BY HasGate DEF CheckPromotion, At, Merging
<1>2. CASE AtBaseline /\ primary.clean
  <2>1. Goto("forward") /\ UNCHANGED << faults, staging, outcome >>
    BY <1>2 DEF CheckPromotion
  <2>2. call' \in Calls /\ call'.at = "forward" /\ call'.staged = call.staged
    BY <2>1 DEF Goto, IInv, TypeOK, Calls, Merging
  <2>3. call.staged = Chain(record.gate)
    BY <1>1 DEF IInv, Gated
  <2>4. Gated(call', record.gate, staging.commits) /\ Uncommitted(call', branch)
        /\ \A t \in Story : Placed(call', t, registry[t], branch[t], tree[t], outside = 0)
    BY <1>1, <2>2, <2>3 DEF Gated, Uncommitted, Placed, Merging
  <2> QED  BY <1>1, <2>1, <2>2, <2>4, Walks DEF CheckPromotion
<1>3. CASE ~(AtBaseline /\ primary.clean)
  BY <1>3, Refuses DEF CheckPromotion
<1> QED  BY <1>2, <1>3

(* The fast-forward: the primary, at the baseline, becomes the gated chain. *)
LEMMA Forwards ==
    ASSUME IInv, call.at = "forward", AtBaseline,
           primary' = [primary EXCEPT !.commits = call.staged],
           UNCHANGED << registry, branch, tree, validated, outside, record, staging, abandoned >>,
           UNCHANGED faults \/ Fault,
           call' \in Calls, call'.at \in {"confirm", "idle"}
    PROVE  IInv'
<1>1. record.gate # None /\ ~abandoned /\ record.gate \in [Story -> ResultCommit]
  BY HasGate DEF Merging
<1>2. call.staged = Chain(record.gate)
  BY DEF IInv, Gated
<1>3. primary'.commits = Chain(record.gate) /\ primary' \in Primaries
  BY <1>1, <1>2, ChainType DEF IInv, TypeOK, Primaries
<1>4. faults' \in Nat
  BY DEF Fault, IInv, TypeOK
<1>5. TypeOK'
  BY <1>3, <1>4 DEF IInv, TypeOK
<1>6. PromotedIsGated'
  BY <1>1, <1>3, ChainType, Literals DEF PromotedIsGated
<1>7. OneImplementation' /\ RegistryIsBacked' /\ AbandonedIsNotPromoted' /\ Rooted'
  BY <1>1 DEF IInv, Rooted, OneImplementation, RegistryIsBacked, Bound, AbandonedIsNotPromoted
<1> QED  BY <1>1, <1>5, <1>6, <1>7, Elsewhere DEF IInv, Merging

LEMMA PromoteStep == ASSUME IInv, Promote PROVE IInv'
<1>1. call' \in Calls /\ call'.at = "confirm"
  BY DEF Promote, Goto, IInv, TypeOK, Calls
<1> QED  BY <1>1, Forwards DEF Promote, At, integrationVars

LEMMA PromoteFailsStep == ASSUME IInv, PromoteFails PROVE IInv'
<1>1. call' \in Calls /\ call'.at = "idle"
  BY Returns DEF PromoteFails, Answer
<1>2. CASE UNCHANGED primary
  BY <1>2, Ends DEF PromoteFails, Answer, Unchanged, NoFault
<1>3. CASE primary' # primary
  BY <1>1, <1>3, Forwards DEF PromoteFails, At
<1> QED  BY <1>2, <1>3

LEMMA ConfirmPromotionStep == ASSUME IInv, ConfirmPromotion PROVE IInv'
<1>1. ~abandoned
  BY DEF ConfirmPromotion, At, IInv
<1>2. CASE Goto("merged") /\ UNCHANGED outcome
  <2>1. call' \in Calls /\ call'.at = "merged"
    BY <1>2 DEF Goto, IInv, TypeOK, Calls
  <2> QED  BY <1>1, <2>1, Strolls DEF ConfirmPromotion, Merging
<1>3. CASE Answer("FAILED", "FINAL_STATE_INVALID", primary.commits)
  BY <1>3, Ends DEF ConfirmPromotion, Answer
<1> QED  BY <1>2, <1>3 DEF ConfirmPromotion

LEMMA RecordIntegrationStep == ASSUME IInv, RecordIntegration PROVE IInv'
<1>1. record' \in [started : BOOLEAN, gate : [Story -> ResultCommit] \cup {None}, integrated : BOOLEAN]
      /\ record'.gate = record.gate
  BY DEF RecordIntegration, IInv, TypeOK
<1>2. TypeOK'
  BY <1>1, Returns DEF RecordIntegration, Unchanged, IInv, TypeOK
<1> QED  BY <1>1, <1>2, Answers DEF RecordIntegration

(* The gate that still passes saw the primary at the baseline. *)
LEMMA RemediateStep == ASSUME IInv, Remediate PROVE IInv'
<1>1. call.at = "idle"
  BY DEF Remediate, At
<1>2. "FAIL" \notin {IF primary.commits \in {Baseline, Baseline} THEN "PASS" ELSE "FAIL",
                     IF primary.clean THEN "PASS" ELSE "UNKNOWN"}
  <2>1. PrimaryVerdict(Baseline) # "FAIL"
    BY DEF Remediate, Remediable, GateVerdict, Worst
  <2> QED  BY <2>1 DEF PrimaryVerdict, Worst
<1>3. primary.commits = Baseline
  BY <1>2
<1>4. ~Merged
  BY <1>3 DEF Merged, Baseline
<1>5. TypeOK'
  BY DEF Remediate, Unchanged, IInv, TypeOK
<1>6. PromotedIsGated' /\ AbandonedIsNotPromoted'
  BY <1>4 DEF Remediate, Unchanged, PromotedIsGated, AbandonedIsNotPromoted, Merged
<1>7. OneImplementation' /\ RegistryIsBacked' /\ Rooted'
  BY DEF Remediate, Unchanged, IInv, OneImplementation, RegistryIsBacked, Bound, Rooted
<1> QED  BY <1>1, <1>5, <1>6, <1>7, Elsewhere DEF IInv, Remediate, Unchanged, Merging

LEMMA ChangeStagingStep == ASSUME IInv, ChangeStaging PROVE IInv'
<1>1. staging.commits \in Commits
  BY DEF ChangeStaging, IInv, TypeOK
<1>2. Append(staging.commits, Foreign) \in Commits
  BY <1>1, Literals DEF Commits
<1>3. staging' \in [commits : Commits, clean : BOOLEAN]
  BY <1>1, <1>2 DEF ChangeStaging, IInv, TypeOK
<1>4. outside' \in Nat /\ outside' # 0
  BY DEF ChangeStaging, IInv, TypeOK
<1>5. TypeOK'
  BY <1>3, <1>4 DEF ChangeStaging, IInv, TypeOK
<1>6. PromotedIsGated' /\ AbandonedIsNotPromoted'
  BY DEF ChangeStaging, IInv, PromotedIsGated, AbandonedIsNotPromoted, Merged
<1>7. OneImplementation' /\ RegistryIsBacked' /\ Rooted'
  BY <1>4 DEF ChangeStaging, IInv, OneImplementation, RegistryIsBacked, Bound, Rooted
<1>8. Gated(call', record'.gate, staging'.commits) /\ Uncommitted(call', branch')
  BY <1>3 DEF ChangeStaging, IInv, Gated, Uncommitted
<1>9. \A s \in Story : Placed(call, s, registry[s], branch[s], tree[s], FALSE)
  BY DEF IInv, Placed
<1>10. \A s \in Story : Placed(call', s, registry'[s], branch'[s], tree'[s], (outside = 0)')
  BY <1>4, <1>9 DEF ChangeStaging
<1> QED  BY <1>5, <1>6, <1>7, <1>8, <1>10 DEF IInv, ChangeStaging

---------------------------------------------------------------------------
(* The members.                                                            *)

Once(tip) == tip # None =>
    \A i, j \in DOMAIN tip : tip[i] = "impl" /\ tip[j] = "impl" => i = j

Backed(entry, tip, state) ==
    /\ entry.status = "ACTIVE" => state # "none" /\ tip # None
    /\ entry.status = "CLEANED" => state = "none"

LEMMA PerMember ==
    /\ OneImplementation <=> \A s \in Story : Once(branch[s])
    /\ RegistryIsBacked <=> (outside = 0 => \A s \in Story : Backed(registry[s], branch[s], tree[s]))
    /\ Rooted <=> \A s \in Story : tree[s] # "none" => branch[s] # None
  BY DEF OneImplementation, Once, RegistryIsBacked, Backed, Bound, Rooted

LEMMA PerMemberNext ==
    /\ OneImplementation' <=> \A s \in Story : Once(branch'[s])
    /\ RegistryIsBacked' <=> (outside' = 0 => \A s \in Story : Backed(registry'[s], branch'[s], tree'[s]))
    /\ Rooted' <=> \A s \in Story : tree'[s] # "none" => branch'[s] # None
  BY DEF OneImplementation, Once, RegistryIsBacked, Backed, Bound, Rooted

(* A step that alters one member. *)
LEMMA Alters ==
    ASSUME IInv, NEW s \in Story,
           UNCHANGED << primary, outside >>, UNCHANGED integrationVars,
           registry' \in Registries, branch' \in [Story -> ResultCommit],
           tree' \in [Story -> TreeState], validated' \subseteq Story,
           UNCHANGED faults \/ Fault,
           \A t \in Story \ {s} : /\ registry'[t] = registry[t]
                                  /\ branch'[t] = branch[t] /\ tree'[t] = tree[t],
           Once(branch'[s]), outside = 0 => Backed(registry'[s], branch'[s], tree'[s]),
           tree'[s] # "none" => branch'[s] # None,
           call' \in Calls, call'.at \notin {"gate", "inspect"} \cup Merging,
           abandoned => call'.at \in {"idle", "cleaned"},
           \/ call'.at \notin {"commit", "activate", "activated", "cleaned"}
           \/ /\ call'.left # << >> => Head(call'.left) = s
              /\ call'.at = "commit" => NoImplementation(branch'[s])
              /\ Placed(call', s, registry'[s], branch'[s], tree'[s], outside = 0)
    PROVE  IInv'
<1>1. TypeOK'
  BY DEF IInv, TypeOK, integrationVars, Fault
<1>2. PromotedIsGated' /\ AbandonedIsNotPromoted'
  BY DEF integrationVars, IInv, PromotedIsGated, AbandonedIsNotPromoted, Merged
<1>3. \A t \in Story : /\ Once(branch[t])
                       /\ outside = 0 => Backed(registry[t], branch[t], tree[t])
                       /\ tree[t] # "none" => branch[t] # None
  BY PerMember DEF IInv
<1>4. \A t \in Story : /\ Once(branch'[t])
                       /\ outside = 0 => Backed(registry'[t], branch'[t], tree'[t])
                       /\ tree'[t] # "none" => branch'[t] # None
  BY <1>3
<1>5. OneImplementation' /\ RegistryIsBacked' /\ Rooted'
  BY <1>4, PerMemberNext
<1>6. Gated(call', record'.gate, staging'.commits)
  BY DEF Gated, Merging
<1>7. Uncommitted(call', branch')
  BY DEF Uncommitted
<1>8. \A t \in Story : Placed(call', t, registry'[t], branch'[t], tree'[t], outside = 0)
  BY DEF Placed
<1> QED  BY <1>1, <1>2, <1>5, <1>6, <1>7, <1>8 DEF IInv, integrationVars

(* What holds of a member before the step. *)
LEMMA Member ==
    ASSUME IInv, NEW s \in Story
    PROVE  /\ registry[s] \in [status : AssignmentStatus, result : ResultCommit]
           /\ branch[s] \in ResultCommit /\ tree[s] \in TreeState
           /\ Once(branch[s]) /\ (outside = 0 => Backed(registry[s], branch[s], tree[s]))
           /\ tree[s] # "none" => branch[s] # None
           /\ Placed(call, s, registry[s], branch[s], tree[s], outside = 0)
           /\ Once(Baseline) /\ NoImplementation(Baseline) /\ Baseline # None
           /\ Baseline \in ResultCommit
<1>1. /\ registry[s] \in [status : AssignmentStatus, result : ResultCommit]
      /\ branch[s] \in ResultCommit /\ tree[s] \in TreeState
  BY DEF IInv, TypeOK, Registries
<1>2. /\ Once(branch[s]) /\ (outside = 0 => Backed(registry[s], branch[s], tree[s]))
      /\ tree[s] # "none" => branch[s] # None
  BY PerMember DEF IInv
<1>3. Once(Baseline) /\ NoImplementation(Baseline)
  BY DEF Once, NoImplementation, Baseline
<1>4. Baseline # None /\ Baseline \in ResultCommit
  BY Literals DEF ResultCommit
<1> QED  BY <1>1, <1>2, <1>3, <1>4 DEF IInv

(* What an authorised transition makes of the registry. *)
LEMMA Persists ==
    ASSUME IInv, NEW s \in Story, NEW status \in AssignmentStatus, NEW result \in ResultCommit,
           registry' = [registry EXCEPT ![s] = [status |-> status, result |-> result]]
    PROVE  /\ registry' \in Registries
           /\ registry'[s].status = status /\ registry'[s].result = result
           /\ \A t \in Story \ {s} : registry'[t] = registry[t]
  BY DEF IInv, TypeOK, Registries

LEMMA PlanAssignmentStep ==
    ASSUME IInv, NEW s \in Story, PlanAssignment(s), UNCHANGED integrationVars PROVE IInv'
<1>1. call' \in Calls /\ call'.at = "activate" /\ call'.left = call.left
  BY DEF PlanAssignment, Goto, IInv, TypeOK, Calls, Preparing
<1>2. /\ registry' \in Registries /\ registry'[s].status = "PLANNED"
      /\ \A t \in Story \ {s} : registry'[t] = registry[t]
  <2>1. CASE registry[s].status = "ABSENT"
    <3>1. registry' = [registry EXCEPT ![s] = [status |-> "PLANNED", result |-> None]]
      BY <2>1 DEF PlanAssignment, Persist
    <3> QED  BY <3>1, Persists DEF AssignmentStatus, ResultCommit
  <2>2. CASE registry[s].status # "ABSENT"
    BY <2>2 DEF PlanAssignment, IInv, TypeOK
  <2> QED  BY <2>1, <2>2
<1>3. ~abandoned
  BY DEF PlanAssignment, At, IInv
<1>4. Backed(registry'[s], branch[s], tree[s])
  BY <1>2 DEF Backed
<1>5. Placed(call', s, registry'[s], branch[s], tree[s], outside = 0)
  BY <1>1, <1>2 DEF Placed
<1> QED
  BY <1>1, <1>2, <1>3, <1>4, <1>5, Member, Alters
  DEF PlanAssignment, This, Merging, IInv, TypeOK

LEMMA ResumeAssignmentStep ==
    ASSUME IInv, NEW s \in Story, ResumeAssignment(s), UNCHANGED integrationVars PROVE IInv'
<1>1. call' \in Calls /\ call'.at = "prepare"
  BY Proceeds DEF ResumeAssignment, IInv
<1>2. ~abandoned
  BY DEF ResumeAssignment, At, IInv
<1>3. call'.at \notin {"gate", "inspect", "commit", "activate", "activated", "cleaned"} \cup Merging
  BY <1>1 DEF Merging
<1>4. Unchanged /\ UNCHANGED << faults, staging, abandoned >> /\ record' = record
  BY DEF ResumeAssignment, Unchanged, integrationVars
<1> QED  BY <1>1, <1>2, <1>3, <1>4, Strolls

LEMMA AddWorktreeStep ==
    ASSUME IInv, NEW s \in Story, AddWorktree(s), UNCHANGED integrationVars PROVE IInv'
<1>1. call' \in Calls /\ call'.at = "activated" /\ call'.left = call.left
  <2>1. call \in Calls /\ "activated" \in Preparing
    BY DEF IInv, TypeOK, Preparing
  <2> QED  BY <2>1 DEF AddWorktree, Goto, Calls
<1>2. /\ branch' \in [Story -> ResultCommit] /\ branch'[s] = Baseline
      /\ tree' \in [Story -> TreeState] /\ tree'[s] = "clean"
      /\ \A t \in Story \ {s} : branch'[t] = branch[t] /\ tree'[t] = tree[t]
  BY Member DEF AddWorktree, IInv, TypeOK, TreeState
<1>3. registry[s].status = "PLANNED" /\ ~abandoned
  BY DEF AddWorktree, At, This, IInv, Placed
<1>4. Backed(registry[s], branch'[s], tree'[s])
      /\ Placed(call', s, registry[s], branch'[s], tree'[s], outside = 0)
  BY <1>1, <1>2, <1>3 DEF Backed, Placed
<1> QED
  BY <1>1, <1>2, <1>3, <1>4, Member, Alters DEF AddWorktree, This, Merging, IInv, TypeOK

LEMMA AddWorktreeFailsStep ==
    ASSUME IInv, NEW s \in Story, AddWorktreeFails(s), UNCHANGED integrationVars PROVE IInv'
<1>1. call' \in Calls /\ call'.at = "idle"
  BY Returns DEF AddWorktreeFails
<1>2. /\ branch' \in [Story -> ResultCommit] /\ branch'[s] \in {None, Baseline}
      /\ \A t \in Story \ {s} : branch'[t] = branch[t]
  BY Member DEF AddWorktreeFails, IInv, TypeOK
<1>3. registry[s].status = "PLANNED" /\ tree[s] = "none"
  BY DEF AddWorktreeFails, At, This, IInv, Placed, Bound
<1>4. Backed(registry[s], branch'[s], tree[s])
  BY <1>3 DEF Backed
<1>5. Once(branch'[s])
  BY <1>2, Member DEF Once
<1> QED
  BY <1>1, <1>2, <1>3, <1>4, <1>5, Alters DEF AddWorktreeFails, Merging, IInv, TypeOK

LEMMA ActivateStep ==
    ASSUME IInv, NEW s \in Story, Activate(s), UNCHANGED integrationVars PROVE IInv'
<1>1. call' \in Calls /\ call'.at = "prepare"
  BY Proceeds DEF Activate, IInv
<1>2. /\ registry' \in Registries /\ registry'[s].status = "ACTIVE"
      /\ \A t \in Story \ {s} : registry'[t] = registry[t]
  BY Persists DEF Activate, Persist, AssignmentStatus, ResultCommit
<1>3. ~abandoned
  BY DEF Activate, At, IInv
<1>4. Backed(registry'[s], branch[s], tree[s])
  BY <1>2, Member DEF Activate, Backed
<1> QED
  BY <1>1, <1>2, <1>3, <1>4, Member, Alters DEF Activate, Merging, IInv, TypeOK

LEMMA ActivationUnverifiedStep ==
    ASSUME IInv, NEW s \in Story, ActivationUnverified(s), UNCHANGED integrationVars PROVE IInv'
<1>1. call' \in Calls /\ call'.at = "idle"
  BY Returns DEF ActivationUnverified
<1>2. /\ tree' \in [Story -> TreeState] /\ tree'[s] \in {"none", tree[s]}
      /\ \A t \in Story \ {s} : tree'[t] = tree[t]
  BY Member DEF ActivationUnverified, IInv, TypeOK, TreeState
<1>3. registry[s].status = "PLANNED"
  BY DEF ActivationUnverified, At, This, IInv, Placed
<1>4. Backed(registry[s], branch[s], tree'[s])
  BY <1>3 DEF Backed
<1> QED
  BY <1>1, <1>2, <1>3, <1>4, Member, Alters DEF ActivationUnverified, Merging, IInv, TypeOK

LEMMA ImplementStep ==
    ASSUME IInv, NEW s \in Story, Implement(s), UNCHANGED integrationVars PROVE IInv'
<1>1. call.at = "execute" /\ call' = call
  BY DEF Implement, At
<1>2. /\ tree' \in [Story -> TreeState] /\ tree'[s] = "exact"
      /\ \A t \in Story \ {s} : tree'[t] = tree[t]
  BY DEF Implement, IInv, TypeOK, TreeState
<1>3. ~abandoned /\ call \in Calls /\ validated' \subseteq Story
  BY <1>1 DEF Implement, IInv, TypeOK
<1>4. Backed(registry[s], branch[s], tree'[s]) /\ branch[s] # None
  BY <1>2, Member DEF Implement, Resumable, Backed
<1> QED
  BY <1>1, <1>2, <1>3, <1>4, Member, Alters DEF Implement, Merging, IInv, TypeOK

LEMMA FailMemberStep ==
    ASSUME IInv, NEW s \in Story, FailMember(s), UNCHANGED integrationVars PROVE IInv'
<1>1. call' \in Calls /\ call'.at = "idle"
  BY Returns DEF FailMember
<1>2. /\ registry' \in Registries /\ registry'[s].status = "FAILED"
      /\ \A t \in Story \ {s} : registry'[t] = registry[t]
  BY Persists DEF FailMember, Persist, AssignmentStatus, ResultCommit
<1>4. Backed(registry'[s], branch[s], tree[s])
  BY <1>2 DEF Backed
<1> QED
  BY <1>1, <1>2, <1>4, Member, Alters DEF FailMember, Merging, IInv, TypeOK

LEMMA StageImplementationStep ==
    ASSUME IInv, NEW s \in Story, StageImplementation(s), UNCHANGED integrationVars PROVE IInv'
<1>1. call' \in Calls /\ call'.at = "commit" /\ call'.left = call.left
  BY DEF StageImplementation, Goto, IInv, TypeOK, Calls, Submitting
<1>2. /\ tree' \in [Story -> TreeState] /\ tree'[s] = "staged"
      /\ \A t \in Story \ {s} : tree'[t] = tree[t]
  BY DEF StageImplementation, IInv, TypeOK, TreeState
<1>3. ~abandoned
  BY DEF StageImplementation, At, IInv
<1>4. registry[s].status = "ACTIVE" /\ branch[s] = Baseline
  BY DEF StageImplementation, Resumable
<1>5. Backed(registry[s], branch[s], tree'[s])
      /\ Placed(call', s, registry[s], branch[s], tree'[s], outside = 0)
  BY <1>1, <1>2, <1>4, Member DEF Backed, Placed
<1> QED
  BY <1>1, <1>2, <1>3, <1>4, <1>5, Member, Alters
  DEF StageImplementation, This, Merging, IInv, TypeOK

LEMMA FindCommitStep ==
    ASSUME IInv, NEW s \in Story, FindCommit(s), UNCHANGED integrationVars PROVE IInv'
<1>1. call' \in Calls /\ call'.at = "recognise"
  BY DEF FindCommit, Goto, IInv, TypeOK, Calls, Submitting
<1>2. ~abandoned
  BY DEF FindCommit, At, IInv
<1> QED  BY <1>1, <1>2, Strolls DEF FindCommit, Unchanged, integrationVars, Merging

(* Appending to a branch: an implementation where there was none, or any   *)
(* other commit.                                                           *)
LEMMA Appends ==
    ASSUME NEW tip \in Tip, NEW kind \in {"impl", "same", "stray"}
    PROVE  /\ Append(tip, kind) \in Tip /\ Append(tip, kind) # None
           /\ kind = "impl" /\ NoImplementation(tip) /\ tip # None => Once(Append(tip, kind))
           /\ kind # "impl" /\ Once(tip) /\ tip # None => Once(Append(tip, kind))
           /\ kind # "impl" /\ NoImplementation(tip) /\ tip # None =>
                 NoImplementation(Append(tip, kind))
<1>1. Append(tip, kind) \in Tip
  BY DEF Tip
<1>2. Append(tip, kind) # None
  BY <1>1, Literals
<1>3. /\ DOMAIN Append(tip, kind) = 1 .. Len(tip) + 1 /\ DOMAIN tip = 1 .. Len(tip)
      /\ Len(tip) \in Nat
      /\ \A i \in 1 .. Len(tip) : Append(tip, kind)[i] = tip[i]
      /\ Append(tip, kind)[Len(tip) + 1] = kind
  BY DEF Tip
<1>4. \A i \in 1 .. Len(tip) + 1 : i = Len(tip) + 1 \/ i \in 1 .. Len(tip)
  BY <1>3
<1>5. ASSUME kind = "impl", NoImplementation(tip), tip # None
      PROVE  Once(Append(tip, kind))
  BY <1>3, <1>4, <1>5 DEF NoImplementation, Once
<1>6. ASSUME kind # "impl", Once(tip), tip # None
      PROVE  Once(Append(tip, kind))
  BY <1>3, <1>4, <1>6 DEF Once
<1>7. ASSUME kind # "impl", NoImplementation(tip), tip # None
      PROVE  NoImplementation(Append(tip, kind))
  BY <1>3, <1>4, <1>7 DEF NoImplementation
<1> QED  BY <1>1, <1>2, <1>5, <1>6, <1>7

LEMMA CommitIndexStep ==
    ASSUME IInv, NEW s \in Story, CommitIndex(s), UNCHANGED integrationVars PROVE IInv'
<1>1. call' \in Calls /\ call'.at = "recognise" /\ ~abandoned
  BY DEF CommitIndex, At, Goto, IInv, TypeOK, Calls, Submitting
<1>2. tree[s] \in {"staged", "other"}
  BY DEF CommitIndex, Committed
<1>3. branch[s] \in Tip /\ branch[s] # None /\ Once(branch[s])
  BY <1>2, Member DEF ResultCommit
<1>4. NoImplementation(branch[s])
  BY DEF CommitIndex, At, This, IInv, Uncommitted
<1>5. PICK kind \in {"impl", "stray"} : branch' = [branch EXCEPT ![s] = Append(@, kind)]
  BY DEF CommitIndex, Committed
<1>6. Append(branch[s], kind) \in Tip /\ Append(branch[s], kind) # None /\ Once(Append(branch[s], kind))
  BY <1>3, <1>4, Appends
<1>7. /\ branch' \in [Story -> ResultCommit] /\ branch'[s] = Append(branch[s], kind)
      /\ \A t \in Story \ {s} : branch'[t] = branch[t]
  BY <1>5, <1>6 DEF IInv, TypeOK, ResultCommit
<1>8. /\ tree' \in [Story -> TreeState] /\ tree'[s] \in {"clean", tree[s]}
      /\ \A t \in Story \ {s} : tree'[t] = tree[t]
  <2>1. tree \in [Story -> TreeState] /\ "clean" \in TreeState
    BY DEF IInv, TypeOK, TreeState
  <2>2. tree' = tree \/ tree' = [tree EXCEPT ![s] = "clean"]
    BY DEF CommitIndex, Committed
  <2> QED  BY <2>1, <2>2
<1>9. outside = 0 => Backed(registry[s], branch'[s], tree'[s])
  BY <1>2, <1>6, <1>7, <1>8, Member DEF Backed
<1>10. call'.at \notin {"gate", "inspect"} \cup Merging
  BY <1>1 DEF Merging
<1>11. registry' \in Registries /\ validated' \subseteq Story /\ registry' = registry
       /\ UNCHANGED << primary, outside >> /\ (UNCHANGED faults \/ Fault)
  BY DEF CommitIndex, NoFault, IInv, TypeOK
<1> QED
  BY <1>1, <1>6, <1>7, <1>8, <1>9, <1>10, <1>11, Alters

LEMMA CommitFailsStep ==
    ASSUME IInv, NEW s \in Story, CommitFails(s), UNCHANGED integrationVars PROVE IInv'
<1>1. call' \in Calls /\ call'.at \in {"recognise", "idle"} /\ ~abandoned
  BY Returns DEF CommitFails, At, Goto, IInv, TypeOK, Calls, Submitting
<1> QED  BY <1>1, Strolls DEF CommitFails, NoFault, Unchanged, integrationVars, Merging

LEMMA RecogniseStep ==
    ASSUME IInv, NEW s \in Story, Recognise(s), UNCHANGED integrationVars PROVE IInv'
<1>1. branch[s] \in Tip
  BY DEF Recognise, Recognised, Tip
<1>2. call' \in Calls /\ call'.at = "complete" /\ ~abandoned
  BY <1>1 DEF Recognise, At, IInv, TypeOK, Calls, Submitting
<1> QED  BY <1>2, Strolls DEF Recognise, Unchanged, integrationVars, Merging

LEMMA CompleteStep ==
    ASSUME IInv, NEW s \in Story, Complete(s), UNCHANGED integrationVars PROVE IInv'
<1>1. call' \in Calls /\ call'.at \in {"submit", "idle"}
  BY Returns, Proceeds DEF Complete, IInv
<1>2. branch[s] \in ResultCommit /\ ~abandoned
  BY Member DEF Complete, At, IInv
<1>3. /\ registry' \in Registries /\ registry'[s].status = "COMPLETED"
      /\ \A t \in Story \ {s} : registry'[t] = registry[t]
  BY <1>2, Persists DEF Complete, Persist, AssignmentStatus
<1>4. Backed(registry'[s], branch[s], tree[s])
  BY <1>3 DEF Backed
<1> QED
  BY <1>1, <1>2, <1>3, <1>4, Member, Alters DEF Complete, Merging, IInv, TypeOK

LEMMA CleanedStep ==
    ASSUME IInv, NEW s \in Story, Cleaned(s), UNCHANGED integrationVars PROVE IInv'
<1>1. call' \in Calls /\ call'.at = "idle"
  BY Returns DEF Cleaned
<1>2. registry[s].result \in ResultCommit
  BY Member
<1>3. /\ registry' \in Registries /\ registry'[s].status = "CLEANED"
      /\ \A t \in Story \ {s} : registry'[t] = registry[t]
  BY <1>2, Persists DEF Cleaned, Persist, AssignmentStatus
<1>4. outside = 0 => tree[s] = "none"
  BY DEF Cleaned, At, This, IInv, Placed
<1>5. outside = 0 => Backed(registry'[s], branch[s], tree[s])
  BY <1>3, <1>4 DEF Backed
<1> QED
  BY <1>1, <1>3, <1>5, Member, Alters DEF Cleaned, Merging, IInv, TypeOK

LEMMA RemoveWorktreeStep ==
    ASSUME IInv, NEW s \in Story, RemoveWorktree(s), UNCHANGED integrationVars PROVE IInv'
<1>1. call' \in Calls /\ call'.at = "cleaned" /\ call'.left = << s >>
  <2>1. << s >> \in Seq(Story)
    OBVIOUS
  <2>2. call' = [NoCall EXCEPT !.at = "cleaned", !.left = << s >>]
    BY DEF RemoveWorktree
  <2> QED  BY <2>1, <2>2, NoCallType DEF Calls
<1>2. /\ tree' \in [Story -> TreeState] /\ tree'[s] = "none"
      /\ \A t \in Story \ {s} : tree'[t] = tree[t]
  BY DEF RemoveWorktree, IInv, TypeOK, TreeState
<1>3. registry[s].status \in {"COMPLETED", "FAILED"}
  BY DEF RemoveWorktree, StillCompleted
<1>4. Backed(registry[s], branch[s], tree'[s])
      /\ Placed(call', s, registry[s], branch[s], tree'[s], outside = 0)
  BY <1>1, <1>2, <1>3 DEF Backed, Placed
<1>5. Head(call'.left) = s
  BY <1>1
<1> QED
  BY <1>1, <1>2, <1>4, <1>5, Member, Alters DEF RemoveWorktree, Merging, IInv, TypeOK

LEMMA CleanupFailedStep ==
    ASSUME IInv, NEW s \in Story, CleanupFailed(s), UNCHANGED integrationVars PROVE IInv'
<1>1. call.at = "idle" /\ call' = call /\ call \in Calls
  BY DEF CleanupFailed, At, IInv, TypeOK
<1>2. registry[s].result \in ResultCommit
  BY Member
<1>3. /\ registry' \in Registries /\ registry'[s].status = "CLEANED"
      /\ \A t \in Story \ {s} : registry'[t] = registry[t]
  BY <1>2, Persists DEF CleanupFailed, Persist, AssignmentStatus
<1>4. Backed(registry'[s], branch[s], tree[s])
  BY <1>3 DEF CleanupFailed, Bound, Backed
<1> QED
  BY <1>1, <1>3, <1>4, Member, Alters DEF CleanupFailed, Merging, IInv, TypeOK

LEMMA GiveUpStep ==
    ASSUME IInv, NEW s \in Story, GiveUp(s), UNCHANGED integrationVars PROVE IInv'
  BY Ends DEF GiveUp, Unchanged, integrationVars

LEMMA CrashStep == ASSUME IInv, Crash, UNCHANGED integrationVars PROVE IInv'
  BY Ends DEF Crash, Unchanged, integrationVars

---------------------------------------------------------------------------
(* Anybody else.                                                           *)

LEMMA CommitOutsideStep ==
    ASSUME IInv, NEW s \in Story, NEW kind \in {"same", "stray"}, CommitOutside(s, kind)
    PROVE  /\ branch' \in [Story -> ResultCommit] /\ tree' \in [Story -> TreeState]
           /\ \A t \in Story : /\ Once(branch'[t])
                               /\ tree'[t] # "none" => branch'[t] # None
                               /\ NoImplementation(branch[t]) => NoImplementation(branch'[t])
<1>1. branch[s] \in Tip /\ branch[s] # None /\ Once(branch[s])
  BY Member DEF CommitOutside, ResultCommit
<1>2. /\ Append(branch[s], kind) \in Tip /\ Append(branch[s], kind) # None
      /\ Once(Append(branch[s], kind))
      /\ NoImplementation(branch[s]) => NoImplementation(Append(branch[s], kind))
  BY <1>1, Appends
<1>3. /\ branch' \in [Story -> ResultCommit] /\ branch'[s] = Append(branch[s], kind)
      /\ \A t \in Story \ {s} : branch'[t] = branch[t]
  BY <1>2 DEF CommitOutside, IInv, TypeOK, ResultCommit
<1>4. tree' \in [Story -> TreeState] /\ \A t \in Story \ {s} : tree'[t] = tree[t]
  BY DEF CommitOutside, IInv, TypeOK, TreeState
<1> QED  BY <1>2, <1>3, <1>4, Member

LEMMA ChangeTreeStep ==
    ASSUME IInv, NEW s \in Story, NEW now \in {"other", "none"}, ChangeTree(s, now)
    PROVE  /\ branch' \in [Story -> ResultCommit] /\ tree' \in [Story -> TreeState]
           /\ \A t \in Story : /\ Once(branch'[t])
                               /\ tree'[t] # "none" => branch'[t] # None
                               /\ NoImplementation(branch[t]) => NoImplementation(branch'[t])
<1>1. branch' = branch /\ branch \in [Story -> ResultCommit]
  BY DEF ChangeTree, IInv, TypeOK
<1>2. tree' \in [Story -> TreeState] /\ \A t \in Story : tree'[t] \in {"other", "none", tree[t]}
  BY DEF ChangeTree, IInv, TypeOK, TreeState
<1>3. tree[s] # "none" /\ \A t \in Story \ {s} : tree'[t] = tree[t]
  BY DEF ChangeTree, IInv, TypeOK
<1> QED  BY <1>1, <1>2, <1>3, Member

(* What others commit on the primary comes after what was promoted. *)
LEMMA ChangePrimaryStep ==
    ASSUME IInv, ChangePrimary, UNCHANGED << record, abandoned >>
    PROVE  primary' \in Primaries /\ PromotedIsGated' /\ AbandonedIsNotPromoted'
<1>1. CASE primary' = [primary EXCEPT !.clean = ~@]
  <2>1. primary' \in Primaries /\ primary'.commits = primary.commits
    BY <1>1 DEF IInv, TypeOK, Primaries
  <2> QED  BY <2>1 DEF IInv, PromotedIsGated, AbandonedIsNotPromoted, Merged
<1>2. CASE primary' = [primary EXCEPT !.commits = Append(@, Foreign)]
  <2> DEFINE old == primary.commits
  <2>1. old \in Commits
    BY DEF IInv, TypeOK, Primaries
  <2>2. Append(old, Foreign) \in Commits
    BY <2>1, Literals DEF Commits
  <2>3. primary' \in Primaries /\ primary'.commits = Append(old, Foreign)
    BY <1>2, <2>2 DEF IInv, TypeOK, Primaries
  <2>4. /\ DOMAIN Append(old, Foreign) = 1 .. Len(old) + 1 /\ DOMAIN old = 1 .. Len(old)
        /\ Len(old) \in Nat /\ Len(Append(old, Foreign)) = Len(old) + 1
        /\ \A i \in 1 .. Len(old) : Append(old, Foreign)[i] = old[i]
        /\ Append(old, Foreign)[Len(old) + 1] = Foreign
    BY <2>1, Literals DEF Commits
  <2>5. \A i \in 1 .. Len(old) + 1 : i = Len(old) + 1 \/ i \in 1 .. Len(old)
    BY <2>4
  <2>6. Merged' => Merged
    BY <2>3, <2>4, <2>5, Literals DEF Merged
  <2>7. ASSUME Merged'
        PROVE  /\ record.gate # None /\ Len(Order) <= Len(old) + 1
               /\ \A i \in 1 .. Len(old) + 1 :
                     Append(old, Foreign)[i] =
                        IF i <= Len(Order) THEN Chain(record.gate)[i] ELSE Foreign
    <3>1. /\ record.gate # None /\ Len(Order) <= Len(old)
          /\ \A i \in 1 .. Len(old) :
                old[i] = IF i <= Len(Order) THEN Chain(record.gate)[i] ELSE Foreign
      BY <2>4, <2>6, <2>7 DEF IInv, PromotedIsGated
    <3>2. Len(Order) \in Nat
      BY Literals
    <3>3. ~(Len(old) + 1 <= Len(Order)) /\ Len(Order) <= Len(old) + 1
      BY <2>4, <3>1, <3>2
    <3> QED  BY <2>4, <2>5, <3>1, <3>3
  <2>8. PromotedIsGated'
    BY <2>3, <2>4, <2>7 DEF PromotedIsGated
  <2>9. AbandonedIsNotPromoted'
    BY <2>6 DEF IInv, AbandonedIsNotPromoted
  <2> QED  BY <2>3, <2>8, <2>9
<1> QED  BY <1>1, <1>2 DEF ChangePrimary

LEMMA ChangeOutsideStep == ASSUME IInv, ChangeOutside, UNCHANGED integrationVars PROVE IInv'
<1>1. outside' \in Nat /\ outside' # 0
  BY DEF ChangeOutside, IInv, TypeOK
<1>2. /\ branch' \in [Story -> ResultCommit] /\ tree' \in [Story -> TreeState]
      /\ \A t \in Story : /\ Once(branch'[t])
                          /\ tree'[t] # "none" => branch'[t] # None
                          /\ NoImplementation(branch[t]) => NoImplementation(branch'[t])
  <2>1. CASE ChangePrimary
    BY <2>1, Member DEF ChangePrimary, IInv, TypeOK
  <2>2. CASE ~ChangePrimary
    BY <2>2, CommitOutsideStep, ChangeTreeStep DEF ChangeOutside
  <2> QED  BY <2>1, <2>2
<1>3. primary' \in Primaries /\ PromotedIsGated' /\ AbandonedIsNotPromoted'
  <2>1. CASE ChangePrimary
    BY <2>1, ChangePrimaryStep DEF integrationVars
  <2>2. CASE ~ChangePrimary
    <3>1. primary' = primary
      BY <2>2 DEF ChangeOutside, CommitOutside, ChangeTree
    <3> QED
      BY <3>1 DEF integrationVars, IInv, TypeOK, PromotedIsGated, AbandonedIsNotPromoted, Merged
  <2> QED  BY <2>1, <2>2
<1>4. TypeOK'
  BY <1>1, <1>2, <1>3 DEF ChangeOutside, integrationVars, IInv, TypeOK
<1>5. OneImplementation' /\ RegistryIsBacked' /\ Rooted'
  BY <1>1, <1>2, PerMemberNext
<1>6. Gated(call', record'.gate, staging'.commits)
  BY DEF ChangeOutside, integrationVars, IInv
<1>7. Uncommitted(call', branch')
  BY <1>2 DEF ChangeOutside, IInv, Uncommitted
<1>8. \A s \in Story : Placed(call', s, registry'[s], branch'[s], tree'[s], (outside = 0)')
  BY <1>1 DEF ChangeOutside, IInv, Placed
<1> QED
  BY <1>3, <1>4, <1>5, <1>6, <1>7, <1>8 DEF ChangeOutside, integrationVars, IInv
---------------------------------------------------------------------------
LEMMA Initially == Init => IInv
<1> SUFFICES ASSUME Init PROVE IInv
  OBVIOUS
<1>1. registry \in Registries /\ branch \in [Story -> ResultCommit] /\ tree \in [Story -> TreeState]
  BY DEF Init, WorktreesInit, Registries, AssignmentStatus, ResultCommit, TreeState
<1>2. primary \in Primaries /\ staging \in [commits : Commits \cup {None}, clean : BOOLEAN]
  BY Literals DEF Init, WorktreesInit, Primaries
<1>3. TypeOK
  BY <1>1, <1>2, NoCallType DEF Init, WorktreesInit, TypeOK
<1>4. ~Merged
  BY DEF Init, WorktreesInit, Merged, Baseline
<1>5. call.at = "idle"
  BY NoCallType DEF Init, WorktreesInit
<1>6. OneImplementation /\ RegistryIsBacked /\ Rooted
  BY DEF Init, WorktreesInit, OneImplementation, RegistryIsBacked, Rooted, Bound
<1> QED
  BY <1>3, <1>4, <1>5, <1>6, Elsewhere
  DEF Init, IInv, PromotedIsGated, AbandonedIsNotPromoted, Merging

LEMMA MemberMoves ==
    ASSUME IInv, NEW s \in Story, MemberStep(s) \/ MemberFault(s) \/ CleanupStep(s),
           UNCHANGED integrationVars
    PROVE  IInv'
  BY PlanAssignmentStep, ResumeAssignmentStep, AddWorktreeStep, ActivateStep,
     ActivationUnverifiedStep, ImplementStep, StageImplementationStep, FindCommitStep,
     CommitIndexStep, RecogniseStep, CompleteStep, CleanedStep, GiveUpStep,
     AddWorktreeFailsStep, CommitFailsStep, FailMemberStep, RemoveWorktreeStep,
     CleanupFailedStep
  DEF MemberStep, MemberFault, CleanupStep

LEMMA RunMoves == ASSUME IInv, Step PROVE IInv'
<1>1. ASSUME NEW s \in Story, TakeCompleted(s) \/ InspectMember(s) \/ MergeMember(s) PROVE IInv'
  BY <1>1, TakeCompletedStep, InspectMemberStep, MergeMemberStep
<1>2. ASSUME StartStories \/ ReconstructMembers \/ GroupExecuted \/ CompleteGroup
               \/ ObservePrimary \/ FirstGate \/ LaterGate
      PROVE  IInv'
  BY <1>2, StartStoriesStep, ReconstructMembersStep, GroupExecutedStep, CompleteGroupStep,
     ObservePrimaryStep, FirstGateStep, LaterGateStep
<1>3. ASSUME StartMerge \/ FreshGate \/ PrepareStaging \/ CheckDrift \/ CheckPromotion
               \/ Promote \/ ConfirmPromotion \/ RecordIntegration
      PROVE  IInv'
  BY <1>3, StartMergeStep, FreshGateStep, PrepareStagingStep, CheckDriftStep,
     CheckPromotionStep, PromoteStep, ConfirmPromotionStep, RecordIntegrationStep
<1> QED  BY <1>1, <1>2, <1>3, MemberMoves DEF Step

LEMMA Stutters == ASSUME IInv, UNCHANGED vars PROVE IInv'
<1>1. UNCHANGED worktreeVars /\ UNCHANGED integrationVars
  BY DEF vars, integrationVars
<1>2. TypeOK'
  BY <1>1 DEF worktreeVars, integrationVars, IInv, TypeOK
<1>3. Gated(call', record.gate, staging'.commits) /\ Uncommitted(call', branch)
      /\ \A s \in Story : Placed(call', s, registry[s], branch[s], tree[s], outside = 0)
  BY <1>1 DEF worktreeVars, integrationVars, IInv
<1>4. abandoned => call'.at \in {"idle", "cleaned"}
  BY <1>1 DEF worktreeVars, IInv
<1> QED  BY <1>1, <1>2, <1>3, <1>4, Control DEF worktreeVars, integrationVars

LEMMA Moves == ASSUME IInv, [Next]_vars PROVE IInv'
<1>1. CASE Step
  BY <1>1, RunMoves
<1>2. ASSUME Prepare \/ Reconstruct \/ Remediate \/ PromoteFails \/ ChangeStaging PROVE IInv'
  BY <1>2, PrepareStep, ReconstructStep, RemediateStep, PromoteFailsStep, ChangeStagingStep
<1>3. ASSUME NEW s \in Story, MergeMemberFails(s) PROVE IInv'
  BY <1>3, MergeMemberFailsStep
<1>4. CASE (Crash \/ ChangeOutside) /\ UNCHANGED integrationVars
  BY <1>4, CrashStep, ChangeOutsideStep
<1>5. CASE (\E s \in Story : MemberFault(s) \/ CleanupStep(s)) /\ UNCHANGED integrationVars
  BY <1>5, MemberMoves
<1>6. CASE UNCHANGED vars
  BY <1>6, Stutters
<1> QED  BY <1>1, <1>2, <1>3, <1>4, <1>5, <1>6 DEF Next

LEMMA Inductive == Spec => []IInv
<1>1. IInv /\ [Next]_vars => IInv'
  BY Moves
<1> QED  BY <1>1, Initially, PTL DEF Spec
---------------------------------------------------------------------------
(* The primary only ever gets the whole group, at the gated commits, in    *)
(* the canonical order and on the baseline: MergeCoordinator.merge and     *)
(* _already_merged, however runs are cut short, resumed and disturbed.     *)
THEOREM OnlyTheGatedGroup == Spec => []PromotedIsGated
<1>1. IInv => PromotedIsGated
  BY DEF IInv
<1> QED  BY <1>1, Inductive, PTL

(* A story is implemented by one commit of its branch:                     *)
(* commit_validated_implementation and its recognition on a retry.         *)
THEOREM CommittedOnce == Spec => []OneImplementation
<1>1. IInv => OneImplementation
  BY DEF IInv
<1> QED  BY <1>1, Inductive, PTL

(* The two authorities are written in the safe order: WorktreeManager      *)
(* activate and cleanup.                                                   *)
THEOREM GitBacksTheRegistry == Spec => []RegistryIsBacked
<1>1. IInv => RegistryIsBacked
  BY DEF IInv
<1> QED  BY <1>1, Inductive, PTL

(* What remediation replaces was not promoted: _validate_negative_outcome. *)
THEOREM ReplacedIsNotPromoted == Spec => []AbandonedIsNotPromoted
<1>1. IInv => AbandonedIsNotPromoted
  BY DEF IInv
<1> QED  BY <1>1, Inductive, PTL

(* The registry, Git, the run and its record keep their types, for every   *)
(* number of members, faults and outside changes.                          *)
THEOREM Typed == Spec => []TypeOK
<1>1. IInv => TypeOK
  BY DEF IInv
<1> QED  BY <1>1, Inductive, PTL

=============================================================================
