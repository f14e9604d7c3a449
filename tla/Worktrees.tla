----------------------------- MODULE Worktrees -----------------------------
(***************************************************************************)
(* The worktrees of one group of stories: the WorktreeManager              *)
(* (infrastructure/worktree_manager.py), its registry                      *)
(* (infrastructure/worktree_registry_store.py) and the Git commands it     *)
(* issues (infrastructure/git_adapter.py).                                 *)
(*                                                                         *)
(* Git and the registry are two authorities that are written one after the *)
(* other; a call may die, and a Git command or the registry write may      *)
(* fail, in between.  Anybody may change a worktree or the primary at any  *)
(* time: the operation lock keeps other missions out, not other people.    *)
(*                                                                         *)
(* A commit is the sequence of what was committed since the baseline:      *)
(* "impl" is the authorised implementation commit (message, tree and       *)
(* paths), "same" somebody else's commit of the very paths the result      *)
(* declares, "stray" somebody else's commit of other paths.                *)
(***************************************************************************)
EXTENDS Naturals, Sequences

CONSTANTS
    Story,       \* the stories of the group
    Order,       \* their canonical order in the group
    None,        \* an absent optional value
    MaxFaults,   \* bound: calls that die, Git commands and writes that fail
    MaxOutside   \* bound: changes by anybody else

ASSUME GroupAssumption ==
    /\ Order \in Seq(Story) /\ Len(Order) > 0
    /\ \A s \in Story : \E i \in 1 .. Len(Order) : Order[i] = s
    /\ \A i, j \in 1 .. Len(Order) : Order[i] = Order[j] => i = j
    /\ None \notin Story /\ None \notin Seq({"impl", "same", "stray"})
    /\ None \notin [Story -> Seq({"impl", "same", "stray"}) \cup {None}]
    /\ MaxFaults \in Nat /\ MaxOutside \in Nat

VARIABLES
    registry,   \* WorktreeRegistry: the status and the result commit of each assignment
    branch,     \* the tip of each dedicated branch, None while it does not exist
    tree,       \* the worktree of each branch: absent, or what differs from its HEAD
    validated,  \* the stories whose worktree ledger holds a VALIDATED implementation
    primary,    \* the primary: its commits since the baseline, and whether it is clean
    call,       \* the running call: where it stands and its local data
    faults,     \* how many faults have happened
    outside     \* how many changes were made by anybody else

worktreeVars == << registry, branch, tree, validated, primary, call, faults, outside >>

Baseline == << >>
Tip == Seq({"impl", "same", "stray"})

AssignmentStatus == {"ABSENT", "PLANNED", "ACTIVE", "COMPLETED", "FAILED", "CLEANED"}

(* A worktree is "none", "clean", has "exact"ly the declared paths dirty,  *)
(* the same "staged", or "other" paths too.                                *)
TreeState == {"none", "clean", "exact", "staged", "other"}

(* A commit of the primary is somebody's, or the merge of one member.      *)
Foreign == [of |-> None, commit |-> Baseline]
Merge(s, commit) == [of |-> s, commit |-> commit]

NoCall == [at |-> "idle", left |-> << >>, tip |-> Baseline, purpose |-> None,
           verdict |-> None, seen |-> None, before |-> None, members |-> None,
           staged |-> Baseline]

WorktreesInit ==
    /\ registry = [s \in Story |-> [status |-> "ABSENT", result |-> None]]
    /\ branch = [s \in Story |-> None]
    /\ tree = [s \in Story |-> "none"]
    /\ validated = {}
    /\ primary = [commits |-> Baseline, clean |-> TRUE]
    /\ call = NoCall /\ faults = 0 /\ outside = 0

At(label) == call.at = label
Goto(label) == call' = [call EXCEPT !.at = label]

(* The call returns or raises; either way the process ends.                *)
Return == call' = NoCall

(* The call goes on with the members one by one.                           *)
Each(label) == call' = [call EXCEPT !.at = label, !.left = Order]
This(s) == call.left # << >> /\ Head(call.left) = s
Proceed(label) == call' = [call EXCEPT !.at = label, !.left = Tail(@)]

(* One more fault, or none.                                                *)
Fault == faults < MaxFaults /\ faults' = faults + 1
NoFault == UNCHANGED faults
-----------------------------------------------------------------------------
(* inspect: the worktree is there, on its branch; HEAD is the branch tip.  *)
Bound(s) == tree[s] # "none"

(* resume                                                                  *)
Resumable(s) == registry[s].status = "ACTIVE" /\ Bound(s)

(* _verify_completed_assignment: the clean worktree is at its result.      *)
StillCompleted(s) ==
    /\ registry[s].status = "COMPLETED" /\ Bound(s)
    /\ branch[s] = registry[s].result /\ branch[s] # Baseline /\ tree[s] = "clean"

(* inspect_all: what is registered exists, what is not does not.           *)
Reconciled ==
    \A s \in Story :
        IF registry[s].status \in {"ACTIVE", "COMPLETED", "FAILED"} THEN Bound(s)
        ELSE ~Bound(s) /\ (registry[s].status = "PLANNED" => branch[s] = None)

(* The transitions the registry's store accepts, per operation.            *)
Transitions == [ACTIVATE |-> {<< "PLANNED", "ACTIVE" >>}, COMPLETE |-> {<< "ACTIVE", "COMPLETED" >>},
                FAIL |-> {<< "ACTIVE", "FAILED" >>}, PLAN |-> {<< "ABSENT", "PLANNED" >>},
                CLEANUP |-> {<< "COMPLETED", "CLEANED" >>, << "FAILED", "CLEANED" >>}]

(* _persist: one authorised transition of one assignment.                  *)
Persist(operation, s, status, result) ==
    /\ << registry[s].status, status >> \in Transitions[operation]
    /\ registry' = [registry EXCEPT ![s] = [status |-> status, result |-> result]]
-----------------------------------------------------------------------------
(* Mutant: the registry says ACTIVE before Git has made the worktree.      *)
PlanAssignment_Active(s) ==
    /\ At("prepare") /\ This(s) /\ registry[s].status = "ABSENT"
    /\ registry' = [registry EXCEPT ![s] = [status |-> "ACTIVE", result |-> None]]
    /\ Goto("activate")
    /\ UNCHANGED << branch, tree, validated, primary, faults, outside >>

(* plan_assignment: nothing but a record; one that is not PLANNED collides *)
(* with the deterministic identity.                                        *)
PlanAssignment(s) ==
    /\ At("prepare") /\ This(s)
    /\ IF registry[s].status = "ABSENT" THEN Persist("PLAN", s, "PLANNED", None)
       ELSE registry[s].status = "PLANNED" /\ UNCHANGED registry
    /\ Goto("activate")
    /\ UNCHANGED << branch, tree, validated, primary, faults, outside >>

(* An assignment that is ACTIVE already is resumed as it is.               *)
ResumeAssignment(s) ==
    /\ At("prepare") /\ This(s) /\ Resumable(s)
    /\ Proceed("prepare")
    /\ UNCHANGED << registry, branch, tree, validated, primary, faults, outside >>

(* activate, first half: a clean primary, no collision, git worktree add.  *)
AddWorktree(s) ==
    /\ At("activate") /\ This(s)
    /\ primary.clean /\ ~Bound(s) /\ branch[s] = None
    /\ branch' = [branch EXCEPT ![s] = Baseline]
    /\ tree' = [tree EXCEPT ![s] = "clean"]
    /\ Goto("activated")
    /\ UNCHANGED << registry, validated, primary, faults, outside >>

(* Git fails: nothing was made, or the branch alone was, or everything;    *)
(* _cleanup_partial_creation then removes the worktree and not the branch. *)
AddWorktreeFails(s) ==
    /\ At("activate") /\ This(s)
    /\ primary.clean /\ ~Bound(s) /\ branch[s] = None /\ Fault
    /\ branch' \in {branch, [branch EXCEPT ![s] = Baseline]}
    /\ Return
    /\ UNCHANGED << registry, tree, validated, primary, outside >>

(* activate, second half: the worktree is as it was asked for, so the      *)
(* assignment is ACTIVE; if it is not, a clean one is removed again.       *)
Activate(s) ==
    /\ At("activated") /\ This(s)
    /\ tree[s] = "clean" /\ branch[s] = Baseline
    /\ Persist("ACTIVATE", s, "ACTIVE", None) /\ Proceed("prepare")
    /\ UNCHANGED << branch, tree, validated, primary, faults, outside >>

ActivationUnverified(s) ==
    /\ At("activated") /\ This(s)
    /\ ~(tree[s] = "clean" /\ branch[s] = Baseline)
    /\ tree' = [tree EXCEPT ![s] = IF @ = "clean" THEN "none" ELSE @]
    /\ Return
    /\ UNCHANGED << registry, branch, validated, primary, faults, outside >>

(* Codex implements the story in its clean worktree; the worktree's ledger *)
(* records the validated result and the paths it changed.                  *)
Implement(s) ==
    /\ At("execute") /\ s \notin validated
    /\ Resumable(s) /\ tree[s] = "clean" /\ branch[s] = Baseline
    /\ tree' = [tree EXCEPT ![s] = "exact"]
    /\ validated' = validated \cup {s}
    /\ UNCHANGED << registry, branch, primary, call, faults, outside >>

(* fail_member, mark_failed                                                *)
FailMember(s) ==
    /\ At("execute") /\ registry[s].status = "ACTIVE"
    /\ Persist("FAIL", s, "FAILED", None) /\ Return
    /\ UNCHANGED << branch, tree, validated, primary, faults, outside >>
-----------------------------------------------------------------------------
(* Mutant: a retry commits what is dirty on top of what it finds.          *)
StageImplementation_Again(s) ==
    /\ At("submit") /\ This(s) /\ Resumable(s) /\ s \in validated
    /\ tree[s] \in {"exact", "staged", "clean"}
    /\ tree' = [tree EXCEPT ![s] = "staged"]
    /\ Goto("commit")
    /\ UNCHANGED << registry, branch, validated, primary, faults, outside >>

(* commit_validated_implementation of an ACTIVE assignment (the callers    *)
(* of the product do not resubmit a COMPLETED one).  At the baseline,      *)
(* exactly the declared paths are dirty, and they are staged.              *)
StageImplementation(s) ==
    /\ At("submit") /\ This(s) /\ Resumable(s) /\ s \in validated
    /\ branch[s] = Baseline /\ tree[s] \in {"exact", "staged"}
    /\ tree' = [tree EXCEPT ![s] = "staged"]
    /\ Goto("commit")
    /\ UNCHANGED << registry, branch, validated, primary, faults, outside >>

(* Something was committed already: it must be the implementation.         *)
FindCommit(s) ==
    /\ At("submit") /\ This(s) /\ Resumable(s) /\ s \in validated
    /\ branch[s] # Baseline
    /\ Goto("recognise")
    /\ UNCHANGED << registry, branch, tree, validated, primary, faults, outside >>

(* git commit commits the index: by now it may hold somebody else's paths, *)
(* or nothing any more.                                                    *)
Committed(s) ==
    \/ /\ tree[s] = "staged"
       /\ branch' = [branch EXCEPT ![s] = Append(@, "impl")]
       /\ tree' = [tree EXCEPT ![s] = "clean"]
    \/ /\ tree[s] = "other"
       /\ \/ branch' = [branch EXCEPT ![s] = Append(@, "impl")] /\ UNCHANGED tree
          \/ /\ branch' = [branch EXCEPT ![s] = Append(@, "stray")]
             /\ tree' = [tree EXCEPT ![s] = "clean"]

(* The commit, which Git may report as failed although it was made: what   *)
(* counts is HEAD.                                                         *)
CommitIndex(s) ==
    /\ At("commit") /\ This(s)
    /\ Committed(s) /\ (NoFault \/ Fault)
    /\ Goto("recognise")
    /\ UNCHANGED << registry, validated, primary, outside >>

CommitFails(s) ==
    /\ At("commit") /\ This(s)
    /\ \/ Fault
       \/ tree[s] \notin {"staged", "other"} /\ NoFault
    /\ IF tree[s] # "none" /\ branch[s] # Baseline THEN Goto("recognise") ELSE Return
    /\ UNCHANGED << registry, branch, tree, validated, primary, outside >>

(* _recognize_implementation_commit: one commit on the baseline, of the    *)
(* declared paths, with the message of this execution, in a clean worktree.*)
Recognised(s) == Bound(s) /\ branch[s] = << "impl" >> /\ tree[s] = "clean"

Recognise(s) ==
    /\ At("recognise") /\ This(s) /\ Recognised(s)
    /\ call' = [call EXCEPT !.at = "complete", !.tip = branch[s]]
    /\ UNCHANGED << registry, branch, tree, validated, primary, faults, outside >>

(* complete: whatever clean descendant HEAD is by now becomes the result;  *)
(* the coordinator compares it with the recognised commit afterwards.      *)
Complete(s) ==
    /\ At("complete") /\ This(s)
    /\ Bound(s) /\ tree[s] = "clean" /\ branch[s] # Baseline
    /\ Persist("COMPLETE", s, "COMPLETED", branch[s])
    /\ IF branch[s] = call.tip THEN Proceed("submit") ELSE Return
    /\ UNCHANGED << branch, tree, validated, primary, faults, outside >>

(* cleanup of a terminal assignment whose exact resources are clean.       *)
RemoveWorktree(s) ==
    /\ At("idle") /\ primary.clean
    /\ \/ StillCompleted(s)
       \/ registry[s].status = "FAILED" /\ tree[s] = "clean"
    /\ tree' = [tree EXCEPT ![s] = "none"]
    /\ call' = [NoCall EXCEPT !.at = "cleaned", !.left = << s >>]
    /\ UNCHANGED << registry, branch, validated, primary, faults, outside >>

(* A FAILED assignment may have lost its worktree before.                  *)
CleanupFailed(s) ==
    /\ At("idle") /\ primary.clean
    /\ registry[s].status = "FAILED" /\ ~Bound(s)
    /\ Persist("CLEANUP", s, "CLEANED", registry[s].result)
    /\ UNCHANGED << branch, tree, validated, primary, call, faults, outside >>

Cleaned(s) ==
    /\ At("cleaned") /\ This(s)
    /\ Persist("CLEANUP", s, "CLEANED", registry[s].result) /\ Return
    /\ UNCHANGED << branch, tree, validated, primary, faults, outside >>

(* What the manager refuses; the caller's run ends with the error.         *)
Refused(s) ==
    CASE At("prepare")  -> registry[s].status \notin {"ABSENT", "PLANNED"} /\ ~Resumable(s)
      [] At("activate") -> ~primary.clean \/ Bound(s) \/ branch[s] # None
      [] At("submit")   -> /\ registry[s].status # "COMPLETED"
                           /\ \/ ~Resumable(s) \/ s \notin validated
                              \/ branch[s] = Baseline /\ tree[s] \notin {"exact", "staged"}
      [] At("recognise") -> ~Recognised(s)
      [] At("complete") -> ~Bound(s) \/ tree[s] # "clean" \/ branch[s] = Baseline
      [] OTHER -> FALSE

GiveUp(s) ==
    /\ This(s) /\ Refused(s) /\ Return
    /\ UNCHANGED << registry, branch, tree, validated, primary, faults, outside >>

(* The process dies, or the registry cannot be written.                    *)
Crash ==
    /\ ~At("idle") /\ Fault /\ Return
    /\ UNCHANGED << registry, branch, tree, validated, primary, outside >>

MemberStep(s) ==
    \/ PlanAssignment(s) \/ ResumeAssignment(s) \/ AddWorktree(s) \/ Activate(s)
    \/ ActivationUnverified(s) \/ Implement(s) \/ StageImplementation(s) \/ FindCommit(s)
    \/ CommitIndex(s) \/ Recognise(s) \/ Complete(s) \/ Cleaned(s) \/ GiveUp(s)

MemberFault(s) == AddWorktreeFails(s) \/ CommitFails(s) \/ FailMember(s)

CleanupStep(s) == RemoveWorktree(s) \/ CleanupFailed(s)
-----------------------------------------------------------------------------
(* Somebody else commits in a worktree, edits or removes it, commits to    *)
(* the primary or leaves it dirty, or cleans up.                           *)
CommitOutside(s, kind) ==
    /\ tree[s] \in {"clean", "exact", "staged"}
    /\ branch' = [branch EXCEPT ![s] = Append(@, kind)]
    /\ tree' = IF kind = "same" THEN [tree EXCEPT ![s] = "clean"] ELSE tree
    /\ UNCHANGED primary

ChangeTree(s, now) ==
    /\ tree[s] # "none" /\ tree[s] # now
    /\ tree' = [tree EXCEPT ![s] = now]
    /\ UNCHANGED << branch, primary >>

ChangePrimary ==
    /\ \/ primary' = [primary EXCEPT !.commits = Append(@, Foreign)]
       \/ primary' = [primary EXCEPT !.clean = ~@]
    /\ UNCHANGED << branch, tree >>

ChangeOutside ==
    /\ outside < MaxOutside /\ outside' = outside + 1
    /\ \/ \E s \in Story : \/ \E kind \in {"same", "stray"} : CommitOutside(s, kind)
                           \/ ChangeTree(s, "other") \/ ChangeTree(s, "none")
       \/ ChangePrimary
    /\ UNCHANGED << registry, validated, call, faults >>
=============================================================================
