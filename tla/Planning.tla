------------------------------ MODULE Planning ------------------------------
(***************************************************************************)
(* From the stories of a project to the groups its Implementers run in:    *)
(* the DAG and its cycle search (dag_validator.py), the classification of  *)
(* every story (readiness_engine.py), the waves (wave_planner.py) and the  *)
(* grouping of the first wave (parallel_implementer_coordinator.plan).     *)
(* Where the code takes stories in the order of their priority or name,    *)
(* the model takes them in any order.                                      *)
(***************************************************************************)
EXTENDS Scopes

CONSTANTS Story,     \* the User Stories of the project
          Named,     \* the identifiers their dependencies may name
          Status,    \* the statuses tried
          Segment,   \* the names paths are made of
          Files,     \* the files of the repository
          Scope      \* the scopes tried

Region == [path : Seq(Segment), dir : BOOLEAN]

ASSUME StoryAssumption == IsFiniteSet(Story)
ASSUME FileAssumption  == \A p \in Files : p \in Seq(Segment)
ASSUME ScopeAssumption == \A c \in Scope : /\ \A r \in c.allowed : r \in Region
                                          /\ \A r \in c.forbidden : r \in Region

VARIABLES
    depends,    \* the dependencies each story declares
    status, approved, \* its status; no approval is required, or it is applied
    scope,      \* what each member of the first wave may write
    phase,
    colour, path, unseen,  \* the search: colour, stack, dependents left to try
    cycle,
    satisfied, remaining, unresolved, frontier, waves,
    pending, groups        \* members of the first wave to place, and the groups

graphVars  == << depends, status, approved, scope >>
searchVars == << colour, path, unseen, cycle >>
waveVars   == << satisfied, remaining, unresolved, frontier, waves >>
groupVars  == << pending, groups >>
vars       == << graphVars, phase, searchVars, waveVars, groupVars >>

Dependents(s) == {t \in Story : s \in depends[t]}

(* READY or WAITING_DEPENDENCIES: neither terminal, nor blocked by its own *)
(* status or a missing approval, nor already under way.                    *)
Plannable(s) == status[s] \in {"PLANNED", "READY"} /\ approved[s]
Certified == {s \in Story : status[s] = "CERTIFIED"}

---------------------------------------------------------------------------
Init ==
    /\ depends \in [Story -> SUBSET Named]
    /\ status = [s \in Story |-> "PROPOSED"] /\ approved = [s \in Story |-> TRUE]
    /\ scope = << >>
    /\ phase = "build"
    /\ colour = [s \in Story |-> "white"] /\ path = << >>
    /\ unseen = [s \in Story |-> {}] /\ cycle = << >>
    /\ satisfied = {} /\ remaining = {} /\ unresolved = [s \in Story |-> 0]
    /\ frontier = {} /\ waves = << >>
    /\ pending = {} /\ groups = << >>

(* SELF_DEPENDENCY and MISSING_DEPENDENCY refuse the project.              *)
Sound == \A s \in Story : s \notin depends[s] /\ depends[s] \subseteq Story

Build ==
    /\ phase = "build"
    /\ phase' = IF Sound THEN "search" ELSE "refused"
    /\ unseen' = IF Sound THEN [s \in Story |-> Dependents(s)] ELSE unseen
    /\ UNCHANGED << graphVars, colour, path, cycle, waveVars, groupVars >>

Top == path[Len(path)]

(* A new root, when the stack is empty.                                    *)
Enter(s) ==
    /\ phase = "search" /\ path = << >> /\ colour[s] = "white"
    /\ colour' = [colour EXCEPT ![s] = "grey"] /\ path' = << s >>
    /\ UNCHANGED << graphVars, phase, unseen, cycle, waveVars, groupVars >>

Descend(t) ==
    /\ phase = "search" /\ path # << >>
    /\ t \in unseen[Top] /\ colour[t] = "white"
    /\ unseen' = [unseen EXCEPT ![Top] = @ \ {t}]
    /\ colour' = [colour EXCEPT ![t] = "grey"] /\ path' = Append(path, t)
    /\ UNCHANGED << graphVars, phase, cycle, waveVars, groupVars >>

SkipBlack(t) ==
    /\ phase = "search" /\ path # << >>
    /\ t \in unseen[Top] /\ colour[t] = "black"
    /\ unseen' = [unseen EXCEPT ![Top] = @ \ {t}]
    /\ UNCHANGED << graphVars, phase, colour, path, cycle, waveVars, groupVars >>

(* The stack from where it first met t.                                    *)
CycleFrom(t) == {SubSeq(path, i, Len(path)) : i \in {j \in DOMAIN path : path[j] = t}}

FindCycle(t) ==
    /\ phase = "search" /\ path # << >>
    /\ t \in unseen[Top] /\ colour[t] = "grey"
    /\ cycle' \in CycleFrom(t)
    /\ phase' = "cycle"
    /\ UNCHANGED << graphVars, colour, path, unseen, waveVars, groupVars >>

Leave ==
    /\ phase = "search" /\ path # << >> /\ unseen[Top] = {}
    /\ colour' = [colour EXCEPT ![Top] = "black"]
    /\ path' = SubSeq(path, 1, Len(path) - 1)
    /\ UNCHANGED << graphVars, phase, unseen, cycle, waveVars, groupVars >>

(* No cycle: the snapshot is taken and every story classified; statuses    *)
(* and approvals are first read here.                                      *)
Classified ==
    /\ phase = "search" /\ path = << >> /\ \A s \in Story : colour[s] # "white"
    /\ status' \in [Story -> Status] /\ approved' \in [Story -> BOOLEAN]
    /\ phase' = "classified"
    /\ UNCHANGED << depends, scope, searchVars, waveVars, groupVars >>

(* Mutant: dependencies are counted whether they are certified or not.     *)
Open_AnyDependency(s) == depends[s]

Open(s) == depends[s] \ Certified

(* The first frontier is what has no open dependency.                      *)
StartWaves ==
    /\ phase = "classified"
    /\ satisfied' = Certified
    /\ remaining' = {s \in Story : Plannable(s)}
    /\ unresolved' = [s \in Story |-> Cardinality(Open(s))]
    /\ frontier' = {s \in Story : Plannable(s) /\ Cardinality(Open(s)) = 0}
    /\ phase' = "waves"
    /\ UNCHANGED << graphVars, searchVars, waves, groupVars >>

NextFrontier(layer) ==
    {t \in remaining \ layer :
        depends[t] \intersect layer # {}
        /\ unresolved[t] = Cardinality(depends[t] \intersect layer)}

Layer ==
    /\ phase = "waves" /\ frontier # {}
    /\ waves' = Append(waves, frontier)
    /\ remaining' = remaining \ frontier
    /\ satisfied' = satisfied \union frontier
    /\ unresolved' = [t \in Story |-> IF t \in remaining \ frontier
                                      THEN unresolved[t] - Cardinality(depends[t] \intersect frontier)
                                      ELSE unresolved[t]]
    /\ frontier' = NextFrontier(frontier)
    /\ UNCHANGED << graphVars, phase, searchVars, groupVars >>

(* A plannable story that found no wave must have an open dependency, or   *)
(* the graph is reported as UNPLANNABLE_GRAPH.                             *)
Defer ==
    /\ phase = "waves" /\ frontier = {}
    /\ phase' = IF \E s \in remaining : depends[s] \subseteq satisfied THEN "unplannable"
                ELSE IF waves = << >> THEN "idle" ELSE "planned"
    /\ UNCHANGED << graphVars, searchVars, waveVars, groupVars >>

(* plan() takes the first wave only, and the scopes of its members.        *)
StartGroups ==
    /\ phase = "planned"
    /\ scope' \in [waves[1] -> Scope]
    /\ pending' = waves[1]
    /\ phase' = "group"
    /\ UNCHANGED << depends, status, approved, searchVars, waveVars, groups >>

(* Two stories share a group only when their scopes are surely apart.      *)
Compatible(s, t) == Classify(scope[s], scope[t]) = "SAFE"

(* First fit: the first group all of whose members are SAFE with s.        *)
Fits(s, i) == \A t \in groups[i] : Compatible(s, t)

Place(s) ==
    /\ phase = "group" /\ s \in pending
    /\ \/ \E i \in DOMAIN groups :
              /\ Fits(s, i) /\ \A j \in 1..(i - 1) : ~Fits(s, j)
              /\ groups' = [groups EXCEPT ![i] = @ \union {s}]
       \/ /\ \A i \in DOMAIN groups : ~Fits(s, i)
          /\ groups' = Append(groups, {s})
    /\ pending' = pending \ {s}
    /\ UNCHANGED << graphVars, phase, searchVars, waveVars >>

Next ==
    \/ Build \/ Leave \/ Classified \/ StartWaves \/ Layer \/ Defer \/ StartGroups
    \/ \E s \in Story : Enter(s) \/ Descend(s) \/ SkipBlack(s) \/ FindCycle(s) \/ Place(s)

Spec == Init /\ [][Next]_vars

---------------------------------------------------------------------------
(* Properties.                                                             *)

DoneSearching == phase \notin {"build", "refused", "search", "cycle"}

(* Some stories of which each waits for another of them.                   *)
Circular == \E S \in (SUBSET Story) \ {{}} : \A s \in S : depends[s] \intersect S # {}

(* The search of dag_validator._find_cycle is right both ways: what it     *)
(* reports is a circle, each story depending on the one before it, and a   *)
(* graph it lets through has none.                                         *)
CycleSearchIsExact ==
    /\ phase = "cycle" =>
           /\ cycle # << >>
           /\ \A i \in DOMAIN cycle : cycle[i] \in depends[cycle[IF i = Len(cycle) THEN 1 ELSE i + 1]]
    /\ DoneSearching => ~Circular

Planned == UNION {waves[i] : i \in DOMAIN waves}

(* A story is in a wave only if all it depends on is certified or in an    *)
(* earlier wave, and it is in one wave only: wave_planner.plan never lets  *)
(* a story start before what it builds on.                                 *)
WavesRespectDependencies ==
    \A i \in DOMAIN waves : \A s \in waves[i] :
        /\ Plannable(s)
        /\ \A d \in depends[s] : d \in Certified \/ \E j \in 1..(i - 1) : d \in waves[j]
        /\ \A j \in DOMAIN waves : s \in waves[j] => j = i

(* A story that waits, directly or through others, for one that is neither *)
(* certified nor plannable.                                                *)
Stuck(s) ==
    \E S \in SUBSET (Story \ Certified) :
        s \in S /\ \A t \in S : Plannable(t) => depends[t] \intersect S # {}

(* The counters of wave_planner.plan lose nobody: once the waves are       *)
(* built, exactly the stories that are not stuck are in them, so           *)
(* UNPLANNABLE_GRAPH is never reported of a graph without a circle.        *)
EveryPlannableIsPlanned ==
    /\ phase # "unplannable"
    /\ phase \in {"idle", "planned", "group"} =>
           Planned = {s \in Story \ Certified : ~Stuck(s)}

(* Two stories of one group never may write one file, whatever their       *)
(* scopes allow and forbid: their Implementers run at the same time, each  *)
(* in its own worktree, and their commits are merged.                      *)
GroupsShareNoFile ==
    \A i \in DOMAIN groups : \A s, t \in groups[i] :
        s # t => \A p \in Files : ~(Writable(scope[s], p) /\ Writable(scope[t], p))
=============================================================================
