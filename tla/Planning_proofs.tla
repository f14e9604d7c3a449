-------------------------- MODULE Planning_proofs --------------------------
(***************************************************************************)
(* Proofs about Planning, for every number of stories, every graph and     *)
(* every scope: what SAFE means, the groups, the waves, the cycle search;  *)
(* and about MissionRun, which drives what was planned: what the stores    *)
(* agree on at every point where an invocation may die.                    *)
(***************************************************************************)
EXTENDS Planning, MissionRun, FiniteSetTheorems, TLAPS

---------------------------------------------------------------------------
(* Scopes.                                                                 *)

IsScope(c) == /\ \A r \in c.allowed : r \in Region
              /\ \A r \in c.forbidden : r \in Region

(* A file in two allowed regions is in the overlap of the two.             *)
LEMMA SharedFileIsInOverlap ==
    ASSUME NEW a \in Region, NEW b \in Region, NEW p \in Seq(Segment),
           Matches(File(p), a), Matches(File(p), b)
    PROVE  \E o \in Overlap(a, b) : o \in Region /\ Matches(File(p), o)
<1>1. a.path \in Seq(Segment) /\ b.path \in Seq(Segment) /\ a.dir \in BOOLEAN /\ b.dir \in BOOLEAN
  BY DEF Region
<1>2. CASE ~a.dir /\ ~b.dir
  BY <1>1, <1>2 DEF Overlap, Matches, File
<1>3. CASE a.dir /\ ~b.dir
  BY <1>1, <1>3 DEF Overlap, Matches, File, Within
<1>4. CASE ~a.dir /\ b.dir
  BY <1>1, <1>4 DEF Overlap, Matches, File, Within
<1>5. CASE a.dir /\ b.dir
  <2>1. StartsWith(p, a.path) /\ StartsWith(p, b.path)
    BY <1>5 DEF Matches, Within, File
  <2>2. StartsWith(a.path, b.path) \/ StartsWith(b.path, a.path)
    <3>1. CASE Len(b.path) <= Len(a.path)
      BY <1>1, <2>1, <3>1 DEF StartsWith
    <3>2. CASE Len(a.path) <= Len(b.path)
      BY <1>1, <2>1, <3>2 DEF StartsWith
    <3> QED  BY <1>1, <3>1, <3>2
  <2> QED  BY <1>1, <1>5, <2>2 DEF Overlap, Within
<1> QED  BY <1>1, <1>2, <1>3, <1>4, <1>5

(* What excludes a whole region excludes every file in it.                 *)
LEMMA ExclusionIsInherited ==
    ASSUME NEW o \in Region, NEW f \in Region, NEW p \in Seq(Segment),
           Matches(File(p), o), Matches(o, f)
    PROVE  Matches(File(p), f)
<1>1. o.path \in Seq(Segment) /\ f.path \in Seq(Segment)
  BY DEF Region
<1>2. CASE ~f.dir
  BY <1>2 DEF Matches, File
<1>3. CASE f.dir
  <2>1. CASE ~o.dir
    BY <1>3, <2>1 DEF Matches, File, Within
  <2>2. CASE o.dir
    BY <1>1, <1>3, <2>2 DEF Matches, File, Within, StartsWith
  <2> QED  BY <2>1, <2>2
<1> QED  BY <1>2, <1>3

(* Two stories called SAFE share no file, whatever their scopes allow and  *)
(* forbid: the answer of _analyze_pair is sound.                           *)
THEOREM SafeIsSound ==
    ASSUME NEW l, IsScope(l), NEW r, IsScope(r), Classify(l, r) = "SAFE",
           NEW p \in Seq(Segment)
    PROVE  ~(Writable(l, p) /\ Writable(r, p))
<1> SUFFICES ASSUME Writable(l, p), Writable(r, p) PROVE FALSE
  OBVIOUS
<1>1. PICK a \in l.allowed : Matches(File(p), a)
  BY DEF Writable
<1>2. PICK b \in r.allowed : Matches(File(p), b)
  BY DEF Writable
<1>3. PICK o \in Overlap(a, b) : o \in Region /\ Matches(File(p), o)
  BY <1>1, <1>2, SharedFileIsInOverlap DEF IsScope
<1>4. \A f \in l.forbidden \union r.forbidden : ~Matches(o, f)
  BY <1>3, ExclusionIsInherited DEF IsScope, Writable
<1>5. o \in Overlaps(l, r)
  BY <1>3, <1>4 DEF Overlaps
<1> QED  BY <1>5 DEF Classify

---------------------------------------------------------------------------
(* Groups.                                                                 *)

GroupInv ==
    /\ \A s \in DOMAIN scope : IsScope(scope[s])
    /\ pending \subseteq DOMAIN scope
    /\ groups \in Seq(SUBSET DOMAIN scope)
    /\ phase # "group" => groups = << >> /\ pending = {}
    /\ GroupsShareNoFile

LEMMA GroupInit == Init => GroupInv
<1> SUFFICES ASSUME Init PROVE GroupInv
  OBVIOUS
<1>1. scope = << >> /\ groups = << >> /\ pending = {}
  BY DEF Init
<1>2. DOMAIN scope = {} /\ DOMAIN groups = {}
  BY <1>1
<1> QED  BY <1>1, <1>2 DEF GroupInv, GroupsShareNoFile

LEMMA PlaceKeepsGroups ==
    ASSUME GroupInv, NEW s \in Story, Place(s)
    PROVE  GroupInv'
<1> USE DEF GroupInv
<1>0. scope' = scope /\ phase' = phase /\ phase = "group" /\ pending' = pending \ {s} /\ s \in DOMAIN scope
  BY DEF Place, graphVars
<1>1. CASE \E i \in DOMAIN groups : Fits(s, i) /\ groups' = [groups EXCEPT ![i] = @ \union {s}]
  <2>1. PICK i \in DOMAIN groups : Fits(s, i) /\ groups' = [groups EXCEPT ![i] = @ \union {s}]
    BY <1>1
  <2>2. groups' \in Seq(SUBSET DOMAIN scope) /\ DOMAIN groups' = DOMAIN groups
    BY <1>0, <2>1
  <2>3. \A t \in groups[i] : \A p \in Files : ~(Writable(scope[s], p) /\ Writable(scope[t], p))
    BY <1>0, <2>1, SafeIsSound, FileAssumption DEF Fits, Compatible
  <2>4. GroupsShareNoFile'
    <3> SUFFICES ASSUME NEW j \in DOMAIN groups, NEW u \in groups'[j], NEW v \in groups'[j], u # v,
                        NEW p \in Files
                 PROVE  ~(Writable(scope[u], p) /\ Writable(scope[v], p))
      BY <1>0, <2>2 DEF GroupsShareNoFile
    <3>1. CASE j # i
      BY <2>1, <3>1 DEF GroupsShareNoFile
    <3>2. CASE j = i
      <4>1. u \in groups[i] \union {s} /\ v \in groups[i] \union {s}
        BY <2>1, <3>2
      <4> QED  BY <2>3, <4>1, <3>2 DEF GroupsShareNoFile
    <3> QED  BY <3>1, <3>2
  <2> QED  BY <1>0, <2>2, <2>4
<1>2. CASE groups' = Append(groups, {s})
  <2>1. groups' \in Seq(SUBSET DOMAIN scope)
    BY <1>0, <1>2
  <2>2. GroupsShareNoFile'
    <3> SUFFICES ASSUME NEW j \in DOMAIN groups', NEW u \in groups'[j], NEW v \in groups'[j], u # v,
                        NEW p \in Files
                 PROVE  ~(Writable(scope[u], p) /\ Writable(scope[v], p))
      BY <1>0 DEF GroupsShareNoFile
    <3>1. CASE j \in DOMAIN groups
      BY <1>2, <3>1 DEF GroupsShareNoFile
    <3>2. CASE j \notin DOMAIN groups
      BY <1>2, <3>2
    <3> QED  BY <3>1, <3>2
  <2> QED  BY <1>0, <2>1, <2>2
<1> QED  BY <1>1, <1>2 DEF Place

LEMMA GroupNext == GroupInv /\ [Next]_vars => GroupInv'
<1> SUFFICES ASSUME GroupInv, [Next]_vars PROVE GroupInv'
  OBVIOUS
<1>1. CASE UNCHANGED vars
  BY <1>1 DEF vars, graphVars, groupVars, GroupInv, GroupsShareNoFile
<1>2. CASE Build \/ Leave \/ Classified \/ StartWaves \/ Layer \/ Defer
  <2>1. scope' = scope /\ groupVars' = groupVars /\ phase # "group" /\ phase' # "group"
    BY <1>2 DEF Build, Leave, Classified, StartWaves, Layer, Defer, graphVars
  <2> QED  BY <2>1 DEF groupVars, GroupInv, GroupsShareNoFile
<1>3. CASE \E s \in Story : Enter(s) \/ Descend(s) \/ SkipBlack(s) \/ FindCycle(s)
  <2>1. scope' = scope /\ groupVars' = groupVars /\ phase # "group" /\ phase' # "group"
    BY <1>3 DEF Enter, Descend, SkipBlack, FindCycle, graphVars
  <2> QED  BY <2>1 DEF groupVars, GroupInv, GroupsShareNoFile
<1>4. CASE StartGroups
  <2>1. groups = << >> /\ groups' = << >> /\ pending' = waves[1] /\ phase' = "group"
    BY <1>4 DEF StartGroups, GroupInv
  <2>2. scope' \in [waves[1] -> Scope]
    BY <1>4 DEF StartGroups
  <2> QED  BY <2>1, <2>2, ScopeAssumption DEF GroupInv, GroupsShareNoFile, IsScope
<1>5. CASE \E s \in Story : Place(s)
  BY <1>5, PlaceKeepsGroups
<1> QED  BY <1>1, <1>2, <1>3, <1>4, <1>5 DEF Next

(* No group of Implementers shares a file.                                 *)
THEOREM GroupsAreDisjoint == Spec => []GroupsShareNoFile
<1>1. GroupInv => GroupsShareNoFile
  BY DEF GroupInv
<1> QED  BY <1>1, GroupInit, GroupNext, PTL DEF Spec

---------------------------------------------------------------------------
(* Waves.                                                                  *)

Before  == {"build", "refused", "search", "cycle", "classified"}
Layered == {"waves", "unplannable", "idle", "planned", "group"}

StuckSet(S) == \A t \in S : Plannable(t) => depends[t] \intersect S # {}

(* What the loop of wave_planner.plan keeps: the frontier is exactly what  *)
(* could be layered next, and the counters count the open dependencies.    *)
LayeredInv ==
    /\ waves \in Seq(SUBSET Story)
    /\ satisfied = Certified \union Planned
    /\ remaining = {s \in Story : Plannable(s)} \ Planned
    /\ \A t \in remaining : unresolved[t] = Cardinality(depends[t] \ satisfied)
    /\ unresolved = [s \in Story |-> unresolved[s]]
    /\ frontier = {t \in remaining : depends[t] \subseteq satisfied}
    /\ \A S \in SUBSET (Story \ Certified) : StuckSet(S) => S \intersect satisfied = {}

WaveInv ==
    /\ phase \in Before \union Layered
    /\ depends \in [Story -> SUBSET Named]
    /\ phase \notin {"build", "refused"} => Sound
    /\ phase \in Before => waves = << >>
    /\ phase \in Layered => LayeredInv
    /\ phase # "unplannable"
    /\ phase \in {"idle", "planned", "group"} => frontier = {}
    /\ WavesRespectDependencies

LEMMA FiniteDependencies ==
    ASSUME WaveInv, Sound, NEW s \in Story
    PROVE  depends[s] \subseteq Story /\ IsFiniteSet(depends[s])
BY StoryAssumption, FS_Subset DEF Sound, WaveInv

(* What some layer holds is what an earlier one held or the last one holds. *)
Held(q, e) == \E i \in DOMAIN q : e \in q[i]

LEMMA AppendedUnion ==
    ASSUME NEW q \in Seq(SUBSET Story), NEW x, NEW e
    PROVE  Held(Append(q, x), e) <=> Held(q, e) \/ e \in x
<1>1. DOMAIN Append(q, x) = DOMAIN q \union {Len(q) + 1}
  OBVIOUS
<1>2. \A i \in DOMAIN q : Append(q, x)[i] = q[i]
  OBVIOUS
<1>3. Append(q, x)[Len(q) + 1] = x
  OBVIOUS
<1> QED  BY <1>1, <1>2, <1>3 DEF Held

(* A counter that drops by what the layer certifies still counts the rest. *)
LEMMA CounterDrops ==
    ASSUME NEW D, IsFiniteSet(D), NEW A, NEW L, L \intersect A = {}
    PROVE  Cardinality(D \ A) - Cardinality(D \intersect L) = Cardinality(D \ (A \union L))
<1>1. IsFiniteSet(D \ A) /\ IsFiniteSet(D \intersect L) /\ IsFiniteSet(D \ (A \union L))
  BY FS_Difference, FS_Intersection
<1>2. (D \ A) \intersect L = D \intersect L /\ (D \ A) \ L = D \ (A \union L)
  OBVIOUS
<1>3. Cardinality(D \ (A \union L)) = Cardinality(D \ A) - Cardinality(D \intersect L)
  <2>1. Cardinality((D \ A) \ L) = Cardinality(D \ A) - Cardinality((D \ A) \intersect L)
    BY <1>1, FS_Difference
  <2> QED  BY <1>2, <2>1
<1>4. Cardinality(D \ A) \in Nat /\ Cardinality(D \intersect L) \in Nat
  BY <1>1, FS_CardinalityType
<1> QED  BY <1>3, <1>4

(* It reaches zero exactly when the layer certifies all the rest. *)
LEMMA CounterRunsOut ==
    ASSUME NEW D, IsFiniteSet(D), NEW A, NEW L, L \intersect A = {}
    PROVE  Cardinality(D \ A) = Cardinality(D \intersect L) <=> D \subseteq A \union L
<1>1. IsFiniteSet(D \ A) /\ IsFiniteSet(D \intersect L) /\ IsFiniteSet(D \ (A \union L))
  BY FS_Difference, FS_Intersection
<1>2. Cardinality(D \ (A \union L)) = 0 <=> D \ (A \union L) = {}
  BY <1>1, FS_EmptySet
<1>3. Cardinality(D \ A) \in Nat /\ Cardinality(D \intersect L) \in Nat
  BY <1>1, FS_CardinalityType
<1>4. Cardinality(D \ A) - Cardinality(D \intersect L) = Cardinality(D \ (A \union L))
  <2>1. Cardinality((D \ A) \ L) = Cardinality(D \ A) - Cardinality((D \ A) \intersect L)
    BY <1>1, FS_Difference
  <2>2. (D \ A) \intersect L = D \intersect L /\ (D \ A) \ L = D \ (A \union L)
    OBVIOUS
  <2> QED  BY <1>3, <2>1, <2>2
<1>5. D \ (A \union L) = {} <=> D \subseteq A \union L
  OBVIOUS
<1>6. Cardinality(D \ A) = Cardinality(D \intersect L) <=> Cardinality(D \ (A \union L)) = 0
  <2>1. \A x, y \in Nat : x = y <=> x - y = 0
    OBVIOUS
  <2> QED  BY <1>3, <1>4, <2>1
<1> QED  BY <1>2, <1>5, <1>6

LEMMA WaveInit == Init => WaveInv
<1> SUFFICES ASSUME Init PROVE WaveInv
  OBVIOUS
<1>1. waves = << >> /\ DOMAIN waves = {}
  BY DEF Init
<1> QED  BY <1>1 DEF Init, WaveInv, Before, Layered, WavesRespectDependencies

LEMMA StartKeepsWaves == WaveInv /\ StartWaves => WaveInv'
<1> SUFFICES ASSUME WaveInv, StartWaves PROVE WaveInv'
  OBVIOUS
<1>1. /\ phase = "classified" /\ phase' = "waves" /\ waves = << >> /\ waves' = << >>
      /\ depends' = depends /\ status' = status /\ approved' = approved /\ Sound /\ Sound'
      /\ DOMAIN waves' = {}
  BY DEF StartWaves, WaveInv, Before, graphVars, Sound
<1>2. Planned' = {} /\ Certified' = Certified /\ \A s : Plannable(s)' = Plannable(s)
  BY <1>1 DEF Planned, Certified, Plannable
<1>3. \A s \in Story : Cardinality(Open(s)) = 0 <=> depends[s] \subseteq Certified
  <2>1. \A s \in Story : IsFiniteSet(Open(s))
    BY <1>1, FiniteDependencies, FS_Difference DEF Open
  <2> QED  BY <2>1, FS_EmptySet DEF Open
<1>4. /\ satisfied' = Certified' \union Planned'
      /\ remaining' = {s \in Story : Plannable(s)'} \ Planned'
      /\ frontier' = {t \in remaining' : depends'[t] \subseteq satisfied'}
  BY <1>1, <1>2, <1>3 DEF StartWaves
<1>5. /\ \A t \in remaining' : unresolved'[t] = Cardinality(depends'[t] \ satisfied')
      /\ unresolved' = [s \in Story |-> unresolved'[s]]
  BY <1>1, <1>2, <1>4 DEF StartWaves, Open
<1>6. \A S \in SUBSET (Story \ Certified') : S \intersect satisfied' = {}
  BY <1>2, <1>4
<1>7. LayeredInv'
  BY <1>1, <1>4, <1>5, <1>6 DEF LayeredInv
<1> QED  BY <1>1, <1>7 DEF WaveInv, Before, Layered, WavesRespectDependencies

LEMMA LayerKeepsWaves == WaveInv /\ Layer => WaveInv'
<1> SUFFICES ASSUME WaveInv, Layer PROVE WaveInv'
  OBVIOUS
<1>1. /\ phase = "waves" /\ phase' = "waves" /\ depends' = depends /\ status' = status
      /\ approved' = approved /\ Sound /\ Sound' /\ LayeredInv
      /\ waves' = Append(waves, frontier) /\ waves \in Seq(SUBSET Story)
  BY DEF Layer, WaveInv, Layered, graphVars, Sound, LayeredInv
<1>2. Certified' = Certified /\ \A s : Plannable(s)' = Plannable(s)
  BY <1>1 DEF Certified, Plannable
<1>3. /\ frontier \subseteq remaining /\ remaining \subseteq Story /\ frontier \intersect satisfied = {}
      /\ \A t \in frontier : Plannable(t) /\ depends[t] \subseteq satisfied
  BY <1>1 DEF LayeredInv, Plannable, Certified
<1>4. Planned' = Planned \union frontier
  <2>1. \A e : e \in Planned' <=> Held(Append(waves, frontier), e)
    BY <1>1 DEF Planned, Held
  <2>2. \A e : e \in Planned <=> Held(waves, e)
    BY DEF Planned, Held
  <2>3. ASSUME NEW e PROVE e \in Planned' <=> e \in Planned \/ e \in frontier
    <3>1. Held(Append(waves, frontier), e) <=> Held(waves, e) \/ e \in frontier
      BY <1>1, AppendedUnion
    <3> QED  BY <2>1, <2>2, <3>1
  <2> QED  BY <2>3
<1>5. waves' \in Seq(SUBSET Story)
  BY <1>1, <1>3
<1>6. /\ satisfied' = Certified' \union Planned'
      /\ remaining' = {s \in Story : Plannable(s)'} \ Planned'
      /\ satisfied' = satisfied \union frontier /\ remaining' = remaining \ frontier
  BY <1>1, <1>2, <1>3, <1>4 DEF Layer, LayeredInv
<1>7. \A t \in remaining' : IsFiniteSet(depends[t])
  BY <1>1, <1>3, <1>6, FiniteDependencies
<1>8. /\ \A t \in remaining' : unresolved'[t] = Cardinality(depends'[t] \ satisfied')
      /\ unresolved' = [s \in Story |-> unresolved'[s]]
  <2>1. \A t \in remaining' : unresolved'[t] = unresolved[t] - Cardinality(depends[t] \intersect frontier)
    BY <1>3, <1>6 DEF Layer
  <2>2. \A t \in remaining' : unresolved[t] = Cardinality(depends[t] \ satisfied)
    BY <1>1, <1>6 DEF LayeredInv
  <2>3. unresolved' = [s \in Story |-> unresolved'[s]]
    BY DEF Layer
  <2>4. ASSUME NEW t \in remaining'
        PROVE  Cardinality(depends[t] \ satisfied) - Cardinality(depends[t] \intersect frontier)
                   = Cardinality(depends[t] \ (satisfied \union frontier))
    BY <1>3, <1>7, CounterDrops
  <2> QED  BY <1>1, <1>6, <2>1, <2>2, <2>3, <2>4
<1>9. frontier' = {t \in remaining' : depends'[t] \subseteq satisfied'}
  <2>1. \A t \in remaining' : unresolved[t] = Cardinality(depends[t] \ satisfied)
    BY <1>1, <1>6 DEF LayeredInv
  <2>2. \A t \in remaining' : unresolved[t] = Cardinality(depends[t] \intersect frontier)
                              <=> depends[t] \subseteq satisfied'
    <3> SUFFICES ASSUME NEW t \in remaining'
                 PROVE  Cardinality(depends[t] \ satisfied) = Cardinality(depends[t] \intersect frontier)
                            <=> depends[t] \subseteq satisfied \union frontier
      BY <1>6, <2>1
    <3>1. IsFiniteSet(depends[t]) /\ frontier \intersect satisfied = {}
      BY <1>3, <1>7
    <3> QED  BY <3>1, CounterRunsOut
  <2>3. \A t \in remaining' : ~(depends[t] \subseteq satisfied)
    BY <1>1, <1>6 DEF LayeredInv
  <2>4. \A t \in remaining' : depends[t] \subseteq satisfied' => depends[t] \intersect frontier # {}
    BY <1>6, <2>3
  <2> QED  BY <1>1, <1>6, <2>2, <2>4 DEF Layer, NextFrontier
<1>10. \A S \in SUBSET (Story \ Certified') : StuckSet(S)' => S \intersect satisfied' = {}
  <2> SUFFICES ASSUME NEW S \in SUBSET (Story \ Certified), StuckSet(S)
               PROVE  S \intersect satisfied' = {}
    BY <1>1, <1>2 DEF StuckSet
  <2>1. S \intersect satisfied = {}
    BY <1>1 DEF LayeredInv
  <2>2. \A t \in S : t \notin frontier
    BY <1>3, <2>1 DEF StuckSet
  <2> QED  BY <1>6, <2>1, <2>2
<1>11. LayeredInv'
  BY <1>5, <1>6, <1>8, <1>9, <1>10 DEF LayeredInv
<1>12. WavesRespectDependencies'
  <2> SUFFICES ASSUME NEW i \in DOMAIN waves', NEW s \in waves'[i]
               PROVE  /\ Plannable(s)
                      /\ \A d \in depends[s] : d \in Certified \/ \E j \in 1..(i - 1) : d \in waves'[j]
                      /\ \A j \in DOMAIN waves' : s \in waves'[j] => j = i
    BY <1>1, <1>2 DEF WavesRespectDependencies
  <2>1. /\ DOMAIN waves = 1..Len(waves) /\ DOMAIN waves' = 1..(Len(waves) + 1) /\ Len(waves) \in Nat
        /\ \A j \in 1..Len(waves) : waves'[j] = waves[j]
        /\ waves'[Len(waves) + 1] = frontier
    BY <1>1
  <2>2. \A j \in 1..Len(waves) : waves[j] \intersect frontier = {}
    BY <1>1, <1>3, <2>1 DEF LayeredInv, Planned
  <2>3. CASE i \in 1..Len(waves)
    BY <2>1, <2>2, <2>3 DEF WaveInv, WavesRespectDependencies
  <2>4. CASE i = Len(waves) + 1
    <3>1. s \in frontier
      BY <2>1, <2>4
    <3>2. \A d \in depends[s] : d \in Certified \/ \E j \in 1..(i - 1) : d \in waves'[j]
      BY <1>1, <1>3, <2>1, <2>4, <3>1 DEF LayeredInv, Planned
    <3> QED  BY <1>3, <2>1, <2>2, <2>4, <3>1, <3>2
  <2> QED  BY <2>1, <2>3, <2>4
<1> QED  BY <1>1, <1>11, <1>12 DEF WaveInv, Layered, Before

LEMMA WaveNext == WaveInv /\ [Next]_vars => WaveInv'
<1> SUFFICES ASSUME WaveInv, [Next]_vars PROVE WaveInv'
  OBVIOUS
<1>1. CASE waves' = waves /\ phase \in Before /\ phase' \in Before /\ depends' = depends
           /\ (phase' \notin {"build", "refused"} => Sound)
  <2>1. waves' = << >> /\ DOMAIN waves' = {} /\ Sound' = Sound
    BY <1>1 DEF WaveInv, Sound
  <2> QED  BY <1>1, <2>1 DEF WaveInv, Before, Layered, WavesRespectDependencies
<1>2. CASE Build
  BY <1>1, <1>2 DEF Build, Before, graphVars, waveVars
<1>3. CASE Leave \/ Classified \/ \E s \in Story : Enter(s) \/ Descend(s) \/ SkipBlack(s) \/ FindCycle(s)
  BY <1>1, <1>3 DEF Leave, Classified, Enter, Descend, SkipBlack, FindCycle, Before, graphVars, waveVars,
     WaveInv
<1>4. CASE StartWaves
  BY <1>4, StartKeepsWaves
<1>5. CASE Layer
  BY <1>5, LayerKeepsWaves
<1>6. ASSUME depends' = depends, status' = status, approved' = approved, waveVars' = waveVars,
             phase' = phase \/ (phase \in Layered /\ phase' \in {"idle", "planned", "group"} /\ frontier = {})
      PROVE  WaveInv'
  <2>1. /\ Certified' = Certified /\ Planned' = Planned /\ Sound' = Sound
        /\ \A s : Plannable(s)' = Plannable(s)
    BY <1>6 DEF Certified, Planned, Plannable, Sound, waveVars
  <2>2. \A S : StuckSet(S)' = StuckSet(S)
    BY <1>6, <2>1 DEF StuckSet
  <2>3. WavesRespectDependencies'
    BY <1>6, <2>1 DEF WavesRespectDependencies, WaveInv, waveVars
  <2>4. LayeredInv' = LayeredInv
    BY <1>6, <2>1, <2>2 DEF LayeredInv, waveVars
  <2> QED  BY <1>6, <2>1, <2>3, <2>4 DEF WaveInv, Before, Layered, waveVars
<1>7. CASE Defer
  BY <1>6, <1>7 DEF Defer, WaveInv, Layered, LayeredInv, graphVars
<1>8. CASE StartGroups
  BY <1>6, <1>8 DEF StartGroups, WaveInv, Layered
<1>9. CASE \E s \in Story : Place(s)
  <2>1. depends' = depends /\ status' = status /\ approved' = approved /\ waveVars' = waveVars
        /\ phase' = phase
    BY <1>9 DEF Place, graphVars
  <2> QED  BY <1>6, <2>1 DEF waveVars
<1>10. CASE UNCHANGED vars
  <2>1. depends' = depends /\ status' = status /\ approved' = approved /\ waveVars' = waveVars
        /\ phase' = phase
    BY <1>10 DEF vars, graphVars
  <2> QED  BY <1>6, <2>1 DEF waveVars
<1> QED  BY <1>2, <1>3, <1>4, <1>5, <1>7, <1>8, <1>9, <1>10 DEF Next

(* Nobody starts before what they build on.                                *)
THEOREM WavesAreOrdered == Spec => []WavesRespectDependencies
<1>1. WaveInv => WavesRespectDependencies
  BY DEF WaveInv
<1> QED  BY <1>1, WaveInit, WaveNext, PTL DEF Spec

(* What is left over at the end is stuck, and what was layered is not.     *)
LEMMA NobodyIsForgotten == WaveInv => EveryPlannableIsPlanned
<1> SUFFICES ASSUME WaveInv, phase \in {"idle", "planned", "group"}
             PROVE  Planned = {s \in Story \ Certified : ~Stuck(s)}
  BY DEF EveryPlannableIsPlanned, WaveInv
<1>1. LayeredInv /\ frontier = {}
  BY DEF WaveInv, Layered
<1>2. Planned \subseteq Story /\ \A s \in Planned : Plannable(s)
  BY <1>1 DEF Planned, LayeredInv, WaveInv, WavesRespectDependencies
<1>3. \A s \in Planned : s \notin Certified /\ ~Stuck(s)
  BY <1>1, <1>2 DEF Stuck, StuckSet, LayeredInv, Certified, Plannable
<1>4. ASSUME NEW s \in Story \ Certified, s \notin Planned PROVE Stuck(s)
  <2> DEFINE S == Story \ satisfied
  <2>1. S \in SUBSET (Story \ Certified) /\ s \in S
    BY <1>1, <1>4 DEF LayeredInv
  <2>2. ASSUME NEW t \in S, Plannable(t) PROVE depends[t] \intersect S # {}
    <3>1. t \in remaining
      BY <1>1, <2>2 DEF LayeredInv
    <3>2. ~(depends[t] \subseteq satisfied)
      BY <1>1, <3>1 DEF LayeredInv
    <3>3. depends[t] \subseteq Story
      BY <2>2 DEF WaveInv, Sound
    <3> QED  BY <3>2, <3>3
  <2> QED  BY <2>1, <2>2 DEF Stuck
<1> QED  BY <1>2, <1>3, <1>4

(* The waves contain in the end exactly the uncertified stories that wait, *)
(* directly or through others, for no circle and for no unplannable story. *)
THEOREM PlanningIsComplete == Spec => []EveryPlannableIsPlanned
BY NobodyIsForgotten, WaveInit, WaveNext, PTL DEF Spec

---------------------------------------------------------------------------
(* The cycle search.                                                       *)

Black == {s \in Story : colour[s] = "black"}
CircularSet(S) == \A s \in S : depends[s] \intersect S # {}

SearchType ==
    /\ colour \in [Story -> {"white", "grey", "black"}]
    /\ path \in Seq(Story)
    /\ unseen \in [Story -> SUBSET Story]

(* The stack is a chain of dependencies and holds exactly the grey ones.   *)
StackInv ==
    /\ \A s \in Story : colour[s] = "grey" <=> \E i \in DOMAIN path : path[i] = s
    /\ \A i, j \in DOMAIN path : path[i] = path[j] => i = j
    /\ \A i \in DOMAIN path : i + 1 \in DOMAIN path => path[i] \in depends[path[i + 1]]

(* What is left behind is black: a black story's dependents are, and a     *)
(* grey one's, save those still to be tried and the next on the stack.     *)
LeftBehindInv ==
    /\ \A s \in Story : unseen[s] \subseteq Dependents(s)
    /\ \A s \in Story : colour[s] = "white" => unseen[s] = Dependents(s)
    /\ \A s \in Black : Dependents(s) \subseteq Black
    /\ \A i \in DOMAIN path : \A t \in Dependents(path[i]) \ unseen[path[i]] :
           t \in Black \/ (i + 1 \in DOMAIN path /\ t = path[i + 1])
    /\ \A S \in SUBSET Black : CircularSet(S) => S = {}

RealCycle ==
    /\ cycle # << >>
    /\ \A i \in DOMAIN cycle : cycle[i] \in depends[cycle[IF i = Len(cycle) THEN 1 ELSE i + 1]]

SearchInv ==
    /\ phase \in Before \union Layered
    /\ phase \notin {"build", "refused"} => Sound
    /\ phase \in {"build", "search"} => SearchType
    /\ phase = "build" => path = << >> /\ \A s \in Story : colour[s] = "white"
    /\ phase = "search" => StackInv /\ LeftBehindInv
    /\ phase = "cycle" => RealCycle
    /\ DoneSearching => ~Circular

LEMMA SearchInit == Init => SearchInv
BY DEF Init, SearchInv, SearchType, Before, DoneSearching

LEMMA BuildKeepsSearch == SearchInv /\ Build => SearchInv'
<1> SUFFICES ASSUME SearchInv, Build PROVE SearchInv'
  OBVIOUS
<1>1. /\ phase = "build" /\ path' = << >> /\ colour' = colour /\ depends' = depends
      /\ SearchType /\ (\A s \in Story : colour[s] = "white")
  BY DEF Build, SearchInv, graphVars
<1>2. CASE ~Sound
  BY <1>2 DEF Build, SearchInv, Before, DoneSearching
<1>3. CASE Sound
  <2>1. phase' = "search" /\ unseen' = [s \in Story |-> Dependents(s)] /\ Sound'
    BY <1>1, <1>3 DEF Build, Sound
  <2>2. \A s \in Story : Dependents(s)' = Dependents(s) /\ Dependents(s) \subseteq Story
    BY <1>1 DEF Dependents
  <2>3. SearchType'
    BY <1>1, <2>1, <2>2 DEF SearchType
  <2>4. StackInv'
    BY <1>1 DEF StackInv
  <2>5. Black' = {} /\ LeftBehindInv'
    BY <1>1, <2>1, <2>2 DEF Black, LeftBehindInv
  <2> QED  BY <2>1, <2>3, <2>4, <2>5 DEF SearchInv, Before, DoneSearching
<1> QED  BY <1>2, <1>3

(* Entering a white story, as a root or below the top of the stack.        *)
LEMMA PushKeepsSearch ==
    ASSUME SearchInv, phase = "search", NEW t \in Story, colour[t] = "white",
           phase' = "search", depends' = depends, cycle' = cycle,
           colour' = [colour EXCEPT ![t] = "grey"], path' = Append(path, t),
           \/ path = << >> /\ unseen' = unseen
           \/ path # << >> /\ t \in unseen[Top] /\ unseen' = [unseen EXCEPT ![Top] = @ \ {t}]
    PROVE  SearchInv'
<1>1. SearchType /\ StackInv /\ LeftBehindInv /\ Sound
  BY DEF SearchInv
<1>2. \A s \in Story : Dependents(s)' = Dependents(s) /\ Dependents(s) \subseteq Story
  BY DEF Dependents
<1>3. Black' = Black
  BY <1>1 DEF Black, SearchType
<1>4. /\ DOMAIN path = 1..Len(path) /\ DOMAIN path' = 1..(Len(path) + 1) /\ Len(path) \in Nat
      /\ \A i \in 1..Len(path) : path'[i] = path[i] /\ path[i] \in Story
      /\ path'[Len(path) + 1] = t
  BY <1>1 DEF SearchType
<1>5. path # << >> => Top = path[Len(path)] /\ Len(path) \in 1..Len(path) /\ Top \in Story
                      /\ colour[Top] = "grey" /\ Top \in depends[t] /\ t \in Dependents(Top)
  BY <1>1, <1>4 DEF Top, StackInv, LeftBehindInv, Dependents, SearchType
<1>6. SearchType'
  BY <1>1 DEF SearchType
<1>7. \A i \in 1..Len(path) : path[i] # t /\ colour[path[i]] = "grey"
  BY <1>1, <1>4 DEF StackInv
<1>8. StackInv'
  <2>1. \A s \in Story : colour'[s] = "grey" <=> \E i \in DOMAIN path' : path'[i] = s
    BY <1>1, <1>4, <1>7 DEF StackInv, SearchType
  <2>2. \A i, j \in DOMAIN path' : path'[i] = path'[j] => i = j
    BY <1>1, <1>4, <1>7 DEF StackInv
  <2>3. \A i \in DOMAIN path' : i + 1 \in DOMAIN path' => path'[i] \in depends[path'[i + 1]]
    BY <1>1, <1>4, <1>5 DEF StackInv
  <2> QED  BY <2>1, <2>2, <2>3 DEF StackInv
<1>9. LeftBehindInv'
  <2>1. \A s \in Story : unseen'[s] \subseteq Dependents(s)
    BY <1>1, <1>6 DEF LeftBehindInv, SearchType
  <2>2. \A s \in Story : colour'[s] = "white" => unseen'[s] = Dependents(s)
    BY <1>1, <1>5 DEF LeftBehindInv, SearchType
  <2>3. ASSUME NEW i \in DOMAIN path', NEW u \in Dependents(path'[i]) \ unseen'[path'[i]]
        PROVE  u \in Black \/ (i + 1 \in DOMAIN path' /\ u = path'[i + 1])
    <3>1. CASE i = Len(path) + 1
      <4>1. unseen'[t] = Dependents(t)
        BY <1>1, <1>5 DEF LeftBehindInv, SearchType
      <4> QED  BY <1>4, <2>3, <3>1, <4>1
    <3>2. CASE i = Len(path) /\ i \in 1..Len(path)
      <4>1. u \in Dependents(path[i]) \ unseen[path[i]] \/ u = t
        BY <1>1, <1>4, <1>5, <2>3, <3>2 DEF SearchType
      <4> QED  BY <1>1, <1>4, <3>2, <4>1 DEF LeftBehindInv
    <3>3. CASE i \in 1..(Len(path) - 1)
      <4>1. path[i] # Top
        BY <1>1, <1>4, <1>5, <3>3 DEF StackInv
      <4>2. u \in Dependents(path[i]) \ unseen[path[i]]
        BY <1>1, <1>4, <2>3, <3>3, <4>1 DEF SearchType
      <4> QED  BY <1>1, <1>4, <3>3, <4>2 DEF LeftBehindInv
    <3> QED  BY <1>4, <3>1, <3>2, <3>3
  <2>4. \A S : CircularSet(S)' = CircularSet(S)
    BY DEF CircularSet
  <2>5. /\ \A s \in Black' : Dependents(s)' \subseteq Black'
        /\ \A S \in SUBSET Black' : CircularSet(S)' => S = {}
    BY <1>1, <1>2, <1>3, <2>4 DEF LeftBehindInv, Black
  <2>6. \A i \in DOMAIN path' : \A u \in {s \in Story : path'[i] \in depends'[s]} \ unseen'[path'[i]] :
           u \in Black' \/ (i + 1 \in DOMAIN path' /\ u = path'[i + 1])
    BY <1>3, <2>3 DEF Dependents
  <2> QED  BY <1>2, <2>1, <2>2, <2>5, <2>6 DEF LeftBehindInv, Dependents
<1>10. Sound' = Sound
  BY DEF Sound
<1> QED  BY <1>1, <1>6, <1>8, <1>9, <1>10 DEF SearchInv, Before, DoneSearching

LEMMA SkipKeepsSearch ==
    ASSUME SearchInv, NEW t \in Story, SkipBlack(t)
    PROVE  SearchInv'
<1>1. /\ SearchType /\ StackInv /\ LeftBehindInv /\ Sound
      /\ phase = "search" /\ phase' = "search" /\ depends' = depends /\ colour' = colour /\ path' = path
      /\ path # << >> /\ t \in Black /\ unseen' = [unseen EXCEPT ![Top] = @ \ {t}]
  BY DEF SkipBlack, SearchInv, graphVars, Black
<1>2. \A s \in Story : Dependents(s)' = Dependents(s)
  BY <1>1 DEF Dependents
<1>3. Black' = Black /\ \A S : CircularSet(S)' = CircularSet(S)
  BY <1>1 DEF Black, CircularSet
<1>4. Top \in Story /\ colour[Top] = "grey"
  BY <1>1 DEF Top, StackInv, SearchType
<1>5. SearchType' /\ StackInv' /\ Sound'
  BY <1>1, <1>4 DEF SearchType, StackInv, Sound
<1>6. \A s \in Story : unseen'[s] \subseteq unseen[s] /\ unseen[s] \subseteq unseen'[s] \union {t}
  BY <1>1, <1>4 DEF SearchType
<1>7. \A s \in Story : colour[s] = "white" => unseen'[s] = unseen[s]
  BY <1>1, <1>4 DEF SearchType
<1>8. \A i \in DOMAIN path : path[i] \in Story
  BY <1>1 DEF SearchType
<1>9. \A i \in DOMAIN path : \A u \in Dependents(path[i]) \ unseen'[path[i]] :
         u \in Black \/ (i + 1 \in DOMAIN path /\ u = path[i + 1])
  BY <1>1, <1>6, <1>8 DEF LeftBehindInv
<1>10. LeftBehindInv'
  <2>1. \A i \in DOMAIN path' : \A u \in {s \in Story : path'[i] \in depends'[s]} \ unseen'[path'[i]] :
           u \in Black' \/ (i + 1 \in DOMAIN path' /\ u = path'[i + 1])
    BY <1>1, <1>3, <1>9 DEF Dependents
  <2>2. \A s \in Black : Dependents(s)' \subseteq Black
    BY <1>1, <1>2 DEF LeftBehindInv, Black
  <2> QED  BY <1>1, <1>2, <1>3, <1>6, <1>7, <2>1, <2>2 DEF LeftBehindInv, Dependents
<1> QED  BY <1>1, <1>5, <1>10 DEF SearchInv, Before, DoneSearching

LEMMA LeaveKeepsSearch == SearchInv /\ Leave => SearchInv'
<1> SUFFICES ASSUME SearchInv, Leave PROVE SearchInv'
  OBVIOUS
<1>1. /\ SearchType /\ StackInv /\ LeftBehindInv /\ Sound
      /\ phase = "search" /\ phase' = "search" /\ depends' = depends /\ unseen' = unseen
      /\ path # << >> /\ unseen[Top] = {} /\ colour' = [colour EXCEPT ![Top] = "black"]
      /\ path' = SubSeq(path, 1, Len(path) - 1)
  BY DEF Leave, SearchInv, graphVars
<1> DEFINE n == Len(path)
<1>2. /\ n \in Nat /\ n > 0 /\ DOMAIN path = 1..n /\ \A i \in 1..n : path[i] \in Story
      /\ DOMAIN path' = 1..(n - 1) /\ (\A i \in 1..(n - 1) : path'[i] = path[i])
      /\ path' \in Seq(Story) /\ Top = path[n] /\ Top \in Story /\ n \in 1..n
  BY <1>1 DEF SearchType, Top
<1> HIDE DEF n
<1>3. \A s \in Story : Dependents(s)' = Dependents(s) /\ Dependents(s) \subseteq Story
  BY <1>1 DEF Dependents
<1>4. Black' = Black \union {Top} /\ Black \subseteq Story
  BY <1>1, <1>2 DEF Black, SearchType
<1>5. Dependents(Top) \subseteq Black
  BY <1>1, <1>2 DEF LeftBehindInv
<1>6. colour[Top] = "grey" /\ Top \notin Black
  BY <1>1, <1>2 DEF StackInv, Black
<1>7. \A i \in 1..(n - 1) : path[i] # Top
  <2>1. \A i, j \in 1..n : path[i] = path[j] => i = j
    BY <1>1, <1>2 DEF StackInv
  <2>2. \A i \in 1..(n - 1) : i \in 1..n /\ i # n
    BY <1>2
  <2> QED  BY <1>2, <2>1, <2>2
<1>8. SearchType' /\ Sound'
  <2>1. colour' \in [Story -> {"white", "grey", "black"}]
    BY <1>1 DEF SearchType
  <2>2. unseen' \in [Story -> SUBSET Story] /\ Sound'
    BY <1>1 DEF SearchType, Sound
  <2>3. path' \in Seq(Story)
    BY <1>2
  <2> QED  BY <2>1, <2>2, <2>3 DEF SearchType
<1>9. StackInv'
  <2>1. \A s \in Story : colour'[s] = "grey" <=> \E i \in DOMAIN path' : path'[i] = s
    <3>1. \A i \in 1..n : i = n \/ i \in 1..(n - 1)
      BY <1>2
    <3>2. colour'[Top] = "black" /\ \A s \in Story : s # Top => colour'[s] = colour[s]
      BY <1>1, <1>2 DEF SearchType
    <3>3. \A s \in Story : s # Top => (colour[s] = "grey" <=> \E i \in 1..(n - 1) : path[i] = s)
      <4> SUFFICES ASSUME NEW s \in Story, s # Top
                   PROVE  colour[s] = "grey" <=> \E i \in 1..(n - 1) : path[i] = s
        OBVIOUS
      <4>1. colour[s] = "grey" <=> \E i \in 1..n : path[i] = s
        BY <1>1, <1>2 DEF StackInv
      <4>2. \A i \in 1..(n - 1) : i \in 1..n
        BY <1>2
      <4> QED  BY <1>2, <3>1, <4>1, <4>2
    <3>4. \A s \in Story : colour'[s] = "grey" <=> \E i \in 1..(n - 1) : path[i] = s
      <4> SUFFICES ASSUME NEW s \in Story
                   PROVE  colour'[s] = "grey" <=> \E i \in 1..(n - 1) : path[i] = s
        OBVIOUS
      <4>1. CASE s = Top
        BY <1>7, <3>2, <4>1
      <4>2. CASE s # Top
        BY <3>2, <3>3, <4>2
      <4> QED  BY <4>1, <4>2
    <3> QED  BY <1>2, <3>4
  <2>2. \A i, j \in DOMAIN path' : path'[i] = path'[j] => i = j
    BY <1>1, <1>2 DEF StackInv
  <2>3. \A i \in DOMAIN path' : i + 1 \in DOMAIN path' => path'[i] \in depends'[path'[i + 1]]
    BY <1>1, <1>2 DEF StackInv
  <2> QED  BY <2>1, <2>2, <2>3 DEF StackInv
<1>10. LeftBehindInv'
  <2>1. \A s \in Story : colour'[s] = "white" => colour[s] = "white"
    BY <1>1, <1>2 DEF SearchType
  <2>2. \A s \in Black' : Dependents(s)' \subseteq Black'
    BY <1>1, <1>2, <1>3, <1>4, <1>5 DEF LeftBehindInv
  <2>3. ASSUME NEW i \in 1..(n - 1), NEW u \in Dependents(path[i]) \ unseen[path[i]]
        PROVE  u \in Black' \/ (i + 1 \in 1..(n - 1) /\ u = path[i + 1])
    BY <1>1, <1>2, <1>4, <2>3 DEF LeftBehindInv
  <2>4. \A i \in DOMAIN path' : \A u \in {s \in Story : path'[i] \in depends'[s]} \ unseen'[path'[i]] :
           u \in Black' \/ (i + 1 \in DOMAIN path' /\ u = path'[i + 1])
    BY <1>1, <1>2, <2>3 DEF Dependents
  <2>5. ASSUME NEW S \in SUBSET Black', CircularSet(S) PROVE S = {}
    <3>1. Top \notin S
      <4> SUFFICES ASSUME Top \in S PROVE FALSE
        OBVIOUS
      <4>1. PICK d \in S : d \in depends[Top]
        BY <2>5 DEF CircularSet
      <4>2. d \in Black
        BY <1>1, <1>2, <1>4, <4>1 DEF Sound
      <4>3. Top \in Dependents(d)
        BY <1>2, <4>1 DEF Dependents
      <4> QED  BY <1>1, <1>6, <4>2, <4>3 DEF LeftBehindInv
    <3> QED  BY <1>1, <1>4, <2>5, <3>1 DEF LeftBehindInv
  <2>6. \A S \in SUBSET Black' : CircularSet(S)' => S = {}
    BY <1>1, <2>5 DEF CircularSet
  <2> QED  BY <1>1, <1>3, <2>1, <2>2, <2>4, <2>6 DEF LeftBehindInv, Dependents
<1> QED  BY <1>1, <1>8, <1>9, <1>10 DEF SearchInv, Before, DoneSearching

(* A grey dependent closes the chain from its place on the stack.          *)
LEMMA FoundCycleIsReal ==
    ASSUME SearchInv, NEW t \in Story, FindCycle(t)
    PROVE  SearchInv'
<1>1. /\ SearchType /\ StackInv /\ LeftBehindInv /\ Sound /\ phase' = "cycle" /\ depends' = depends
      /\ path # << >> /\ t \in unseen[Top] /\ cycle' \in CycleFrom(t)
  BY DEF FindCycle, SearchInv, graphVars
<1>2. PICK i \in DOMAIN path : path[i] = t /\ cycle' = SubSeq(path, i, Len(path))
  BY <1>1 DEF CycleFrom
<1> DEFINE n == Len(path)
           m == n - i + 1
<1>3. /\ n \in Nat /\ n > 0 /\ DOMAIN path = 1..n /\ i \in 1..n /\ m \in Nat /\ m > 0
      /\ Top = path[n] /\ Top \in Story
  BY <1>1, <1>2 DEF SearchType, Top
<1>4. /\ DOMAIN cycle' = 1..m /\ Len(cycle') = m /\ cycle' # << >>
      /\ \A k \in 1..m : cycle'[k] = path[i + k - 1]
  BY <1>1, <1>2, <1>3 DEF SearchType
<1>5. Top \in depends[t]
  BY <1>1, <1>3 DEF LeftBehindInv, Dependents
<1>6. ASSUME NEW k \in 1..m PROVE cycle'[k] \in depends[cycle'[IF k = m THEN 1 ELSE k + 1]]
  <2>1. CASE k = m
    <3>2. cycle'[k] = Top /\ cycle'[1] = t
      BY <1>2, <1>3, <1>4, <2>1
    <3> QED  BY <1>5, <2>1, <3>2
  <2>2. CASE k < m
    <3>2. cycle'[k] = path[i + k - 1] /\ cycle'[k + 1] = path[i + k]
      BY <1>3, <1>4, <2>2
    <3>3. i + k - 1 \in 1..n /\ i + k \in 1..n /\ (i + k - 1) + 1 = i + k
      BY <1>3, <2>2
    <3> QED  BY <1>1, <1>3, <2>2, <3>2, <3>3 DEF StackInv
  <2> QED  BY <1>3, <2>1, <2>2
<1>7. RealCycle'
  BY <1>1, <1>4, <1>6 DEF RealCycle
<1>8. Sound'
  BY <1>1 DEF Sound
<1> QED  BY <1>1, <1>7, <1>8 DEF SearchInv, Before, DoneSearching

LEMMA SearchNext == SearchInv /\ [Next]_vars => SearchInv'
<1> SUFFICES ASSUME SearchInv, [Next]_vars PROVE SearchInv'
  OBVIOUS
<1>1. CASE Build
  BY <1>1, BuildKeepsSearch
<1>2. CASE Leave
  BY <1>2, LeaveKeepsSearch
<1>3. ASSUME NEW s \in Story, Enter(s) PROVE SearchInv'
  <2>1. path = << >> /\ path' = Append(path, s)
    BY <1>3 DEF Enter
  <2> QED  BY <1>3, <2>1, PushKeepsSearch DEF Enter, graphVars
<1>4. ASSUME NEW s \in Story, Descend(s) PROVE SearchInv'
  BY <1>4, PushKeepsSearch DEF Descend, graphVars
<1>5. ASSUME NEW s \in Story, SkipBlack(s) PROVE SearchInv'
  BY <1>5, SkipKeepsSearch
<1>6. ASSUME NEW s \in Story, FindCycle(s) PROVE SearchInv'
  BY <1>6, FoundCycleIsReal
<1>7. CASE Classified
  <2>1. /\ SearchType /\ StackInv /\ LeftBehindInv /\ Sound /\ Sound' /\ phase' = "classified"
        /\ depends' = depends /\ path = << >> /\ \A s \in Story : colour[s] # "white"
    BY <1>7 DEF Classified, SearchInv, Sound
  <2>2. Black = Story
    BY <2>1 DEF StackInv, SearchType, Black
  <2>3. ~Circular
    <3>1. \A S \in SUBSET Story : CircularSet(S) => S = {}
      BY <2>1, <2>2 DEF LeftBehindInv
    <3>2. ASSUME NEW S \in (SUBSET Story) \ {{}}, \A s \in S : depends[s] \intersect S # {}
          PROVE  FALSE
      BY <3>1, <3>2 DEF CircularSet
    <3> QED  BY <3>2 DEF Circular
  <2>4. Circular' = Circular
    BY <2>1 DEF Circular
  <2>5. ~DoneSearching' \/ ~Circular'
    BY <2>3, <2>4
  <2> QED  BY <2>1, <2>5 DEF SearchInv, Before
<1>8. CASE StartWaves \/ Layer \/ Defer \/ StartGroups \/ \E s \in Story : Place(s)
  <2>1. /\ DoneSearching /\ phase' \in Layered /\ depends' = depends
    BY <1>8 DEF StartWaves, Layer, Defer, StartGroups, Place, graphVars, DoneSearching, Layered
  <2>2. Circular' = Circular /\ Sound' = Sound
    BY <2>1 DEF Circular, Sound
  <2> QED  BY <2>1, <2>2 DEF SearchInv, DoneSearching, Layered, Before
<1>9. CASE UNCHANGED vars
  <2>1. UNCHANGED << depends, phase, colour, path, unseen, cycle >>
    BY <1>9 DEF vars, graphVars, searchVars
  <2>2. Circular' = Circular /\ Sound' = Sound /\ RealCycle' = RealCycle /\ SearchType' = SearchType
    BY <2>1 DEF Circular, Sound, RealCycle, SearchType
  <2>3. StackInv' = StackInv /\ Black' = Black
    BY <2>1 DEF StackInv, Black
  <2>4. LeftBehindInv' = LeftBehindInv
    BY <2>1, <2>3 DEF LeftBehindInv, Dependents, CircularSet
  <2> QED  BY <2>1, <2>2, <2>3, <2>4 DEF SearchInv, DoneSearching
<1> QED  BY <1>1, <1>2, <1>3, <1>4, <1>5, <1>6, <1>7, <1>8, <1>9 DEF Next

(* The search reports a circle exactly when there is one.                  *)
THEOREM SearchIsExact == Spec => []CycleSearchIsExact
<1>1. SearchInv => CycleSearchIsExact
  BY DEF SearchInv, RealCycle, CycleSearchIsExact
<1> QED  BY <1>1, SearchInit, SearchNext, PTL DEF Spec
-----------------------------------------------------------------------------
(* The mission runner.                                                     *)

Outcome == {"RUNNING", "READY", "APPROVAL", "REMEDIATE", "NEGATIVE", "FAILED"}

Label == {"idle", "locked", "record", "commit", "plan", "architect", "accept", "proposed", "act",
          "escalate", "reference", "authorize", "integrate", "assign", "start", "progress", "members",
          "implement", "submit", "refs", "gate", "merge", "observe", "integrated", "context", "verify",
          "policy", "certify", "tester", "review", "reviewer", "rejected", "claim", "apply",
          "apply_mission", "finalize", "successor"}

Call == [at : Label, then : {"drive", "verify", "certify"}, remediate : BOOLEAN,
         start : {None} \cup MissionState, group : SUBSET UserStory]

(* The names and the numbers of what the stores hold.                      *)
RunType ==
    /\ mission \in {None} \cup MissionState
    /\ record \in {None} \cup OrchestrationRecord
    /\ ledger \subseteq [key : Reference, status : Outcome]
    /\ assignments \subseteq [id : Request \X Nat, story : UserStory, generation : Nat,
                              baseline : Nat, status : {"PLANNED", "ACTIVE", "COMPLETED"}]
    /\ primary \in Seq(Nat \cup {None})
    /\ call \in Call

Live == mission # None /\ mission.status # "TERMINAL"

(* A result that every later invocation finds again.                       *)
Resolved(k) == \E e \in ledger : e.key = k /\ e.status \notin {"RUNNING", "FAILED"}

PlanOf(s) == [role |-> "ARCHITECT", subject |-> s, generation |-> 0]
WorkOn(s) == [role |-> "IMPLEMENTER", subject |-> s, generation |-> record.generation]

Gated == record.progress # None /\ record.progress.gate

(* The stores agree, whatever the invocation was doing when it died.       *)
NamesInv ==
    /\ Live => record # None /\ record.id = mission.id
    /\ mission # None /\ ~Live => mission.id \notin Request \X Nat
    /\ record # None /\ ~Live =>
          ~record.planned /\ record.progress = None /\ record.refs = {} /\ record.generation = 0

GenerationsInv == Live =>
    /\ mission.generation \in {record.generation, record.generation + 1}
    /\ ~record.planned => mission.generation = 0
    /\ mission.step = "ACT" => Resolved(PlanOf(First))

WorkInv == record # None =>
    /\ \A k \in record.refs : Resolved(k)
    /\ record.progress # None => Claims # {}
    /\ Gated => \A a \in Claims : a.status = "COMPLETED" /\ WorkOn(a.story) \in record.refs

PrimaryInv == \A i \in 1 .. Len(primary) : primary[i] # None =>
    /\ Live /\ primary[i] <= record.generation
    /\ primary[i] = record.generation => Gated

StoresInv == NamesInv /\ GenerationsInv /\ WorkInv /\ PrimaryInv

(* Where the invocation stands.                                            *)
Resting  == {"idle", "locked"}
Opening  == {"record", "commit"}
PlanInHand  == {"accept", "proposed", "act", "escalate", "reference"}
PlanningAt == {"plan", "architect"} \cup PlanInHand
Forming  == {"assign", "start"}
Checking == {"members", "implement", "submit", "refs", "gate", "merge"}
Advanced == {"finalize", "successor"}
WithGroup == Forming \cup Checking \cup {"progress", "observe", "integrated", "context", "verify",
              "policy", "certify", "tester", "review", "reviewer", "rejected"}

OpeningInv ==
    /\ call.at \in Opening => 
          /\ ~Live /\ call.start \in MissionState /\ call.start.id \in Request \X Nat
          /\ call.start.status = "ACTIVE" /\ call.start.generation = 0
          /\ call.start.step = "UNDERSTAND"
    /\ call.at = "commit" => record = Fresh(call.start)

PlaceInv == call.at \notin Resting \cup Opening =>
    /\ Live
    /\ mission.generation = record.generation + (IF call.at \in Advanced THEN 1 ELSE 0)
    /\ record.planned <=> call.at \notin PlanningAt
    /\ call.at \in PlanInHand => Resolved(PlanOf(First))

(* Every member of the group has delivered.                                *)
ReadyWork == \A s \in call.group : [key |-> WorkOn(s), status |-> "READY"] \in ledger

MemberInv ==
    /\ call.at \in WithGroup => call.group # {}
    /\ call.at \in Forming => record.progress = None
    /\ call.at \in Checking \cup {"observe", "integrated"} => record.progress # None
    /\ call.at \in Forming \cup Checking \cup {"progress"} => Claimed \subseteq call.group
    /\ call.at \in {"start", "progress"} => Claims # {}
    /\ call.at = "refs" => ReadyWork
    /\ call.at \in {"refs", "gate", "merge"} => \A a \in Claims : a.status = "COMPLETED"
    /\ call.at \in {"gate", "merge"} => \A a \in Claims : WorkOn(a.story) \in record.refs
    /\ call.at = "merge" => record.progress.gate

RunInv == RunType /\ StoresInv /\ OpeningInv /\ PlaceInv /\ MemberInv

(* What is not running any more stays in its ledger.                       *)
Keeps == \A e \in ledger : e.status # "RUNNING" => e \in ledger'

LEMMA RootIsStory == First \in UserStory
  BY RunAssumption DEF First

LEMMA LeadIsStory ==
    ASSUME call \in Call, call.group # {}
    PROVE  Lead \in UserStory
  BY RootIsStory DEF Lead, Call

LEMMA KeyIsReference ==
    ASSUME NEW r \in {"ARCHITECT", "IMPLEMENTER", "TESTER", "REVIEWER"}, NEW s \in UserStory,
           mission \in MissionState
    PROVE  Key(r, s) \in Reference
  BY DEF Key, Reference, MissionState

LEMMA LaunchKeeps ==
    ASSUME RunType, NEW r \in {"ARCHITECT", "IMPLEMENTER", "TESTER", "REVIEWER"},
           NEW s \in UserStory, mission \in MissionState, Launch(r, s)
    PROVE  Keeps /\ ledger' \subseteq [key : Reference, status : Outcome]
<1> DEFINE k == Key(r, s)
<1>1. k \in Reference
  BY KeyIsReference
<1>2. ledger' = ledger \cup {[key |-> k, status |-> "RUNNING"]}
  BY DEF Launch
<1> QED  BY <1>1, <1>2 DEF RunType, Keeps, Outcome

LEMMA FinishKeeps ==
    ASSUME RunType, NEW r \in {"ARCHITECT", "IMPLEMENTER", "TESTER", "REVIEWER"},
           NEW s \in UserStory, NEW v \in Outcome, mission \in MissionState, Finish(r, s, v)
    PROVE  Keeps /\ ledger' \subseteq [key : Reference, status : Outcome]
           /\ [key |-> Key(r, s), status |-> v] \in ledger'
<1> DEFINE k == Key(r, s)
<1>1. k \in Reference
  BY KeyIsReference
<1>2. ledger' = (ledger \ {[key |-> k, status |-> "RUNNING"]}) \cup {[key |-> k, status |-> v]}
  BY DEF Finish
<1> QED  BY <1>1, <1>2 DEF RunType, Keeps, Outcome

LEMMA CallMoves ==
    ASSUME call \in Call, NEW l \in Label, Goto(l)
    PROVE  /\ call' \in Call /\ call'.at = l /\ call'.start = call.start
           /\ call'.group = call.group /\ call'.then = call.then
  BY DEF Call, Goto

LEMMA NoCallIsCall == NoCall \in Call /\ NoCall.at = "idle"
  BY DEF NoCall, Call, Label

LEMMA CallStops ==
    ASSUME call' \in {NoCall, Locked}
    PROVE  call' \in Call /\ call'.at \in Resting
<1>1. Locked \in Call /\ Locked.at = "locked"
  BY NoCallIsCall DEF Locked, Call, Label
<1> QED  BY <1>1, NoCallIsCall DEF Resting

LEMMA AtRest ==
    ASSUME call'.at \in Resting
    PROVE  OpeningInv' /\ PlaceInv' /\ MemberInv'
  BY DEF Resting, OpeningInv, PlaceInv, MemberInv, Opening, WithGroup, Forming, Checking

LEMMA StoresStay ==
    ASSUME RunType, StoresInv, UNCHANGED << mission, record, assignments, primary >>, Keeps
    PROVE  /\ StoresInv' /\ Live' = Live /\ Gated' = Gated
           /\ Claims' = Claims /\ Claimed' = Claimed
           /\ \A k : Resolved(k) => Resolved(k)'
<1>1. Live' = Live /\ Gated' = Gated
  BY DEF Live, Gated
<1>2. Claims' = Claims /\ Claimed' = Claimed
  BY DEF Claims, Claimed
<1>3. ASSUME NEW k, Resolved(k) PROVE Resolved(k)'
  BY <1>3 DEF Resolved, Keeps
<1>4. NamesInv'
  BY <1>1 DEF StoresInv, NamesInv
<1>5. GenerationsInv'
  <2>1. Resolved(PlanOf(First)) => Resolved(PlanOf(First))'
    BY <1>3
  <2> QED  BY <1>1, <2>1 DEF StoresInv, GenerationsInv
<1>6. WorkInv'
  <2>1. \A s : WorkOn(s)' = WorkOn(s)
    BY DEF WorkOn
  <2> QED  BY <1>1, <1>2, <1>3, <2>1 DEF StoresInv, WorkInv
<1>7. PrimaryInv'
  BY <1>1 DEF StoresInv, PrimaryInv
<1> QED  BY <1>1, <1>2, <1>3, <1>4, <1>5, <1>6, <1>7 DEF StoresInv

(* Running and planning.                                                   *)
LEMMA PlanningSteps ==
    ASSUME RunInv,
           \/ AskArchitect \/ (\E s \in UserStory : PlanStory(s))
           \/ \E v \in {"READY", "APPROVAL", "NEGATIVE", "FAILED"} : ArchitectEnds(v)
    PROVE  RunInv'
<1>1. /\ call \in Call /\ call.at \in {"plan", "architect", "proposed"}
      /\ UNCHANGED << mission, record, assignments, primary >>
  BY DEF RunInv, RunType, AskArchitect, PlanStory, ArchitectEnds, At
<1>2. /\ Live /\ mission \in MissionState /\ record.planned = FALSE
      /\ mission.generation = record.generation /\ record # None
  BY <1>1 DEF RunInv, RunType, PlaceInv, StoresInv, NamesInv, Resting, Opening, Advanced, PlanningAt,
              PlanInHand, Live, OrchestrationRecord, MissionState
<1>3. Key("ARCHITECT", First) = PlanOf(First)
  BY <1>2 DEF RunInv, StoresInv, GenerationsInv, Key, PlanOf
<1>4. Keeps /\ ledger' \subseteq [key : Reference, status : Outcome]
  <2>1. CASE AskArchitect
    BY <1>2, <2>1, LaunchKeeps, RootIsStory DEF AskArchitect, RunInv, RunType, Keeps
  <2>2. CASE \E s \in UserStory : PlanStory(s)
    BY <2>2 DEF PlanStory, RunInv, RunType, Keeps
  <2>3. ASSUME NEW v \in {"READY", "APPROVAL", "NEGATIVE", "FAILED"}, ArchitectEnds(v)
        PROVE  Keeps /\ ledger' \subseteq [key : Reference, status : Outcome]
    BY <1>2, <2>3, FinishKeeps, RootIsStory DEF ArchitectEnds, RunInv, Outcome
  <2> QED  BY <2>1, <2>2, <2>3
<1>5. /\ StoresInv' /\ Live' = Live
      /\ Resolved(PlanOf(First)) => Resolved(PlanOf(First))'
  BY <1>1, <1>4, StoresStay DEF RunInv
<1>6. call' \in Call /\ \/ call'.at \in Resting \/ call'.at = "architect" \/ call'.at \in PlanInHand
  <2>1. CASE AskArchitect
    BY <1>1, <2>1, CallMoves, CallStops DEF Label, AskArchitect, Stop, PlanInHand
  <2>2. CASE \E s \in UserStory : PlanStory(s)
    BY <1>1, <2>2, CallMoves DEF Label, PlanStory, PlanInHand, At
  <2>3. CASE \E v \in {"READY", "APPROVAL", "NEGATIVE", "FAILED"} : ArchitectEnds(v)
    BY <1>1, <2>3, CallMoves, CallStops DEF Label, ArchitectEnds, Stop, PlanInHand
  <2> QED  BY <2>1, <2>2, <2>3
<1>7. ASSUME call'.at \in PlanInHand PROVE Resolved(PlanOf(First))'
  <2>1. CASE AskArchitect
    <3>1. Validated("ARCHITECT", First)
      BY <1>7, <1>1, <2>1, CallMoves, CallStops DEF Label, AskArchitect, Stop, PlanInHand, Resting
    <3>2. Resolved(PlanOf(First))
      BY <1>3, <3>1 DEF Validated, StatusOf, Resolved
    <3> QED  BY <1>5, <3>2
  <2>2. CASE \E s \in UserStory : PlanStory(s)
    BY <1>1, <1>5, <2>2 DEF RunInv, PlaceInv, PlanStory, At, PlanInHand, Resting, Opening
  <2>3. ASSUME NEW v \in {"READY", "APPROVAL", "NEGATIVE", "FAILED"}, ArchitectEnds(v)
        PROVE  Resolved(PlanOf(First))'
    <3>1. v # "FAILED"
      BY <1>7, <2>3, CallStops DEF ArchitectEnds, Stop, PlanInHand, Resting
    <3>2. [key |-> PlanOf(First), status |-> v] \in ledger'
      BY <1>2, <1>3, <2>3, FinishKeeps, RootIsStory DEF ArchitectEnds, RunInv, Outcome
    <3> QED  BY <3>1, <3>2 DEF Resolved
  <2> QED  BY <2>1, <2>2, <2>3
<1>8. RunType'
  BY <1>1, <1>4, <1>6 DEF RunInv, RunType
<1>9. OpeningInv' /\ PlaceInv' /\ MemberInv'
  <2>1. CASE call'.at \in Resting
    BY <2>1, AtRest
  <2>2. CASE call'.at = "architect" \/ call'.at \in PlanInHand
    <3>1. OpeningInv'
      BY <2>2 DEF OpeningInv, Opening, PlanInHand
    <3>2. PlaceInv'
      BY <1>1, <1>2, <1>5, <1>7, <2>2 DEF PlaceInv, PlanInHand, PlanningAt, Advanced,
                                                 OrchestrationRecord, RunInv, RunType, MissionState
    <3>3. MemberInv'
      BY <2>2 DEF MemberInv, WithGroup, Forming, Checking, PlanInHand
    <3> QED  BY <3>1, <3>2, <3>3
  <2> QED  BY <1>6, <2>1, <2>2
<1> QED  BY <1>5, <1>8, <1>9 DEF RunInv

Stores == << mission, record, assignments, primary >>

Later == {"context", "verify", "policy", "certify", "tester", "review", "reviewer", "rejected"}

Driving == Forming \cup Checking \cup Later
              \cup {"authorize", "integrate", "progress", "observe", "integrated", "claim", "apply",
                    "apply_mission"}

LEMMA DriveIsLive ==
    ASSUME RunInv, call.at \in Driving
    PROVE  /\ Live /\ mission \in MissionState /\ record \in OrchestrationRecord
           /\ mission.generation = record.generation /\ record.planned
           /\ record # None /\ call \in Call
<1>1. call.at \notin Resting \cup Opening \cup PlanningAt \cup Advanced
  BY DEF Driving, Forming, Checking, Later, Resting, Opening, PlanningAt, PlanInHand, Advanced
<1>2. Live /\ record # None
  BY <1>1 DEF RunInv, PlaceInv, StoresInv, NamesInv
<1> QED  BY <1>1, <1>2 DEF RunInv, RunType, PlaceInv, Live, MissionState, OrchestrationRecord

(* A step of the drive writes none of the four stores.                     *)
LEMMA DriveStays ==
    ASSUME RunInv, UNCHANGED Stores, Keeps, ledger' \subseteq [key : Reference, status : Outcome],
           call.at \in Driving, call' \in Call, call'.at \in Driving \cup Resting, MemberInv'
    PROVE  RunInv'
<1>1. call'.at \notin Opening \cup PlanningAt \cup Advanced
  BY DEF Driving, Forming, Checking, Later, Resting, Opening, PlanningAt, PlanInHand, Advanced
<1>2. StoresInv' /\ Live' = Live
  BY StoresStay DEF RunInv, Stores
<1>3. RunType'
  BY DEF RunInv, RunType, Stores
<1>4. OpeningInv'
  BY <1>1 DEF OpeningInv, Opening
<1>5. PlaceInv'
  BY <1>1, <1>2, DriveIsLive DEF PlaceInv, Stores, PlanningAt, OrchestrationRecord, MissionState
<1> QED  BY <1>2, <1>3, <1>4, <1>5 DEF RunInv

LEMMA LaterGroup ==
    ASSUME call'.at \in Later => call'.group # {},
           call'.at \in Later \cup Resting \cup {"authorize", "integrate", "claim", "apply", "apply_mission"}
    PROVE  MemberInv'
  BY DEF MemberInv, Later, Resting, WithGroup, Forming, Checking

(* After the group is integrated.                                          *)
LEMMA LaterSteps ==
    ASSUME RunInv,
           \/ Authorize \/ AcceptIntegrated \/ Verify \/ EvaluatePolicy \/ LaunchTester
           \/ AcceptTester \/ RejectStory \/ LaunchReviewer \/ ClaimRemediation \/ ReplayStories
           \/ \E v \in {"READY", "REMEDIATE", "NEGATIVE", "FAILED"} : TesterEnds(v) \/ ReviewerEnds(v)
    PROVE  RunInv'
<1> DEFINE Steady == Later \cup {"authorize", "claim", "apply"}
           NextAt == Later \cup Resting \cup {"authorize", "integrate", "claim", "apply", "apply_mission"}
<1>1. UNCHANGED Stores /\ call.at \in Steady
  BY DEF Authorize, AcceptIntegrated, Verify, EvaluatePolicy, LaunchTester, AcceptTester, RejectStory,
         LaunchReviewer, ClaimRemediation, ReplayStories, TesterEnds, ReviewerEnds, At, Later, Stores,
         stateVars
<1>2. call.at \in Driving
  BY <1>1 DEF Driving
<1>3. call \in Call /\ mission \in MissionState
  BY <1>2, DriveIsLive
<1>4. call.at \in Later => call.group # {} /\ Lead \in UserStory
  BY <1>3, LeadIsStory DEF RunInv, MemberInv, WithGroup, Later
<1>5. Keeps /\ ledger' \subseteq [key : Reference, status : Outcome]
  <2>1. CASE LaunchTester \/ LaunchReviewer
    <3>1. Lead \in UserStory
      BY <1>4, <2>1 DEF LaunchTester, LaunchReviewer, At, Later
    <3> QED  BY <1>3, <2>1, <3>1, LaunchKeeps DEF LaunchTester, LaunchReviewer, RunInv, RunType, Keeps
  <2>2. ASSUME NEW v \in {"READY", "REMEDIATE", "NEGATIVE", "FAILED"}, TesterEnds(v) \/ ReviewerEnds(v)
        PROVE  Keeps /\ ledger' \subseteq [key : Reference, status : Outcome]
    <3>1. Lead \in UserStory
      BY <1>4, <2>2 DEF TesterEnds, ReviewerEnds, At, Later
    <3> QED  BY <1>3, <2>2, <3>1, FinishKeeps DEF TesterEnds, ReviewerEnds, RunInv, Outcome
  <2>3. CASE ledger' = ledger
    BY <2>3 DEF RunInv, RunType, Keeps
  <2> QED  BY <2>1, <2>2, <2>3
           DEF Authorize, AcceptIntegrated, Verify, EvaluatePolicy, AcceptTester, RejectStory,
               ClaimRemediation, ReplayStories, stateVars
<1>6. call' \in Call /\ call'.at \in NextAt /\ (call'.at \in Later => call'.group # {})
  <2>1. CASE Authorize \/ EvaluatePolicy
    <3>1. \/ call' = NoCall
          \/ \E t \in {"drive", "verify", "certify"} :
                \/ call' = [call EXCEPT !.at = "integrate", !.then = t]
                \/ call' = [call EXCEPT !.at = "authorize", !.then = t]
      BY <1>3, <2>1 DEF Authorize, EvaluatePolicy, Stop, Call
    <3>2. ASSUME NEW t \in {"drive", "verify", "certify"}, NEW l \in {"integrate", "authorize"},
                 call' = [call EXCEPT !.at = l, !.then = t]
          PROVE  call' \in Call /\ call'.at = l
      BY <1>3, <3>2 DEF Call, Label
    <3> QED  BY <3>1, <3>2, CallStops DEF Resting, Later
  <2>2. CASE AcceptIntegrated
    <3>1. \/ call' = NoCall \/ call' = call
          \/ \E l \in {"authorize", "verify", "certify"} : Goto(l)
      BY <1>3, <2>2 DEF AcceptIntegrated, Stop, Call
    <3> QED  BY <1>1, <1>3, <1>4, <2>2, <3>1, CallMoves, CallStops
             DEF Resting, Later, Label, AcceptIntegrated, At
  <2>3. CASE Verify
    <3>1. call' = NoCall \/ Goto("policy")
      BY <2>3 DEF Verify, Stop
    <3>2. call.at = "verify"
      BY <2>3 DEF Verify, At
    <3> QED  BY <1>3, <1>4, <3>1, <3>2, CallMoves, CallStops DEF Resting, Later, Label
  <2>4. CASE LaunchTester \/ AcceptTester
    <3>1. \/ call' = NoCall \/ \E l \in {"tester", "review", "rejected"} : Goto(l)
      BY <2>4 DEF LaunchTester, AcceptTester, Stop
    <3>2. call.at = "certify"
      BY <2>4 DEF LaunchTester, AcceptTester, At
    <3> QED  BY <1>3, <1>4, <3>1, <3>2, CallMoves, CallStops DEF Resting, Later, Label
  <2>5. CASE RejectStory \/ LaunchReviewer
    <3>1. \/ call' = NoCall \/ \E l \in {"claim", "reviewer"} : Goto(l)
      BY <2>5 DEF RejectStory, LaunchReviewer, Refused, Stop
    <3>2. call.at \in Later
      BY <2>5 DEF RejectStory, LaunchReviewer, At, Later
    <3> QED  BY <1>3, <1>4, <3>1, <3>2, CallMoves, CallStops DEF Resting, Later, Label
  <2>6. CASE ClaimRemediation \/ ReplayStories
    BY <1>3, <2>6, CallMoves DEF ClaimRemediation, ReplayStories, Label, Resting, Later
  <2>7. CASE \E v \in {"READY", "REMEDIATE", "NEGATIVE", "FAILED"} : TesterEnds(v) \/ ReviewerEnds(v)
    BY <1>3, <2>7, CallMoves, CallStops DEF TesterEnds, ReviewerEnds, Stop, Label, Resting, Later
  <2> QED  BY <2>1, <2>2, <2>3, <2>4, <2>5, <2>6, <2>7
<1>7. MemberInv' /\ call'.at \in Driving \cup Resting
  BY <1>6, LaterGroup DEF Driving
<1> QED  BY <1>1, <1>2, <1>5, <1>6, <1>7, DriveStays

LEMMA WorkMoves ==
    ASSUME call \in Call, NEW l \in {"assign", "progress"}, NEW G \in SUBSET UserStory, Work(l, G)
    PROVE  call' \in Call /\ call'.at = l /\ call'.group = G
  BY DEF Work, Call, Label

LEMMA ClaimedAreStories ==
    ASSUME RunType
    PROVE  /\ Claimed \subseteq UserStory /\ Claims \subseteq assignments
           /\ Claimed = {} <=> Claims = {}
  BY DEF RunType, Claimed, Claims

(* The group is planned, or it is the one whose assignments are claimed.   *)
LEMMA IntegrateStep ==
    ASSUME RunInv, Integrate
    PROVE  RunInv'
<1>1. call.at = "integrate" /\ UNCHANGED Stores /\ UNCHANGED ledger
  BY DEF Integrate, At, Stores, stateVars
<1>2. call.at \in Driving
  BY <1>1 DEF Driving
<1>3. /\ call \in Call /\ record \in OrchestrationRecord /\ record # None
      /\ Claimed' = Claimed /\ Claims' = Claims
  BY <1>1, <1>2, DriveIsLive DEF Stores, Claimed, Claims
<1>4. Claimed \subseteq UserStory /\ (Claimed = {} <=> Claims = {}) /\ Ready \subseteq UserStory
  BY ClaimedAreStories DEF RunInv, Ready
<1>5. /\ call' \in Call /\ call'.at \in Driving \cup Resting
      /\ MemberInv'
  <2>1. CASE Claims = {} /\ record.progress = None /\ PlansNow /\ Work("assign", Ready)
    <3>1. call' \in Call /\ call'.at = "assign" /\ call'.group = Ready /\ Ready # {}
      BY <1>3, <1>4, <2>1, WorkMoves DEF PlansNow
    <3>2. record' = record
      BY <1>1 DEF Stores
    <3> HIDE DEF Ready
    <3> QED  BY <1>3, <1>4, <2>1, <3>1, <3>2 DEF MemberInv, Driving, WithGroup, Forming, Checking
  <2>2. CASE ~(Claims = {} /\ record.progress = None) /\ Work("progress", Claimed)
    <3>1. call' \in Call /\ call'.at = "progress" /\ call'.group = Claimed
      BY <1>3, <1>4, <2>2, WorkMoves
    <3>2. Claims # {}
      BY <1>3, <2>2 DEF RunInv, StoresInv, WorkInv
    <3> QED  BY <1>3, <1>4, <3>1, <3>2 DEF MemberInv, Driving, WithGroup, Forming, Checking
  <2>3. CASE Stop
    BY <2>3, CallStops, AtRest DEF Stop
  <2> QED  BY <2>1, <2>2, <2>3 DEF Integrate
<1> QED  BY <1>1, <1>2, <1>5, DriveStays DEF RunInv, RunType, Keeps

(* Its worktrees are assigned and its stories started.                     *)
LEMMA StartStep ==
    ASSUME RunInv, NEW s \in UserStory, Start(s)
    PROVE  RunInv'
<1>1. /\ call.at = "start" /\ UNCHANGED Stores /\ UNCHANGED ledger
      /\ Goto("progress") \/ UNCHANGED call
  BY DEF Start, At, Stores
<1>2. call.at \in Driving
  BY <1>1 DEF Driving, Forming
<1>3. /\ call \in Call /\ Claimed' = Claimed /\ Claims' = Claims /\ record' = record
  BY <1>1, <1>2, DriveIsLive DEF Stores, Claimed, Claims
<1>4. call' \in Call /\ call'.at \in {"start", "progress"} /\ call'.group = call.group
  BY <1>1, <1>3, CallMoves DEF Label
<1>5. MemberInv'
  BY <1>1, <1>3, <1>4 DEF RunInv, MemberInv, WithGroup, Forming, Checking
<1> QED  BY <1>1, <1>2, <1>4, <1>5, DriveStays DEF RunInv, RunType, Keeps, Driving, Forming

LEMMA AssignStep ==
    ASSUME RunInv, NEW s \in UserStory, Assign(s)
    PROVE  RunInv'
<1>1. /\ call.at = "assign" /\ s \in call.group /\ UNCHANGED << mission, record, ledger, primary >>
      /\ Goto("start") \/ UNCHANGED call
      /\ call' # call => \A t \in call.group : Assignment(t, "ACTIVE") \in assignments'
  BY DEF Assign, At, Goto
<1>2. call.at \in Driving
  BY <1>1 DEF Driving, Forming
<1>3. /\ call \in Call /\ record \in OrchestrationRecord /\ record # None /\ Live
      /\ mission.generation = record.generation /\ record.planned
  BY <1>2, DriveIsLive
<1>4. /\ record.progress = None /\ ~Gated /\ Claimed \subseteq call.group /\ call.group # {}
  BY <1>1 DEF RunInv, MemberInv, Forming, WithGroup, Gated
<1>5. call' \in Call /\ call'.at \in {"assign", "start"} /\ call'.group = call.group
      /\ (call'.at = "start" => call' # call)
  BY <1>1, <1>3, CallMoves DEF Label
<1>6. assignments' \subseteq assignments \cup {Assignment(s, v) : v \in {"PLANNED", "ACTIVE"}}
  BY DEF Assign
<1>7. RunType'
  <2>1. \A v \in {"PLANNED", "ACTIVE"} : Assignment(s, v) \in
          [id : Request \X Nat, story : UserStory, generation : Nat, baseline : Nat,
           status : {"PLANNED", "ACTIVE", "COMPLETED"}]
    BY <1>3 DEF Assignment, OrchestrationRecord
  <2> QED  BY <1>1, <1>5, <1>6, <2>1 DEF RunInv, RunType
<1>8. Claimed' \subseteq call'.group
  BY <1>1, <1>4, <1>5, <1>6 DEF Claimed, Claims, Assignment
<1>9. call'.at = "start" => Claims' # {}
  <2>1. SUFFICES ASSUME NEW t \in call.group, Assignment(t, "ACTIVE") \in assignments'
                 PROVE  Claims' # {}
    BY <1>1, <1>4, <1>5
  <2>2. Assignment(t, "ACTIVE") \in Claims'
    BY <1>1, <2>1 DEF Claims, Assignment
  <2> QED  BY <2>2
<1>10. StoresInv'
  <2>1. Live' = Live /\ ~Gated' /\ \A k : Resolved(k) => Resolved(k)'
    BY <1>1, <1>4 DEF Live, Gated, Resolved
  <2>2. NamesInv'
    BY <1>1, <2>1 DEF RunInv, StoresInv, NamesInv
  <2>3. GenerationsInv'
    BY <1>1, <2>1 DEF RunInv, StoresInv, GenerationsInv
  <2>4. WorkInv'
    BY <1>1, <1>4, <2>1 DEF RunInv, StoresInv, WorkInv
  <2>5. PrimaryInv'
    BY <1>1, <1>4, <2>1 DEF RunInv, StoresInv, PrimaryInv
  <2> QED  BY <2>2, <2>3, <2>4, <2>5 DEF StoresInv
<1>11. OpeningInv'
  BY <1>5 DEF OpeningInv, Opening
<1>12. PlaceInv'
  BY <1>1, <1>3, <1>5 DEF PlaceInv, Live, PlanningAt, PlanInHand, Advanced, OrchestrationRecord
<1>13. MemberInv'
  BY <1>1, <1>4, <1>5, <1>8, <1>9 DEF MemberInv, WithGroup, Forming, Checking
<1> QED  BY <1>7, <1>10, <1>11, <1>12, <1>13 DEF RunInv

(* A member that has answered READY has delivered.                         *)
LEMMA AnsweredIsReady ==
    ASSUME RunInv, call.at \in Driving, NEW s \in UserStory, Answered("IMPLEMENTER", s, "READY")
    PROVE  [key |-> WorkOn(s), status |-> "READY"] \in ledger
<1>1. Key("IMPLEMENTER", s) = WorkOn(s)
  BY DriveIsLive DEF Key, WorkOn
<1>2. PICK e \in ledger : e.key = Key("IMPLEMENTER", s) /\ e.status = "READY"
  BY DEF Answered, StatusOf
<1>3. e = [key |-> e.key, status |-> e.status]
  BY <1>2 DEF RunInv, RunType
<1> QED  BY <1>1, <1>2, <1>3

LEMMA MemberSteps ==
    ASSUME RunInv,
           \/ Members \/ GroupEnds
           \/ \E s \in UserStory : \/ LaunchMember(s)
                                  \/ \E v \in {"READY", "NEGATIVE", "FAILED"} : MemberEnds(s, v)
    PROVE  RunInv'
<1>1. call.at \in {"members", "implement"} /\ UNCHANGED Stores
  BY DEF Members, GroupEnds, LaunchMember, MemberEnds, At, Stores, stateVars
<1>2. call.at \in Driving
  BY <1>1 DEF Driving, Checking
<1>3. /\ call \in Call /\ mission \in MissionState /\ record' = record
      /\ Claimed' = Claimed /\ Claims' = Claims
  BY <1>1, <1>2, DriveIsLive DEF Stores, Claimed, Claims
<1>4. Keeps /\ ledger' \subseteq [key : Reference, status : Outcome]
  <2>1. ASSUME NEW s \in UserStory, LaunchMember(s)
        PROVE  Keeps /\ ledger' \subseteq [key : Reference, status : Outcome]
    BY <1>3, <2>1, LaunchKeeps DEF LaunchMember, RunInv
  <2>2. ASSUME NEW s \in UserStory, NEW v \in {"READY", "NEGATIVE", "FAILED"}, MemberEnds(s, v)
        PROVE  Keeps /\ ledger' \subseteq [key : Reference, status : Outcome]
    BY <1>3, <2>2, FinishKeeps DEF MemberEnds, RunInv, Outcome
  <2>3. CASE ledger' = ledger
    BY <2>3 DEF RunInv, RunType, Keeps
  <2> QED  BY <2>1, <2>2, <2>3 DEF Members, GroupEnds, stateVars
<1>5. call' = call \/ call' = NoCall \/ Goto("implement") \/ Goto("submit")
  BY DEF Members, GroupEnds, LaunchMember, MemberEnds, Stop
<1>6. call.group # {} /\ record.progress # None /\ Claimed \subseteq call.group
  BY <1>1 DEF RunInv, MemberInv, WithGroup, Checking
<1>7. call' \in Call /\ call'.at \in Driving \cup Resting /\ MemberInv'
  <2>1. CASE call' = NoCall
    BY <2>1, CallStops, AtRest
  <2>2. CASE call' = call \/ Goto("implement")
    <3>1. call' \in Call /\ call'.at \in {"members", "implement"} /\ call'.group = call.group
      BY <1>1, <1>3, <2>2, CallMoves DEF Label
    <3> QED  BY <1>3, <1>6, <3>1 DEF MemberInv, WithGroup, Forming, Checking, Driving
  <2>3. CASE Goto("submit")
    <3>1. call' \in Call /\ call'.at = "submit" /\ call'.group = call.group
      BY <1>3, <2>3, CallMoves DEF Label
    <3> QED  BY <1>3, <1>6, <3>1 DEF MemberInv, WithGroup, Forming, Checking, Driving
  <2> QED  BY <1>5, <2>1, <2>2, <2>3
<1> QED  BY <1>1, <1>2, <1>4, <1>7, DriveStays

LEMMA SubmitStep ==
    ASSUME RunInv, Submit
    PROVE  RunInv'
<1>1. call.at = "submit" /\ UNCHANGED << mission, record, ledger, primary >>
  BY DEF Submit, At
<1>2. call.at \in Driving
  BY <1>1 DEF Driving, Checking
<1>3. /\ call \in Call /\ record \in OrchestrationRecord /\ record # None /\ Live
      /\ mission.generation = record.generation /\ record.planned
  BY <1>2, DriveIsLive
<1>4. /\ record.progress # None /\ Claimed \subseteq call.group /\ call.group # {}
  BY <1>1 DEF RunInv, MemberInv, Checking, WithGroup
<1>5. CASE /\ Goto("refs") /\ UNCHANGED assignments
           /\ \A a \in Claims : a.status = "COMPLETED"
           /\ \A s \in call.group : Answered("IMPLEMENTER", s, "READY")
  <2>1. call' \in Call /\ call'.at = "refs" /\ call'.group = call.group
    BY <1>3, <1>5, CallMoves DEF Label
  <2>2. Claims' = Claims /\ Claimed' = Claimed
    BY <1>1, <1>5 DEF Claims, Claimed
  <2>3. ReadyWork'
    <3>1. \A s \in call.group : s \in UserStory
      BY <1>3 DEF Call
    <3>2. ReadyWork
      BY <1>2, <1>5, <3>1, AnsweredIsReady DEF ReadyWork
    <3> QED  BY <1>1, <2>1, <3>2 DEF ReadyWork, WorkOn
  <2>4. MemberInv'
    BY <1>1, <1>4, <1>5, <2>1, <2>2, <2>3 DEF MemberInv, WithGroup, Forming, Checking
  <2> QED  BY <1>1, <1>2, <1>5, <2>1, <2>4, DriveStays DEF Stores, RunInv, RunType, Keeps, Driving, Checking
<1>6. ASSUME NEW a \in Claims, UNCHANGED call,
             assignments' = (assignments \ {a}) \cup {[a EXCEPT !.status = "COMPLETED"]}
      PROVE  RunInv'
  <2> DEFINE b == [a EXCEPT !.status = "COMPLETED"]
  <2>1. /\ a \in assignments /\ b.status = "COMPLETED" /\ b.story = a.story /\ b.id = a.id
        /\ b.generation = a.generation /\ b.baseline = a.baseline
        /\ b \in [id : Request \X Nat, story : UserStory, generation : Nat, baseline : Nat,
                  status : {"PLANNED", "ACTIVE", "COMPLETED"}]
    BY DEF Claims, RunInv, RunType
  <2> HIDE DEF b
  <2>2. Claims' = (Claims \ {a}) \cup {b}
    BY <1>1, <1>6, <2>1 DEF Claims, b
  <2>3. Claimed' = Claimed
    BY <2>1, <2>2 DEF Claimed
  <2>4. RunType'
    BY <1>1, <1>6, <2>1 DEF RunInv, RunType, b
  <2>5. Live' = Live /\ Gated' = Gated /\ \A k : Resolved(k) => Resolved(k)'
    BY <1>1 DEF Live, Gated, Resolved
  <2>6. NamesInv' /\ GenerationsInv'
    BY <1>1, <2>5 DEF RunInv, StoresInv, NamesInv, GenerationsInv
  <2>7. WorkInv'
    BY <1>1, <2>1, <2>2, <2>5 DEF RunInv, StoresInv, WorkInv, WorkOn
  <2>8. PrimaryInv'
    BY <1>1, <2>5 DEF RunInv, StoresInv, PrimaryInv
  <2>9. OpeningInv'
    BY <1>1, <1>6 DEF OpeningInv, Opening
  <2>10. PlaceInv'
    BY <1>1, <1>3, <1>6, <2>5 DEF PlaceInv, PlanningAt, PlanInHand, Advanced, OrchestrationRecord
  <2>11. MemberInv'
    BY <1>1, <1>4, <1>6, <2>3 DEF MemberInv, WithGroup, Forming, Checking
  <2> QED  BY <2>4, <2>6, <2>7, <2>8, <2>9, <2>10, <2>11 DEF RunInv, StoresInv
<1>7. CASE Stop /\ UNCHANGED assignments
  BY <1>1, <1>2, <1>7, CallStops, AtRest, DriveStays DEF Stop, Stores, RunInv, RunType, Keeps
<1> QED
  <2>1. call.group = {s \in call.group : Answered("IMPLEMENTER", s, "READY")}
          => \A s \in call.group : Answered("IMPLEMENTER", s, "READY")
    OBVIOUS
  <2> QED  BY <1>5, <1>6, <1>7, <2>1 DEF Submit

(* The record learns about its group; it keeps its name and its place.     *)
LEMMA RecordMoves ==
    ASSUME RunInv, UNCHANGED << mission, ledger, assignments, primary >>, call.at \in Driving,
           record' \in OrchestrationRecord, record'.id = record.id,
           record'.generation = record.generation, record'.baseline = record.baseline,
           record'.planned = record.planned, call' \in Call, call'.at \in Driving \cup Resting,
           WorkInv', Gated => Gated', MemberInv'
    PROVE  RunInv'
<1>1. call'.at \notin Opening \cup PlanningAt \cup Advanced
  BY DEF Driving, Forming, Checking, Later, Resting, Opening, PlanningAt, PlanInHand, Advanced
<1>2. /\ Live /\ Live' /\ record # None /\ record' # None /\ record \in OrchestrationRecord
      /\ mission.generation = record.generation /\ record.planned
  <2>1. record' # None
    BY RunAssumption
  <2> QED  BY <2>1, DriveIsLive DEF Live
<1>3. RunType'
  BY DEF RunInv, RunType
<1>4. NamesInv'
  BY <1>2 DEF RunInv, StoresInv, NamesInv
<1>5. GenerationsInv'
  <2>1. Resolved(PlanOf(First))' = Resolved(PlanOf(First))
    BY DEF Resolved
  <2> QED  BY <1>2, <2>1 DEF RunInv, StoresInv, GenerationsInv
<1>6. PrimaryInv'
  BY <1>2 DEF RunInv, StoresInv, PrimaryInv
<1>7. OpeningInv'
  BY <1>1 DEF OpeningInv, Opening
<1>8. PlaceInv'
  BY <1>1, <1>2 DEF PlaceInv, PlanningAt, OrchestrationRecord
<1> QED  BY <1>3, <1>4, <1>5, <1>6, <1>7, <1>8 DEF RunInv, StoresInv

LEMMA ClaimsStay ==
    ASSUME UNCHANGED assignments, record'.id = record.id, record'.generation = record.generation,
           record'.baseline = record.baseline
    PROVE  Claims' = Claims /\ Claimed' = Claimed /\ \A s : WorkOn(s)' = WorkOn(s)
  BY DEF Claims, Claimed, WorkOn

LEMMA RecordProgressStep ==
    ASSUME RunInv, RecordProgress
    PROVE  RunInv'
<1>1. /\ call.at = "progress" /\ UNCHANGED << mission, ledger, assignments, primary >>
      /\ Goto("members")
  BY DEF RecordProgress, At
<1>2. call.at \in Driving
  BY <1>1 DEF Driving
<1>3. call \in Call /\ record \in OrchestrationRecord /\ record # None
  BY <1>2, DriveIsLive
<1>4. /\ record' \in OrchestrationRecord /\ record'.id = record.id
      /\ record'.generation = record.generation /\ record'.baseline = record.baseline
      /\ record'.planned = record.planned /\ record'.refs = record.refs
      /\ \/ record.progress # None /\ record'.progress = record.progress
         \/ /\ record.progress = None /\ record'.progress \in Progress
            /\ ~record'.progress.gate
  <2> DEFINE p == [gate |-> FALSE, integrated |-> FALSE]
  <2>1. p \in Progress /\ ~p.gate
    BY DEF Progress
  <2>2. record' = [record EXCEPT !.progress = IF @ = None THEN p ELSE @]
    BY DEF RecordProgress
  <2> HIDE DEF p
  <2> QED  BY <1>3, <2>1, <2>2 DEF OrchestrationRecord
<1>5. /\ Claims' = Claims /\ Claimed' = Claimed /\ Claims # {} /\ Claimed \subseteq call.group
      /\ call.group # {} /\ record'.progress # None
      /\ \A s : WorkOn(s)' = WorkOn(s)
  BY <1>1, <1>4, ClaimsStay, RunAssumption DEF RunInv, MemberInv, WithGroup
<1>6. WorkInv' /\ (Gated => Gated')
  BY <1>1, <1>3, <1>4, <1>5 DEF RunInv, StoresInv, WorkInv, Gated, Resolved
<1>7. call' \in Call /\ call'.at = "members" /\ call'.group = call.group
  BY <1>1, <1>3, CallMoves DEF Label
<1>8. MemberInv'
  BY <1>5, <1>7 DEF MemberInv, Forming, Checking
<1>9. call'.at \in Driving
  BY <1>7 DEF Driving, Checking
<1> QED  BY <1>1, <1>2, <1>4, <1>6, <1>7, <1>8, <1>9, RecordMoves

(* What the record refers to has a result in its ledger.                   *)
LEMMA RefsMove ==
    ASSUME RunInv, UNCHANGED << mission, ledger, assignments, primary >>, call.at \in Driving,
           NEW K \in SUBSET Reference, \A k \in K : Resolved(k),
           record' = [record EXCEPT !.refs = @ \cup K]
    PROVE  /\ record' \in OrchestrationRecord /\ record'.id = record.id
           /\ record'.generation = record.generation /\ record'.baseline = record.baseline
           /\ record'.planned = record.planned /\ record'.refs = record.refs \cup K
           /\ record'.progress = record.progress /\ Gated' = Gated
           /\ WorkInv' /\ Claims' = Claims /\ Claimed' = Claimed
           /\ \A s : WorkOn(s)' = WorkOn(s)
<1>1. record \in OrchestrationRecord /\ record # None
  BY DriveIsLive
<1>2. /\ record' \in OrchestrationRecord /\ record'.id = record.id
      /\ record'.generation = record.generation /\ record'.baseline = record.baseline
      /\ record'.planned = record.planned /\ record'.refs = record.refs \cup K
      /\ record'.progress = record.progress
  BY <1>1 DEF OrchestrationRecord
<1>3. Claims' = Claims /\ Claimed' = Claimed /\ \A s : WorkOn(s)' = WorkOn(s)
  BY <1>2, ClaimsStay
<1>4. Gated' = Gated /\ \A k : Resolved(k)' = Resolved(k)
  BY <1>2 DEF Gated, Resolved
<1>5. WorkInv'
  BY <1>1, <1>2, <1>3, <1>4 DEF RunInv, StoresInv, WorkInv
<1> QED  BY <1>2, <1>3, <1>4, <1>5

LEMMA ReferenceMembersStep ==
    ASSUME RunInv, ReferenceMembers
    PROVE  RunInv'
<1> DEFINE K == {Key("IMPLEMENTER", s) : s \in call.group}
<1>1. /\ call.at = "refs" /\ UNCHANGED << mission, ledger, assignments, primary >>
      /\ Goto("gate") /\ record' = [record EXCEPT !.refs = @ \cup K]
  BY DEF ReferenceMembers, At
<1>2. call.at \in Driving
  BY <1>1 DEF Driving, Checking
<1>3. /\ call \in Call /\ record \in OrchestrationRecord /\ record # None
      /\ mission \in MissionState /\ mission.generation = record.generation
  BY <1>2, DriveIsLive
<1>4. /\ call.group # {} /\ record.progress # None /\ Claimed \subseteq call.group /\ ReadyWork
      /\ \A a \in Claims : a.status = "COMPLETED"
  BY <1>1 DEF RunInv, MemberInv, WithGroup, Checking
<1>5. \A s \in call.group : Key("IMPLEMENTER", s) = WorkOn(s) /\ WorkOn(s) \in Reference
  BY <1>3, KeyIsReference DEF Key, WorkOn, Call
<1>6. K \in SUBSET Reference /\ \A k \in K : Resolved(k)
  BY <1>4, <1>5 DEF ReadyWork, Resolved
<1>7. \A a \in Claims : WorkOn(a.story) \in K
  BY <1>4, <1>5 DEF Claimed
<1> HIDE DEF K
<1>8. /\ record' \in OrchestrationRecord /\ record'.id = record.id
      /\ record'.generation = record.generation /\ record'.baseline = record.baseline
      /\ record'.planned = record.planned /\ record'.refs = record.refs \cup K
      /\ record'.progress = record.progress /\ Gated' = Gated
      /\ WorkInv' /\ Claims' = Claims /\ Claimed' = Claimed
      /\ \A s : WorkOn(s)' = WorkOn(s)
  BY <1>1, <1>2, <1>6, RefsMove
<1>9. call' \in Call /\ call'.at = "gate" /\ call'.group = call.group
  BY <1>1, <1>3, CallMoves DEF Label
<1>10. MemberInv'
  BY <1>4, <1>7, <1>8, <1>9 DEF MemberInv, Forming, Checking
<1>11. call'.at \in Driving
  BY <1>9 DEF Driving, Checking
<1> QED  BY <1>1, <1>2, <1>8, <1>9, <1>10, <1>11, RecordMoves

LEMMA ReferenceTesterStep ==
    ASSUME RunInv, ReferenceTester
    PROVE  RunInv'
<1> DEFINE K == {Key("TESTER", Lead)}
<1>1. /\ call.at = "certify" /\ UNCHANGED << mission, ledger, assignments, primary, call >>
      /\ record' = [record EXCEPT !.refs = @ \cup K] /\ Validated("TESTER", Lead)
  BY DEF ReferenceTester, At
<1>2. call.at \in Driving
  BY <1>1 DEF Driving, Later
<1>3. call \in Call /\ mission \in MissionState
  BY <1>2, DriveIsLive
<1>4. call.group # {}
  BY <1>1 DEF RunInv, MemberInv, WithGroup
<1>5. K \in SUBSET Reference
  BY <1>3, <1>4, LeadIsStory, KeyIsReference
<1>6. \A k \in K : Resolved(k)
  BY <1>1 DEF Validated, StatusOf, Resolved
<1> HIDE DEF K
<1>7. /\ record' \in OrchestrationRecord /\ record'.id = record.id
      /\ record'.generation = record.generation /\ record'.baseline = record.baseline
      /\ record'.planned = record.planned /\ Gated' = Gated /\ WorkInv'
  BY <1>1, <1>2, <1>5, <1>6, RefsMove
<1>8. MemberInv'
  BY <1>1, <1>4, LaterGroup DEF Later
<1> QED  BY <1>1, <1>2, <1>3, <1>7, <1>8, RecordMoves

(* Gate, merge, and what is remembered of them.                            *)
LEMMA GateStep ==
    ASSUME RunInv, Gate
    PROVE  RunInv'
<1>1. call.at = "gate" /\ UNCHANGED << mission, ledger, assignments, primary >>
  BY DEF Gate, At
<1>2. call.at \in Driving
  BY <1>1 DEF Driving, Checking
<1>3. call \in Call /\ record \in OrchestrationRecord /\ record # None
  BY <1>2, DriveIsLive
<1>4. /\ call.group # {} /\ record.progress # None /\ Claimed \subseteq call.group
      /\ \A a \in Claims : a.status = "COMPLETED" /\ WorkOn(a.story) \in record.refs
  BY <1>1 DEF RunInv, MemberInv, WithGroup, Checking
<1>5. CASE Goto("merge") /\ record' = [record EXCEPT !.progress.gate = TRUE]
  <2>1. record.progress \in Progress
    BY <1>3, <1>4 DEF OrchestrationRecord
  <2>2. [record.progress EXCEPT !.gate = TRUE] \in Progress
    BY <2>1 DEF Progress
  <2>3. /\ record' \in OrchestrationRecord /\ record'.id = record.id
        /\ record'.generation = record.generation /\ record'.baseline = record.baseline
        /\ record'.planned = record.planned /\ record'.refs = record.refs
        /\ record'.progress \in Progress /\ record'.progress.gate
    <3> DEFINE p == [record.progress EXCEPT !.gate = TRUE]
    <3>1. record' = [record EXCEPT !.progress = p]
      BY <1>5
    <3>2. p \in Progress /\ p.gate
      BY <2>1, <2>2 DEF Progress
    <3> HIDE DEF p
    <3> QED  BY <1>3, <3>1, <3>2 DEF OrchestrationRecord
  <2>4. Claims' = Claims /\ Claimed' = Claimed /\ \A s : WorkOn(s)' = WorkOn(s)
    BY <1>1, <2>3, ClaimsStay
  <2>5. record'.progress # None /\ Gated'
    BY <2>3, RunAssumption DEF Gated
  <2>6. WorkInv'
    BY <1>1, <1>3, <1>4, <2>3, <2>4 DEF RunInv, StoresInv, WorkInv, Resolved
  <2>7. call' \in Call /\ call'.at = "merge" /\ call'.group = call.group
    BY <1>3, <1>5, CallMoves DEF Label
  <2>8. MemberInv'
    BY <1>4, <2>3, <2>4, <2>5, <2>7 DEF MemberInv, Forming, Checking
  <2>9. call'.at \in Driving
    BY <2>7 DEF Driving, Checking
  <2> QED  BY <1>1, <1>2, <2>3, <2>5, <2>6, <2>7, <2>8, <2>9, RecordMoves
<1>6. CASE record' = record /\ (call' = NoCall \/ \E l \in {"claim", "observe"} : Goto(l))
  <2>1. call' \in Call
            /\ (call'.at \in Resting
                \/ (call'.at \in {"claim", "observe"} /\ call'.group = call.group))
    <3>1. ASSUME NEW l \in {"claim", "observe"}, Goto(l)
          PROVE  call' \in Call /\ call'.at = l /\ call'.group = call.group
      BY <1>3, <3>1, CallMoves DEF Label
    <3>2. CASE call' = NoCall
      BY <3>2, CallStops
    <3> QED  BY <1>6, <3>1, <3>2
  <2>2. MemberInv'
    <3>1. CASE call'.at \in Resting
      BY <3>1, AtRest
    <3>2. CASE call'.at \in {"claim", "observe"} /\ call'.group = call.group
      BY <1>1, <1>4, <1>6, <3>2 DEF MemberInv, WithGroup, Forming, Checking, Claimed, Claims
    <3> QED  BY <2>1, <3>1, <3>2
  <2> QED  BY <1>1, <1>2, <1>6, <2>1, <2>2, DriveStays DEF Stores, RunInv, RunType, Keeps, Driving
<1> QED  BY <1>5, <1>6 DEF Gate, Refused, Stop

LEMMA MergeStep ==
    ASSUME RunInv, Merge
    PROVE  RunInv'
<1>1. call.at = "merge" /\ UNCHANGED << mission, record, ledger, assignments >>
  BY DEF Merge, At
<1>2. call.at \in Driving
  BY <1>1 DEF Driving, Checking
<1>3. /\ call \in Call /\ record \in OrchestrationRecord /\ record # None /\ Live
      /\ mission.generation = record.generation /\ record.planned
  BY <1>2, DriveIsLive
<1>4. call.group # {} /\ record.progress # None /\ Gated
  BY <1>1 DEF RunInv, MemberInv, WithGroup, Checking, Gated
<1>5. CASE primary' = Append(primary, record.generation) /\ Goto("observe")
  <2>1. record.generation \in Nat /\ primary \in Seq(Nat \cup {None})
    BY <1>3 DEF RunInv, RunType, OrchestrationRecord
  <2>2. call' \in Call /\ call'.at = "observe" /\ call'.group = call.group
    BY <1>3, <1>5, CallMoves DEF Label
  <2>3. RunType'
    BY <1>1, <1>5, <2>1, <2>2 DEF RunInv, RunType
  <2>4. Live' = Live /\ Gated' = Gated /\ Claims' = Claims /\ \A k : Resolved(k)' = Resolved(k)
    BY <1>1 DEF Live, Gated, Claims, Resolved
  <2>5. NamesInv' /\ GenerationsInv'
    BY <1>1, <2>4 DEF RunInv, StoresInv, NamesInv, GenerationsInv
  <2>6. WorkInv'
    BY <1>1, <2>4 DEF RunInv, StoresInv, WorkInv, WorkOn
  <2>7. PrimaryInv'
    BY <1>1, <1>3, <1>4, <1>5, <2>1, <2>4 DEF RunInv, StoresInv, PrimaryInv
  <2>8. OpeningInv' /\ MemberInv'
    BY <1>1, <1>4, <2>2 DEF OpeningInv, Opening, MemberInv, WithGroup, Forming, Checking
  <2>9. PlaceInv'
    BY <1>1, <1>3, <2>2, <2>4 DEF PlaceInv, PlanningAt, PlanInHand, Advanced, OrchestrationRecord
  <2> QED  BY <2>3, <2>5, <2>6, <2>7, <2>8, <2>9 DEF RunInv, StoresInv
<1>6. CASE UNCHANGED primary /\ (call' = NoCall \/ Goto("claim"))
  <2>1. call' \in Call /\ (call'.at \in Resting \/ call'.at = "claim")
    BY <1>3, <1>6, CallMoves, CallStops DEF Label
  <2>2. MemberInv'
    BY <2>1, LaterGroup DEF Later, Resting
  <2> QED  BY <1>1, <1>2, <1>6, <2>1, <2>2, DriveStays DEF Stores, RunInv, RunType, Keeps, Driving
<1> QED  BY <1>5, <1>6 DEF Merge, Refused, Stop

LEMMA RecordIntegratedStep ==
    ASSUME RunInv, RecordIntegrated
    PROVE  RunInv'
<1>1. /\ call.at = "integrated" /\ UNCHANGED << mission, ledger, assignments, primary >>
      /\ Goto("context") /\ record' = [record EXCEPT !.progress.integrated = TRUE]
  BY DEF RecordIntegrated, At
<1>2. call.at \in Driving
  BY <1>1 DEF Driving
<1>3. call \in Call /\ record \in OrchestrationRecord /\ record # None
  BY <1>2, DriveIsLive
<1>4. call.group # {} /\ record.progress \in Progress /\ record.progress # None
  BY <1>1, <1>3 DEF RunInv, MemberInv, WithGroup, OrchestrationRecord
<1>5. /\ record' \in OrchestrationRecord /\ record'.id = record.id
      /\ record'.generation = record.generation /\ record'.baseline = record.baseline
      /\ record'.planned = record.planned /\ record'.refs = record.refs
      /\ record'.progress \in Progress /\ record'.progress.gate = record.progress.gate
  <2> DEFINE p == [record.progress EXCEPT !.integrated = TRUE]
  <2>1. record' = [record EXCEPT !.progress = p]
    BY <1>1
  <2>2. p \in Progress /\ p.gate = record.progress.gate
    BY <1>4 DEF Progress
  <2> HIDE DEF p
  <2> QED  BY <1>3, <2>1, <2>2 DEF OrchestrationRecord
<1>6. Claims' = Claims /\ \A s : WorkOn(s)' = WorkOn(s)
  BY <1>1, <1>5, ClaimsStay
<1>7. record'.progress # None /\ Gated' = Gated
  BY <1>4, <1>5, RunAssumption DEF Gated
<1>8. WorkInv'
  BY <1>1, <1>3, <1>4, <1>5, <1>6, <1>7 DEF RunInv, StoresInv, WorkInv, Resolved
<1>9. call' \in Call /\ call'.at = "context" /\ call'.group = call.group
  BY <1>1, <1>3, CallMoves DEF Label
<1>10. MemberInv' /\ call'.at \in Driving
  BY <1>4, <1>9, LaterGroup DEF Later, Driving
<1> QED  BY <1>1, <1>2, <1>5, <1>7, <1>8, <1>9, <1>10, RecordMoves

(* Planning writes the mission; the mission goes on under its name.        *)
LEMMA MissionMoves ==
    ASSUME RunInv, UNCHANGED << record, ledger, assignments, primary >>, Live,
           mission' \in MissionState, mission'.id = mission.id, mission'.status # "TERMINAL",
           mission'.generation = mission.generation,
           mission'.step = "ACT" => mission.step = "ACT" \/ Resolved(PlanOf(First)),
           call' \in Call
    PROVE  RunType' /\ StoresInv' /\ Live' /\ Gated' = Gated
           /\ Claims' = Claims /\ \A k : Resolved(k)' = Resolved(k)
<1>1. mission' # None /\ Live'
  BY RunAssumption DEF Live
<1>2. Gated' = Gated /\ Claims' = Claims /\ \A k : Resolved(k)' = Resolved(k)
  BY DEF Gated, Claims, Resolved
<1>3. RunType'
  BY DEF RunInv, RunType
<1>4. NamesInv'
  BY <1>1 DEF RunInv, StoresInv, NamesInv
<1>5. GenerationsInv'
  BY <1>1, <1>2 DEF RunInv, StoresInv, GenerationsInv
<1>6. WorkInv'
  BY <1>2 DEF RunInv, StoresInv, WorkInv, WorkOn
<1>7. PrimaryInv'
  BY <1>1, <1>2 DEF RunInv, StoresInv, PrimaryInv
<1> QED  BY <1>1, <1>2, <1>3, <1>4, <1>5, <1>6, <1>7 DEF StoresInv

LEMMA PlannedIsLive ==
    ASSUME RunInv, call.at \in PlanningAt
    PROVE  /\ Live /\ mission \in MissionState /\ record \in OrchestrationRecord
           /\ mission.generation = 0 /\ record.generation = 0 /\ ~record.planned
           /\ record # None /\ call \in Call
<1>1. call.at \notin Resting \cup Opening \cup Advanced
  BY DEF PlanningAt, PlanInHand, Resting, Opening, Advanced
<1>2. Live /\ record # None /\ record.planned # TRUE
  BY <1>1 DEF RunInv, PlaceInv, StoresInv, NamesInv
<1>3. mission \in MissionState /\ record \in OrchestrationRecord
  BY <1>2 DEF RunInv, RunType, Live
<1> QED  BY <1>1, <1>2, <1>3
         DEF RunInv, RunType, PlaceInv, StoresInv, GenerationsInv, MissionState, OrchestrationRecord

LEMMA PlanMissionSteps ==
    ASSUME RunInv, AcceptPlan \/ LeavePlanning \/ WaitForHuman
    PROVE  RunInv'
<1>1. call.at \in PlanInHand /\ UNCHANGED << record, ledger, assignments, primary >>
  BY DEF AcceptPlan, LeavePlanning, WaitForHuman, At, PlanInHand
<1>2. /\ Live /\ mission \in MissionState /\ mission.generation = record.generation
      /\ record \in OrchestrationRecord /\ ~record.planned /\ call \in Call
  BY <1>1, PlannedIsLive DEF PlanningAt
<1>3. Resolved(PlanOf(First))
  BY <1>1 DEF RunInv, PlaceInv, PlanInHand, Resting, Opening
<1>4. /\ mission' \in MissionState /\ mission'.id = mission.id /\ mission'.status # "TERMINAL"
      /\ mission'.generation = mission.generation
  BY <1>2 DEF AcceptPlan, LeavePlanning, WaitForHuman, MissionState, Live
<1>5. \/ call' = NoCall \/ \E l \in {"proposed", "escalate", "reference"} : Goto(l)
  BY DEF AcceptPlan, LeavePlanning, WaitForHuman, Stop
<1>6. call' \in Call /\ (call'.at \in Resting \/ call'.at \in {"proposed", "escalate", "reference"})
  BY <1>2, <1>5, CallMoves, CallStops DEF Label
<1>7. RunType' /\ StoresInv' /\ Live' /\ Resolved(PlanOf(First))'
  BY <1>1, <1>2, <1>3, <1>4, <1>6, MissionMoves
<1>8. OpeningInv' /\ PlaceInv' /\ MemberInv'
  <2>1. CASE call'.at \in Resting
    BY <2>1, AtRest
  <2>2. CASE call'.at \in {"proposed", "escalate", "reference"}
    <3>1. OpeningInv' /\ MemberInv'
      BY <2>2 DEF OpeningInv, Opening, MemberInv, WithGroup, Forming, Checking
    <3>2. PlaceInv'
      BY <1>1, <1>2, <1>4, <1>7, <2>2 DEF PlaceInv, PlanInHand, PlanningAt, Advanced, OrchestrationRecord
    <3> QED  BY <3>1, <3>2
  <2> QED  BY <1>6, <2>1, <2>2
<1> QED  BY <1>7, <1>8 DEF RunInv

(* The primary is observed as it is after the merge.                       *)
LEMMA ObserveStep ==
    ASSUME RunInv, Observe
    PROVE  RunInv'
<1>1. /\ call.at = "observe" /\ UNCHANGED << record, ledger, assignments, primary >>
      /\ Goto("integrated") /\ mission' = [mission EXCEPT !.observed = Len(primary)]
  BY DEF Observe, At, Tip
<1>2. call.at \in Driving
  BY <1>1 DEF Driving
<1>3. /\ Live /\ mission \in MissionState /\ mission.generation = record.generation
      /\ record \in OrchestrationRecord /\ record.planned /\ call \in Call
  BY <1>2, DriveIsLive
<1>4. /\ mission' \in MissionState /\ mission'.id = mission.id /\ mission'.status # "TERMINAL"
      /\ mission'.generation = mission.generation /\ mission'.step = mission.step
  BY <1>1, <1>3 DEF RunInv, RunType, MissionState, Live
<1>5. call' \in Call /\ call'.at = "integrated" /\ call'.group = call.group
  BY <1>1, <1>3, CallMoves DEF Label
<1>6. RunType' /\ StoresInv' /\ Live'
  BY <1>1, <1>3, <1>4, <1>5, MissionMoves
<1>7. OpeningInv'
  BY <1>5 DEF OpeningInv, Opening
<1>8. PlaceInv'
  BY <1>1, <1>3, <1>4, <1>5, <1>6 DEF PlaceInv, PlanningAt, PlanInHand, Advanced, OrchestrationRecord
<1>9. MemberInv'
  BY <1>1, <1>5 DEF RunInv, MemberInv, WithGroup, Forming, Checking
<1> QED  BY <1>6, <1>7, <1>8, <1>9 DEF RunInv

(* The reference to the Architect's execution completes the plan.          *)
LEMMA ReferencePlanStep ==
    ASSUME RunInv, ReferencePlan
    PROVE  RunInv'
<1> DEFINE k == Key("ARCHITECT", First)
<1>1. /\ call.at = "reference" \/ (call.at = "plan" /\ mission.step = "ACT")
      /\ UNCHANGED << mission, ledger, assignments, primary >> /\ Goto("authorize")
      /\ record' = [record EXCEPT !.planned = TRUE, !.refs = @ \cup {k}]
  BY DEF ReferencePlan, At
<1>2. /\ Live /\ mission \in MissionState /\ record \in OrchestrationRecord
      /\ mission.generation = 0 /\ record.generation = 0 /\ ~record.planned
      /\ record # None /\ call \in Call
  BY <1>1, PlannedIsLive DEF PlanningAt, PlanInHand
<1>3. k = PlanOf(First) /\ k \in Reference
  BY <1>2, RootIsStory, KeyIsReference DEF Key, PlanOf
<1>4. Resolved(k)
  BY <1>1, <1>2, <1>3 DEF RunInv, PlaceInv, PlanInHand, Resting, Opening, StoresInv, GenerationsInv
<1> HIDE DEF k
<1>5. /\ record' \in OrchestrationRecord /\ record'.id = record.id
      /\ record'.generation = record.generation /\ record'.baseline = record.baseline
      /\ record'.planned /\ record'.refs = record.refs \cup {k}
      /\ record'.progress = record.progress
  BY <1>1, <1>2, <1>3 DEF OrchestrationRecord
<1>6. call' \in Call /\ call'.at = "authorize"
  BY <1>1, <1>2, CallMoves DEF Label
<1>7. record' # None /\ Live' = Live
  BY <1>1, <1>5, RunAssumption DEF Live
<1>8. RunType'
  BY <1>1, <1>5, <1>6 DEF RunInv, RunType
<1>9. /\ Gated' = Gated /\ \A x : Resolved(x)' = Resolved(x)
      /\ Claims' = Claims /\ \A s : WorkOn(s)' = WorkOn(s)
  BY <1>1, <1>5, ClaimsStay DEF Gated, Resolved
<1>10. NamesInv'
  BY <1>1, <1>2, <1>5, <1>7 DEF RunInv, StoresInv, NamesInv
<1>11. GenerationsInv'
  BY <1>1, <1>2, <1>5, <1>9 DEF RunInv, StoresInv, GenerationsInv
<1>12. WorkInv'
  BY <1>2, <1>4, <1>5, <1>9 DEF RunInv, StoresInv, WorkInv
<1>13. PrimaryInv'
  BY <1>1, <1>5, <1>7, <1>9 DEF RunInv, StoresInv, PrimaryInv
<1>14. OpeningInv' /\ MemberInv'
  BY <1>6, LaterGroup DEF OpeningInv, Opening, Later
<1>15. PlaceInv'
  BY <1>1, <1>2, <1>5, <1>6, <1>7 DEF PlaceInv, PlanningAt, PlanInHand, Advanced, OrchestrationRecord
<1> QED  BY <1>8, <1>10, <1>11, <1>12, <1>13, <1>14, <1>15 DEF RunInv, StoresInv

(* An invocation begins, dies, or leaves its lock to an operator.          *)
LEMMA RunStep ==
    ASSUME RunInv, NEW r \in Request, Run(r)
    PROVE  RunInv'
<1>1. /\ call.at = "idle" /\ UNCHANGED << mission, record, ledger, assignments, primary >>
      /\ mission # None => mission.status = "TERMINAL"
  BY DEF Run, At, stateVars
<1>2. ~Live /\ Len(primary) \in Nat
  BY <1>1 DEF Live, RunInv, RunType
<1> DEFINE m == [id |-> << r, Len(primary) >>, generation |-> 0, status |-> "ACTIVE",
                 step |-> "UNDERSTAND", observed |-> Len(primary)]
<1>3. call' = [NoCall EXCEPT !.at = "record", !.start = m]
  BY DEF Run, Tip
<1>4. /\ m \in MissionState /\ m.id \in Request \X Nat /\ m.status = "ACTIVE"
      /\ m.generation = 0 /\ m.step = "UNDERSTAND"
  BY <1>2 DEF MissionState
<1> HIDE DEF m
<1>5. call' \in Call /\ call'.at = "record" /\ call'.start = m
  BY <1>3, <1>4, NoCallIsCall DEF Call, Label
<1>6. StoresInv' /\ Live' = Live
  <2>1. Keeps
    BY <1>1 DEF Keeps
  <2> QED  BY <1>1, <2>1, StoresStay DEF RunInv
<1>7. RunType'
  BY <1>1, <1>5 DEF RunInv, RunType
<1>8. OpeningInv' /\ PlaceInv' /\ MemberInv'
  BY <1>2, <1>4, <1>5, <1>6 DEF OpeningInv, PlaceInv, Opening, MemberInv, WithGroup, Forming, Checking
<1> QED  BY <1>6, <1>7, <1>8 DEF RunInv

LEMMA RestSteps ==
    ASSUME RunInv, Crash \/ LockStays \/ RemoveLock
    PROVE  RunInv'
<1>1. /\ UNCHANGED << mission, record, ledger, assignments, primary >>
      /\ call' \in Call /\ call'.at \in Resting
  BY CallStops DEF Crash, LockStays, RemoveLock, stateVars
<1>2. StoresInv'
  <2>1. Keeps
    BY <1>1 DEF Keeps
  <2> QED  BY <1>1, <2>1, StoresStay DEF RunInv
<1> QED  BY <1>1, <1>2, AtRest DEF RunInv, RunType

LEMMA OutsideCommitStep ==
    ASSUME RunInv, OutsideCommit
    PROVE  RunInv'
<1>1. /\ UNCHANGED << mission, record, ledger, assignments, call >>
      /\ primary' = Append(primary, None)
  BY DEF OutsideCommit
<1>2. primary \in Seq(Nat \cup {None})
  BY DEF RunInv, RunType
<1>3. RunType'
  BY <1>1, <1>2 DEF RunInv, RunType
<1>4. Live' = Live /\ Gated' = Gated /\ Claims' = Claims /\ Claimed' = Claimed
      /\ ReadyWork' = ReadyWork /\ (\A k : Resolved(k)' = Resolved(k))
      /\ \A s : WorkOn(s)' = WorkOn(s)
  BY <1>1 DEF Live, Gated, Claims, Claimed, Resolved, WorkOn, ReadyWork
<1>5. NamesInv' /\ GenerationsInv' /\ WorkInv'
  BY <1>1, <1>4 DEF RunInv, StoresInv, NamesInv, GenerationsInv, WorkInv
<1>6. PrimaryInv'
  BY <1>1, <1>2, <1>4 DEF RunInv, StoresInv, PrimaryInv
<1>7. OpeningInv' /\ PlaceInv'
  BY <1>1, <1>4 DEF RunInv, OpeningInv, PlaceInv, Fresh
<1>8. MemberInv'
  BY <1>1, <1>4 DEF RunInv, MemberInv
<1> QED  BY <1>3, <1>5, <1>6, <1>7, <1>8 DEF RunInv, StoresInv

(* The intent is written, then the mission.                                *)
LEMMA FreshIsRecord ==
    ASSUME NEW m \in MissionState, m.id \in Request \X Nat
    PROVE  /\ Fresh(m) \in OrchestrationRecord /\ Fresh(m) # None
           /\ Fresh(m).id = m.id /\ Fresh(m).generation = 0 /\ Fresh(m).planned = FALSE
           /\ Fresh(m).refs = {} /\ Fresh(m).progress = None
<1>1. Fresh(m) \in OrchestrationRecord
  BY DEF Fresh, OrchestrationRecord, MissionState
<1> QED  BY <1>1, RunAssumption DEF Fresh

LEMMA WriteRecordStep ==
    ASSUME RunInv, WriteRecord
    PROVE  RunInv'
<1>1. /\ call.at = "record" /\ UNCHANGED << mission, ledger, assignments, primary >>
      /\ Goto("commit") /\ record' = Fresh(call.start) /\ call \in Call
  BY DEF WriteRecord, At, RunInv, RunType
<1>2. /\ ~Live /\ call.start \in MissionState /\ call.start.id \in Request \X Nat
      /\ call.start.status = "ACTIVE" /\ call.start.generation = 0 /\ call.start.step = "UNDERSTAND"
  BY <1>1 DEF RunInv, OpeningInv, Opening
<1>3. call' \in Call /\ call'.at = "commit" /\ call'.start = call.start
  BY <1>1, CallMoves DEF Label
<1>4. /\ record' \in OrchestrationRecord /\ record'.generation = 0 /\ record'.planned = FALSE
      /\ record'.refs = {} /\ record'.progress = None
  BY <1>1, <1>2, FreshIsRecord
<1>5. Live' = Live
  BY <1>1 DEF Live
<1>6. RunType'
  BY <1>1, <1>3, <1>4 DEF RunInv, RunType
<1>7. NamesInv' /\ GenerationsInv'
  BY <1>1, <1>2, <1>4, <1>5 DEF RunInv, StoresInv, NamesInv, GenerationsInv
<1>8. WorkInv'
  BY <1>4 DEF WorkInv, Gated
<1>9. PrimaryInv'
  BY <1>1, <1>2 DEF RunInv, StoresInv, PrimaryInv
<1>10. OpeningInv' /\ PlaceInv' /\ MemberInv'
  BY <1>1, <1>2, <1>3, <1>5
     DEF OpeningInv, Opening, Fresh, PlaceInv, MemberInv, WithGroup, Forming, Checking
<1> QED  BY <1>6, <1>7, <1>8, <1>9, <1>10 DEF RunInv, StoresInv

LEMMA CommitMissionStep ==
    ASSUME RunInv, CommitMission
    PROVE  RunInv'
<1>1. /\ call.at = "commit" /\ UNCHANGED << record, ledger, assignments, primary >>
      /\ Goto("plan") /\ mission' = call.start /\ call \in Call
  BY DEF CommitMission, At, RunInv, RunType
<1>2. /\ ~Live /\ call.start \in MissionState /\ call.start.id \in Request \X Nat
      /\ call.start.status = "ACTIVE" /\ call.start.generation = 0
      /\ call.start.step = "UNDERSTAND" /\ record = Fresh(call.start)
  BY <1>1 DEF RunInv, OpeningInv, Opening
<1>3. /\ record # None /\ record.id = call.start.id /\ record.generation = 0
      /\ record.planned = FALSE /\ record.refs = {} /\ record.progress = None
  BY <1>2, FreshIsRecord
<1>4. call' \in Call /\ call'.at = "plan"
  BY <1>1, CallMoves DEF Label
<1>5. mission' # None /\ Live'
  BY <1>1, <1>2, RunAssumption DEF Live
<1>6. RunType'
  BY <1>1, <1>2, <1>4 DEF RunInv, RunType
<1>7. NamesInv' /\ GenerationsInv'
  BY <1>1, <1>2, <1>3, <1>5 DEF NamesInv, GenerationsInv
<1>8. WorkInv'
  BY <1>1, <1>3 DEF WorkInv, Gated
<1>9. PrimaryInv'
  BY <1>1, <1>2 DEF RunInv, StoresInv, PrimaryInv
<1>10. OpeningInv' /\ MemberInv'
  BY <1>4 DEF OpeningInv, Opening, MemberInv, WithGroup, Forming, Checking
<1>11. PlaceInv'
  BY <1>1, <1>2, <1>3, <1>4, <1>5 DEF PlaceInv, PlanningAt, PlanInHand, Advanced
<1> QED  BY <1>6, <1>7, <1>8, <1>9, <1>10, <1>11 DEF RunInv, StoresInv

(* A remediation opens the next generation, and the record follows.        *)
LEMMA OpenGenerationStep ==
    ASSUME RunInv, OpenGeneration
    PROVE  RunInv'
<1>1. /\ call.at = "apply_mission" /\ UNCHANGED << record, ledger, assignments, primary >>
      /\ Goto("finalize") /\ mission' = [mission EXCEPT !.generation = @ + 1]
  BY DEF OpenGeneration, At
<1>2. /\ Live /\ mission \in MissionState /\ record \in OrchestrationRecord
      /\ mission.generation = record.generation /\ record.planned /\ record # None /\ call \in Call
  BY <1>1, DriveIsLive DEF Driving
<1>3. /\ mission' \in MissionState /\ mission'.id = mission.id /\ mission'.step = mission.step
      /\ mission'.status = mission.status /\ mission'.generation = record.generation + 1
  <2>1. mission.generation + 1 \in Nat
    BY <1>2 DEF MissionState
  <2> QED  BY <1>1, <1>2, <2>1 DEF MissionState
<1>4. mission' # None /\ Live'
  BY <1>2, <1>3, RunAssumption DEF Live
<1>5. call' \in Call /\ call'.at = "finalize"
  BY <1>1, <1>2, CallMoves DEF Label
<1>6. Gated' = Gated /\ Claims' = Claims /\ \A k : Resolved(k)' = Resolved(k)
  BY <1>1 DEF Gated, Claims, Resolved
<1>7. RunType'
  BY <1>1, <1>3, <1>5 DEF RunInv, RunType
<1>8. NamesInv' /\ GenerationsInv'
  BY <1>1, <1>2, <1>3, <1>4, <1>6 DEF RunInv, StoresInv, NamesInv, GenerationsInv
<1>9. WorkInv' /\ PrimaryInv'
  BY <1>1, <1>4, <1>6 DEF RunInv, StoresInv, WorkInv, PrimaryInv, WorkOn
<1>10. OpeningInv' /\ MemberInv'
  BY <1>5 DEF OpeningInv, Opening, MemberInv, WithGroup, Forming, Checking
<1>11. PlaceInv'
  BY <1>1, <1>2, <1>3, <1>4, <1>5 DEF PlaceInv, PlanningAt, PlanInHand, Advanced
<1> QED  BY <1>7, <1>8, <1>9, <1>10, <1>11 DEF RunInv, StoresInv

LEMMA EndRemediationStep ==
    ASSUME RunInv, EndRemediation
    PROVE  RunInv'
<1>1. call.at = "finalize" /\ UNCHANGED Stores /\ UNCHANGED ledger /\ Goto("successor")
  BY DEF EndRemediation, At, Stores
<1>2. Live /\ mission.generation = record.generation + 1 /\ record.planned /\ call \in Call
  <2>1. call.at \notin Resting \cup Opening \cup PlanningAt /\ call.at \in Advanced
    BY <1>1 DEF Resting, Opening, PlanningAt, PlanInHand, Advanced
  <2>2. record.planned = TRUE
    BY <2>1 DEF RunInv, PlaceInv, RunType, StoresInv, NamesInv, OrchestrationRecord
  <2> QED  BY <2>1, <2>2 DEF RunInv, PlaceInv, RunType
<1>3. call' \in Call /\ call'.at = "successor"
  BY <1>1, <1>2, CallMoves DEF Label
<1>4. StoresInv' /\ Live' = Live
  BY <1>1, StoresStay DEF RunInv, Stores, Keeps
<1>5. RunType'
  BY <1>1, <1>3 DEF RunInv, RunType, Stores
<1>6. OpeningInv' /\ MemberInv'
  BY <1>3 DEF OpeningInv, Opening, MemberInv, WithGroup, Forming, Checking
<1>7. PlaceInv'
  BY <1>1, <1>2, <1>3, <1>4 DEF PlaceInv, PlanningAt, PlanInHand, Advanced, Stores
<1> QED  BY <1>4, <1>5, <1>6, <1>7 DEF RunInv

(* The record after a remediation refers to no group yet.                  *)
LEMMA SuccessorFollows ==
    ASSUME RunInv, Live, mission.generation = record.generation + 1,
           UNCHANGED << mission, ledger, assignments, primary >>, record' = Successor, call' \in Call
    PROVE  /\ RunType' /\ StoresInv' /\ Live' /\ record.planned
           /\ record'.planned /\ record'.generation = mission.generation
<1>1. record # None /\ record \in OrchestrationRecord /\ mission \in MissionState
  BY DEF RunInv, RunType, StoresInv, NamesInv, Live
<1>2. record.planned
  BY <1>1 DEF RunInv, StoresInv, GenerationsInv, OrchestrationRecord
<1>3. /\ record' \in OrchestrationRecord /\ record'.id = record.id
      /\ record'.generation = mission.generation /\ record'.planned = record.planned
      /\ record'.refs = record.refs /\ record'.progress = None
  BY <1>1 DEF Successor, OrchestrationRecord, MissionState
<1>4. record' # None /\ Live'
  BY <1>3, RunAssumption DEF Live
<1>5. RunType'
  BY <1>3 DEF RunInv, RunType
<1>6. NamesInv' /\ GenerationsInv'
  <2>1. Resolved(PlanOf(First))' = Resolved(PlanOf(First))
    BY DEF Resolved
  <2> QED  BY <1>1, <1>2, <1>3, <1>4, <2>1
           DEF RunInv, StoresInv, NamesInv, GenerationsInv, MissionState
<1>7. WorkInv'
  BY <1>1, <1>3 DEF RunInv, StoresInv, WorkInv, Gated, Resolved
<1>8. PrimaryInv'
  <2>1. ASSUME NEW i \in 1 .. Len(primary), primary[i] # None
        PROVE  primary[i] < mission.generation
    <3>1. primary[i] \in Nat
      BY <2>1 DEF RunInv, RunType
    <3>2. primary[i] <= record.generation
      BY <2>1 DEF RunInv, StoresInv, PrimaryInv
    <3> QED  BY <1>1, <3>1, <3>2 DEF OrchestrationRecord
  <2>2. \A i \in 1 .. Len(primary) : primary[i] # None => primary[i] \in Nat
    BY DEF RunInv, RunType
  <2> QED  BY <1>1, <1>3, <1>4, <2>1, <2>2 DEF PrimaryInv, MissionState
<1> QED  BY <1>2, <1>3, <1>4, <1>5, <1>6, <1>7, <1>8 DEF StoresInv

LEMMA WriteSuccessorStep ==
    ASSUME RunInv, WriteSuccessor
    PROVE  RunInv'
<1>1. /\ call.at = "successor" /\ UNCHANGED << mission, ledger, assignments, primary >>
      /\ record' = Successor
      /\ call' = [call EXCEPT !.at = "authorize", !.then = "drive", !.remediate = FALSE]
  BY DEF WriteSuccessor, At
<1>2. Live /\ mission.generation = record.generation + 1 /\ call \in Call
  BY <1>1 DEF RunInv, RunType, PlaceInv, Resting, Opening, Advanced
<1>3. call' \in Call /\ call'.at = "authorize"
  BY <1>1, <1>2 DEF Call, Label
<1>4. /\ RunType' /\ StoresInv' /\ Live' /\ record'.planned
      /\ record'.generation = mission.generation
  BY <1>1, <1>2, <1>3, SuccessorFollows
<1>5. OpeningInv' /\ MemberInv'
  BY <1>3, LaterGroup DEF OpeningInv, Opening, Later
<1>6. PlaceInv'
  <2>1. record' \in OrchestrationRecord
    BY <1>4 DEF RunType, StoresInv, NamesInv
  <2> QED  BY <1>1, <1>3, <1>4, <2>1 DEF PlaceInv, PlanningAt, PlanInHand, Advanced, OrchestrationRecord
<1> QED  BY <1>4, <1>5, <1>6 DEF RunInv

LEMMA ResumeStep ==
    ASSUME RunInv, Resume
    PROVE  RunInv'
<1>1. /\ mission # None /\ record # None /\ record.id = mission.id
      /\ UNCHANGED << mission, ledger, assignments, primary >>
      /\ mission.generation = record.generation \/ ExactSuccessor
      /\ record' = IF mission.generation = record.generation THEN record ELSE Successor
      /\ call' = [NoCall EXCEPT !.at = IF record.planned THEN "authorize" ELSE "plan",
                                !.remediate = TRUE]
  BY DEF Resume
<1>2. record \in OrchestrationRecord /\ mission \in MissionState
  BY <1>1 DEF RunInv, RunType
<1>3. Live
  BY <1>1, <1>2 DEF RunInv, StoresInv, NamesInv, OrchestrationRecord
<1>4. call' \in Call /\ call'.at = IF record.planned THEN "authorize" ELSE "plan"
  BY <1>1, NoCallIsCall DEF Call, Label
<1>5. /\ RunType' /\ StoresInv' /\ Live' /\ record'.planned = record.planned
      /\ record' \in OrchestrationRecord /\ record'.generation = mission.generation
  <2>1. CASE record' = record /\ mission.generation = record.generation
    <3>1. StoresInv' /\ Live' = Live
      BY <1>1, <2>1, StoresStay DEF RunInv, Keeps
    <3> QED  BY <1>1, <1>2, <1>3, <1>4, <2>1, <3>1 DEF RunInv, RunType
  <2>2. CASE record' = Successor /\ mission.generation # record.generation
    <3>1. mission.generation = record.generation + 1
      BY <1>1, <2>2 DEF ExactSuccessor
    <3>2. /\ RunType' /\ StoresInv' /\ Live' /\ record.planned
          /\ record'.planned /\ record'.generation = mission.generation
      BY <1>1, <1>3, <1>4, <2>2, <3>1, SuccessorFollows
    <3>3. record' \in OrchestrationRecord
      BY <3>2 DEF RunType, StoresInv, NamesInv
    <3> QED  BY <1>2, <3>2, <3>3 DEF OrchestrationRecord
  <2> QED  BY <1>1, <2>1, <2>2
<1>6. OpeningInv'
  BY <1>4 DEF OpeningInv, Opening
<1>7. MemberInv'
  BY <1>4 DEF MemberInv, WithGroup, Forming, Checking
<1>8. PlaceInv'
  BY <1>1, <1>2, <1>3, <1>4, <1>5 DEF PlaceInv, PlanningAt, PlanInHand, Advanced, OrchestrationRecord,
     MissionState
<1> QED  BY <1>5, <1>6, <1>7, <1>8 DEF RunInv

(* Every invocation finds no mission, or one that has ended.               *)
LEMMA RunStarts == RunInit => RunInv
<1> SUFFICES ASSUME RunInit PROVE RunInv
  OBVIOUS
<1>1. /\ mission \in {None} \cup {Ended(r) : r \in Request} /\ record = None /\ ledger = {}
      /\ assignments = {} /\ primary = << >> /\ call = NoCall
  BY DEF RunInit
<1>2. \A r \in Request : /\ Ended(r) \in MissionState /\ Ended(r).status = "TERMINAL"
                         /\ Ended(r).id \notin Request \X Nat
  BY RunAssumption DEF Ended, MissionState
<1>3. ~Live /\ mission \in {None} \cup MissionState /\ (mission # None => mission.id \notin Request \X Nat)
  BY <1>1, <1>2 DEF Live
<1>4. call \in Call /\ call.at = "idle"
  BY <1>1 DEF NoCall, Call, Label
<1>5. RunType
  BY <1>1, <1>3, <1>4 DEF RunType
<1>6. NamesInv /\ GenerationsInv /\ WorkInv /\ PrimaryInv
  BY <1>1, <1>3 DEF NamesInv, GenerationsInv, WorkInv, PrimaryInv
<1>7. OpeningInv /\ PlaceInv /\ MemberInv
  BY <1>4 DEF OpeningInv, Opening, PlaceInv, Resting, MemberInv, WithGroup, Forming, Checking
<1> QED  BY <1>5, <1>6, <1>7 DEF RunInv, StoresInv

LEMMA RunStutters ==
    ASSUME RunInv, UNCHANGED runVars
    PROVE  RunInv'
<1>1. UNCHANGED << mission, record, ledger, assignments, primary, call >>
  BY DEF runVars
<1>2. /\ Live' = Live /\ Gated' = Gated /\ Claims' = Claims /\ Claimed' = Claimed
      /\ ReadyWork' = ReadyWork /\ (\A k : Resolved(k)' = Resolved(k))
      /\ \A s : WorkOn(s)' = WorkOn(s)
  BY <1>1 DEF Live, Gated, Claims, Claimed, Resolved, WorkOn, ReadyWork
<1>3. RunType' /\ StoresInv'
  BY <1>1, <1>2 DEF RunInv, RunType, StoresInv, NamesInv, GenerationsInv, WorkInv, PrimaryInv
<1>4. OpeningInv' /\ PlaceInv' /\ MemberInv'
  BY <1>1, <1>2 DEF RunInv, OpeningInv, Fresh, PlaceInv, MemberInv
<1> QED  BY <1>3, <1>4 DEF RunInv

(* One step of anybody.                                                    *)
LEMMA RunSteps == RunInv /\ [RunNext]_runVars => RunInv'
<1> SUFFICES ASSUME RunInv, [RunNext]_runVars PROVE RunInv'
  OBVIOUS
<1>1. CASE Step
  <2>1. CASE AskArchitect \/ AcceptPlan \/ LeavePlanning \/ WaitForHuman \/ ReferencePlan
             \/ WriteRecord \/ CommitMission
             \/ (\E v \in {"READY", "APPROVAL", "NEGATIVE", "FAILED"} : ArchitectEnds(v))
             \/ (\E s \in UserStory : PlanStory(s))
    BY <2>1, PlanningSteps, PlanMissionSteps, ReferencePlanStep, WriteRecordStep, CommitMissionStep
  <2>2. CASE \/ Integrate \/ RecordProgress \/ Members \/ GroupEnds \/ Submit \/ ReferenceMembers
             \/ \E s \in UserStory : \/ Assign(s) \/ Start(s) \/ LaunchMember(s)
                                    \/ \E v \in {"READY", "NEGATIVE", "FAILED"} : MemberEnds(s, v)
    <3>1. CASE \/ Members \/ GroupEnds
               \/ \E s \in UserStory : \/ LaunchMember(s)
                                      \/ \E v \in {"READY", "NEGATIVE", "FAILED"} : MemberEnds(s, v)
      BY <3>1, MemberSteps
    <3>2. CASE \E s \in UserStory : Assign(s) \/ Start(s)
      BY <3>2, AssignStep, StartStep
    <3>3. CASE Integrate \/ RecordProgress \/ Submit \/ ReferenceMembers
      BY <3>3, IntegrateStep, RecordProgressStep, SubmitStep, ReferenceMembersStep
    <3> QED  BY <2>2, <3>1, <3>2, <3>3
  <2>3. CASE Gate \/ Merge \/ Observe \/ RecordIntegrated
    BY <2>3, GateStep, MergeStep, ObserveStep, RecordIntegratedStep
  <2>4. CASE \/ Authorize \/ AcceptIntegrated \/ Verify \/ EvaluatePolicy \/ LaunchTester
             \/ AcceptTester \/ RejectStory \/ LaunchReviewer \/ ClaimRemediation \/ ReplayStories
             \/ \E v \in {"READY", "REMEDIATE", "NEGATIVE", "FAILED"} : TesterEnds(v) \/ ReviewerEnds(v)
    BY <2>4, LaterSteps
  <2>5. CASE ReferenceTester \/ OpenGeneration \/ EndRemediation \/ WriteSuccessor
    BY <2>5, ReferenceTesterStep, OpenGenerationStep, EndRemediationStep, WriteSuccessorStep
  <2> QED  BY <1>1, <2>1, <2>2, <2>3, <2>4, <2>5 DEF Step
<1>2. CASE (\E r \in Request : Run(r)) \/ Resume \/ OutsideCommit
  BY <1>2, RunStep, ResumeStep, OutsideCommitStep
<1>3. CASE Crash \/ LockStays \/ RemoveLock
  BY <1>3, RestSteps
<1>4. CASE UNCHANGED runVars
  BY <1>4, RunStutters
<1> QED  BY <1>1, <1>2, <1>3, <1>4 DEF RunNext

(* Wherever an invocation dies, "mission resume" finds a record with the   *)
(* mission's identity and its generation or the one before: the intent is  *)
(* written before the mission, and a successor after it.                   *)
THEOREM ResumeFindsRecord == RunSpec => []ActiveIsRecorded
<1>1. RunInv => ActiveIsRecorded
  <2>1. ASSUME RunInv, Live
        PROVE  record # None /\ record.id = mission.id /\ mission.generation - record.generation \in {0, 1}
    <3>1. record # None /\ record \in OrchestrationRecord /\ mission \in MissionState
      BY <2>1 DEF RunInv, RunType, StoresInv, NamesInv, Live
    <3> QED  BY <2>1, <3>1
             DEF RunInv, StoresInv, NamesInv, GenerationsInv, OrchestrationRecord, MissionState
  <2> QED  BY <2>1 DEF ActiveIsRecorded, Live
<1> QED  BY <1>1, RunStarts, RunSteps, PTL DEF RunSpec

(* What resume_gated_group needs to recognise a promoted group is durable  *)
(* before the merge, for every number of stories, crashes, commits of      *)
(* others and remediations: Gate, finished members, resolved references.   *)
THEOREM MergedIsRecognised == RunSpec => []PromotionIsRecorded
<1>1. RunInv => PromotionIsRecorded
  <2>1. SUFFICES ASSUME RunInv, NEW i \in 1 .. Len(primary), record # None,
                        primary[i] = record.generation
                 PROVE  /\ record.progress # None /\ record.progress.gate
                        /\ \A a \in Claims : a.status = "COMPLETED" /\ WorkOn(a.story) \in record.refs
                        /\ \A k \in record.refs : Resolved(k)
    BY DEF PromotionIsRecorded, Tip, WorkOn, Resolved
  <2>2. record.generation # None
    BY <2>1, RunAssumption DEF RunInv, RunType, OrchestrationRecord
  <2>3. Gated
    BY <2>1, <2>2 DEF RunInv, StoresInv, PrimaryInv
  <2> QED  BY <2>1, <2>3 DEF RunInv, StoresInv, WorkInv, Gated
<1> QED  BY <1>1, RunStarts, RunSteps, PTL DEF RunSpec
=============================================================================
