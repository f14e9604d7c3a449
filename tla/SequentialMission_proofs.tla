---------------------- MODULE SequentialMission_proofs ----------------------
(***************************************************************************)
(* Theorems about SequentialMission, for any set of callers and any number *)
(* of remediations and moves of HEAD, and about the answers of its roles   *)
(* (RoleResults), for every set of answers, criteria, Gates and dossiers.  *)
(***************************************************************************)
EXTENDS SequentialMission, RoleResults, SequenceTheorems, TLAPS

Order == << "IMPLEMENTER", "TESTER", "REVIEWER" >>

(* Types.                                                                  *)
Mission == [status : {"ACTIVE", "BLOCKED", "COMPLETED"}, role : Role \cup {"ORCHESTRATOR"},
            step : DOMAIN RoleOf, gen : Nat, blocker : {None, "HUMAN_REQUIRED", "OTHER"},
            commit : Nat]
Given == [to : Role \cup {"ORCHESTRATOR"}, from : Role \cup {"ORCHESTRATOR"}, gen : Nat,
          commit : Nat]

Moves == {"PLANNED", "READY", "IN_PROGRESS", "BLOCKED", "REJECTED", "REMEDIATION_REQUIRED"}
Accepts == {"IMPLEMENTED", "TESTING", "REVIEW", "CERTIFICATION"}
Stories == Moves \cup Accepts \cup {"ABSENT", "PROPOSED", "CERTIFIED"}

(* The writes a call may have to do.                                       *)
Writes ==
    [do : {"transition"}, value : Moves \cup {"TESTING"}, by : {None}]
    \cup [do : {"transition"}, value : Accepts, by : Result]
    \cup [do : {"save"}, value : Mission, by : {None}]
    \cup [do : {"route"}, value : Mission, by : Given]
    \cup [do : {"add"}, value : BOOLEAN, by : {None}]
    \cup [do : {"escalate", "approve", "claim", "certify", "promote"}, value : {None}, by : {None}]

CallsOK ==
    /\ calls \in [Caller -> [todo : Seq(Writes), mission : Mission \cup {None}]]
    /\ \A c \in Caller : ~Idle(c) => calls[c].mission \in Mission

TypeInv ==
    /\ mission \in Mission /\ head \in Nat /\ issued \subseteq Given
    /\ story \in [status : Stories, required : BOOLEAN, approved : BOOLEAN]
    /\ chain \in Seq(Result) /\ CallsOK

(* The results of the first k roles, of the mission's generation and       *)
(* commit, in the order of the roles.                                      *)
Chained(ch, k, m) ==
    /\ Len(ch) = k
    /\ \A i \in 1 .. k : ch[i].role = Order[i] /\ ch[i].gen = m.gen /\ ch[i].commit = m.commit

(* The story is where the mission's step expects it: so is the chain.      *)
Fitting(m, status, ch) ==
    /\ m.step = "VERIFY" /\ status = "TESTING" => Chained(ch, 1, m)
    /\ m.step = "REPORT" /\ status = "REVIEW" => Chained(ch, 2, m)
    /\ m.step = "CONTROLLED_TRANSITION" /\ status = "CERTIFICATION" => Chained(ch, 3, m)
    /\ status = "CERTIFIED" =>
          /\ Len(ch) = 3
          /\ \A i \in 1 .. 3 : /\ ch[i].role = Order[i] /\ ch[i].gen = m.gen
                               /\ ch[i].commit = ch[1].commit

(* Writes that take no part in the chain, and the missions that keep it or *)
(* leave it behind.                                                        *)
Plain(w) == \/ w.do \in {"add", "escalate", "approve", "claim"}
            \/ w.do = "transition" /\ w.by = None /\ w.value \in Moves
Saves(w) == w.do \in {"save", "route"}
Keeps(n, m) == /\ n.gen = m.gen
               /\ n.step \in {"ACT", "RECONSTRUCT"} \/ (n.step = m.step /\ n.commit = m.commit)
Reopens(n, status) == n.step = "ACT" /\ status # "CERTIFIED"

Aside(t, m, status) ==
    /\ \A i \in DOMAIN t : \/ Plain(t[i])
                           \/ Saves(t[i]) /\ (Keeps(t[i].value, m) \/ Reopens(t[i].value, status))
    /\ \A i, j \in DOMAIN t : Saves(t[i]) /\ Saves(t[j]) => i = j

(* The agendas that build the chain: what is left of them at every write.  *)
Of(w, k, m) == /\ w.by # None /\ w.by.role = Order[k] /\ w.by.gen = m.gen
               /\ w.by.commit = m.commit
Entering(w, step, m) == Saves(w) /\ w.value.step = step /\ w.value.gen = m.gen
                        /\ w.value.commit = m.commit

Implementing(t, m, ch) ==
    /\ m.step = "ACT"
    /\ \/ Len(t) = 3 /\ t[1].do = "transition" /\ t[1].value = "IMPLEMENTED" /\ Of(t[1], 1, m)
          /\ t[2] = To("TESTING") /\ Entering(t[3], "VERIFY", m)
       \/ Len(t) = 2 /\ t[1] = To("TESTING") /\ Entering(t[2], "VERIFY", m) /\ Chained(ch, 1, m)
       \/ Len(t) = 1 /\ Entering(t[1], "VERIFY", m) /\ Chained(ch, 1, m)

Reporting(t, k, from, status, to, m, ch) ==
    /\ m.step = from
    /\ \/ Len(t) = 2 /\ t[1].do = "transition" /\ t[1].value = status /\ Of(t[1], k, m)
          /\ Entering(t[2], to, m) /\ Chained(ch, k - 1, m)
       \/ Len(t) = 1 /\ Entering(t[1], to, m) /\ Chained(ch, k, m)

Certifying(t, m, status, ch) ==
    \/ Len(t) = 1 /\ t[1] = Do("certify") /\ status = "CERTIFICATION" /\ Chained(ch, 3, m)
    \/ Len(t) = 2 /\ t[1] = Do("promote") /\ Entering(t[2], "REPORT", m) /\ Chained(ch, 3, m)
    \/ Len(t) = 1 /\ Entering(t[1], "REPORT", m) /\ status = "CERTIFIED"

Agenda(t, m, status, ch) ==
    \/ Aside(t, m, status)
    \/ Implementing(t, m, ch)
    \/ Reporting(t, 2, "VERIFY", "REVIEW", "REPORT", m, ch)
    \/ Reporting(t, 3, "REPORT", "CERTIFICATION", "CONTROLLED_TRANSITION", m, ch)
    \/ Certifying(t, m, status, ch)

(* Calls that never overlapped: one at a time, on the mission as it is.    *)
Serial == "overlap" \notin disturbed

ChainInv ==
    Serial =>
        /\ Fitting(mission, story.status, chain)
        /\ \A c, d \in Caller : ~Idle(c) /\ ~Idle(d) => c = d
        /\ \A c \in Caller : ~Idle(c) =>
              /\ calls[c].mission = mission
              /\ Agenda(calls[c].todo, mission, story.status, chain)

-----------------------------------------------------------------------------
(* Types.                                                                  *)

(* What is left of a call's agenda is a sequence of writes.                *)
LEMMA TailOfAgenda ==
    ASSUME NEW t \in Seq(Writes), t # << >>
    PROVE  /\ Len(t) \in Nat \ {0} /\ Head(t) = t[1] /\ t[1] \in Writes
           /\ Tail(t) \in Seq(Writes) /\ Len(Tail(t)) = Len(t) - 1
           /\ \A i \in 1 .. Len(t) - 1 : Tail(t)[i] = t[i + 1]
  BY EmptySeq, HeadTailProperties, ElementOfSeq

(* Setting one call leaves the other ones alone.                           *)
LEMMA GoesFacts ==
    ASSUME CallsOK, NEW c \in Caller, NEW t \in Seq(Writes), NEW m \in Mission, Goes(c, t, m)
    PROVE  /\ CallsOK' /\ calls'[c].todo = t
           /\ t # << >> => calls'[c].mission = m
           /\ \A d \in Caller \ {c} : calls'[d] = calls[d]
<1> DEFINE call == IF t = << >> THEN NoCall ELSE [todo |-> t, mission |-> m]
<1>1. call \in [todo : Seq(Writes), mission : Mission \cup {None}]
  BY EmptySeq DEF NoCall
<1>2. calls' = [calls EXCEPT ![c] = call]
  BY DEF Goes
<1>3. call.todo = t /\ (t # << >> => call.mission = m)
  BY DEF NoCall
<1> HIDE DEF call
<1>4. /\ calls' \in [Caller -> [todo : Seq(Writes), mission : Mission \cup {None}]]
      /\ calls'[c] = call /\ \A d \in Caller \ {c} : calls'[d] = calls[d]
  BY <1>1, <1>2 DEF CallsOK
<1>5. \A d \in Caller : calls'[d].todo # << >> => calls'[d].mission \in Mission
  BY <1>3, <1>4 DEF CallsOK, Idle
<1> QED  BY <1>3, <1>4, <1>5 DEF CallsOK, Idle

LEMMA RaiseFacts ==
    ASSUME CallsOK, NEW c \in Caller, calls' = [calls EXCEPT ![c] = NoCall]
    PROVE  /\ CallsOK' /\ calls'[c].todo = << >>
           /\ \A d \in Caller \ {c} : calls'[d] = calls[d]
<1>1. NoCall \in [todo : Seq(Writes), mission : Mission \cup {None}] /\ NoCall.todo = << >>
  BY EmptySeq DEF NoCall
<1>2. /\ calls' \in [Caller -> [todo : Seq(Writes), mission : Mission \cup {None}]]
      /\ calls'[c] = NoCall /\ \A d \in Caller \ {c} : calls'[d] = calls[d]
  BY <1>1 DEF CallsOK
<1>3. \A d \in Caller : calls'[d].todo # << >> => calls'[d].mission \in Mission
  BY <1>1, <1>2 DEF CallsOK, Idle
<1> QED  BY <1>1, <1>2, <1>3 DEF CallsOK, Idle

(* The writes the model builds are writes.                                 *)
LEMMA ToType == \A s \in Moves \cup {"TESTING"} : To(s) \in Writes
  BY DEF To, Writes
LEMMA AcceptingType == \A s \in Accepts, r \in Result : Accepting(s, r) \in Writes
  BY DEF Accepting, Writes
LEMMA SaveType == \A m \in Mission : Save(m) \in Writes
  BY DEF Save, Writes
LEMMA DoType ==
    \A w \in {"escalate", "approve", "claim", "certify", "promote"} : Do(w) \in Writes
  BY DEF Do, Writes
LEMMA AddType == \A b \in BOOLEAN : [do |-> "add", value |-> b, by |-> None] \in Writes
  BY DEF Writes

LEMMA AdvancedType ==
    ASSUME mission \in Mission, NEW g \in Nat,
           NEW s \in {"ACT", "VERIFY", "REPORT", "CONTROLLED_TRANSITION"}
    PROVE  /\ Advanced(s, g) \in Mission /\ Advanced(s, g).gen = g
           /\ Advanced(s, g).step = s /\ Advanced(s, g).commit = mission.commit
<1>1. s \in DOMAIN RoleOf
  BY DEF RoleOf
<1> QED  BY <1>1 DEF Advanced, Mission
LEMMA BlockedType ==
    ASSUME NEW m \in Mission, NEW b \in {None, "HUMAN_REQUIRED", "OTHER"}
    PROVE  BlockedBy(m, b) \in Mission
  BY DEF BlockedBy, Mission

-----------------------------------------------------------------------------
(* What a call starts.                                                     *)

(* A call starts with writes that fit into the mission it has read.        *)
Starts(c) ==
    \E t \in Seq(Writes) :
        /\ Idle(c) /\ Begin(c, t)
        /\ Fitting(mission, story.status, chain) => Agenda(t, mission, story.status, chain)
        /\ issued' \subseteq Given /\ UNCHANGED << mission, story, head, chain >>

LEMMA RouteStarts ==
    ASSUME TypeInv, NEW c \in Caller, Route(c)
    PROVE  Starts(c)
<1> DEFINE step == IF head = mission.commit THEN mission.step ELSE "RECONSTRUCT"
           candidate == [mission EXCEPT !.role = RoleOf[step], !.step = step, !.commit = head]
           write == [do |-> "route", value |-> candidate,
                     by |-> Handoff(RoleOf[step], mission.role)]
<1>1. step \in DOMAIN RoleOf /\ RoleOf[step] \in Role \cup {"ORCHESTRATOR"}
  BY DEF TypeInv, Mission, RoleOf, Role, StepOf
<1>2. /\ candidate \in Mission /\ candidate.gen = mission.gen /\ candidate.step = step
      /\ candidate.commit = head
  BY <1>1 DEF TypeInv, Mission
<1>3. \A r \in Role \cup {"ORCHESTRATOR"} : /\ Handoff(RoleOf[step], r) \in Given
                                           /\ mission.role \in Role \cup {"ORCHESTRATOR"}
  BY <1>1 DEF TypeInv, Mission, Given, Handoff
<1>4. write \in Writes
  BY <1>2, <1>3 DEF Writes
<1>5. Keeps(candidate, mission)
  BY <1>2 DEF Keeps
<1>6. Aside(<< write >>, mission, story.status) /\ Aside(<< >>, mission, story.status)
  BY <1>5 DEF Aside, Saves
<1>7. CASE Begin(c, << >>) /\ issued' = issued \cup {Handoff(RoleOf[step], "ORCHESTRATOR")}
  BY <1>3, <1>6, <1>7, EmptySeq DEF Starts, Agenda, Route, TypeInv
<1>8. CASE Begin(c, << write >>) /\ UNCHANGED issued
  <2>1. << write >> \in Seq(Writes)
    BY <1>4
  <2> QED  BY <1>6, <1>8, <2>1 DEF Starts, Agenda, Route, TypeInv
<1> QED  BY <1>7, <1>8 DEF Route

LEMMA RouteToHumanStarts ==
    ASSUME TypeInv, NEW c \in Caller, RouteToHuman(c)
    PROVE  Starts(c)
<1> DEFINE m == BlockedBy(mission, "HUMAN_REQUIRED")
<1>1. m \in Mission /\ Keeps(m, mission)
  BY BlockedType DEF TypeInv, Mission, BlockedBy, Keeps
<1>2. Save(m) \in Writes /\ Save(m).value = m /\ Saves(Save(m))
  BY <1>1, SaveType DEF Save, Saves
<1>3. Aside(<< Save(m) >>, mission, story.status)
  BY <1>1, <1>2 DEF Aside
<1>4. << Save(m) >> \in Seq(Writes)
  BY <1>2
<1> QED  BY <1>3, <1>4 DEF Starts, Agenda, RouteToHuman, TypeInv

LEMMA ResumeStarts ==
    ASSUME TypeInv, NEW c \in Caller, ResumeAfterHuman(c)
    PROVE  Starts(c)
<1> DEFINE m == Advanced("ACT", mission.gen)
           t == << Do("approve"), Do("claim"), Save(m) >>
<1>1. m \in Mission /\ m.gen = mission.gen /\ m.step = "ACT"
  BY AdvancedType DEF TypeInv, Mission
<1>2. Save(m) \in Writes /\ Save(m).value = m /\ Saves(Save(m)) /\ Keeps(m, mission)
  BY <1>1, SaveType DEF Save, Saves, Keeps
<1>3. /\ Plain(Do("approve")) /\ Plain(Do("claim"))
      /\ ~Saves(Do("approve")) /\ ~Saves(Do("claim"))
  BY DEF Plain, Do, Saves
<1>4. t \in Seq(Writes)
  BY <1>2, DoType
<1>5. Aside(t, mission, story.status)
  <2>1. DOMAIN t = 1 .. 3 /\ t[1] = Do("approve") /\ t[2] = Do("claim") /\ t[3] = Save(m)
    OBVIOUS
  <2>2. \A i \in 1 .. 3 : i = 1 \/ i = 2 \/ i = 3
    OBVIOUS
  <2> HIDE DEF t, m
  <2> QED  BY <1>2, <1>3, <2>1, <2>2 DEF Aside
<1> QED  BY <1>4, <1>5 DEF Starts, Agenda, ResumeAfterHuman, TypeInv

(* The agendas of an accepted result.                                      *)
LEMMA ArchitectAgenda ==
    ASSUME TypeInv, NEW human \in BOOLEAN
    PROVE  /\ ArchitectWrites(human) \in Seq(Writes)
           /\ Aside(ArchitectWrites(human), mission, story.status)
<1> DEFINE m == Advanced("ACT", mission.gen)
           add == [do |-> "add", value |-> human, by |-> None]
<1>1. m \in Mission /\ m.gen = mission.gen /\ m.step = "ACT"
  BY AdvancedType DEF TypeInv, Mission
<1>2. Save(m) \in Writes /\ Save(m).value = m /\ Saves(Save(m)) /\ Keeps(m, mission)
  BY <1>1, SaveType DEF Save, Saves, Keeps
<1>3. /\ add \in Writes /\ Plain(add) /\ ~Saves(add)
      /\ Do("escalate") \in Writes /\ Plain(Do("escalate")) /\ ~Saves(Do("escalate"))
  BY AddType, DoType DEF Plain, Saves, Do
<1>4. \A w \in {"PLANNED", "READY", "IN_PROGRESS"} :
         To(w) \in Writes /\ Plain(To(w)) /\ ~Saves(To(w))
  BY ToType DEF Plain, Saves, To, Moves
<1> HIDE DEF m, add
<1>5. CASE human
  <2>1. ArchitectWrites(human)
          = << add, To("PLANNED"), To("READY"), Save(m), Do("escalate") >>
    BY <1>5 DEF ArchitectWrites, m, add
  <2>2. /\ ArchitectWrites(human) \in Seq(Writes) /\ Len(ArchitectWrites(human)) = 5
        /\ ArchitectWrites(human)[1] = add /\ ArchitectWrites(human)[2] = To("PLANNED")
        /\ ArchitectWrites(human)[3] = To("READY") /\ ArchitectWrites(human)[4] = Save(m)
        /\ ArchitectWrites(human)[5] = Do("escalate")
        /\ DOMAIN ArchitectWrites(human) = 1 .. 5
    BY <1>2, <1>3, <1>4, <2>1
  <2>3. \A i \in 1 .. 5 : i = 1 \/ i = 2 \/ i = 3 \/ i = 4 \/ i = 5
    OBVIOUS
  <2> QED  BY <1>2, <1>3, <1>4, <2>2, <2>3 DEF Aside
<1>6. CASE ~human
  <2>1. ArchitectWrites(human)
          = << add, To("PLANNED"), To("READY"), To("IN_PROGRESS"), Save(m) >>
    BY <1>6 DEF ArchitectWrites, m, add
  <2>2. /\ ArchitectWrites(human) \in Seq(Writes) /\ Len(ArchitectWrites(human)) = 5
        /\ ArchitectWrites(human)[1] = add /\ ArchitectWrites(human)[2] = To("PLANNED")
        /\ ArchitectWrites(human)[3] = To("READY") /\ ArchitectWrites(human)[5] = Save(m)
        /\ ArchitectWrites(human)[4] = To("IN_PROGRESS")
        /\ DOMAIN ArchitectWrites(human) = 1 .. 5
    BY <1>2, <1>3, <1>4, <2>1
  <2>3. \A i \in 1 .. 5 : i = 1 \/ i = 2 \/ i = 3 \/ i = 4 \/ i = 5
    OBVIOUS
  <2> QED  BY <1>2, <1>3, <1>4, <2>2, <2>3 DEF Aside
<1> QED  BY <1>5, <1>6

(* A remediation, of a mission m and a story that is not CERTIFIED.        *)
LEMMA ReopeningAgenda ==
    ASSUME NEW m \in Mission, m.step = "ACT", NEW n, NEW status, status # "CERTIFIED", NEW t,
           t = << To("REJECTED"), To("REMEDIATION_REQUIRED"), To("READY"), To("IN_PROGRESS"),
                  Save(m) >>
    PROVE  t \in Seq(Writes) /\ Aside(t, n, status)
<1>1. Save(m) \in Writes /\ Save(m).value = m /\ Saves(Save(m)) /\ Reopens(m, status)
  BY SaveType DEF Save, Saves, Reopens
<1>2. \A w \in {"REJECTED", "REMEDIATION_REQUIRED", "READY", "IN_PROGRESS"} :
         To(w) \in Writes /\ Plain(To(w)) /\ ~Saves(To(w))
  BY ToType DEF Plain, Saves, To, Moves
<1>3. /\ t \in Seq(Writes) /\ DOMAIN t = 1 .. 5
      /\ t[1] = To("REJECTED") /\ t[2] = To("REMEDIATION_REQUIRED") /\ t[3] = To("READY")
      /\ t[4] = To("IN_PROGRESS") /\ t[5] = Save(m)
  BY <1>1, <1>2
<1>4. \A i \in 1 .. 5 : i = 1 \/ i = 2 \/ i = 3 \/ i = 4 \/ i = 5
  OBVIOUS
<1> QED  BY <1>1, <1>2, <1>3, <1>4 DEF Aside

LEMMA BlockedAgenda ==
    ASSUME TypeInv, NEW r, NEW blocker \in {None, "HUMAN_REQUIRED", "OTHER"}
    PROVE  /\ BlockedWrites(r, blocker) \in Seq(Writes)
           /\ Aside(BlockedWrites(r, blocker), mission, story.status)
<1> DEFINE m == BlockedBy(mission, blocker)
<1>1. m \in Mission /\ Keeps(m, mission)
  BY BlockedType DEF TypeInv, Mission, BlockedBy, Keeps
<1>2. Save(m) \in Writes /\ Save(m).value = m /\ Saves(Save(m))
  BY <1>1, SaveType DEF Save, Saves
<1>3. To("BLOCKED") \in Writes /\ Plain(To("BLOCKED")) /\ ~Saves(To("BLOCKED"))
  BY ToType DEF Plain, Saves, To, Moves
<1> HIDE DEF m
<1>4. << To("BLOCKED"), Save(m) >> \in Seq(Writes) /\ << Save(m) >> \in Seq(Writes)
  BY <1>2, <1>3
<1>5. \A i \in 1 .. 2 : i = 1 \/ i = 2
  OBVIOUS
<1>6. /\ Aside(<< To("BLOCKED"), Save(m) >>, mission, story.status)
      /\ Aside(<< Save(m) >>, mission, story.status)
  BY <1>1, <1>2, <1>3, <1>5 DEF Aside
<1> QED  BY <1>4, <1>6 DEF BlockedWrites, m

(* The chain's agendas.                                                    *)
LEMMA ImplementerAgenda ==
    ASSUME TypeInv, NEW r \in Result, mission.step = "ACT", r.role = "IMPLEMENTER",
           r.gen = mission.gen, r.commit = mission.commit
    PROVE  /\ ImplementerWrites(r) \in Seq(Writes)
           /\ Implementing(ImplementerWrites(r), mission, chain)
<1> DEFINE m == Advanced("VERIFY", mission.gen)
<1>1. /\ m \in Mission /\ m.gen = mission.gen /\ m.step = "VERIFY"
      /\ m.commit = mission.commit
  BY AdvancedType DEF TypeInv, Mission
<1>2. Save(m) \in Writes /\ Entering(Save(m), "VERIFY", mission)
  BY <1>1, SaveType DEF Save, Saves, Entering
<1>3. /\ Accepting("IMPLEMENTED", r) \in Writes /\ To("TESTING") \in Writes
      /\ Accepting("IMPLEMENTED", r).do = "transition"
      /\ Accepting("IMPLEMENTED", r).value = "IMPLEMENTED"
      /\ Accepting("IMPLEMENTED", r).by = r
  BY AcceptingType, ToType DEF Accepts, Accepting
<1>4. r # None
  BY AbsentAssumption
<1>5. Of(Accepting("IMPLEMENTED", r), 1, mission)
  BY <1>3, <1>4 DEF Of, Order
<1> HIDE DEF m
<1>6. ImplementerWrites(r) = << Accepting("IMPLEMENTED", r), To("TESTING"), Save(m) >>
  BY DEF ImplementerWrites, m
<1> QED  BY <1>2, <1>3, <1>5, <1>6 DEF Implementing

LEMMA TesterAgenda ==
    ASSUME TypeInv, NEW r \in Result, mission.step = "VERIFY", r.role = "TESTER",
           r.gen = mission.gen, r.commit = mission.commit
    PROVE  /\ TesterWrites(r) \in Seq(Writes)
           /\ Chained(chain, 1, mission) =>
                 Reporting(TesterWrites(r), 2, "VERIFY", "REVIEW", "REPORT", mission, chain)
<1> DEFINE m == Advanced("REPORT", mission.gen)
<1>1. /\ m \in Mission /\ m.gen = mission.gen /\ m.step = "REPORT"
      /\ m.commit = mission.commit
  BY AdvancedType DEF TypeInv, Mission
<1>2. Save(m) \in Writes /\ Entering(Save(m), "REPORT", mission)
  BY <1>1, SaveType DEF Save, Saves, Entering
<1>3. /\ Accepting("REVIEW", r) \in Writes /\ Accepting("REVIEW", r).do = "transition"
      /\ Accepting("REVIEW", r).value = "REVIEW" /\ Accepting("REVIEW", r).by = r
  BY AcceptingType DEF Accepts, Accepting
<1>4. Of(Accepting("REVIEW", r), 2, mission)
  BY <1>3, AbsentAssumption DEF Of, Order
<1> HIDE DEF m
<1>5. TesterWrites(r) = << Accepting("REVIEW", r), Save(m) >>
  BY DEF TesterWrites, m
<1> QED  BY <1>2, <1>3, <1>4, <1>5 DEF Reporting

LEMMA ReviewerAgenda ==
    ASSUME TypeInv, NEW r \in Result, mission.step = "REPORT", r.role = "REVIEWER",
           r.gen = mission.gen, r.commit = mission.commit
    PROVE  /\ ReviewerWrites(r) \in Seq(Writes)
           /\ Chained(chain, 2, mission) =>
                 Reporting(ReviewerWrites(r), 3, "REPORT", "CERTIFICATION",
                           "CONTROLLED_TRANSITION", mission, chain)
<1> DEFINE m == Advanced("CONTROLLED_TRANSITION", mission.gen)
<1>1. /\ m \in Mission /\ m.gen = mission.gen /\ m.step = "CONTROLLED_TRANSITION"
      /\ m.commit = mission.commit
  BY AdvancedType DEF TypeInv, Mission
<1>2. Save(m) \in Writes /\ Entering(Save(m), "CONTROLLED_TRANSITION", mission)
  BY <1>1, SaveType DEF Save, Saves, Entering
<1>3. /\ Accepting("CERTIFICATION", r) \in Writes
      /\ Accepting("CERTIFICATION", r).do = "transition"
      /\ Accepting("CERTIFICATION", r).value = "CERTIFICATION"
      /\ Accepting("CERTIFICATION", r).by = r
  BY AcceptingType DEF Accepts, Accepting
<1>4. Of(Accepting("CERTIFICATION", r), 3, mission)
  BY <1>3, AbsentAssumption DEF Of, Order
<1> HIDE DEF m
<1>5. ReviewerWrites(r) = << Accepting("CERTIFICATION", r), Save(m) >>
  BY DEF ReviewerWrites, m
<1> QED  BY <1>2, <1>3, <1>4, <1>5 DEF Reporting

(* An accepted result: of the role and of the mission it is presented to.  *)
LEMMA AcceptStarts ==
    ASSUME TypeInv, NEW c \in Caller, NEW h \in issued, h.to \in Role, NEW r \in Report(h),
           NEW human \in BOOLEAN, NEW blocker \in {None, "HUMAN_REQUIRED", "OTHER"},
           Accept(c, h, r, human, blocker)
    PROVE  Starts(c)
<1>1. /\ h \in Given /\ r \in Result /\ r.role = h.to /\ r.gen = mission.gen
      /\ r.commit = mission.commit /\ mission.step = StepOf[h.to]
      /\ (r.role = "ARCHITECT" /\ r.verdict = "BLOCKED") \/ story.status = AssignableIn[h.to]
  BY DEF TypeInv, Given, Report, Result, Accept, StageOf, Assignable
<1>2. /\ Idle(c) /\ Consistent(r) /\ issued \subseteq Given
      /\ UNCHANGED << mission, story, head, issued, chain >>
      /\ mission.gen \in Nat
  BY DEF Accept, TypeInv, Mission
<1> SUFFICES \E t \in Seq(Writes) :
                /\ Begin(c, t)
                /\ Fitting(mission, story.status, chain)
                       => Agenda(t, mission, story.status, chain)
  BY <1>2 DEF Starts
<1>3. CASE r.verdict = "REMEDIATION"
  <2>1. Begin(c, Remediation) /\ r.role \in {"TESTER", "REVIEWER", "CERTIFIER"}
    <3>1. Begin(c, Remediation)
      BY <1>3 DEF Accept
    <3>2. r.role \in {"TESTER", "REVIEWER", "CERTIFIER"}
      BY <1>2, <1>3 DEF Consistent
    <3> QED  BY <3>1, <3>2
  <2>2. story.status # "CERTIFIED"
    BY <1>1, <2>1 DEF AssignableIn
  <2>3. /\ Advanced("ACT", mission.gen + 1) \in Mission
        /\ Advanced("ACT", mission.gen + 1).step = "ACT"
    <3>1. mission.gen + 1 \in Nat
      BY <1>2
    <3> QED  BY <3>1, AdvancedType DEF TypeInv
  <2>4. /\ Remediation \in Seq(Writes)
        /\ Aside(Remediation, mission, story.status)
    BY <2>2, <2>3, ReopeningAgenda DEF Remediation
  <2> QED  BY <2>1, <2>4 DEF Agenda
<1>4. CASE r.verdict = "BLOCKED"
  <2>1. Begin(c, BlockedWrites(r, blocker))
    BY <1>4 DEF Accept
  <2> QED  BY <2>1, BlockedAgenda DEF Agenda
<1>5. CASE r.verdict = "READY"
  <2>0. Begin(c, ReadyWrites(r, human))
    BY <1>5 DEF Accept
  <2>1. CASE r.role = "ARCHITECT"
    <3>1. ReadyWrites(r, human) = ArchitectWrites(human)
      BY <2>1 DEF ReadyWrites
    <3> QED  BY <2>0, <3>1, ArchitectAgenda DEF Agenda
  <2>2. CASE r.role = "IMPLEMENTER"
    <3>1. ReadyWrites(r, human) = ImplementerWrites(r) /\ mission.step = "ACT"
      BY <1>1, <2>2 DEF ReadyWrites, StepOf
    <3> QED  BY <1>1, <2>0, <2>2, <3>1, ImplementerAgenda DEF Agenda
  <2>3. CASE r.role = "TESTER"
    <3>1. /\ ReadyWrites(r, human) = TesterWrites(r) /\ mission.step = "VERIFY"
          /\ story.status = "TESTING"
      BY <1>1, <2>3 DEF ReadyWrites, StepOf, AssignableIn
    <3> QED  BY <1>1, <2>0, <2>3, <3>1, TesterAgenda DEF Agenda, Fitting
  <2>4. CASE r.role = "REVIEWER"
    <3>1. /\ ReadyWrites(r, human) = ReviewerWrites(r) /\ mission.step = "REPORT"
          /\ story.status = "REVIEW"
      BY <1>1, <2>4 DEF ReadyWrites, StepOf, AssignableIn
    <3> QED  BY <1>1, <2>0, <2>4, <3>1, ReviewerAgenda DEF Agenda, Fitting
  <2>5. CASE r.role = "CERTIFIER"
    <3>1. /\ ReadyWrites(r, human) = << Do("certify") >>
          /\ mission.step = "CONTROLLED_TRANSITION" /\ story.status = "CERTIFICATION"
      BY <1>1, <2>5 DEF ReadyWrites, StepOf, AssignableIn
    <3>2. << Do("certify") >> \in Seq(Writes)
      BY DoType
    <3>3. Fitting(mission, story.status, chain) =>
             Certifying(<< Do("certify") >>, mission, story.status, chain)
      BY <3>1 DEF Fitting, Certifying
    <3> QED  BY <2>0, <3>1, <3>2, <3>3 DEF Agenda
  <2>6. r.role \in {"ARCHITECT", "IMPLEMENTER", "TESTER", "REVIEWER", "CERTIFIER"}
    BY <1>1 DEF Role, StepOf
  <2> QED  BY <2>1, <2>2, <2>3, <2>4, <2>5, <2>6
<1> QED  BY <1>1, <1>3, <1>4, <1>5 DEF Result, Verdict

LEMMA PresentStarts ==
    ASSUME TypeInv, NEW c \in Caller, Present(c)
    PROVE  Starts(c)
<1>1. PICK h \in issued : h.to \in Role /\
        \E r \in Report(h) :
            \E human \in IF h.to = "ARCHITECT" THEN BOOLEAN ELSE {FALSE},
               blocker \in IF r.verdict = "BLOCKED" THEN {"HUMAN_REQUIRED", "OTHER"} ELSE {None} :
                Accept(c, h, r, human, blocker)
  BY DEF Present
<1>2. PICK r \in Report(h) :
            \E human \in IF h.to = "ARCHITECT" THEN BOOLEAN ELSE {FALSE},
               blocker \in IF r.verdict = "BLOCKED" THEN {"HUMAN_REQUIRED", "OTHER"} ELSE {None} :
                Accept(c, h, r, human, blocker)
  BY <1>1
<1>3. PICK human \in BOOLEAN, blocker \in {None, "HUMAN_REQUIRED", "OTHER"} :
         Accept(c, h, r, human, blocker)
  BY <1>2
<1> QED  BY <1>1, <1>3, AcceptStarts

-----------------------------------------------------------------------------
(* What one write leaves of an agenda.                                     *)

(* Chains and fitting only look at generation, commit and step.            *)
LEMMA ChainedSame ==
    ASSUME NEW ch, NEW k, NEW m, NEW n, n.gen = m.gen, n.commit = m.commit, Chained(ch, k, m)
    PROVE  Chained(ch, k, n)
  BY DEF Chained

LEMMA FittingMoved ==
    ASSUME NEW m, NEW ch, NEW status \in Moves \cup {"ABSENT", "PROPOSED"}
    PROVE  Fitting(m, status, ch)
  BY DEF Fitting, Moves

LEMMA FittingKept ==
    ASSUME NEW m, NEW n, NEW status, NEW ch, Fitting(m, status, ch),
           Keeps(n, m) \/ Reopens(n, status)
    PROVE  Fitting(n, status, ch)
  BY ChainedSame DEF Fitting, Keeps, Reopens

(* An agenda without a save fits into any mission.                         *)
LEMMA AsideTail ==
    ASSUME NEW t \in Seq(Writes), t # << >>, NEW m, NEW status, Aside(t, m, status)
    PROVE  /\ \A later : (later = "CERTIFIED" => status = "CERTIFIED")
                             => Aside(Tail(t), m, later)
           /\ Saves(Head(t)) => \A n, later : Aside(Tail(t), n, later)
<1>1. /\ Len(t) \in Nat \ {0} /\ Head(t) = t[1] /\ Tail(t) \in Seq(Writes)
      /\ DOMAIN t = 1 .. Len(t) /\ DOMAIN Tail(t) = 1 .. Len(t) - 1
      /\ \A i \in 1 .. Len(t) - 1 : Tail(t)[i] = t[i + 1]
  BY TailOfAgenda
<1>2. \A i \in DOMAIN Tail(t) : i + 1 \in DOMAIN t /\ Tail(t)[i] = t[i + 1] /\ i + 1 # 1
  BY <1>1
<1>3. ASSUME NEW later, later = "CERTIFIED" => status = "CERTIFIED"
      PROVE  Aside(Tail(t), m, later)
  <2>1. \A i \in DOMAIN Tail(t) :
           \/ Plain(Tail(t)[i])
           \/ /\ Saves(Tail(t)[i])
              /\ Keeps(Tail(t)[i].value, m) \/ Reopens(Tail(t)[i].value, later)
    BY <1>2, <1>3 DEF Aside, Reopens
  <2>2. \A i, j \in DOMAIN Tail(t) : Saves(Tail(t)[i]) /\ Saves(Tail(t)[j]) => i = j
    <3> TAKE i, j \in DOMAIN Tail(t)
    <3>1. HAVE Saves(Tail(t)[i]) /\ Saves(Tail(t)[j])
    <3>2. i + 1 = j + 1
      BY <1>2, <3>1 DEF Aside
    <3> QED  BY <1>1, <3>2
  <2> QED  BY <2>1, <2>2 DEF Aside
<1>4. ASSUME Saves(Head(t)), NEW n, NEW later
      PROVE  Aside(Tail(t), n, later)
  <2>1. 1 \in DOMAIN t
    BY <1>1
  <2>2. \A i \in DOMAIN Tail(t) : ~Saves(Tail(t)[i])
    BY <1>1, <1>2, <1>4, <2>1 DEF Aside
  <2>3. \A i \in DOMAIN Tail(t) : Plain(Tail(t)[i])
    BY <1>2, <2>2 DEF Aside
  <2> QED  BY <2>2, <2>3 DEF Aside
<1> QED  BY <1>3, <1>4

LEMMA EmptyAgenda == \A m, status, ch : Agenda(<< >>, m, status, ch)
  BY DEF Agenda, Aside

LEMMA ShortTail ==
    ASSUME NEW t \in Seq(Writes), t # << >>
    PROVE  /\ Head(t) = t[1] /\ 1 \in DOMAIN t
           /\ Len(t) = 1 => Tail(t) = << >>
           /\ Len(t) = 2 => Len(Tail(t)) = 1 /\ Tail(t)[1] = t[2]
           /\ Len(t) = 3 => Len(Tail(t)) = 2 /\ Tail(t)[1] = t[2] /\ Tail(t)[2] = t[3]
<1>1. /\ Len(t) \in Nat \ {0} /\ Tail(t) \in Seq(Writes) /\ Len(Tail(t)) = Len(t) - 1
  BY TailOfAgenda
<1>2. ASSUME Len(t) = 1
      PROVE  Tail(t) = << >>
  <2>1. Len(Tail(t)) = 0
    BY <1>1, <1>2
  <2> QED  BY <1>1, <2>1, EmptySeq
<1> QED  BY <1>2, TailOfAgenda

(* A plain write leaves the chain and its agenda alone.                    *)
LEMMA PlainWrite ==
    ASSUME NEW t \in Seq(Writes), t # << >>, NEW m, NEW status, NEW ch,
           Agenda(t, m, status, ch), Plain(Head(t)),
           NEW later, later = "CERTIFIED" => status = "CERTIFIED"
    PROVE  Agenda(Tail(t), m, later, ch)
<1>1. Head(t) = t[1]
  BY ShortTail
<1>2. ~Implementing(t, m, ch)
  BY <1>1 DEF Implementing, Plain, To, Entering, Saves, Moves
<1>3. /\ ~Reporting(t, 2, "VERIFY", "REVIEW", "REPORT", m, ch)
      /\ ~Reporting(t, 3, "REPORT", "CERTIFICATION", "CONTROLLED_TRANSITION", m, ch)
  BY <1>1 DEF Reporting, Plain, Entering, Saves, Moves
<1>4. ~Certifying(t, m, status, ch)
  BY <1>1 DEF Certifying, Plain, Entering, Saves, Do
<1> QED  BY <1>2, <1>3, <1>4, AsideTail DEF Agenda

(* A write of the mission keeps it fitting.                                *)
LEMMA SaveWrite ==
    ASSUME NEW t \in Seq(Writes), t # << >>, NEW m, NEW status, NEW ch,
           Fitting(m, status, ch), Agenda(t, m, status, ch), Saves(Head(t))
    PROVE  /\ Fitting(Head(t).value, status, ch)
           /\ Agenda(Tail(t), Head(t).value, status, ch)
<1>1. /\ Head(t) = t[1] /\ (Len(t) = 1 => Tail(t) = << >>)
      /\ Head(t).do \notin {"transition", "certify", "promote"}
  BY ShortTail DEF Saves
<1>2. CASE Aside(t, m, status)
  <2>1. Len(t) \in Nat \ {0} /\ DOMAIN t = 1 .. Len(t)
    BY TailOfAgenda
  <2>2. Keeps(Head(t).value, m) \/ Reopens(Head(t).value, status)
    BY <1>1, <1>2, <2>1 DEF Aside, Plain, Saves
  <2> QED  BY <1>2, <2>2, FittingKept, AsideTail DEF Agenda
<1>3. CASE Implementing(t, m, ch)
  <2>1. Len(t) = 1 /\ Entering(t[1], "VERIFY", m) /\ Chained(ch, 1, m)
    BY <1>1, <1>3 DEF Implementing, To
  <2> QED  BY <1>1, <2>1, ChainedSame, EmptyAgenda DEF Fitting, Entering
<1>4. CASE Reporting(t, 2, "VERIFY", "REVIEW", "REPORT", m, ch)
  <2>1. Len(t) = 1 /\ Entering(t[1], "REPORT", m) /\ Chained(ch, 2, m)
    BY <1>1, <1>4 DEF Reporting
  <2> QED  BY <1>1, <2>1, ChainedSame, EmptyAgenda DEF Fitting, Entering
<1>5. CASE Reporting(t, 3, "REPORT", "CERTIFICATION", "CONTROLLED_TRANSITION", m, ch)
  <2>1. Len(t) = 1 /\ Entering(t[1], "CONTROLLED_TRANSITION", m) /\ Chained(ch, 3, m)
    BY <1>1, <1>5 DEF Reporting
  <2> QED  BY <1>1, <2>1, ChainedSame, EmptyAgenda DEF Fitting, Entering
<1>6. CASE Certifying(t, m, status, ch)
  <2>1. Len(t) = 1 /\ Entering(t[1], "REPORT", m) /\ status = "CERTIFIED"
    BY <1>1, <1>6 DEF Certifying, Do
  <2> QED  BY <1>1, <2>1, EmptyAgenda DEF Fitting, Entering
<1> QED  BY <1>2, <1>3, <1>4, <1>5, <1>6 DEF Agenda

(* A transition that is not plain adds its result to the chain.            *)
Extended(ch, w) == IF w.by = None THEN ch
                   ELSE IF w.by.role = "IMPLEMENTER" THEN << w.by >> ELSE Append(ch, w.by)

LEMMA ChainedLonger ==
    ASSUME NEW ch \in Seq(Result), NEW k \in {2, 3}, NEW m, NEW w, Chained(ch, k - 1, m),
           Of(w, k, m)
    PROVE  Chained(Extended(ch, w), k, m)
<1>1. Extended(ch, w) = Append(ch, w.by) /\ w.by.role = Order[k]
  BY DEF Extended, Of, Order
<1>2. Len(Append(ch, w.by)) = k
  BY DEF Chained
<1>3. ASSUME NEW i \in 1 .. k
      PROVE  /\ Append(ch, w.by)[i].role = Order[i] /\ Append(ch, w.by)[i].gen = m.gen
             /\ Append(ch, w.by)[i].commit = m.commit
  <2>1. CASE i = k
    <3>1. Append(ch, w.by)[i] = w.by
      BY <2>1 DEF Chained
    <3> QED  BY <2>1, <3>1 DEF Of
  <2>2. CASE i # k
    <3>1. i \in 1 .. k - 1 /\ Append(ch, w.by)[i] = ch[i]
      BY <2>2 DEF Chained
    <3> QED  BY <3>1 DEF Chained
  <2> QED  BY <2>1, <2>2
<1> QED  BY <1>1, <1>2, <1>3 DEF Chained

LEMMA AcceptWrite ==
    ASSUME NEW t \in Seq(Writes), t # << >>, NEW m, NEW status, NEW ch \in Seq(Result),
           Agenda(t, m, status, ch), Head(t).do = "transition", ~Plain(Head(t))
    PROVE  /\ Fitting(m, Head(t).value, Extended(ch, Head(t)))
           /\ Agenda(Tail(t), m, Head(t).value, Extended(ch, Head(t)))
<1>1. /\ Head(t) = t[1] /\ 1 \in DOMAIN t
      /\ Len(t) = 2 => Len(Tail(t)) = 1 /\ Tail(t)[1] = t[2]
      /\ Len(t) = 3 => Len(Tail(t)) = 2 /\ Tail(t)[1] = t[2] /\ Tail(t)[2] = t[3]
  BY ShortTail
<1>2. ~Aside(t, m, status)
  BY <1>1 DEF Aside, Saves
<1>3. CASE Implementing(t, m, ch)
  <2>1. CASE /\ Len(t) = 3 /\ t[1].do = "transition" /\ t[1].value = "IMPLEMENTED"
             /\ Of(t[1], 1, m) /\ t[2] = To("TESTING") /\ Entering(t[3], "VERIFY", m)
    <3>1. Extended(ch, Head(t)) = << Head(t).by >>
      BY <1>1, <2>1 DEF Extended, Of, Order
    <3>2. Chained(<< Head(t).by >>, 1, m)
      BY <1>1, <2>1 DEF Chained, Of
    <3>3. Implementing(Tail(t), m, Extended(ch, Head(t)))
      <4>1. /\ Len(Tail(t)) = 2 /\ Tail(t)[1] = To("TESTING")
            /\ Entering(Tail(t)[2], "VERIFY", m)
        BY <1>1, <2>1
      <4> QED  BY <1>3, <3>1, <3>2, <4>1 DEF Implementing
    <3> QED  BY <1>1, <1>3, <2>1, <3>3 DEF Agenda, Fitting, Implementing
  <2>2. CASE /\ Len(t) = 2 /\ t[1] = To("TESTING") /\ Entering(t[2], "VERIFY", m)
             /\ Chained(ch, 1, m)
    <3>1. Extended(ch, Head(t)) = ch /\ Head(t).value = "TESTING"
      BY <1>1, <2>2 DEF Extended, To
    <3>2. Implementing(Tail(t), m, ch)
      <4>1. Len(Tail(t)) = 1 /\ Entering(Tail(t)[1], "VERIFY", m)
        BY <1>1, <2>2
      <4> QED  BY <1>3, <2>2, <4>1 DEF Implementing
    <3> QED  BY <2>2, <3>1, <3>2 DEF Agenda, Fitting
  <2> QED  BY <1>1, <1>3, <2>1, <2>2 DEF Implementing, Entering, Saves
<1>4. CASE Reporting(t, 2, "VERIFY", "REVIEW", "REPORT", m, ch)
  <2>1. /\ Len(t) = 2 /\ Head(t).value = "REVIEW" /\ Of(Head(t), 2, m) /\ m.step = "VERIFY"
        /\ Entering(t[2], "REPORT", m) /\ Chained(ch, 2 - 1, m)
    BY <1>1, <1>4 DEF Reporting, Entering, Saves
  <2>2. Chained(Extended(ch, Head(t)), 2, m)
    BY <2>1, ChainedLonger
  <2>3. Reporting(Tail(t), 2, "VERIFY", "REVIEW", "REPORT", m, Extended(ch, Head(t)))
    <3>1. Len(Tail(t)) = 1 /\ Entering(Tail(t)[1], "REPORT", m)
      BY <1>1, <2>1
    <3> QED  BY <2>1, <2>2, <3>1 DEF Reporting
  <2> QED  BY <2>1, <2>3 DEF Agenda, Fitting
<1>5. CASE Reporting(t, 3, "REPORT", "CERTIFICATION", "CONTROLLED_TRANSITION", m, ch)
  <2>1. /\ Len(t) = 2 /\ Head(t).value = "CERTIFICATION" /\ Of(Head(t), 3, m)
        /\ m.step = "REPORT" /\ Entering(t[2], "CONTROLLED_TRANSITION", m)
        /\ Chained(ch, 3 - 1, m)
    BY <1>1, <1>5 DEF Reporting, Entering, Saves
  <2>2. Chained(Extended(ch, Head(t)), 3, m)
    BY <2>1, ChainedLonger
  <2>3. Reporting(Tail(t), 3, "REPORT", "CERTIFICATION", "CONTROLLED_TRANSITION", m,
                  Extended(ch, Head(t)))
    <3>1. Len(Tail(t)) = 1 /\ Entering(Tail(t)[1], "CONTROLLED_TRANSITION", m)
      BY <1>1, <2>1
    <3> QED  BY <2>1, <2>2, <3>1 DEF Reporting
  <2> QED  BY <2>1, <2>3 DEF Agenda, Fitting
<1>6. CASE Certifying(t, m, status, ch)
  BY <1>1, <1>6 DEF Certifying, Do, Entering, Saves
<1> QED  BY <1>2, <1>3, <1>4, <1>5, <1>6 DEF Agenda

(* The Certification is the last of the chain, the promotion completes it. *)
LEMMA CertifyWrite ==
    ASSUME NEW t \in Seq(Writes), t # << >>, NEW m, NEW status, NEW ch,
           Agenda(t, m, status, ch), Head(t).do = "certify"
    PROVE  status = "CERTIFICATION" /\ Chained(ch, 3, m)
<1>1. Head(t) = t[1] /\ 1 \in DOMAIN t
  BY ShortTail
<1>2. ~Aside(t, m, status)
  BY <1>1 DEF Aside, Plain, Saves
<1>3. ~Implementing(t, m, ch)
  BY <1>1 DEF Implementing, To, Entering, Saves
<1>4. /\ ~Reporting(t, 2, "VERIFY", "REVIEW", "REPORT", m, ch)
      /\ ~Reporting(t, 3, "REPORT", "CERTIFICATION", "CONTROLLED_TRANSITION", m, ch)
  BY <1>1 DEF Reporting, Entering, Saves
<1> QED  BY <1>1, <1>2, <1>3, <1>4 DEF Agenda, Certifying, Do, Entering, Saves

LEMMA PromoteWrite ==
    ASSUME NEW t \in Seq(Writes), t # << >>, NEW m, NEW status, NEW ch,
           Agenda(t, m, status, ch), Head(t).do = "promote"
    PROVE  /\ Fitting(m, "CERTIFIED", ch) /\ Agenda(Tail(t), m, "CERTIFIED", ch)
<1>1. /\ Head(t) = t[1] /\ 1 \in DOMAIN t
      /\ Len(t) = 2 => Len(Tail(t)) = 1 /\ Tail(t)[1] = t[2]
  BY ShortTail
<1>2. ~Aside(t, m, status)
  BY <1>1 DEF Aside, Plain, Saves
<1>3. ~Implementing(t, m, ch)
  BY <1>1 DEF Implementing, To, Entering, Saves
<1>4. /\ ~Reporting(t, 2, "VERIFY", "REVIEW", "REPORT", m, ch)
      /\ ~Reporting(t, 3, "REPORT", "CERTIFICATION", "CONTROLLED_TRANSITION", m, ch)
  BY <1>1 DEF Reporting, Entering, Saves
<1>5. Len(t) = 2 /\ Entering(t[2], "REPORT", m) /\ Chained(ch, 3, m)
  BY <1>1, <1>2, <1>3, <1>4 DEF Agenda, Certifying, Do, Entering, Saves
<1>6. Fitting(m, "CERTIFIED", ch)
  BY <1>5 DEF Fitting, Chained
<1>7. Certifying(Tail(t), m, "CERTIFIED", ch)
  BY <1>1, <1>5 DEF Certifying
<1> QED  BY <1>6, <1>7 DEF Agenda

-----------------------------------------------------------------------------
(* The writes, in the states they are done in.                             *)

(* Seen from a call that is alone, the states fit and its agenda as well.  *)
Sound(c) ==
    /\ Fitting(mission, story.status, chain)
    /\ ~Idle(c) => /\ calls[c].mission = mission
                   /\ Agenda(calls[c].todo, mission, story.status, chain)

(* What every write of a call keeps.                                       *)
WriteKeeps(c) ==
    /\ TypeInv' /\ (Sound(c) => Sound(c)') /\ disturbed' = disturbed
    /\ \A d \in Caller \ {c} : calls'[d] = calls[d]

LEMMA CallFacts ==
    ASSUME CallsOK, NEW c \in Caller, ~Idle(c)
    PROVE  /\ calls[c].todo \in Seq(Writes) /\ calls[c].todo # << >>
           /\ Op(c) \in Writes /\ Rest(c) \in Seq(Writes) /\ calls[c].mission \in Mission
  BY TailOfAgenda DEF CallsOK, Idle, Op, Rest

(* A refused write ends the call and changes nothing.                      *)
LEMMA RaiseKeeps ==
    ASSUME TypeInv, NEW c \in Caller, Raise(c),
           UNCHANGED << mission, story, head, issued, chain >>
    PROVE  WriteKeeps(c)
<1>1. /\ CallsOK' /\ calls'[c].todo = << >>
      /\ \A d \in Caller \ {c} : calls'[d] = calls[d]
  BY RaiseFacts DEF Raise, TypeInv
<1> QED  BY <1>1 DEF WriteKeeps, TypeInv, Sound, Idle, Raise

(* A plain write, done or raised, of a story that is no farther after it.  *)
LEMMA PlainKeeps ==
    ASSUME TypeInv, NEW c \in Caller, ~Idle(c), Plain(Op(c)), Done(c),
           UNCHANGED << mission, head, issued, chain >>,
           story' \in [status : Stories, required : BOOLEAN, approved : BOOLEAN],
           story'.status \in Moves \cup {"PROPOSED", story.status}
    PROVE  WriteKeeps(c)
<1>1. /\ calls[c].todo \in Seq(Writes) /\ calls[c].todo # << >>
      /\ Rest(c) \in Seq(Writes) /\ calls[c].mission \in Mission
  BY CallFacts DEF TypeInv
<1>2. /\ CallsOK' /\ calls'[c].todo = Rest(c)
      /\ Rest(c) # << >> => calls'[c].mission = calls[c].mission
      /\ \A d \in Caller \ {c} : calls'[d] = calls[d]
  BY <1>1, GoesFacts DEF Done, TypeInv
<1>3. TypeInv'
  BY <1>2 DEF TypeInv
<1>4. ASSUME Sound(c)
      PROVE  Sound(c)'
  <2>1. Agenda(Rest(c), mission, story'.status, chain)
    BY <1>1, <1>4, PlainWrite DEF Sound, Rest, Op, Moves
  <2>2. Fitting(mission, story'.status, chain)
    BY <1>4, FittingMoved DEF Sound
  <2> QED  BY <1>2, <1>4, <2>1, <2>2 DEF Sound, Idle
<1> QED  BY <1>2, <1>3, <1>4 DEF WriteKeeps, Done

LEMMA AddKeeps ==
    ASSUME TypeInv, NEW c \in Caller, AddStory(c)
    PROVE  WriteKeeps(c)
<1>1. ~Idle(c) /\ Plain(Op(c)) /\ Op(c).do = "add"
  BY DEF AddStory, Doing, Plain
<1>2. Op(c).value \in BOOLEAN
  BY <1>1, CallFacts DEF TypeInv, Writes
<1>3. CASE story.status = "ABSENT"
  <2>1. /\ story' = [status |-> "PROPOSED", required |-> Op(c).value, approved |-> FALSE]
        /\ Done(c) /\ UNCHANGED << mission, head, issued, chain >>
    BY <1>3 DEF AddStory
  <2>2. /\ story' \in [status : Stories, required : BOOLEAN, approved : BOOLEAN]
        /\ story'.status = "PROPOSED"
    BY <1>2, <2>1 DEF Stories
  <2> QED  BY <1>1, <2>1, <2>2, PlainKeeps
<1>4. CASE story.status # "ABSENT"
  BY <1>4, RaiseKeeps DEF AddStory
<1> QED  BY <1>3, <1>4

LEMMA ApproveKeeps ==
    ASSUME TypeInv, NEW c \in Caller, Approve(c)
    PROVE  WriteKeeps(c)
<1>1. ~Idle(c) /\ Plain(Op(c))
  BY DEF Approve, Doing, Plain
<1>2. CASE NeedsHuman
  <2>1. /\ story' = [story EXCEPT !.approved = TRUE] /\ Done(c)
        /\ UNCHANGED << mission, head, issued, chain >>
    BY <1>2 DEF Approve
  <2>2. /\ story' \in [status : Stories, required : BOOLEAN, approved : BOOLEAN]
        /\ story'.status = story.status
    BY <2>1 DEF TypeInv
  <2> QED  BY <1>1, <2>1, <2>2, PlainKeeps
<1>3. CASE ~NeedsHuman
  BY <1>3, RaiseKeeps DEF Approve
<1> QED  BY <1>2, <1>3

LEMMA ClaimKeeps ==
    ASSUME TypeInv, NEW c \in Caller, Claim(c)
    PROVE  WriteKeeps(c)
<1>1. ~Idle(c) /\ Plain(Op(c)) /\ Done(c) /\ UNCHANGED << mission, head, issued, chain >>
  BY DEF Claim, Doing, Plain
<1>2. /\ story' \in [status : Stories, required : BOOLEAN, approved : BOOLEAN]
      /\ story'.status \in {"IN_PROGRESS", story.status}
  BY DEF Claim, TypeInv, Stories, Moves
<1> QED  BY <1>1, <1>2, PlainKeeps DEF Moves

LEMMA TransitionKeeps ==
    ASSUME TypeInv, NEW c \in Caller, Transition(c)
    PROVE  WriteKeeps(c)
<1>1. ~Idle(c) /\ Op(c).do = "transition" /\ UNCHANGED << mission, head, issued >>
  BY DEF Transition, Doing
<1>2. /\ calls[c].todo \in Seq(Writes) /\ calls[c].todo # << >> /\ Op(c) \in Writes
      /\ Rest(c) \in Seq(Writes) /\ calls[c].mission \in Mission
  BY <1>1, CallFacts DEF TypeInv
<1>3. Op(c).value \in Moves \cup Accepts /\ Op(c).by \in Result \cup {None}
  BY <1>1, <1>2 DEF Writes, Accepts
<1>4. CASE << story.status, Op(c).value >> \notin Allowed
  BY <1>1, <1>4, RaiseKeeps DEF Transition
<1>5. CASE << story.status, Op(c).value >> \in Allowed
  <2>1. /\ story' = [story EXCEPT !.status = Op(c).value] /\ Done(c)
        /\ chain' = Extended(chain, Op(c))
    BY <1>5 DEF Transition, Extended
  <2>2. /\ story' \in [status : Stories, required : BOOLEAN, approved : BOOLEAN]
        /\ story'.status = Op(c).value
    BY <1>3, <2>1 DEF TypeInv, Stories
  <2>3. CASE Plain(Op(c))
    <3>1. Op(c).value \in Moves /\ chain' = chain
      BY <1>1, <2>1, <2>3 DEF Plain, Extended
    <3> QED  BY <1>1, <2>1, <2>2, <2>3, <3>1, PlainKeeps
  <2>4. CASE ~Plain(Op(c))
    <3>1. /\ CallsOK' /\ calls'[c].todo = Rest(c)
          /\ Rest(c) # << >> => calls'[c].mission = calls[c].mission
          /\ \A d \in Caller \ {c} : calls'[d] = calls[d]
      BY <1>2, <2>1, GoesFacts DEF Done, TypeInv
    <3>2. chain' \in Seq(Result)
      BY <1>3, <2>1 DEF Extended, TypeInv
    <3>3. TypeInv'
      BY <1>1, <2>2, <3>1, <3>2 DEF TypeInv
    <3>4. ASSUME Sound(c)
          PROVE  Sound(c)'
      <4>1. /\ Fitting(mission, Op(c).value, chain')
            /\ Agenda(Rest(c), mission, Op(c).value, chain')
        BY <1>1, <1>2, <2>1, <2>4, <3>4, AcceptWrite DEF Sound, Rest, Op, TypeInv
      <4> QED  BY <1>1, <2>2, <3>1, <3>4, <4>1 DEF Sound, Idle
    <3> QED  BY <2>1, <3>1, <3>3, <3>4 DEF WriteKeeps, Done
  <2> QED  BY <2>3, <2>4
<1> QED  BY <1>4, <1>5

LEMMA SaveKeeps ==
    ASSUME TypeInv, NEW c \in Caller, SaveMission(c)
    PROVE  WriteKeeps(c)
<1>1. /\ ~Idle(c) /\ Saves(Op(c)) /\ UNCHANGED << story, head, chain >>
  BY DEF SaveMission, Doing, Saves
<1>2. /\ calls[c].todo \in Seq(Writes) /\ calls[c].todo # << >> /\ Op(c) \in Writes
      /\ Rest(c) \in Seq(Writes) /\ calls[c].mission \in Mission
  BY <1>1, CallFacts DEF TypeInv
<1>3. Op(c).value \in Mission /\ (Op(c).do = "route" => Op(c).by \in Given)
  BY <1>1, <1>2 DEF Writes, Saves
<1>4. CASE mission \notin {calls[c].mission, Op(c).value}
  BY <1>1, <1>4, RaiseKeeps DEF SaveMission
<1>5. CASE mission \in {calls[c].mission, Op(c).value}
  <2>1. /\ mission' = Op(c).value /\ Goes(c, Rest(c), Op(c).value) /\ disturbed' = disturbed
        /\ issued' = IF Op(c).do = "route" THEN issued \cup {Op(c).by} ELSE issued
    BY <1>5 DEF SaveMission
  <2>2. /\ CallsOK' /\ calls'[c].todo = Rest(c)
        /\ Rest(c) # << >> => calls'[c].mission = Op(c).value
        /\ \A d \in Caller \ {c} : calls'[d] = calls[d]
    BY <1>2, <1>3, <2>1, GoesFacts DEF TypeInv
  <2>3. TypeInv'
    BY <1>1, <1>3, <2>1, <2>2 DEF TypeInv
  <2>4. ASSUME Sound(c)
        PROVE  Sound(c)'
    <3>1. /\ Fitting(Op(c).value, story.status, chain)
          /\ Agenda(Rest(c), Op(c).value, story.status, chain)
      BY <1>1, <1>2, <2>4, SaveWrite DEF Sound, Rest, Op
    <3> QED  BY <1>1, <2>1, <2>2, <3>1 DEF Sound, Idle
  <2> QED  BY <2>1, <2>2, <2>3, <2>4 DEF WriteKeeps
<1> QED  BY <1>4, <1>5

LEMMA EscalateKeeps ==
    ASSUME TypeInv, NEW c \in Caller, Escalate(c)
    PROVE  WriteKeeps(c)
<1>1. /\ ~Idle(c) /\ Plain(Op(c)) /\ UNCHANGED << mission, story, head, issued, chain >>
  BY DEF Escalate, Doing, Plain
<1>2. CASE mission.status = "ACTIVE" /\ NeedsHuman
  <2> DEFINE m == BlockedBy(mission, "HUMAN_REQUIRED")
  <2>1. m \in Mission /\ Keeps(m, mission)
    BY BlockedType DEF TypeInv, Mission, BlockedBy, Keeps
  <2>2. /\ Save(m) \in Writes /\ Save(m).value = m /\ Saves(Save(m))
    BY <2>1, SaveType DEF Save, Saves
  <2>3. << Save(m) >> \in Seq(Writes)
    BY <2>2
  <2>4. Goes(c, << Save(m) >>, mission) /\ disturbed' = disturbed
    BY <1>2 DEF Escalate
  <2> HIDE DEF m
  <2>5. /\ CallsOK' /\ calls'[c].todo = << Save(m) >> /\ calls'[c].mission = mission
        /\ \A d \in Caller \ {c} : calls'[d] = calls[d]
    BY <2>3, <2>4, GoesFacts DEF TypeInv
  <2>6. Agenda(<< Save(m) >>, mission, story.status, chain)
    BY <2>1, <2>2 DEF Agenda, Aside
  <2> QED  BY <1>1, <2>4, <2>5, <2>6 DEF WriteKeeps, TypeInv, Sound, Idle
<1>3. CASE ~(mission.status = "ACTIVE" /\ NeedsHuman)
  BY <1>1, <1>3, PlainKeeps DEF Escalate, TypeInv
<1> QED  BY <1>2, <1>3

LEMMA PromoteKeeps ==
    ASSUME TypeInv, NEW c \in Caller, Promote(c)
    PROVE  WriteKeeps(c)
<1>1. /\ ~Idle(c) /\ Op(c).do = "promote" /\ UNCHANGED << mission, head, issued, chain >>
  BY DEF Promote, Doing
<1>2. /\ calls[c].todo \in Seq(Writes) /\ calls[c].todo # << >>
      /\ Rest(c) \in Seq(Writes) /\ calls[c].mission \in Mission
  BY <1>1, CallFacts DEF TypeInv
<1>3. CASE Raise(c) /\ UNCHANGED story
  BY <1>1, <1>3, RaiseKeeps
<1>4. CASE story' = [story EXCEPT !.status = "CERTIFIED"] /\ Done(c)
  <2>1. /\ CallsOK' /\ calls'[c].todo = Rest(c)
        /\ Rest(c) # << >> => calls'[c].mission = calls[c].mission
        /\ \A d \in Caller \ {c} : calls'[d] = calls[d]
    BY <1>2, <1>4, GoesFacts DEF Done, TypeInv
  <2>2. /\ story' \in [status : Stories, required : BOOLEAN, approved : BOOLEAN]
        /\ story'.status = "CERTIFIED"
    BY <1>4 DEF TypeInv, Stories
  <2>3. TypeInv'
    BY <1>1, <2>1, <2>2 DEF TypeInv
  <2>4. ASSUME Sound(c)
        PROVE  Sound(c)'
    <3>1. /\ Fitting(mission, "CERTIFIED", chain)
          /\ Agenda(Rest(c), mission, "CERTIFIED", chain)
      BY <1>1, <1>2, <2>4, PromoteWrite DEF Sound, Rest, Op
    <3> QED  BY <1>1, <2>1, <2>2, <2>4, <3>1 DEF Sound, Idle
  <2> QED  BY <1>4, <2>1, <2>3, <2>4 DEF WriteKeeps, Done
<1> QED  BY <1>3, <1>4 DEF Promote

(* What follows a Certification fits into the mission it was made for.     *)
LEMMA OutcomeAgenda ==
    ASSUME NEW m \in Mission, NEW status, NEW ch,
           NEW verdict \in {"CERTIFIED", "REJECTED", "BLOCKED"}
    PROVE  /\ OutcomeWrites(m, verdict) \in Seq(Writes)
           /\ OutcomeWrites(m, verdict) # << >>
           /\ status = "CERTIFICATION" /\ Chained(ch, 3, m)
                 => Agenda(OutcomeWrites(m, verdict), m, status, ch)
<1>1. CASE verdict = "CERTIFIED"
  <2> DEFINE n == [m EXCEPT !.status = "COMPLETED", !.step = "REPORT"]
  <2>1. n \in Mission /\ n.gen = m.gen /\ n.step = "REPORT" /\ n.commit = m.commit
    BY DEF Mission, RoleOf
  <2>2. Save(n) \in Writes /\ Entering(Save(n), "REPORT", m)
    BY <2>1, SaveType DEF Save, Saves, Entering
  <2>3. Do("promote") \in Writes
    BY DoType
  <2> HIDE DEF n
  <2>4. OutcomeWrites(m, verdict) = << Do("promote"), Save(n) >>
    BY <1>1 DEF OutcomeWrites, n
  <2>5. Chained(ch, 3, m) => Certifying(<< Do("promote"), Save(n) >>, m, status, ch)
    BY <2>2 DEF Certifying
  <2> QED  BY <2>2, <2>3, <2>4, <2>5 DEF Agenda
<1>2. CASE verdict = "REJECTED"
  <2> DEFINE n == [m EXCEPT !.role = "ORCHESTRATOR", !.step = "ACT", !.gen = @ + 1]
  <2>1. n \in Mission /\ n.step = "ACT"
    <3>1. m.gen + 1 \in Nat /\ "ACT" \in DOMAIN RoleOf
      BY DEF Mission, RoleOf
    <3> QED  BY <3>1 DEF Mission
  <2>2. OutcomeWrites(m, verdict)
          = << To("REJECTED"), To("REMEDIATION_REQUIRED"), To("READY"), To("IN_PROGRESS"),
               Save(n) >>
    BY <1>2 DEF OutcomeWrites
  <2> HIDE DEF n
  <2>3. /\ OutcomeWrites(m, verdict) \in Seq(Writes)
        /\ Aside(OutcomeWrites(m, verdict), m, "CERTIFICATION")
    BY <2>1, <2>2, ReopeningAgenda
  <2> QED  BY <2>2, <2>3 DEF Agenda
<1>3. CASE verdict = "BLOCKED"
  <2> DEFINE n == BlockedBy(m, "OTHER")
  <2>1. n \in Mission /\ Keeps(n, m)
    BY BlockedType DEF Mission, BlockedBy, Keeps
  <2>2. Save(n) \in Writes /\ Save(n).value = n /\ Saves(Save(n))
    BY <2>1, SaveType DEF Save, Saves
  <2>3. OutcomeWrites(m, verdict) = << Save(n) >>
    BY <1>3 DEF OutcomeWrites
  <2> HIDE DEF n
  <2>4. Aside(<< Save(n) >>, m, status)
    BY <2>1, <2>2 DEF Aside
  <2> QED  BY <2>2, <2>3, <2>4 DEF Agenda
<1> QED  BY <1>1, <1>2, <1>3

LEMMA CertifyKeeps ==
    ASSUME TypeInv, NEW c \in Caller, NEW verdict \in {"CERTIFIED", "REJECTED", "BLOCKED"},
           Certify(c, verdict)
    PROVE  WriteKeeps(c)
<1> DEFINE t == OutcomeWrites(calls[c].mission, verdict)
<1>1. /\ ~Idle(c) /\ Op(c).do = "certify" /\ Goes(c, t, calls[c].mission)
      /\ UNCHANGED << mission, story, head, issued, chain, disturbed >>
  BY DEF Certify, Doing, Instead
<1>2. /\ calls[c].todo \in Seq(Writes) /\ calls[c].todo # << >>
      /\ calls[c].mission \in Mission
  BY <1>1, CallFacts DEF TypeInv
<1>3. t \in Seq(Writes) /\ t # << >>
  BY <1>2, OutcomeAgenda
<1>4. /\ CallsOK' /\ calls'[c].todo = t /\ calls'[c].mission = calls[c].mission
      /\ \A d \in Caller \ {c} : calls'[d] = calls[d]
  BY <1>1, <1>2, <1>3, GoesFacts DEF TypeInv
<1>5. TypeInv'
  BY <1>1, <1>4 DEF TypeInv
<1>6. ASSUME Sound(c)
      PROVE  Sound(c)'
  <2>1. story.status = "CERTIFICATION" /\ Chained(chain, 3, mission)
    BY <1>1, <1>2, <1>6, CertifyWrite DEF Sound, Op
  <2>2. calls[c].mission = mission
    BY <1>1, <1>6 DEF Sound
  <2>3. Agenda(t, mission, story.status, chain)
    BY <1>2, <2>1, <2>2, OutcomeAgenda
  <2> HIDE DEF t
  <2> QED  BY <1>1, <1>4, <1>6, <2>2, <2>3 DEF Sound, Idle
<1> QED  BY <1>1, <1>4, <1>5, <1>6 DEF WriteKeeps

LEMMA EveryWriteKeeps ==
    ASSUME TypeInv, NEW c \in Caller, Write(c)
    PROVE  ~Idle(c) /\ WriteKeeps(c)
<1>1. ~Idle(c)
  BY DEF Write, AddStory, Transition, SaveMission, Escalate, Approve, Claim, Promote, Certify,
         Doing
<1>2. CASE AddStory(c)  BY <1>1, <1>2, AddKeeps
<1>3. CASE Transition(c)  BY <1>1, <1>3, TransitionKeeps
<1>4. CASE SaveMission(c)  BY <1>1, <1>4, SaveKeeps
<1>5. CASE Escalate(c)  BY <1>1, <1>5, EscalateKeeps
<1>6. CASE Approve(c)  BY <1>1, <1>6, ApproveKeeps
<1>7. CASE Claim(c)  BY <1>1, <1>7, ClaimKeeps
<1>8. CASE Promote(c)  BY <1>1, <1>8, PromoteKeeps
<1>9. CASE \E verdict \in {"CERTIFIED", "REJECTED", "BLOCKED"} : Certify(c, verdict)
  BY <1>1, <1>9, CertifyKeeps
<1> QED  BY <1>1, <1>2, <1>3, <1>4, <1>5, <1>6, <1>7, <1>8, <1>9 DEF Write
-----------------------------------------------------------------------------
(* The invariant of every step.                                            *)

SequentialInv == TypeInv /\ ChainInv

LEMMA InitHolds == Init => SequentialInv
<1> SUFFICES ASSUME Init PROVE SequentialInv
  OBVIOUS
<1>1. /\ mission \in Mission /\ mission.step = "UNDERSTAND_CONTRACT"
      /\ story \in [status : Stories, required : BOOLEAN, approved : BOOLEAN]
      /\ story.status = "ABSENT"
  BY DEF Init, Mission, RoleOf, Stories
<1>2. CallsOK /\ \A c \in Caller : Idle(c)
  BY EmptySeq DEF Init, CallsOK, NoCall, Idle
<1>3. chain \in Seq(Result) /\ head \in Nat /\ issued \subseteq Given
  BY EmptySeq DEF Init
<1> QED  BY <1>1, <1>2, <1>3, FittingMoved DEF SequentialInv, TypeInv, ChainInv

(* A call that starts alone finds the states fitting.                      *)
LEMMA StartKeeps ==
    ASSUME SequentialInv, NEW c \in Caller, Starts(c)
    PROVE  SequentialInv'
<1>1. PICK t \in Seq(Writes) :
        /\ Idle(c) /\ Begin(c, t)
        /\ Fitting(mission, story.status, chain) => Agenda(t, mission, story.status, chain)
        /\ issued' \subseteq Given /\ UNCHANGED << mission, story, head, chain >>
  BY DEF Starts
<1>2. Goes(c, t, mission) /\ mission \in Mission /\ CallsOK
  BY <1>1 DEF Begin, SequentialInv, TypeInv
<1>3. /\ CallsOK' /\ calls'[c].todo = t /\ (t # << >> => calls'[c].mission = mission)
      /\ \A d \in Caller \ {c} : calls'[d] = calls[d]
  BY <1>2, GoesFacts
<1>4. TypeInv'
  BY <1>1, <1>3 DEF SequentialInv, TypeInv
<1>5. ASSUME Serial'
      PROVE  /\ Serial /\ \A d \in Caller \ {c} : Idle(d)
  BY <1>1, <1>5 DEF Begin, Serial
<1>6. ASSUME Serial'
      PROVE  /\ Fitting(mission, story.status, chain)'
             /\ \A d, e \in Caller : ~Idle(d)' /\ ~Idle(e)' => d = e
             /\ \A d \in Caller : ~Idle(d)' =>
                   /\ calls'[d].mission = mission'
                   /\ Agenda(calls'[d].todo, mission', story'.status, chain')
  <2>1. Fitting(mission, story.status, chain)
    BY <1>5, <1>6 DEF SequentialInv, ChainInv
  <2>2. \A d \in Caller : ~Idle(d)' => d = c
    BY <1>3, <1>5, <1>6 DEF Idle
  <2> QED  BY <1>1, <1>3, <2>1, <2>2 DEF Idle
<1> QED  BY <1>4, <1>6 DEF SequentialInv, ChainInv

LEMMA WritesKeep ==
    ASSUME SequentialInv, NEW c \in Caller, Write(c)
    PROVE  SequentialInv'
<1>1. ~Idle(c) /\ WriteKeeps(c)
  BY EveryWriteKeeps DEF SequentialInv
<1>2. ASSUME Serial'
      PROVE  /\ Fitting(mission, story.status, chain)'
             /\ \A d, e \in Caller : ~Idle(d)' /\ ~Idle(e)' => d = e
             /\ \A d \in Caller : ~Idle(d)' =>
                   /\ calls'[d].mission = mission'
                   /\ Agenda(calls'[d].todo, mission', story'.status, chain')
  <2>1. Serial
    BY <1>1, <1>2 DEF WriteKeeps, Serial
  <2>2. Sound(c) /\ \A d \in Caller \ {c} : Idle(d)
    BY <1>1, <2>1 DEF SequentialInv, ChainInv, Sound
  <2>3. Sound(c)' /\ \A d \in Caller : ~Idle(d)' => d = c
    BY <1>1, <2>2 DEF WriteKeeps, Idle
  <2> QED  BY <2>3 DEF Sound
<1> QED  BY <1>1, <1>2 DEF WriteKeeps, SequentialInv, ChainInv

LEMMA CrashKeeps ==
    ASSUME SequentialInv, NEW c \in Caller, Crash(c)
    PROVE  SequentialInv'
<1>1. /\ CallsOK' /\ calls'[c].todo = << >>
      /\ \A d \in Caller \ {c} : calls'[d] = calls[d]
  BY RaiseFacts DEF Crash, SequentialInv, TypeInv
<1>2. TypeInv'
  BY <1>1 DEF Crash, SequentialInv, TypeInv
<1>3. Serial' => Serial
  BY DEF Crash, Serial
<1>4. \A d \in Caller : ~Idle(d)' => ~Idle(d) /\ calls'[d] = calls[d]
  BY <1>1 DEF Idle
<1> QED  BY <1>2, <1>3, <1>4 DEF Crash, SequentialInv, ChainInv

LEMMA StepKeeps == SequentialInv /\ [Next]_vars => SequentialInv'
<1> SUFFICES ASSUME SequentialInv, [Next]_vars PROVE SequentialInv'
  OBVIOUS
<1>1. CASE MoveHead
  <2>1. TypeInv'
    BY <1>1 DEF MoveHead, SequentialInv, TypeInv, CallsOK, Idle
  <2>2. Serial' => Serial
    BY <1>1 DEF MoveHead, Serial
  <2> QED  BY <1>1, <2>1, <2>2 DEF MoveHead, SequentialInv, ChainInv, Idle
<1>2. ASSUME NEW c \in Caller,
             Route(c) \/ RouteToHuman(c) \/ Present(c) \/ ResumeAfterHuman(c)
      PROVE  SequentialInv'
  BY <1>2, RouteStarts, RouteToHumanStarts, PresentStarts, ResumeStarts, StartKeeps
     DEF SequentialInv
<1>3. ASSUME NEW c \in Caller, Write(c) \/ Crash(c)
      PROVE  SequentialInv'
  BY <1>3, WritesKeep, CrashKeeps
<1>4. CASE UNCHANGED vars
  BY <1>4 DEF vars, SequentialInv, TypeInv, CallsOK, ChainInv, Serial, Idle
<1> QED  BY <1>1, <1>2, <1>3, <1>4 DEF Next

LEMMA InvHolds == Spec => []SequentialInv
<1>1. Init => SequentialInv
  BY InitHolds
<1>2. SequentialInv /\ [Next]_vars => SequentialInv'
  BY StepKeeps
<1> QED  BY <1>1, <1>2, PTL DEF Spec

(* The mission, the story and the agendas of the calls keep their types.   *)
THEOREM TypesHold == Spec => []TypeInv
<1>1. SequentialInv => TypeInv
  BY DEF SequentialInv
<1> QED  BY <1>1, InvHolds, PTL

(* As long as no two calls overlapped, as the command line sees to with its *)
(* lock: a story is CERTIFIED on one implementation, one test report and   *)
(* one review of the mission's own generation, whatever old results were   *)
(* brought, wherever calls died and however HEAD moved.                    *)
THEOREM OneChainCertifies == Spec => [](Serial => CertifiedOnOneChain)
<1>1. SequentialInv => (Serial => CertifiedOnOneChain)
  BY DEF SequentialInv, ChainInv, Fitting, CertifiedOnOneChain, Order
<1> QED  BY <1>1, InvHolds, PTL

(* In two states that disagree no result is accepted, for no stage expects *)
(* the story where it is: a call only ever blocks or routes the mission,   *)
(* whatever happened before.                                               *)
Steady(t) == \A i \in DOMAIN t : t[i].do \in {"save", "route"} /\ t[i].value.gen = mission.gen

LEMMA SteadyOne ==
    ASSUME NEW w, w.do \in {"save", "route"}, w.value.gen = mission.gen
    PROVE  Steady(<< w >>)
  BY DEF Steady

LEMMA QuietGoes ==
    ASSUME TypeInv, Quiet, NEW c \in Caller, NEW t \in Seq(Writes), Begin(c, t), Steady(t)
    PROVE  \A d \in Caller : \A i \in DOMAIN calls'[d].todo :
               /\ calls'[d].todo[i].do \in {"save", "route"}
               /\ calls'[d].todo[i].value.gen = mission.gen
<1>1. calls'[c].todo = t /\ \A d \in Caller \ {c} : calls'[d] = calls[d]
  BY GoesFacts DEF Begin, TypeInv
<1>2. \A d \in Caller \ {c} : DOMAIN calls'[d].todo = {}
  BY <1>1 DEF Quiet, Idle
<1> QED  BY <1>1, <1>2 DEF Steady

LEMMA DivergenceStep ==
    ASSUME TypeInv, [Next]_vars, Quiet, mission.status = "ACTIVE", ~Agrees
    PROVE  \A c \in Caller : \A i \in DOMAIN calls'[c].todo :
               /\ calls'[c].todo[i].do \in {"save", "route"}
               /\ calls'[c].todo[i].value.gen = mission.gen
<1>1. mission \in Mission
  BY DEF TypeInv
<1>2. Steady(<< >>) /\ << >> \in Seq(Writes)
  BY EmptySeq DEF Steady
<1>3. CASE MoveHead \/ UNCHANGED vars
  BY <1>3 DEF MoveHead, vars, Quiet, Idle
<1>4. ASSUME NEW c \in Caller, Write(c) \/ Crash(c)
      PROVE  FALSE
  BY <1>4, EveryWriteKeeps DEF Crash, Quiet
<1>5. ASSUME NEW c \in Caller, Route(c)
      PROVE  \E t \in Seq(Writes) : Begin(c, t) /\ Steady(t)
  <2> DEFINE step == IF head = mission.commit THEN mission.step ELSE "RECONSTRUCT"
             candidate == [mission EXCEPT !.role = RoleOf[step], !.step = step, !.commit = head]
             write == [do |-> "route", value |-> candidate,
                       by |-> Handoff(RoleOf[step], mission.role)]
  <2>1. Begin(c, << >>) \/ Begin(c, << write >>)
    BY <1>5 DEF Route
  <2>2. write.do = "route" /\ write.value.gen = mission.gen
    BY <1>1 DEF Mission
  <2>3. Steady(<< write >>)
    <3> HIDE DEF write
    <3> QED  BY <2>2, SteadyOne
  <2>4. << write >> \in Seq(Writes)
    <3>1. step \in DOMAIN RoleOf /\ RoleOf[step] \in Role \cup {"ORCHESTRATOR"}
      BY <1>1 DEF Mission, RoleOf, Role, StepOf
    <3>2. candidate \in Mission /\ Handoff(RoleOf[step], mission.role) \in Given
      BY <1>1, <3>1 DEF TypeInv, Mission, Given, Handoff
    <3> QED  BY <3>2 DEF Writes
  <2> QED  BY <1>2, <2>1, <2>3, <2>4
<1>6. ASSUME NEW c \in Caller, RouteToHuman(c)
      PROVE  \E t \in Seq(Writes) : Begin(c, t) /\ Steady(t)
  <2> DEFINE m == BlockedBy(mission, "HUMAN_REQUIRED")
  <2>1. m \in Mission /\ m.gen = mission.gen
    BY <1>1, BlockedType DEF Mission, BlockedBy
  <2>2. Save(m) \in Writes /\ Save(m).do = "save" /\ Save(m).value = m
    BY <2>1, SaveType DEF Save
  <2>3. << Save(m) >> \in Seq(Writes) /\ Steady(<< Save(m) >>)
    BY <2>1, <2>2 DEF Steady
  <2> QED  BY <1>6, <2>3 DEF RouteToHuman
<1>7. ASSUME NEW c \in Caller, Present(c)
      PROVE  \E t \in Seq(Writes) : Begin(c, t) /\ Steady(t)
  <2>1. PICK h \in issued : h.to \in Role /\
          \E r \in Report(h) :
            \E human \in BOOLEAN, blocker \in {None, "HUMAN_REQUIRED", "OTHER"} :
                Accept(c, h, r, human, blocker)
    BY <1>7 DEF Present
  <2>2. PICK r \in Report(h), human \in BOOLEAN, blocker \in {None, "HUMAN_REQUIRED", "OTHER"} :
          Accept(c, h, r, human, blocker)
    BY <2>1
  <2>3. RoleOf[mission.step] = h.to
    BY <2>1, <2>2 DEF Accept, StageOf, RoleOf, StepOf, Role
  <2>4. r.role = "ARCHITECT" /\ r.verdict = "BLOCKED"
    BY <2>2, <2>3 DEF Accept, Assignable, Agrees, Report
  <2> DEFINE m == BlockedBy(mission, blocker)
  <2>5. Begin(c, << Save(m) >>)
    BY <2>2, <2>4 DEF Accept, BlockedWrites
  <2>6. m \in Mission /\ m.gen = mission.gen
    BY <1>1, BlockedType DEF Mission, BlockedBy
  <2>7. Save(m) \in Writes /\ Save(m).do = "save" /\ Save(m).value = m
    BY <2>6, SaveType DEF Save
  <2>8. << Save(m) >> \in Seq(Writes) /\ Steady(<< Save(m) >>)
    BY <2>6, <2>7 DEF Steady
  <2> QED  BY <2>5, <2>8
<1>8. ASSUME NEW c \in Caller, ResumeAfterHuman(c)
      PROVE  FALSE
  BY <1>8 DEF ResumeAfterHuman
<1> QED  BY <1>3, <1>4, <1>5, <1>6, <1>7, <1>8, QuietGoes DEF Next

(* Once the two states disagree and no call is running, whatever a call is *)
(* made for next has no write of the story to do and keeps the generation. *)
THEOREM DivergenceIsFinal == Spec => DivergenceStops
<1>1. TypeInv /\ [Next]_vars =>
        [Quiet /\ mission.status = "ACTIVE" /\ ~Agrees =>
           \A c \in Caller : \A i \in DOMAIN calls'[c].todo :
               /\ calls'[c].todo[i].do \in {"save", "route"}
               /\ calls'[c].todo[i].value.gen = mission.gen]_vars
  BY DivergenceStep
<1> QED  BY <1>1, TypesHold, PTL DEF Spec, DivergenceStops

---------------------------------------------------------------------------
(* The results of the roles.                                               *)

ImplementerAccepted ==
    /\ implementer \in ImplementerReport /\ implementer.bound
    /\ ValidImplementer(implementer) /\ implementer.verdict = "READY_FOR_TEST"

TesterAccepted ==
    /\ tester \in TesterReport /\ tester.bound /\ NonMutating(tester)
    /\ ValidTester(tester) /\ tester.verdict = "READY_FOR_REVIEW"

ReviewerAccepted ==
    /\ reviewer \in ReviewerReport /\ reviewer.bound
    /\ ValidReviewer(reviewer) /\ reviewer.verdict = "READY_FOR_CERTIFICATION"

CertifierAccepted ==
    /\ ValidCertifier(dossier, certifier)
    /\ certifier.verdict = "READY_FOR_CONTROL_PLANE"

Stages == {"IN_PROGRESS", "TESTING", "REVIEW", "CERTIFICATION", "READY_FOR_CONTROL_PLANE",
           "REMEDIATION_REQUIRED", "BLOCKED"}

(* Where the story stands, everybody before was accepted.                  *)
RolesInv ==
    /\ stage \in Stages
    /\ stage \in {"TESTING", "REVIEW", "CERTIFICATION", "READY_FOR_CONTROL_PLANE"} => ImplementerAccepted
    /\ stage \in {"REVIEW", "CERTIFICATION", "READY_FOR_CONTROL_PLANE"} => TesterAccepted /\ dirty = {}
    /\ stage \in {"CERTIFICATION", "READY_FOR_CONTROL_PLANE"} => ReviewerAccepted
    /\ stage = "READY_FOR_CONTROL_PLANE" => CertifierAccepted

LEMMA RolesStart == RolesInit => RolesInv
  BY DEF RolesInit, RolesInv, Stages

LEMMA ImplementKeeps == RolesInv /\ Implement => RolesInv'
<1> SUFFICES ASSUME RolesInv, Implement PROVE RolesInv'
  OBVIOUS
<1>1. PICK r \in ImplementerReport :
          /\ ValidImplementer(r) /\ r.bound /\ implementer' = r
          /\ stage' = AfterVerdict(r.verdict, "TESTING")
  BY DEF Implement, Intake
<1>2. CASE r.verdict = "READY_FOR_TEST"
  <2>1. ImplementerAccepted'
    BY <1>1, <1>2 DEF ImplementerAccepted, ValidImplementer, ImplementerContract
  <2>2. stage' = "TESTING"
    BY <1>1, <1>2 DEF AfterVerdict
  <2> QED  BY <2>1, <2>2 DEF RolesInv, Stages
<1>3. CASE r.verdict = "BLOCKED"
  <2>1. stage' = "BLOCKED"
    BY <1>1, <1>3 DEF AfterVerdict
  <2> QED  BY <2>1 DEF RolesInv, Stages
<1> QED  BY <1>1, <1>2, <1>3, ReportAssumption DEF ImplementerVerdict

LEMMA TestKeeps == RolesInv /\ Test => RolesInv'
<1> SUFFICES ASSUME RolesInv, Test PROVE RolesInv'
  OBVIOUS
<1>1. /\ stage = "TESTING" /\ implementer' = implementer /\ ImplementerAccepted
  BY DEF Test, RolesInv
<1>2. ImplementerAccepted'
  BY <1>1 DEF ImplementerAccepted
<1>3. PICK r \in TesterReport :
          /\ ValidTester(r) /\ r.bound
          /\ \E seen \in Seen(r.files) : GitConsistent("TESTER", r.files, seen) /\ dirty' = seen.changed
          /\ IF NonMutating(r)
             THEN tester' = r /\ stage' = AfterVerdict(r.verdict, "REVIEW")
             ELSE UNCHANGED << tester, stage >>
  BY DEF Test, Intake
<1>4. CASE ~NonMutating(r)
  BY <1>1, <1>2, <1>3, <1>4 DEF RolesInv, Stages
<1>5. CASE NonMutating(r) /\ r.verdict = "READY_FOR_REVIEW"
  <2>1. dirty' = {}
    BY <1>3, <1>5 DEF NonMutating, GitConsistent, ReadOnly, Paths
  <2>2. stage' = "REVIEW" /\ TesterAccepted'
    BY <1>3, <1>5 DEF AfterVerdict, TesterAccepted
  <2> QED  BY <1>2, <2>1, <2>2 DEF RolesInv, Stages
<1>6. CASE NonMutating(r) /\ r.verdict # "READY_FOR_REVIEW"
  <2>1. stage' \in {"BLOCKED", "REMEDIATION_REQUIRED"}
    BY <1>3, <1>6, ReportAssumption DEF AfterVerdict, TesterVerdict
  <2> QED  BY <2>1 DEF RolesInv, Stages
<1> QED  BY <1>4, <1>5, <1>6

LEMMA ReviewKeeps == RolesInv /\ Review => RolesInv'
<1> SUFFICES ASSUME RolesInv, Review PROVE RolesInv'
  OBVIOUS
<1>1. /\ stage = "REVIEW" /\ UNCHANGED << dirty, implementer, tester >>
      /\ ImplementerAccepted /\ TesterAccepted /\ dirty = {}
  BY DEF Review, RolesInv
<1>2. ImplementerAccepted' /\ TesterAccepted' /\ dirty' = {}
  BY <1>1 DEF ImplementerAccepted, TesterAccepted
<1>3. PICK r \in ReviewerReport :
          /\ ValidReviewer(r) /\ r.bound /\ reviewer' = r
          /\ stage' = AfterVerdict(r.verdict, "CERTIFICATION")
  BY DEF Review, Intake
<1>4. CASE r.verdict = "READY_FOR_CERTIFICATION"
  <2>1. stage' = "CERTIFICATION"
    BY <1>3, <1>4 DEF AfterVerdict
  <2>2. ReviewerAccepted'
    BY <1>1, <1>3, <1>4 DEF ReviewerAccepted, ValidReviewer, ReviewCovers, Artifacts
  <2> QED  BY <1>2, <2>1, <2>2 DEF RolesInv, Stages
<1>5. CASE r.verdict # "READY_FOR_CERTIFICATION"
  <2>1. stage' \in {"BLOCKED", "REMEDIATION_REQUIRED"}
    BY <1>3, <1>5, ReportAssumption DEF AfterVerdict, ReviewerVerdict
  <2> QED  BY <2>1 DEF RolesInv, Stages
<1> QED  BY <1>4, <1>5

(* What is true of a dossier depends on the accepted results alone.        *)
LEMMA DossierTruthStays ==
    ASSUME UNCHANGED << implementer, tester, reviewer >>, NEW d, NEW r, ValidCertifier(d, r)
    PROVE  ValidCertifier(d, r)'
<1>1. ArtifactsCoherent(d)' = ArtifactsCoherent(d)
  BY DEF ArtifactsCoherent, ImplementerCoherent, TesterCoherent, ReviewerCoherent
<1>2. \A c : Tested(c)' = Tested(c)
  BY DEF Tested
<1>3. \A c, e : Supports(d, c, e)' <=> Supports(d, c, e)
  BY <1>2 DEF Supports
<1>4. TellsTheTruth(d, r)'
  <2>1. TellsTheTruth(d, r)
    BY DEF ValidCertifier
  <2>2. r.artifacts = ArtifactsCoherent(d)'
    BY <1>1, <2>1 DEF TellsTheTruth
  <2>3. \A c \in Criterion :
            /\ r.acceptance[c].result = Tested(c)'
            /\ \A e \in r.acceptance[c].refs \intersect DOMAIN d.evidence : Supports(d, c, e)'
    BY <1>2, <1>3, <2>1 DEF TellsTheTruth
  <2> QED  BY <2>1, <2>2, <2>3 DEF TellsTheTruth
<1>5. CertifierVerdictHolds(d, r)'
  BY <1>1, <1>2 DEF ValidCertifier, CertifierVerdictHolds, Ready
<1> QED  BY <1>4, <1>5 DEF ValidCertifier

LEMMA CertifyStoryKeeps == RolesInv /\ CertifyStory => RolesInv'
<1> SUFFICES ASSUME RolesInv, CertifyStory PROVE RolesInv'
  OBVIOUS
<1>1. /\ stage = "CERTIFICATION" /\ UNCHANGED << dirty, implementer, tester, reviewer, dossier >>
      /\ ImplementerAccepted /\ TesterAccepted /\ ReviewerAccepted /\ dirty = {}
  BY DEF CertifyStory, RolesInv
<1>2. ImplementerAccepted' /\ TesterAccepted' /\ ReviewerAccepted' /\ dirty' = {}
  BY <1>1 DEF ImplementerAccepted, TesterAccepted, ReviewerAccepted, ValidReviewer, ReviewCovers,
              Artifacts
<1>3. PICK r \in CertifierReport(dossier) :
          /\ ValidCertifier(dossier, r) /\ certifier' = r
          /\ stage' = AfterVerdict(r.verdict, "READY_FOR_CONTROL_PLANE")
  BY DEF CertifyStory
<1>4. r.verdict \in CertifierVerdict
  <2>1. PICK claim \in Telling : r = Told(dossier, claim)
    BY <1>3 DEF CertifierReport
  <2>2. claim.verdict \in CertifierVerdict
    BY DEF Telling
  <2> QED  BY <2>1, <2>2 DEF Told
<1>5. CASE r.verdict = "READY_FOR_CONTROL_PLANE"
  <2>1. stage' = "READY_FOR_CONTROL_PLANE"
    BY <1>3, <1>5 DEF AfterVerdict
  <2>2. CertifierAccepted'
    <3>1. PICK d : d = dossier
      OBVIOUS
    <3>2. ValidCertifier(d, r)'
      BY <1>1, <1>3, <3>1, DossierTruthStays
    <3> QED  BY <1>1, <1>3, <1>5, <3>1, <3>2 DEF CertifierAccepted
  <2> QED  BY <1>2, <2>1, <2>2 DEF RolesInv, Stages
<1>6. CASE r.verdict # "READY_FOR_CONTROL_PLANE"
  <2>1. stage' \in {"BLOCKED", "REMEDIATION_REQUIRED"}
    BY <1>3, <1>4, <1>6 DEF AfterVerdict, CertifierVerdict
  <2> QED  BY <2>1 DEF RolesInv, Stages
<1> QED  BY <1>5, <1>6

LEMMA AssembleKeeps == RolesInv /\ Assemble => RolesInv'
<1> SUFFICES ASSUME RolesInv, Assemble PROVE RolesInv'
  OBVIOUS
<1>1. /\ stage = "CERTIFICATION" /\ UNCHANGED << stage, dirty, implementer, tester, reviewer >>
      /\ ImplementerAccepted /\ TesterAccepted /\ ReviewerAccepted /\ dirty = {}
  BY DEF Assemble, RolesInv
<1>2. ImplementerAccepted' /\ TesterAccepted' /\ ReviewerAccepted'
  BY <1>1 DEF ImplementerAccepted, TesterAccepted, ReviewerAccepted, ValidReviewer, ReviewCovers,
              Artifacts
<1> QED  BY <1>1, <1>2 DEF RolesInv, Stages

LEMMA RolesKeep == RolesInv /\ [RolesNext]_roleVars => RolesInv'
<1> SUFFICES ASSUME RolesInv, [RolesNext]_roleVars PROVE RolesInv'
  OBVIOUS
<1>1. CASE UNCHANGED roleVars
  <2>1. PICK d, r : d = dossier /\ r = certifier
    OBVIOUS
  <2>2. CertifierAccepted => CertifierAccepted'
    BY <1>1, <2>1, DossierTruthStays DEF roleVars, CertifierAccepted
  <2>3. /\ ImplementerAccepted => ImplementerAccepted'
        /\ TesterAccepted => TesterAccepted'
        /\ ReviewerAccepted => ReviewerAccepted'
    BY <1>1 DEF roleVars, ImplementerAccepted, TesterAccepted, ReviewerAccepted, ValidReviewer,
                ReviewCovers, Artifacts
  <2> QED  BY <1>1, <2>2, <2>3 DEF roleVars, RolesInv
<1> QED  BY <1>1, ImplementKeeps, TestKeeps, ReviewKeeps, AssembleKeeps, CertifyStoryKeeps DEF RolesNext

LEMMA RolesSound == RolesSpec => []RolesInv
  BY RolesStart, RolesKeep, PTL DEF RolesSpec

(* What ImplementerResultValidator accepts, the Tester, the Reviewer and   *)
(* the Certifier take for the work of an Implementer.                      *)
LEMMA ImplementerHandover ==
    ASSUME ImplementerAccepted
    PROVE  ImplementerUsable(implementer) /\ ImplementerCoherent
<1>1. implementer # NoResult
  BY ReportAssumption DEF ImplementerAccepted
<1>2. ImplementerContract(implementer) /\ RequiredPass(implementer.results) /\ implementer.bound
  BY DEF ImplementerAccepted, ValidImplementer
<1>3. ImplementerUsable(implementer)
  BY <1>1, <1>2 DEF ImplementerAccepted, ValidImplementer, ImplementerUsable
<1> QED  BY <1>1, <1>2, <1>3 DEF ImplementerAccepted, ImplementerCoherent, ImplementerContract

(* The same of TesterResultValidator.                                      *)
LEMMA TesterHandover ==
    ASSUME TesterAccepted
    PROVE  TesterUsable(tester) /\ TesterCoherent
<1>1. /\ tester \in TesterReport /\ tester # NoResult /\ tester.bound
      /\ tester.verdict = "READY_FOR_REVIEW" /\ ~tester.blockers /\ NonMutating(tester)
      /\ ~FailDetected(tester) /\ ~UnknownRequired(tester)
      /\ Mandatory \subseteq tester.targeted /\ CaseType \subseteq {k.type : k \in tester.cases}
      /\ tester.commands = tester.planned /\ EachAnswered(tester.commands, tester.results)
      /\ \A k \in tester.cases : Executed(k, k.verdict)
      /\ \A c \in DOMAIN tester.results : Executed(tester.results[c], tester.results[c].result)
  BY ReportAssumption DEF TesterAccepted, ValidTester, TesterVerdictHolds, TesterContract
<1>2. /\ \A c \in DOMAIN tester.acceptance : tester.acceptance[c].result \in Outcome
      /\ \A k \in tester.cases : k.type \in CaseType /\ k.verdict \in Outcome
      /\ \A c \in DOMAIN tester.results : tester.results[c].result \in Outcome
  BY <1>1, ReportAssumption
<1>3. \A c \in Mandatory : c \in DOMAIN tester.acceptance /\ tester.acceptance[c].result = "PASS"
  BY <1>1, <1>2 DEF FailDetected, UnknownRequired, Outcome, Unproven
<1>4. \A k \in tester.cases : k.required => k.executed /\ k.verdict = "PASS"
  BY <1>1, <1>2 DEF FailDetected, UnknownRequired, Outcome, Unproven, Executed
<1>5. \A c \in DOMAIN tester.results :
          tester.results[c].required => tester.results[c].executed /\ tester.results[c].result = "PASS"
  BY <1>1, <1>2 DEF FailDetected, UnknownRequired, Outcome, Unproven, Executed
<1>6. {k.type : k \in tester.cases} = CaseType
  BY <1>1, <1>2
<1>7. Paths(tester.files) = {}
  BY <1>1 DEF NonMutating, Paths
<1>8. TesterUsable(tester)
  BY <1>1, <1>3, <1>4, <1>5, <1>6, <1>7 DEF TesterUsable
<1> QED  BY <1>1, <1>3, <1>4, <1>5, <1>8 DEF TesterCoherent

LEMMA ReviewerHandover ==
    ASSUME ReviewerAccepted
    PROVE  ReviewerCoherent /\ Artifacts \subseteq Paths(reviewer.reviewed)
  BY ReportAssumption DEF ReviewerAccepted, ValidReviewer, ReviewerContract, ReviewCovers, ReviewerCoherent

(* What the validator of one role lets through, the next roles accept, for *)
(* every set of answers: their own checks repeat no more than it checked.  *)
THEOREM ResultsHandOver == RolesSpec => []HandoverIsAccepted
<1>1. RolesInv => HandoverIsAccepted
  <2> SUFFICES ASSUME RolesInv PROVE HandoverIsAccepted
    OBVIOUS
  <2>1. stage \in {"TESTING", "REVIEW", "CERTIFICATION"} =>
            ImplementerUsable(implementer) /\ ImplementerCoherent
    BY ImplementerHandover DEF RolesInv
  <2>2. stage \in {"REVIEW", "CERTIFICATION"} => TesterUsable(tester) /\ TesterCoherent /\ dirty = {}
    BY TesterHandover DEF RolesInv
  <2>3. stage = "CERTIFICATION" => ReviewerCoherent
    BY ReviewerHandover DEF RolesInv
  <2> QED  BY <2>1, <2>2, <2>3 DEF HandoverIsAccepted
<1> QED  BY <1>1, RolesSound, PTL

(* What reaches the control plane is proven by evidence at the integrated  *)
(* commit, lies in the scope and was reviewed, for every dossier and every *)
(* set of answers.                                                         *)
THEOREM ControlPlaneGetsProof == RolesSpec => []ReadyIsProven
<1>1. RolesInv => ReadyIsProven
  <2> SUFFICES ASSUME RolesInv, stage = "READY_FOR_CONTROL_PLANE"
               PROVE  /\ \A c \in Mandatory : \E e \in DOMAIN dossier.evidence :
                             /\ dossier.evidence[e].kind = "ACCEPTANCE_CRITERION_CHECK"
                             /\ dossier.evidence[e].subject = c /\ dossier.evidence[e].result
                             /\ dossier.evidence[e].commit = "current"
                      /\ \A p \in Artifacts : InScope(p) /\ p \in Paths(reviewer.reviewed)
                      /\ dirty = {} /\ ~FailDetected(tester) /\ Blocking(reviewer) = {}
    BY DEF ReadyIsProven
  <2>1. ImplementerAccepted /\ TesterAccepted /\ ReviewerAccepted /\ CertifierAccepted /\ dirty = {}
    BY DEF RolesInv
  <2>2. TellsTheTruth(dossier, certifier) /\ Ready(dossier, certifier)
    BY <2>1 DEF CertifierAccepted, ValidCertifier, CertifierVerdictHolds
  <2>3. ASSUME NEW c \in Mandatory
        PROVE  \E e \in DOMAIN dossier.evidence :
                   /\ dossier.evidence[e].kind = "ACCEPTANCE_CRITERION_CHECK"
                   /\ dossier.evidence[e].subject = c /\ dossier.evidence[e].result
                   /\ dossier.evidence[e].commit = "current"
    <3>1. c \in Criterion
      BY CriteriaAssumption
    <3>2. /\ Tested(c) = "PASS" /\ certifier.acceptance[c].refs # {}
          /\ certifier.acceptance[c].refs \subseteq DOMAIN dossier.evidence
      BY <2>2, <3>1 DEF Ready
    <3>3. PICK e \in certifier.acceptance[c].refs : e \in DOMAIN dossier.evidence
      BY <3>2
    <3>4. Supports(dossier, c, e)
      BY <2>2, <3>1, <3>3 DEF TellsTheTruth
    <3> QED  BY <3>2, <3>3, <3>4 DEF Supports
  <2>4. ASSUME NEW p \in Artifacts PROVE InScope(p) /\ p \in Paths(reviewer.reviewed)
    <3>1. p \in Paths(implementer.files) => InScope(p)
      BY <2>1 DEF ImplementerAccepted, ValidImplementer
    <3>2. p \in Paths(tester.files) => InScope(p)
      BY <2>1 DEF TesterAccepted, ValidTester, TestFilesOnly
    <3> QED  BY <2>1, <3>1, <3>2, ReviewerHandover DEF Artifacts
  <2>5. ~FailDetected(tester) /\ Blocking(reviewer) = {}
    BY <2>1 DEF TesterAccepted, ValidTester, TesterVerdictHolds, ReviewerAccepted, ValidReviewer,
                ReviewCovers
  <2> QED  BY <2>1, <2>3, <2>4, <2>5
<1> QED  BY <1>1, RolesSound, PTL
=============================================================================
