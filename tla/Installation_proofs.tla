------------------------ MODULE Installation_proofs ------------------------
(***************************************************************************)
(* Proofs about Installation, for every set of invocations, projects and   *)
(* bounds: an adoption never mixes two projects, and no invocation          *)
(* destroys bytes of the user outside the window before os.replace.        *)
(*                                                                         *)
(* What an invocation knows of the path it is about to write is a           *)
(* predicate of its record (Legal, Covered, Configured); a step of one      *)
(* invocation keeps the predicates of the others because a write keeps the  *)
(* text of a file that is there.                                            *)
(***************************************************************************)
EXTENDS Installation, SequenceTheorems, TLAPS

---------------------------------------------------------------------------
(* The plans.                                                              *)

LEMMA OperationKinds ==
    ASSUME NEW profile
    PROVE  LET ops == Operations(profile) IN
           /\ Len(ops) \in Nat /\ Len(ops) > 0
           /\ \A i \in 1..Len(ops) :
                 \/ ops[i] \in {Operation("CREATE", "directory"), Operation("CREATE", "config"),
                                Operation("NO_OP", "config")}
                 \/ \E p \in Sections : ops[i] = ManagedOperation(profile, p)
<1> DEFINE first == IF profile.files["config"] = Absent
                      THEN <<Operation("CREATE", "directory"), Operation("CREATE", "config")>>
                      ELSE <<Operation("NO_OP", "config")>>
           rest == <<ManagedOperation(profile, "agents"), ManagedOperation(profile, "gitignore")>>
           ops  == Operations(profile)
<1>1. ops = first \o rest
  BY DEF Operations
<1>2. /\ Len(first) \in {1, 2}
      /\ \A i \in 1..Len(first) :
            first[i] \in {Operation("CREATE", "directory"), Operation("CREATE", "config"),
                         Operation("NO_OP", "config")}
  <2>1. CASE profile.files["config"] = Absent  BY <2>1
  <2>2. CASE profile.files["config"] # Absent  BY <2>2
  <2> QED  BY <2>1, <2>2
<1>3. Len(rest) = 2 /\ \A i \in 1..2 : \E p \in Sections : rest[i] = ManagedOperation(profile, p)
  BY DEF Sections
<1> DEFINE T == {Operation("CREATE", "directory"), Operation("CREATE", "config"),
                 Operation("NO_OP", "config")}
                \cup {ManagedOperation(profile, p) : p \in Sections}
<1>4. first \in Seq(T) /\ rest \in Seq(T)
  <2>1. CASE profile.files["config"] = Absent  BY <2>1 DEF Sections
  <2>2. CASE profile.files["config"] # Absent  BY <2>2 DEF Sections
  <2> QED  BY <2>1, <2>2
<1> HIDE DEF first, rest
<1>5. /\ Len(ops) = Len(first) + Len(rest)
      /\ \A i \in 1..Len(ops) :
            ops[i] = IF i <= Len(first) THEN first[i] ELSE rest[i - Len(first)]
  BY <1>1, <1>4, ConcatProperties
<1>6. Len(ops) \in Nat /\ Len(ops) > 0
  BY <1>2, <1>3, <1>5
<1>7. ASSUME NEW i \in 1..Len(ops)
      PROVE  \/ ops[i] \in {Operation("CREATE", "directory"), Operation("CREATE", "config"),
                            Operation("NO_OP", "config")}
             \/ \E p \in Sections : ops[i] = ManagedOperation(profile, p)
  <2>1. CASE i <= Len(first)
    <3>1. i \in 1..Len(first) /\ ops[i] = first[i]
      BY <1>2, <1>5, <1>6, <1>7, <2>1
    <3> QED  BY <1>2, <3>1
  <2>2. CASE ~(i <= Len(first))
    <3>1. i - Len(first) \in 1..2 /\ ops[i] = rest[i - Len(first)]
      BY <1>2, <1>3, <1>5, <1>6, <1>7, <2>2
    <3> QED  BY <1>3, <3>1
  <2> QED  BY <2>1, <2>2
<1> HIDE DEF ops
<1>8. Len(ops) \in Nat /\ Len(ops) > 0
      /\ \A i \in 1..Len(ops) :
            \/ ops[i] \in {Operation("CREATE", "directory"), Operation("CREATE", "config"),
                           Operation("NO_OP", "config")}
            \/ \E p \in Sections : ops[i] = ManagedOperation(profile, p)
  BY <1>6, <1>7
<1> QED  BY <1>8 DEF ops

(* An operation creates an absent file, keeps what is there, or extends a   *)
(* section file that is there and has no section.                           *)
LEMMA OperationTargets ==
    ASSUME NEW profile, NEW i \in 1..Len(Operations(profile)),
           NEW op, op = Operations(profile)[i]
    PROVE  /\ op.path \in {"directory", "config"} \cup Sections
           /\ op.do \notin {"CREATE", "NO_OP"} =>
                 /\ op.path \in Sections
                 /\ profile.files[op.path] # Absent
                 /\ profile.files[op.path].version = "none"
<1>1. CASE op \in {Operation("CREATE", "directory"), Operation("CREATE", "config"),
                   Operation("NO_OP", "config")}
  BY <1>1 DEF Operation
<1>2. CASE \E p \in Sections : op = ManagedOperation(profile, p)
  BY <1>2 DEF ManagedOperation, Operation
<1> QED  BY <1>1, <1>2, OperationKinds

LEMMA FirstIsMember ==
    ASSUME NEW S \in SUBSET Migratable, S # {}
    PROVE  First(S) \in S
<1>1. \E p \in S : \A q \in S : Order[p] <= Order[q]
  <2>1. CASE "agents" \in S  BY <2>1 DEF Order, Migratable, Sections, Volatile
  <2>2. CASE "agents" \notin S /\ "gitignore" \in S
    BY <2>2 DEF Order, Migratable, Sections, Volatile
  <2>3. CASE "agents" \notin S /\ "gitignore" \notin S /\ "ledger" \in S
    BY <2>3 DEF Order, Migratable, Sections, Volatile
  <2>4. CASE "agents" \notin S /\ "gitignore" \notin S /\ "ledger" \notin S
    <3>1. \A q \in S : q = "record"
      BY <2>4 DEF Migratable, Sections, Volatile
    <3>2. "record" \in S
      BY <3>1, S # {}
    <3> QED  BY <3>1, <3>2 DEF Order
  <2> QED  BY <2>1, <2>2, <2>3, <2>4
<1> QED  BY <1>1 DEF First

---------------------------------------------------------------------------
(* What an invocation relies on.                                           *)

(* The path it is about to read or write. *)
Target(k) ==
    IF k.pc \in {"operation", "append", "install", "written"}
        THEN Operations(k.profile)[k.at].path
        ELSE First(Steps(k.profile) \ k.migrated)

Legal(k) ==
    /\ k.pc \in {"prepared", "operation", "append", "install", "written"} =>
          k.at \in 1..Len(Operations(k.profile))
    /\ k.pc \in {"append", "install"} =>
          Target(k) \in Sections /\ k.source # Absent /\ k.source.version = "none"
    /\ k.pc \in {"planned"} \cup Migrating => Steps(k.profile) \ k.migrated # {}
    /\ k.pc \in {"backup", "reread", "replace"} => k.source.version = "old"

(* The file is still the one that was read, or the window was used; an old *)
(* format has its backup.                                                  *)
Covered(k, content, kept, edited) ==
    /\ k.pc = "reread" => Backup(Target(k), k.source) \in kept
    /\ k.pc \in {"install", "replace"} =>
          \/ Target(k) \in edited
          \/ /\ content[Target(k)] # Absent
             /\ content[Target(k)].text = k.source.text
             /\ content[Target(k)].version = "old" =>
                   Backup(Target(k), content[Target(k)]) \in kept

Configured(k, c, content) ==
    k.pc \in {"fresh", "link"} => content["config"] = Current(Project[c])

IInv ==
    /\ TypeOK
    /\ OneProject
    /\ files["state"] # Absent => files["config"] # Absent
    /\ \A c \in Callers :
          /\ Legal(call[c])
          /\ Covered(call[c], files, backups, raced)
          /\ Configured(call[c], c, files)

---------------------------------------------------------------------------
(* Types.                                                                  *)

LEMMA ProfileType == TypeOK => Profile \in Profiles
<1> SUFFICES ASSUME TypeOK PROVE Profile \in Profiles
  OBVIOUS
<1>1. \A p \in Paths : Observed(p) \in Content
  <2> TAKE p \in Paths
  <2>1. files[p] \in Content  BY DEF TypeOK
  <2>2. "none" \in Texts  BY DEF Texts
  <2> QED  BY <2>1, <2>2 DEF Observed, Content
<1>2. [p \in Paths \ {"source"} |-> Observed(p)] \in [Paths \ {"source"} -> Content]
  BY <1>1
<1>3. Clean \in BOOLEAN /\ head \in Nat  BY DEF Clean, TypeOK
<1> QED  BY <1>2, <1>3 DEF Profile, Profiles

LEMMA Constants ==
    /\ Absent \in Content
    /\ \A t \in Texts : Plain(t) \in Content /\ Current(t) \in Content
    /\ \A c \in Callers : Project[c] \in Texts
    /\ {"none", "empty", "user", "edited", "facts"} \subseteq Texts
  BY DEF Absent, Plain, Current, Content, Texts

LEMMA IdleType == Idle \in Calls /\ Idle.pc = "idle"
<1>1. NoProfile \in Profiles
  <2>1. [p \in Paths \ {"source"} |-> Absent] \in [Paths \ {"source"} -> Content]
    BY Constants
  <2> QED  BY <2>1 DEF NoProfile, Profiles
<1>2. Absent \in Content  BY Constants
<1> QED  BY <1>1, <1>2 DEF Idle, Calls

LEMMA IdleIsCovered ==
    ASSUME NEW k,
           k.pc \notin {"prepared", "operation", "append", "install", "written", "planned"}
                           \cup Migrating,
           NEW content, NEW kept, NEW edited
    PROVE  Legal(k) /\ Covered(k, content, kept, edited)
  BY DEF Legal, Covered, Migrating

---------------------------------------------------------------------------
(* A step of one invocation, seen by the others.                           *)

LEMMA Keeps ==
    ASSUME IInv, TypeOK', NEW c \in Callers, NEW k,
           call' = [call EXCEPT ![c] = k],
           files' = files, backups \subseteq backups', raced' = raced,
           Legal(k), Covered(k, files, backups', raced), Configured(k, c, files)
    PROVE  IInv'
<1>1. OneProject' /\ (files'["state"] # Absent => files'["config"] # Absent)
  BY DEF IInv, OneProject
<1>2. ASSUME NEW d \in Callers
      PROVE  /\ Legal(call'[d])
             /\ Covered(call'[d], files', backups', raced')
             /\ Configured(call'[d], d, files')
  <2>1. CASE d = c
    <3>1. call'[d] = k  BY <2>1 DEF IInv, TypeOK
    <3> QED  BY <2>1, <3>1
  <2>2. CASE d # c
    <3>1. call'[d] = call[d]  BY <2>2 DEF IInv, TypeOK
    <3>2. Legal(call[d]) /\ Covered(call[d], files, backups, raced) /\ Configured(call[d], d, files)
      BY DEF IInv
    <3>3. Covered(call[d], files, backups', raced)
      BY <3>2 DEF Covered
    <3> QED  BY <3>1, <3>2, <3>3
  <2> QED  BY <2>1, <2>2
<1> QED  BY <1>1, <1>2 DEF IInv

LEMMA Quiet ==
    ASSUME IInv, NEW c \in Callers, NEW k \in Calls,
           call' = [call EXCEPT ![c] = k],
           files' = files, backups \subseteq backups', backups' \subseteq Entries, Outside,
           Legal(k), Covered(k, files, backups', raced), Configured(k, c, files)
    PROVE  IInv'
<1>1. call' \in [Callers -> Calls]  BY DEF IInv, TypeOK
<1>2. TypeOK'  BY <1>1 DEF IInv, TypeOK, Outside
<1>3. raced' = raced  BY DEF Outside
<1> QED  BY <1>2, <1>3, Keeps

(* The end of an invocation. *)
LEMMA Stops ==
    ASSUME IInv, NEW c \in Callers, Stop(c), Unwritten, Outside
    PROVE  IInv'
<1>1. Legal(Idle) /\ Covered(Idle, files, backups', raced) /\ Configured(Idle, c, files)
  BY IdleType, IdleIsCovered DEF Configured, Migrating
<1>2. backups' \subseteq Entries  BY DEF IInv, TypeOK, Unwritten
<1> QED  BY <1>1, <1>2, IdleType, Quiet DEF Stop, Unwritten

(* A write of the product: what it replaces was absent, or keeps its text. *)
LEMMA Writes ==
    ASSUME IInv, NEW c \in Callers, NEW k \in Calls, NEW p \in Paths, NEW v \in Content,
           call' = [call EXCEPT ![c] = k],
           files' = [files EXCEPT ![p] = v], backups' = backups, Outside,
           v # Absent, v.version # "old",
           files[p] = Absent \/ files[p].text = v.text \/ p \in raced,
           p = "config" => files[p] = Absent,
           p = "state" =>
              files[p] = Absent /\ files["config"] # Absent /\ files["config"].text = v.text,
           Legal(k), Covered(k, files', backups, raced), Configured(k, c, files')
    PROVE  IInv'
<1> raced' = raced  BY DEF Outside
<1> "state" \in Paths /\ "config" \in Paths  BY DEF Paths
<1>1. TypeOK'
  <2>1. files' \in [Paths -> Content]  BY DEF IInv, TypeOK
  <2>2. call' \in [Callers -> Calls]  BY DEF IInv, TypeOK
  <2> QED  BY <2>1, <2>2 DEF IInv, TypeOK, Outside
<1>2. files' \in [Paths -> Content] /\ files \in [Paths -> Content]
  BY <1>1 DEF IInv, TypeOK
<1>3. /\ files'[p] = v
      /\ \A q \in Paths : q # p => files'[q] = files[q]
  BY <1>2
<1>4. OneProject' /\ (files'["state"] # Absent => files'["config"] # Absent)
  <2>1. CASE p = "config"  BY <1>3, <2>1 DEF IInv, OneProject
  <2>2. CASE p = "state"  BY <1>3, <2>2 DEF IInv, OneProject
  <2>3. CASE p # "config" /\ p # "state"  BY <1>3, <2>3 DEF IInv, OneProject
  <2> QED  BY <2>1, <2>2, <2>3
<1>5. ASSUME NEW d \in Callers
      PROVE  /\ Legal(call'[d])
             /\ Covered(call'[d], files', backups', raced')
             /\ Configured(call'[d], d, files')
  <2>1. CASE d = c
    <3>1. call'[d] = k  BY <2>1 DEF IInv, TypeOK
    <3> QED  BY <2>1, <3>1
  <2>2. CASE d # c
    <3>1. call'[d] = call[d]  BY <2>2 DEF IInv, TypeOK
    <3>2. Legal(call[d]) /\ Covered(call[d], files, backups, raced) /\ Configured(call[d], d, files)
      BY DEF IInv
    <3>3. Configured(call[d], d, files')
      BY <1>3, <3>2 DEF Configured, Current, Absent
    <3> DEFINE t == Target(call[d])
    <3>4. ASSUME call[d].pc \in {"install", "replace"} PROVE t \in Paths
      <4>1. CASE call[d].pc = "install"
        BY <3>2, <4>1 DEF Legal, Paths
      <4>2. CASE call[d].pc = "replace"
        <5>1. Steps(call[d].profile) \ call[d].migrated \in SUBSET Migratable
          BY DEF Steps
        <5>2. Steps(call[d].profile) \ call[d].migrated # {}
          BY <3>2, <4>2 DEF Legal, Migrating
        <5>3. t \in Migratable
          BY <5>1, <5>2, <4>2, FirstIsMember DEF Target
        <5> QED  BY <5>3 DEF Migratable, Paths
      <4> QED  BY <3>4, <4>1, <4>2
    <3>5. Covered(call[d], files', backups, raced)
      <4> HIDE DEF t
      <4>1. ASSUME call[d].pc \in {"install", "replace"}
            PROVE  \/ t \in raced
                   \/ /\ files'[t] # Absent /\ files'[t].text = call[d].source.text
                      /\ files'[t].version = "old" => Backup(t, files'[t]) \in backups
        <5>1. \/ t \in raced
              \/ /\ files[t] # Absent /\ files[t].text = call[d].source.text
                 /\ files[t].version = "old" => Backup(t, files[t]) \in backups
          BY <3>2, <4>1 DEF Covered, t
        <5>2. CASE t = p  BY <1>3, <5>1, <5>2
        <5>3. CASE t # p  BY <1>3, <3>4, <4>1, <5>1, <5>3
        <5> QED  BY <5>2, <5>3
      <4>2. call[d].pc = "reread" => Backup(t, call[d].source) \in backups
        BY <3>2 DEF Covered, t
      <4> QED  BY <4>1, <4>2 DEF Covered, t
    <3> QED  BY <3>1, <3>2, <3>3, <3>5
  <2> QED  BY <2>1, <2>2
<1> QED  BY <1>1, <1>4, <1>5 DEF IInv

---------------------------------------------------------------------------
(* The steps of an adoption.  Each names the record it leaves; a record in *)
(* a part of the invocation that writes nothing needs no more.             *)

LEMMA Moves ==
    ASSUME IInv, NEW c \in Callers, NEW k \in Calls,
           call' = [call EXCEPT ![c] = k], Unwritten, Outside,
           Legal(k), Covered(k, files, backups, raced), Configured(k, c, files)
    PROVE  IInv'
  BY Quiet DEF Unwritten, IInv, TypeOK

LEMMA MovesOn ==
    ASSUME IInv, NEW c \in Callers, NEW k \in Calls,
           call' = [call EXCEPT ![c] = k], Unwritten, Outside,
           k.pc \in {"idle", "observe", "inspect", "bootstrap", "created", "ready", "final"}
    PROVE  IInv'
<1>1. Legal(k) /\ Covered(k, files, backups, raced)
  BY IdleIsCovered DEF Migrating
<1>2. Configured(k, c, files)  BY DEF Configured
<1> QED  BY <1>1, <1>2, Moves

LEMMA PrepareStep == ASSUME IInv, NEW c \in Callers, Prepare(c) PROVE IInv'
<1>1. CASE Adoptable(c, Profile)
  <2> DEFINE k == [Idle EXCEPT !.pc = "prepared", !.profile = Profile]
  <2>1. k \in Calls /\ k.pc = "prepared" /\ k.at = 1 /\ k.profile = Profile
    BY IdleType, ProfileType DEF IInv, Calls, Adopting, Idle
  <2>2. call' = [call EXCEPT ![c] = k] /\ Unwritten /\ Outside
    BY <1>1 DEF Prepare
  <2> HIDE DEF k
  <2>3. k.at \in 1..Len(Operations(k.profile))
    BY <2>1, OperationKinds
  <2>4. Legal(k) /\ Covered(k, files, backups, raced) /\ Configured(k, c, files)
    BY <2>1, <2>3 DEF Configured, Legal, Covered, Migrating
  <2> QED  BY <2>1, <2>2, <2>4, Moves
<1>2. CASE ~Adoptable(c, Profile)
  BY <1>2, Stops DEF Prepare
<1> QED  BY <1>1, <1>2

LEMMA BeginAdoptionStep == ASSUME IInv, NEW c \in Callers, BeginAdoption(c) PROVE IInv'
<1>1. CASE Profile = call[c].profile
  <2> DEFINE k == [call[c] EXCEPT !.pc = "operation", !.head = head]
  <2>1. k \in Calls /\ k.pc = "operation" /\ k.profile = call[c].profile /\ k.at = call[c].at
    <3>1. call[c] \in Calls /\ head \in Nat
      BY DEF IInv, TypeOK
    <3> QED  BY <3>1 DEF Calls, Adopting
  <2>2. call' = [call EXCEPT ![c] = k] /\ Unwritten /\ Outside
    BY <1>1 DEF BeginAdoption, IInv, TypeOK
  <2> HIDE DEF k
  <2>3. call[c].at \in 1..Len(Operations(call[c].profile))
    BY DEF BeginAdoption, IInv, Legal
  <2>4. Legal(k) /\ Covered(k, files, backups, raced) /\ Configured(k, c, files)
    BY <2>1, <2>3 DEF Configured, Legal, Covered, Migrating
  <2> QED  BY <2>1, <2>2, <2>4, Moves
<1>2. CASE Profile # call[c].profile
  BY <1>2, Stops DEF BeginAdoption
<1> QED  BY <1>1, <1>2

(* What follows an operation. *)
LEMMA Proceeds ==
    ASSUME IInv, NEW c \in Callers, call[c].pc \in {"operation", "written"}
    PROVE  /\ Proceeded(c) \in Calls
           /\ Proceeded(c).pc \in {"operation", "observe"}
           /\ Legal(Proceeded(c))
           /\ \A content, kept, edited : Covered(Proceeded(c), content, kept, edited)
           /\ \A content : Configured(Proceeded(c), c, content)
<1> DEFINE k == Proceeded(c)
           ops == Operations(call[c].profile)
<1>1. call[c] \in Calls /\ call[c].at \in 1..Len(ops) /\ Len(ops) \in Nat
  BY OperationKinds DEF IInv, TypeOK, Legal
<1>2. Applied(call[c].profile) \subseteq Paths
  <2>1. \A op \in ToSet(ops) : op.path \in Paths
    <3> TAKE op \in ToSet(ops)
    <3>1. PICK i \in 1..Len(ops) : op = ops[i]
      BY DEF ToSet
    <3> QED  BY <3>1, OperationTargets DEF Paths
  <2> QED  BY <2>1 DEF Applied
<1>3. CASE call[c].at = Len(ops)
  <2>1. k = [call[c] EXCEPT !.pc = "observe", !.applied = Applied(call[c].profile)]
    BY <1>3 DEF Proceeded
  <2>2. k \in Calls /\ k.pc = "observe"
    BY <1>1, <1>2, <2>1 DEF Calls, Adopting
  <2> HIDE DEF k
  <2>3. Legal(k)
    BY <2>2 DEF Legal, Migrating
  <2>4. \A content, kept, edited : Covered(k, content, kept, edited)
    BY <2>2 DEF Covered
  <2>5. \A content : Configured(k, c, content)
    BY <2>2 DEF Configured
  <2> QED  BY <2>2, <2>3, <2>4, <2>5 DEF k
<1>4. CASE call[c].at # Len(ops)
  <2>1. k = [call[c] EXCEPT !.pc = "operation", !.at = call[c].at + 1]
    BY <1>4 DEF Proceeded
  <2>2. call[c].at + 1 \in Nat /\ call[c].at + 1 \in 1..Len(ops)
    BY <1>1, <1>4
  <2>3. k \in Calls /\ k.pc = "operation" /\ k.at \in 1..Len(ops) /\ k.profile = call[c].profile
    BY <1>1, <2>1, <2>2 DEF Calls, Adopting
  <2> HIDE DEF k
  <2>4. Legal(k)
    BY <2>3 DEF Legal, Migrating
  <2>5. \A content, kept, edited : Covered(k, content, kept, edited)
    BY <2>3 DEF Covered
  <2>6. \A content : Configured(k, c, content)
    BY <2>3 DEF Configured
  <2> QED  BY <2>3, <2>4, <2>5, <2>6 DEF k
<1> QED  BY <1>3, <1>4

(* What follows a write. *)
LEMMA WrittenCall ==
    ASSUME IInv, NEW c \in Callers, call[c].pc \in {"operation", "install"}, NEW v \in Content,
           Written(c, v)
    PROVE  \E k \in Calls : /\ call' = [call EXCEPT ![c] = k] /\ Legal(k)
                            /\ \A content, kept, edited : Covered(k, content, kept, edited)
                            /\ \A content : Configured(k, c, content)
<1> DEFINE k == [call[c] EXCEPT !.pc = "written", !.source = v]
<1>1. call[c] \in Calls /\ call[c].at \in 1..Len(Operations(call[c].profile))
  BY DEF IInv, TypeOK, Legal
<1>2. k \in Calls /\ k.pc = "written" /\ k.at = call[c].at /\ k.profile = call[c].profile
  BY <1>1 DEF Calls, Adopting
<1>3. call' = [call EXCEPT ![c] = k]
  BY DEF Written, IInv, TypeOK
<1> HIDE DEF k
<1>4. Legal(k)
  BY <1>1, <1>2 DEF Legal, Migrating
<1>5. \A content, kept, edited : Covered(k, content, kept, edited)
  BY <1>2 DEF Covered
<1>6. \A content : Configured(k, c, content)
  BY <1>2 DEF Configured
<1> QED  BY <1>2, <1>3, <1>4, <1>5, <1>6

(* What an operation does to the files: nothing, or it creates its target. *)
LEMMA OperateWrites ==
    ASSUME IInv, NEW c \in Callers, Operate(c)
    PROVE  /\ Outside /\ backups' = backups
           /\ \/ Stop(c) /\ files' = files
              \/ Proceed(c) /\ files' = files
              \/ /\ call' = [call EXCEPT ![c].pc = "append", ![c].source = files[Op(c).path]]
                 /\ files' = files
                 /\ Op(c).do \notin {"CREATE", "NO_OP"}
                 /\ files[Op(c).path] = call[c].profile.files[Op(c).path]
              \/ /\ Written(c, Created(c, Op(c).path))
                 /\ Write(Op(c).path, Created(c, Op(c).path))
                 /\ files[Op(c).path] = Absent
<1>1. CASE head # call[c].head  BY <1>1 DEF Operate
<1>2. CASE head = call[c].head /\ Op(c).do = "CREATE"
  BY <1>2 DEF Operate, CreateTarget
<1>3. CASE head = call[c].head /\ Op(c).do = "NO_OP"
  BY <1>3 DEF Operate
<1>4. CASE head = call[c].head /\ Op(c).do \notin {"CREATE", "NO_OP"}
  BY <1>4 DEF Operate
<1> QED  BY <1>1, <1>2, <1>3, <1>4

LEMMA CreatedType ==
    ASSUME NEW c \in Callers, NEW p
    PROVE  Created(c, p) \in Content /\ Created(c, p) # Absent
<1>1. "empty" \in Texts /\ Project[c] \in Texts  BY Constants
<1> QED  BY <1>1 DEF Created, Content, Absent, Plain, Current

LEMMA OperateStep == ASSUME IInv, NEW c \in Callers, Operate(c) PROVE IInv'
<1> DEFINE p == Op(c).path
<1>1. call[c] \in Calls /\ call[c].pc = "operation" /\ Legal(call[c])
  BY DEF Operate, IInv, TypeOK
<1>2. /\ p \in {"directory", "config"} \cup Sections
      /\ Op(c).do \notin {"CREATE", "NO_OP"} =>
            p \in Sections /\ call[c].profile.files[p] # Absent
            /\ call[c].profile.files[p].version = "none"
  BY <1>1, OperationTargets DEF Op, Legal
<1>3. CASE Stop(c) /\ files' = files
  BY <1>3, OperateWrites, Stops DEF Unwritten
<1>4. CASE Proceed(c) /\ files' = files
  <2>1. call' = [call EXCEPT ![c] = Proceeded(c)] /\ Unwritten /\ Outside
    BY <1>4, OperateWrites DEF Proceed, Unwritten
  <2> QED  BY <1>1, <2>1, Proceeds, Moves
<1>5. CASE /\ call' = [call EXCEPT ![c].pc = "append", ![c].source = files[p]]
           /\ files' = files
           /\ Op(c).do \notin {"CREATE", "NO_OP"}
           /\ files[p] = call[c].profile.files[p]
  <2> DEFINE k == [call[c] EXCEPT !.pc = "append", !.source = files[p]]
  <2>1. p \in Paths /\ files[p] \in Content
    BY <1>2 DEF Paths, IInv, TypeOK
  <2>2. k \in Calls
    BY <1>1, <2>1 DEF Calls, Adopting
  <2>3. k.pc = "append" /\ k.at = call[c].at /\ k.profile = call[c].profile /\ k.source = files[p]
    BY <1>1 DEF Calls
  <2>4. call' = [call EXCEPT ![c] = k] /\ Unwritten /\ Outside
    BY <1>5, OperateWrites DEF Unwritten, IInv, TypeOK
  <2> HIDE DEF k
  <2>5. Target(k) = p
    BY <2>3 DEF Target, Op
  <2>6. Legal(k) /\ Covered(k, files, backups, raced) /\ Configured(k, c, files)
    BY <1>1, <1>2, <1>5, <2>3, <2>5 DEF Legal, Covered, Configured, Migrating
  <2> QED  BY <2>2, <2>4, <2>6, Moves
<1>6. CASE Written(c, Created(c, p)) /\ Write(p, Created(c, p)) /\ files[p] = Absent
  <2>1. files' = [files EXCEPT ![p] = Created(c, p)] /\ backups' = backups /\ Outside
    BY <1>6, OperateWrites DEF Write
  <2>2. p \in Paths /\ p # "state"
    BY <1>2 DEF Paths, Sections
  <2>3. Created(c, p) # Absent /\ Created(c, p).version # "old"
    BY CreatedType DEF Created, Plain, Current
  <2>4. PICK k \in Calls :
           /\ call' = [call EXCEPT ![c] = k] /\ Legal(k)
           /\ \A content, kept, edited : Covered(k, content, kept, edited)
           /\ \A content : Configured(k, c, content)
    BY <1>1, <1>6, CreatedType, WrittenCall
  <2> QED  BY <1>2, <1>6, <2>1, <2>2, <2>3, <2>4, CreatedType, Writes DEF Sections
<1> QED  BY <1>3, <1>4, <1>5, <1>6, OperateWrites

LEMMA CheckAgainStep == ASSUME IInv, NEW c \in Callers, CheckAgain(c) PROVE IInv'
<1>1. call[c] \in Calls /\ call[c].pc = "append" /\ Legal(call[c])
  BY DEF CheckAgain, IInv, TypeOK
<1>2. Op(c).path = Target(call[c])
  BY <1>1 DEF Op, Target
<1>3. CASE files[Op(c).path] = call[c].source
  <2> DEFINE k == [call[c] EXCEPT !.pc = "install"]
  <2>1. k \in Calls
    BY <1>1 DEF Calls, Adopting
  <2>2. /\ k.pc = "install" /\ k.at = call[c].at /\ k.profile = call[c].profile
        /\ k.source = call[c].source
    BY <1>1 DEF Calls
  <2>3. call' = [call EXCEPT ![c] = k] /\ Unwritten /\ Outside
    BY <1>3 DEF CheckAgain, IInv, TypeOK
  <2> HIDE DEF k
  <2>4. Target(k) = Target(call[c])
    BY <1>1, <2>2 DEF Target
  <2>5. Legal(k) /\ Covered(k, files, backups, raced) /\ Configured(k, c, files)
    BY <1>1, <1>2, <1>3, <2>2, <2>4 DEF Legal, Covered, Configured, Migrating
  <2> QED  BY <2>1, <2>3, <2>5, Moves
<1>4. CASE files[Op(c).path] # call[c].source
  BY <1>4, Stops DEF CheckAgain
<1> QED  BY <1>3, <1>4

LEMMA InstallStep == ASSUME IInv, NEW c \in Callers, Install(c) PROVE IInv'
<1> DEFINE p == Op(c).path
           v == Current(call[c].source.text)
<1>1. call[c] \in Calls /\ call[c].pc = "install" /\ Legal(call[c])
  BY DEF Install, IInv, TypeOK
<1>2. p = Target(call[c]) /\ p \in Sections
  BY <1>1 DEF Op, Target, Legal
<1>3. p \in Paths /\ p \notin {"config", "state"}
  BY <1>2 DEF Sections, Paths
<1>4. v \in Content /\ v # Absent /\ v.version # "old" /\ v.text = call[c].source.text
  BY <1>1 DEF Calls, Content, Current, Absent
<1>5. p \in raced \/ files[p].text = v.text
  BY <1>1, <1>2, <1>4 DEF IInv, Covered
<1>6. files' = [files EXCEPT ![p] = v] /\ backups' = backups /\ Outside
  BY DEF Install, Write
<1>7. Written(c, v)
  BY DEF Install
<1> HIDE DEF p, v
<1>8. PICK k \in Calls :
         /\ call' = [call EXCEPT ![c] = k] /\ Legal(k)
         /\ \A content, kept, edited : Covered(k, content, kept, edited)
         /\ \A content : Configured(k, c, content)
  BY <1>1, <1>4, <1>7, WrittenCall
<1> QED  BY <1>3, <1>4, <1>5, <1>6, <1>8, Writes

LEMMA ReadBackStep == ASSUME IInv, NEW c \in Callers, ReadBack(c) PROVE IInv'
<1>1. CASE Proceed(c)
  <2>1. call' = [call EXCEPT ![c] = Proceeded(c)] /\ Unwritten /\ Outside
    BY <1>1 DEF ReadBack, Proceed
  <2>2. call[c].pc = "written"
    BY DEF ReadBack
  <2> QED  BY <2>1, <2>2, Proceeds, Moves
<1>2. CASE Stop(c)
  BY <1>2, Stops DEF ReadBack
<1> QED  BY <1>1, <1>2 DEF ReadBack

LEMMA ObserveStep == ASSUME IInv, NEW c \in Callers, Observe(c) PROVE IInv'
<1> DEFINE k == [call[c] EXCEPT !.pc = "inspect", !.profile = Profile]
<1>1. k \in Calls /\ k.pc = "inspect"
  <2>1. call[c] \in Calls /\ Profile \in Profiles
    BY ProfileType DEF IInv, TypeOK
  <2> QED  BY <2>1 DEF Calls, Adopting
<1>2. Unwritten /\ Outside /\ (Stop(c) \/ call' = [call EXCEPT ![c] = k])
  BY DEF Observe, IInv, TypeOK
<1> QED  BY <1>1, <1>2, Stops, MovesOn

LEMMA InspectStep == ASSUME IInv, NEW c \in Callers, Inspect(c) PROVE IInv'
<1> DEFINE applied == IF Profile = call[c].profile THEN call[c].applied ELSE {}
           k == [call[c] EXCEPT !.pc = "bootstrap", !.profile = Profile, !.applied = applied]
<1>1. call[c] \in Calls /\ Profile \in Profiles
  BY ProfileType DEF IInv, TypeOK
<1>2. applied \in SUBSET Paths
  BY <1>1 DEF Calls
<1>3. Unwritten /\ Outside /\ call' = [call EXCEPT ![c] = k]
  BY DEF Inspect, IInv, TypeOK
<1> HIDE DEF applied
<1>4. k \in Calls /\ k.pc = "bootstrap"
  BY <1>1, <1>2 DEF Calls, Adopting
<1> QED  BY <1>3, <1>4, MovesOn

LEMMA BootstrapStep == ASSUME IInv, NEW c \in Callers, Bootstrap(c) PROVE IInv'
<1>1. CASE Bootstrappable(c) /\ files["state"] = Absent
  <2> DEFINE k == [call[c] EXCEPT !.pc = "fresh"]
  <2>1. k \in Calls /\ k.pc = "fresh"
    BY DEF IInv, TypeOK, Calls, Adopting
  <2>2. call' = [call EXCEPT ![c] = k] /\ Unwritten /\ Outside
    BY <1>1 DEF Bootstrap, IInv, TypeOK
  <2> HIDE DEF k
  <2>3. Legal(k) /\ Covered(k, files, backups, raced)
    BY <2>1, IdleIsCovered DEF Migrating
  <2>4. Configured(k, c, files)
    BY <1>1 DEF Configured, Bootstrappable
  <2> QED  BY <2>1, <2>2, <2>3, <2>4, Moves
<1>2. CASE Bootstrappable(c) /\ files["state"] # Absent
  <2> DEFINE k == [call[c] EXCEPT !.pc = "ready"]
  <2>1. k \in Calls /\ k.pc = "ready"
    BY DEF IInv, TypeOK, Calls, Adopting
  <2>2. call' = [call EXCEPT ![c] = k] /\ Unwritten /\ Outside
    BY <1>2 DEF Bootstrap, IInv, TypeOK
  <2> QED  BY <2>1, <2>2, MovesOn
<1>3. CASE ~Bootstrappable(c)
  BY <1>3, Stops DEF Bootstrap
<1> QED  BY <1>1, <1>2, <1>3

LEMMA RevalidateStep == ASSUME IInv, NEW c \in Callers, Revalidate(c) PROVE IInv'
<1>1. CASE Profile = call[c].profile
  <2> DEFINE k == [call[c] EXCEPT !.pc = "link"]
  <2>1. k \in Calls /\ k.pc = "link"
    BY DEF IInv, TypeOK, Calls, Adopting
  <2>2. call' = [call EXCEPT ![c] = k] /\ Unwritten /\ Outside
    BY <1>1 DEF Revalidate, IInv, TypeOK
  <2> HIDE DEF k
  <2>3. Legal(k) /\ Covered(k, files, backups, raced)
    BY <2>1, IdleIsCovered DEF Migrating
  <2>4. Configured(k, c, files)
    BY DEF Configured, Revalidate, IInv
  <2> QED  BY <2>1, <2>2, <2>3, <2>4, Moves
<1>2. CASE Profile # call[c].profile
  BY <1>2, Stops DEF Revalidate
<1> QED  BY <1>1, <1>2

LEMMA CreateStateStep == ASSUME IInv, NEW c \in Callers, CreateState(c) PROVE IInv'
<1>1. CASE files["state"] = Absent
  <2> DEFINE k == [call[c] EXCEPT !.pc = "created"]
             v == Current(Project[c])
  <2>1. k \in Calls /\ k.pc = "created"
    BY DEF IInv, TypeOK, Calls, Adopting
  <2>2. /\ call' = [call EXCEPT ![c] = k] /\ files' = [files EXCEPT !["state"] = v]
        /\ backups' = backups /\ Outside
    BY <1>1 DEF CreateState, Write, IInv, TypeOK
  <2> HIDE DEF k
  <2>3. Legal(k) /\ Covered(k, files', backups, raced) /\ Configured(k, c, files')
    BY <2>1, IdleIsCovered DEF Configured, Migrating
  <2>4. files["config"] = v
    BY DEF CreateState, IInv, Configured
  <2>5. v \in Content /\ v # Absent /\ v.version # "old"
    BY Constants DEF Current, Absent
  <2>6. "state" \in Paths  BY DEF Paths
  <2> HIDE DEF v
  <2> QED  BY <1>1, <2>1, <2>2, <2>3, <2>4, <2>5, <2>6, Writes
<1>2. CASE files["state"] # Absent
  BY <1>2, Stops DEF CreateState, Unwritten
<1> QED  BY <1>1, <1>2

LEMMA VerifyBootstrapStep == ASSUME IInv, NEW c \in Callers, VerifyBootstrap(c) PROVE IInv'
<1> DEFINE k == [call[c] EXCEPT !.pc = "ready"]
<1>1. k \in Calls /\ k.pc = "ready"
  BY DEF IInv, TypeOK, Calls, Adopting
<1>2. Unwritten /\ Outside /\ (Stop(c) \/ call' = [call EXCEPT ![c] = k])
  BY DEF VerifyBootstrap, IInv, TypeOK
<1> QED  BY <1>1, <1>2, Stops, MovesOn

LEMMA Succeeds ==
    ASSUME IInv, NEW c \in Callers, NEW outcome \in {"ADOPTED", "MIGRATED"},
           Succeed(c, outcome), Unwritten, Outside
    PROVE  IInv'
<1>1. [Idle EXCEPT !.outcome = outcome] \in Calls
      /\ [Idle EXCEPT !.outcome = outcome].pc = "idle"
  BY IdleType DEF Calls
<1> QED  BY <1>1, MovesOn DEF Succeed

LEMMA ConcludeStep == ASSUME IInv, NEW c \in Callers, Conclude(c) PROVE IInv'
  BY Stops, Succeeds DEF Conclude

---------------------------------------------------------------------------
(* The steps of an upgrade.                                                *)

LEMMA PlanStep == ASSUME IInv, NEW c \in Callers, Plan(c) PROVE IInv'
<1>1. CASE Steps(Profile) # {} /\ Upgradable(Profile)
  <2> DEFINE k == [Idle EXCEPT !.pc = "planned", !.profile = Profile]
  <2>1. k \in Calls /\ k.pc = "planned" /\ k.migrated = {} /\ k.profile = Profile
    BY IdleType, ProfileType DEF IInv, Calls, Idle
  <2>2. call' = [call EXCEPT ![c] = k] /\ Unwritten /\ Outside
    BY <1>1 DEF Plan
  <2> HIDE DEF k
  <2>3. Legal(k) /\ Covered(k, files, backups, raced) /\ Configured(k, c, files)
    BY <1>1, <2>1 DEF Configured, Legal, Covered, Migrating
  <2> QED  BY <2>1, <2>2, <2>3, Moves
<1>2. CASE ~(Steps(Profile) # {} /\ Upgradable(Profile))
  BY <1>2, Stops DEF Plan
<1> QED  BY <1>1, <1>2

LEMMA BeginUpgradeStep == ASSUME IInv, NEW c \in Callers, BeginUpgrade(c) PROVE IInv'
<1>1. CASE Profile = call[c].profile /\ Upgradable(Profile)
  <2> DEFINE k == [call[c] EXCEPT !.pc = "step", !.head = head]
  <2>1. /\ k \in Calls /\ k.pc = "step" /\ k.profile = call[c].profile
        /\ k.migrated = call[c].migrated
    BY DEF IInv, TypeOK, Calls, Migrating
  <2>2. call' = [call EXCEPT ![c] = k] /\ Unwritten /\ Outside
    BY <1>1 DEF BeginUpgrade, IInv, TypeOK
  <2> HIDE DEF k
  <2>3. Steps(call[c].profile) \ call[c].migrated # {}
    BY DEF BeginUpgrade, IInv, Legal
  <2>4. Legal(k) /\ Covered(k, files, backups, raced) /\ Configured(k, c, files)
    BY <2>1, <2>3 DEF Configured, Legal, Covered, Migrating
  <2> QED  BY <2>1, <2>2, <2>4, Moves
<1>2. CASE ~(Profile = call[c].profile /\ Upgradable(Profile))
  BY <1>2, Stops DEF BeginUpgrade
<1> QED  BY <1>1, <1>2

(* The artifact an upgrade is about. *)
LEMMA StepKinds ==
    ASSUME IInv, NEW c \in Callers, call[c].pc \in Migrating
    PROVE  /\ Step(c) = Target(call[c])
           /\ Step(c) \in Migratable /\ Step(c) \in Paths \ {"config", "state", "source"}
           /\ call[c].profile.files[Step(c)].version = "old"
<1> DEFINE S == Steps(call[c].profile) \ call[c].migrated
<1>1. S # {} /\ S \in SUBSET Migratable
  BY DEF IInv, Legal, Steps
<1>2. Step(c) \in S
  BY <1>1, FirstIsMember DEF Step
<1>3. Step(c) = Target(call[c])
  BY DEF Step, Target, Migrating
<1> QED  BY <1>1, <1>2, <1>3 DEF Steps, Migratable, Sections, Volatile, Paths

LEMMA ReadSourceStep == ASSUME IInv, NEW c \in Callers, ReadSource(c) PROVE IInv'
<1> DEFINE p == Step(c)
<1>1. call[c] \in Calls /\ call[c].pc = "step" /\ Legal(call[c])
  BY DEF ReadSource, IInv, TypeOK
<1>2. p \in Paths /\ call[c].profile.files[p].version = "old"
  BY <1>1, StepKinds DEF Migrating
<1>3. CASE OnlyOurs(c) /\ Observed(p) = call[c].profile.files[p]
  <2> DEFINE k == [call[c] EXCEPT !.pc = "backup", !.source = files[p]]
  <2>1. k \in Calls
    BY <1>1, <1>2 DEF Calls, Migrating, IInv, TypeOK
  <2>2. /\ k.pc = "backup" /\ k.profile = call[c].profile /\ k.migrated = call[c].migrated
        /\ k.source = files[p]
    BY <1>1 DEF Calls
  <2>3. call' = [call EXCEPT ![c] = k] /\ Unwritten /\ Outside
    BY <1>3 DEF ReadSource, IInv, TypeOK
  <2>4. files[p].version = "old"
    BY <1>2, <1>3 DEF Observed
  <2> HIDE DEF k
  <2>5. Legal(k) /\ Covered(k, files, backups, raced) /\ Configured(k, c, files)
    BY <1>1, <2>2, <2>4 DEF Legal, Covered, Configured, Migrating
  <2> QED  BY <2>1, <2>3, <2>5, Moves
<1>4. CASE ~(OnlyOurs(c) /\ Observed(p) = call[c].profile.files[p])
  BY <1>4, Stops DEF ReadSource
<1> QED  BY <1>3, <1>4

LEMMA CreateBackupStep == ASSUME IInv, NEW c \in Callers, CreateBackup(c) PROVE IInv'
<1> DEFINE backup == Backup(Step(c), call[c].source)
<1>1. call[c] \in Calls /\ call[c].pc = "backup" /\ Legal(call[c])
  BY DEF CreateBackup, IInv, TypeOK
<1>2. Step(c) \in Paths /\ Step(c) = Target(call[c])
  BY <1>1, StepKinds DEF Migrating
<1>3. backup \in Entries
  BY <1>1, <1>2 DEF Backup, Entries, Calls
<1>4. CASE backup \notin backups
  <2> DEFINE k == [call[c] EXCEPT !.pc = "reread", !.expected = @ \cup {backup}]
  <2>1. k \in Calls
    BY <1>1, <1>3 DEF Calls, Migrating
  <2>2. /\ k.pc = "reread" /\ k.profile = call[c].profile /\ k.migrated = call[c].migrated
        /\ k.source = call[c].source
    BY <1>1 DEF Calls
  <2>3. /\ call' = [call EXCEPT ![c] = k] /\ backups' = backups \cup {backup}
        /\ files' = files /\ Outside
    BY <1>4 DEF CreateBackup, IInv, TypeOK
  <2>4. backups' \subseteq Entries
    BY <1>3, <2>3 DEF IInv, TypeOK
  <2> HIDE DEF k
  <2>5. Target(k) = Target(call[c])
    BY <1>1, <2>2 DEF Target
  <2>6. Legal(k) /\ Covered(k, files, backups', raced) /\ Configured(k, c, files)
    BY <1>1, <1>2, <2>2, <2>3, <2>5 DEF Legal, Covered, Configured, Migrating
  <2> QED  BY <2>1, <2>3, <2>4, <2>6, Quiet
<1>5. CASE backup \in backups
  BY <1>5, Stops DEF CreateBackup, Unwritten
<1> QED  BY <1>4, <1>5

LEMMA RereadSourceStep == ASSUME IInv, NEW c \in Callers, RereadSource(c) PROVE IInv'
<1>1. call[c] \in Calls /\ call[c].pc = "reread" /\ Legal(call[c])
  BY DEF RereadSource, IInv, TypeOK
<1>2. Step(c) = Target(call[c])
  BY <1>1, StepKinds DEF Migrating
<1>3. CASE OnlyOurs(c) /\ files[Step(c)] = call[c].source
  <2> DEFINE k == [call[c] EXCEPT !.pc = "replace"]
  <2>1. k \in Calls
    BY <1>1 DEF Calls, Migrating
  <2>2. /\ k.pc = "replace" /\ k.profile = call[c].profile /\ k.migrated = call[c].migrated
        /\ k.source = call[c].source
    BY <1>1 DEF Calls
  <2>3. call' = [call EXCEPT ![c] = k] /\ Unwritten /\ Outside
    BY <1>3 DEF RereadSource, IInv, TypeOK
  <2> HIDE DEF k
  <2>4. Target(k) = Target(call[c])
    BY <1>1, <2>2 DEF Target
  <2>5. Backup(Target(k), k.source) \in backups
    BY <1>1, <2>2, <2>4 DEF IInv, Covered
  <2>6. k.source.version = "old" /\ k.source # Absent
    BY <1>1, <2>2 DEF Legal, Absent
  <2>7. Legal(k) /\ Covered(k, files, backups, raced) /\ Configured(k, c, files)
    BY <1>1, <1>2, <1>3, <2>2, <2>4, <2>5, <2>6 DEF Legal, Covered, Configured, Migrating
  <2> QED  BY <2>1, <2>3, <2>7, Moves
<1>4. CASE ~(OnlyOurs(c) /\ files[Step(c)] = call[c].source)
  BY <1>4, Stops DEF RereadSource
<1> QED  BY <1>3, <1>4

LEMMA ReplaceSourceStep == ASSUME IInv, NEW c \in Callers, ReplaceSource(c) PROVE IInv'
<1> DEFINE p == Step(c)
           v == Migrated(call[c].source)
           e == {Entry(q) : q \in {p} \cap Versioned}
           k == [call[c] EXCEPT !.pc = "validate", !.expected = @ \cup e]
<1>1. call[c] \in Calls /\ call[c].pc = "replace" /\ Legal(call[c])
  BY DEF ReplaceSource, IInv, TypeOK
<1>2. p = Target(call[c]) /\ p \in Paths /\ p \notin {"config", "state"}
  BY <1>1, StepKinds DEF Migrating
<1>3. v \in Content /\ v # Absent /\ v.version # "old" /\ v.text = call[c].source.text
  BY <1>1 DEF Calls, Content, Current, Absent, Migrated
<1>4. e \subseteq Entries
  BY <1>2, Constants DEF Entry, Entries
<1>5. k \in Calls
  BY <1>1, <1>4 DEF Calls, Migrating
<1>6. k.pc = "validate" /\ k.profile = call[c].profile /\ k.migrated = call[c].migrated
  BY <1>1 DEF Calls
<1>7. /\ call' = [call EXCEPT ![c] = k] /\ files' = [files EXCEPT ![p] = v]
      /\ backups' = backups /\ Outside
  BY DEF ReplaceSource, Write, IInv, TypeOK
<1>8. p \in raced \/ files[p].text = v.text
  BY <1>1, <1>2, <1>3 DEF IInv, Covered
<1> HIDE DEF k, v, p
<1>9. Legal(k) /\ Covered(k, files', backups, raced) /\ Configured(k, c, files')
  BY <1>1, <1>6 DEF Legal, Covered, Configured, Migrating
<1> QED  BY <1>2, <1>3, <1>5, <1>7, <1>8, <1>9, Writes

LEMMA ValidateStep == ASSUME IInv, NEW c \in Callers, Validate(c) PROVE IInv'
<1> DEFINE rest == Steps(call[c].profile) \ call[c].migrated
           done == call[c].migrated \cup {Step(c)}
           k == [call[c] EXCEPT !.migrated = done,
                                !.pc = IF rest = {Step(c)} THEN "final" ELSE "step"]
<1>1. call[c] \in Calls /\ call[c].pc = "validate" /\ Legal(call[c])
  BY DEF Validate, IInv, TypeOK
<1>2. Step(c) \in Paths
  BY <1>1, StepKinds DEF Migrating
<1>3. done \in SUBSET Paths
  BY <1>1, <1>2 DEF Calls
<1>4. CASE files[Step(c)] = Migrated(call[c].source) /\ OnlyOurs(c)
  <2>1. k \in Calls
    BY <1>1, <1>3 DEF Calls, Migrating
  <2>2. /\ k.pc = (IF rest = {Step(c)} THEN "final" ELSE "step")
        /\ k.profile = call[c].profile /\ k.migrated = done
    BY <1>1 DEF Calls
  <2>3. call' = [call EXCEPT ![c] = k] /\ Unwritten /\ Outside
    BY <1>4 DEF Validate, IInv, TypeOK
  <2> HIDE DEF k
  <2>4. CASE rest = {Step(c)}
    BY <2>1, <2>2, <2>3, <2>4, MovesOn
  <2>5. CASE rest # {Step(c)}
    <3>1. rest # {}
      BY <1>1 DEF Legal, Migrating
    <3>2. Steps(k.profile) \ k.migrated # {}
      BY <2>2, <2>5, <3>1
    <3>3. Legal(k) /\ Covered(k, files, backups, raced) /\ Configured(k, c, files)
      BY <2>2, <2>5, <3>2 DEF Legal, Covered, Configured, Migrating
    <3> QED  BY <2>1, <2>3, <3>3, Moves
  <2> QED  BY <2>4, <2>5
<1>5. CASE ~(files[Step(c)] = Migrated(call[c].source) /\ OnlyOurs(c))
  BY <1>5, Stops DEF Validate
<1> QED  BY <1>4, <1>5

LEMMA FinishStep == ASSUME IInv, NEW c \in Callers, Finish(c) PROVE IInv'
  BY Stops, Succeeds DEF Finish

---------------------------------------------------------------------------
(* The operator, the user and the machine.                                 *)

LEMMA InterruptStep == ASSUME IInv, NEW c \in Callers, Interrupt(c) PROVE IInv'
<1>1. TypeOK'
  BY IdleType DEF IInv, TypeOK, Interrupt, Stop
<1>2. Legal(Idle) /\ Covered(Idle, files, backups', raced) /\ Configured(Idle, c, files)
  BY IdleType, IdleIsCovered DEF Configured, Migrating
<1> QED  BY <1>1, <1>2, Keeps DEF Interrupt, Stop

LEMMA EditStep ==
    ASSUME IInv, NEW p \in Sections \cup {"source"}, Edit(p)
    PROVE  IInv'
<1> DEFINE v == [files[p] EXCEPT !.text = "edited"]
<1>1. p \in Paths /\ p \notin {"config", "state"} /\ "config" \in Paths /\ "state" \in Paths
  BY DEF Paths, Sections
<1>2. v \in Content
  BY <1>1, Constants DEF IInv, TypeOK, Content
<1>3. files' = [files EXCEPT ![p] = v] /\ call' = call /\ backups' = backups
  BY DEF Edit, Write
<1>4. raced \subseteq raced' /\ raced' \subseteq Paths /\ (InWindow(p) => p \in raced')
  BY <1>1 DEF Edit, IInv, TypeOK
<1>5. TypeOK'
  <2>1. files' \in [Paths -> Content]  BY <1>2, <1>3 DEF IInv, TypeOK
  <2>2. disturbed' \in BOOLEAN /\ edits' \in Nat
    BY DEF Edit, IInv, TypeOK, Busy
  <2> QED  BY <1>3, <1>4, <2>1, <2>2 DEF Edit, IInv, TypeOK
<1>6. \A q \in Paths : q # p => files'[q] = files[q]
  BY <1>3 DEF IInv, TypeOK
<1>7. OneProject' /\ (files'["state"] # Absent => files'["config"] # Absent)
  BY <1>1, <1>6 DEF IInv, OneProject
<1>8. ASSUME NEW d \in Callers
      PROVE  /\ Legal(call'[d])
             /\ Covered(call'[d], files', backups', raced')
             /\ Configured(call'[d], d, files')
  <2> DEFINE t == Target(call[d])
  <2>1. Legal(call[d]) /\ Covered(call[d], files, backups, raced) /\ Configured(call[d], d, files)
    BY DEF IInv
  <2>2. ASSUME call[d].pc \in {"install", "replace"}
        PROVE  t \in Paths /\ (t = p => p \in raced')
    <3>1. CASE call[d].pc = "install"
      <4>1. t = Op(d).path /\ t \in Paths
        BY <2>1, <3>1 DEF Legal, Target, Op, Paths
      <4> QED  BY <1>4, <3>1, <4>1 DEF InWindow
    <3>2. CASE call[d].pc = "replace"
      <4>1. t = Step(d) /\ t \in Paths
        BY <3>2, StepKinds DEF Migrating
      <4> QED  BY <1>4, <3>2, <4>1 DEF InWindow
    <3> QED  BY <2>2, <3>1, <3>2
  <2>3. Covered(call[d], files', backups, raced')
    <3>1. ASSUME call[d].pc \in {"install", "replace"}
          PROVE  \/ t \in raced'
                 \/ /\ files'[t] # Absent /\ files'[t].text = call[d].source.text
                    /\ files'[t].version = "old" => Backup(t, files'[t]) \in backups
      <4>1. \/ t \in raced
            \/ /\ files[t] # Absent /\ files[t].text = call[d].source.text
               /\ files[t].version = "old" => Backup(t, files[t]) \in backups
        BY <2>1, <3>1 DEF Covered
      <4> HIDE DEF t
      <4> QED  BY <1>4, <1>6, <2>2, <3>1, <4>1
    <3>2. call[d].pc = "reread" => Backup(t, call[d].source) \in backups
      BY <2>1 DEF Covered
    <3> QED  BY <3>1, <3>2 DEF Covered
  <2>4. Configured(call[d], d, files')
    BY <1>1, <1>6, <2>1 DEF Configured
  <2> QED  BY <1>3, <2>1, <2>3, <2>4
<1> QED  BY <1>5, <1>7, <1>8 DEF IInv

LEMMA CommitStep == ASSUME IInv, Commit PROVE IInv'
<1>1. base' \in [Paths -> Content]
  BY DEF Commit, IInv, TypeOK
<1>2. disturbed' \in BOOLEAN /\ edits' \in Nat
  <2>1. CASE Busy  BY <2>1 DEF Commit, IInv, TypeOK
  <2>2. CASE ~Busy  BY <2>2 DEF Commit, IInv, TypeOK
  <2> QED  BY <2>1, <2>2
<1>3. TypeOK'
  BY <1>1, <1>2 DEF Commit, IInv, TypeOK
<1> QED  BY <1>3 DEF Commit, IInv, OneProject

(* Nothing is under way when the operator clears up. *)
LEMMA NobodyCovers ==
    ASSUME ~Busy, NEW c \in Callers, NEW content, NEW kept, NEW edited
    PROVE  /\ Legal(call[c]) /\ Covered(call[c], content, kept, edited)
           /\ Configured(call[c], c, content)
<1>1. call[c].pc = "idle"  BY DEF Busy
<1>2. Legal(call[c]) /\ Covered(call[c], content, kept, edited)
  BY <1>1, IdleIsCovered DEF Migrating
<1> QED  BY <1>1, <1>2 DEF Configured

LEMMA DiscardStep == ASSUME IInv, Discard PROVE IInv'
<1>1. \A p \in Paths : Without(p) \in Content
  <2> TAKE p \in Paths
  <2>1. files[p] \in Content /\ files[p].text \in Texts
    BY DEF IInv, TypeOK, Content
  <2>2. "none" \in Texts  BY Constants
  <2> QED  BY <2>1, <2>2, Constants DEF Without, Sections, Paths, Volatile
<1>2. files' \in [Paths -> Content]
  BY <1>1 DEF Discard
<1>3. TypeOK'
  BY <1>2 DEF Discard, IInv, TypeOK
<1>4. files'["state"] = Absent
  BY DEF Discard, Without, Paths, Sections
<1>5. \A c \in Callers : /\ Legal(call[c]) /\ Covered(call[c], files', backups, raced)
                         /\ Configured(call[c], c, files')
  BY NobodyCovers DEF Discard
<1> QED  BY <1>3, <1>4, <1>5 DEF Discard, IInv, OneProject

LEMMA TidyStep == ASSUME IInv, NEW p \in Migratable, Tidy(p) PROVE IInv'
<1>1. TypeOK'
  BY DEF Tidy, IInv, TypeOK
<1>2. \A c \in Callers : /\ Legal(call[c]) /\ Covered(call[c], files, backups', raced)
                         /\ Configured(call[c], c, files)
  BY NobodyCovers DEF Tidy
<1> QED  BY <1>1, <1>2 DEF Tidy, IInv, OneProject

---------------------------------------------------------------------------
(* The specification.                                                      *)

LEMMA Initially == Init => IInv
<1> SUFFICES ASSUME Init PROVE IInv
  OBVIOUS
<1>1. TypeOK
  <2>1. call \in [Callers -> Calls]
    BY IdleType DEF Init, Idling
  <2>2. ASSUME NEW known, \A p \in DOMAIN known : known[p] \in Content
        PROVE  Tree(known) \in [Paths -> Content]
    <3>1. Absent \in Content /\ Plain("user") \in Content
      BY Constants
    <3> QED  BY <2>2, <3>1 DEF Tree
  <2>3. files \in [Paths -> Content] /\ base \in [Paths -> Content]
    <3>1. CASE Fresh
      <4>1. PICK sections \in [Sections -> {Absent, Plain("user")}] : files = Tree(sections)
        BY <3>1 DEF Fresh
      <4>2. \A p \in DOMAIN sections : sections[p] \in Content
        BY <4>1, Constants
      <4>3. files \in [Paths -> Content]
        BY <2>2, <4>1, <4>2
      <4> QED  BY <3>1, <4>3 DEF Fresh
    <3>2. ASSUME NEW c \in Owners, Installed(c)
          PROVE  files \in [Paths -> Content] /\ base \in [Paths -> Content]
      <4>1. PICK known \in [Migratable -> UNION {Legacy(p) : p \in Migratable}],
                 version \in Versions :
                 /\ \A p \in Migratable : known[p] \in Legacy(p)
                 /\ files = [Tree(known) EXCEPT
                               !["directory"] = Plain("empty"),
                               !["config"] = Current(Project[c]),
                               !["state"] = [text |-> Project[c], version |-> version]]
        BY <3>2 DEF Installed
      <4>2. \A v \in Versions, t \in Texts : [text |-> t, version |-> v] \in Content
        BY DEF Versions, Content
      <4>3. {"user", "facts", "empty", Project[c]} \subseteq Texts
        BY <3>2, Constants, CallersAssumption
      <4>4. \A p \in Migratable : Legacy(p) \subseteq Content
        BY <4>2, <4>3, Constants DEF Legacy, Versions
      <4>5. DOMAIN known = Migratable
        BY <4>1
      <4>8. Tree(known) \in [Paths -> Content]
        BY <2>2, <4>1, <4>4, <4>5
      <4>9. files \in [Paths -> Content]
        BY <4>1, <4>2, <4>3, <4>8, Constants
      <4>10. base \in [Paths -> Content]
        BY <3>2, <4>9, Constants DEF Installed, Paths, Volatile
      <4> QED  BY <4>9, <4>10
    <3> QED  BY <3>1, <3>2 DEF Init
  <2>4. /\ backups \subseteq Entries /\ saved \subseteq Entries /\ raced \subseteq Paths
        /\ disturbed \in BOOLEAN /\ head \in Nat /\ faults \in Nat /\ edits \in Nat
    BY DEF Init, Idling
  <2> QED  BY <2>1, <2>3, <2>4 DEF TypeOK
<1>2. OneProject /\ (files["state"] # Absent => files["config"] # Absent)
  <2>1. CASE Fresh
    BY <2>1 DEF Fresh, Tree, OneProject, Paths, Sections
  <2>2. ASSUME NEW c \in Owners, Installed(c)
        PROVE  files["config"].text = files["state"].text /\ files["config"] # Absent
    BY <2>2 DEF Installed, Tree, Paths, Current, Absent
  <2> QED  BY <2>1, <2>2 DEF Init, OneProject
<1>3. \A c \in Callers : call[c] = Idle
  BY DEF Init, Idling
<1>4. \A c \in Callers : /\ Legal(call[c]) /\ Covered(call[c], files, backups, raced)
                         /\ Configured(call[c], c, files)
  BY <1>3, IdleType, IdleIsCovered DEF Configured, Migrating
<1> QED  BY <1>1, <1>2, <1>4 DEF IInv

LEMMA Advances == IInv /\ [Next]_vars => IInv'
<1> SUFFICES ASSUME IInv, [Next]_vars PROVE IInv'
  OBVIOUS
<1>1. CASE Operator
  BY <1>1, EditStep, CommitStep, DiscardStep, TidyStep, InterruptStep DEF Operator
<1>2. ASSUME NEW c \in Callers, Adopt(c) PROVE IInv'
  BY <1>2, PrepareStep, BeginAdoptionStep, OperateStep, CheckAgainStep, InstallStep,
     ReadBackStep, ObserveStep, InspectStep, BootstrapStep, RevalidateStep, CreateStateStep,
     VerifyBootstrapStep, ConcludeStep DEF Adopt
<1>3. ASSUME NEW c \in Callers, Upgrade(c) PROVE IInv'
  BY <1>3, PlanStep, BeginUpgradeStep, ReadSourceStep, CreateBackupStep, RereadSourceStep,
     ReplaceSourceStep, ValidateStep, FinishStep DEF Upgrade
<1>4. CASE UNCHANGED vars
  <2>1. \A c \in Callers : call'[c] = call[c]
    BY <1>4 DEF vars
  <2> QED  BY <1>4, <2>1 DEF vars, IInv, TypeOK, OneProject
<1> QED  BY <1>1, <1>2, <1>3, <1>4 DEF Next

(* Only four steps of an invocation change a file, and each keeps it.      *)
LEMMA StepKeeps ==
    ASSUME IInv, NEW c \in Callers, Adopt(c) \/ Upgrade(c), NEW p \in Paths, files'[p] # files[p]
    PROVE  Kept(p)
<1> files \in [Paths -> Content]
  BY DEF IInv, TypeOK
<1>1. CASE Operate(c)
  <2>1. Write(Op(c).path, Created(c, Op(c).path)) /\ files[Op(c).path] = Absent
    BY <1>1, OperateWrites
  <2> QED  BY <2>1 DEF Write, Kept
<1>2. CASE Install(c)
  <2>1. call[c].pc = "install" /\ Op(c).path = Target(call[c])
    BY <1>2 DEF Install, Op, Target
  <2>2. files' = [files EXCEPT ![Op(c).path] = Current(call[c].source.text)]
    BY <1>2 DEF Install, Write
  <2>3. p = Op(c).path /\ files'[p].text = call[c].source.text
    BY <2>2 DEF Current
  <2> QED  BY <2>1, <2>3 DEF Kept, IInv, Covered
<1>3. CASE CreateState(c)
  BY <1>3 DEF CreateState, Write, Kept
<1>4. CASE ReplaceSource(c)
  <2>1. call[c].pc = "replace" /\ Step(c) = Target(call[c])
    BY <1>4, StepKinds DEF ReplaceSource, Migrating
  <2>2. files' = [files EXCEPT ![Step(c)] = Migrated(call[c].source)]
    BY <1>4 DEF ReplaceSource, Write
  <2>3. p = Step(c) /\ files'[p].text = call[c].source.text
    BY <2>2 DEF Migrated, Current
  <2> QED  BY <2>1, <2>3 DEF Kept, IInv, Covered
<1>5. CASE files' = files
  BY <1>5
<1> QED
  BY <1>1, <1>2, <1>3, <1>4, <1>5
  DEF Adopt, Upgrade, Unwritten, Prepare, BeginAdoption, CheckAgain, ReadBack, Observe,
      Inspect, Bootstrap, Revalidate, VerifyBootstrap, Conclude, Plan, BeginUpgrade, ReadSource, CreateBackup, RereadSource,
      Validate, Finish

(* Every reachable state satisfies what the invocations rely on. *)
THEOREM Reliable == Spec => []IInv
  BY Initially, Advances, PTL DEF Spec

(* A state that exists belongs to the project of the configuration: two     *)
(* adoptions for different projects never mix, however they interleave      *)
(* (exclusive creation in `_exclusive_create` and `ProjectStateStore`).     *)
THEOREM ProjectsNeverMix == Spec => []OneProject
<1>1. IInv => OneProject
  BY DEF IInv
<1> QED  BY <1>1, Reliable, PTL

(* No step of an adoption or an upgrade destroys bytes it does not own,     *)
(* whatever the other invocations, the user and the crashes did before: it  *)
(* replaces a file it has just read or one that another invocation extended *)
(* with the same text, and an old format only once its backup is there      *)
(* (`_append_gitignore_section`, `integrate_from_plan`,                     *)
(* `RepositoryUpgradeService.apply`).                                       *)
THEOREM BytesAreKept == Spec => NothingIsLost
<1>1. IInv /\ [Next]_vars =>
         [Operator \/ \A p \in Paths : files'[p] # files[p] => Kept(p)]_vars
  BY StepKeeps DEF Next
<1> QED  BY <1>1, Reliable, PTL DEF Spec, NothingIsLost

(* Every variable keeps its type. *)
THEOREM TypesAreKept == Spec => []TypeOK
<1>1. IInv => TypeOK
  BY DEF IInv
<1> QED  BY <1>1, Reliable, PTL

=============================================================================
