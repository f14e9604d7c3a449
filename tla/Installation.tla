---------------------------- MODULE Installation ----------------------------
(***************************************************************************)
(* Putting the product into a repository and moving it to a newer format:  *)
(* ExistingRepositoryAdoption, which drives RepositoryInitializer and then *)
(* RuntimeStateBootstrap, and RepositoryUpgradeService over the registered *)
(* migrations.  Neither takes the operation lock, so several invocations,  *)
(* the user's editor and the user's commits interleave with every step.    *)
(* No step is ever undone: a crash, a refusal or a failed write leaves the *)
(* files as they are, and the next invocation plans from what it observes. *)
(*                                                                         *)
(* A file is the text the product does not own and the version of the part *)
(* it does: a user's own AGENTS.md has version "none", an adopted one      *)
(* "current", one written by an older product "old".                       *)
(***************************************************************************)
EXTENDS Naturals, Sequences, SequencesExt

CONSTANTS
    Callers,        \* invocations of the command line
    Project,        \* Project[c]: the project that c's configuration names
    Owners,         \* callers whose project an older product may have served
    Tolerant,       \* callers whose configuration does not require a clean Git
    MaxFaults,      \* bound on the interruptions of an invocation
    MaxEdits        \* bound on the user's edits and untimely commits

ASSUME CallersAssumption == Owners \subseteq Callers /\ Tolerant \subseteq Callers

VARIABLES
    files,          \* the working tree
    base,           \* the tree of HEAD
    backups,        \* migration backups, as <<path, content>> records
    saved,          \* the backups HEAD contains
    head,           \* number of commits made so far
    call,           \* the invocations
    raced,          \* paths the user edited in the window before os.replace
    disturbed,      \* something else acted while an invocation was under way
    faults,         \* interruptions so far
    edits           \* edits so far

vars == <<files, base, backups, saved, head, call, raced, disturbed, faults, edits>>

-----------------------------------------------------------------------------
(* Files and what Git says of them. *)

Texts == {"none", "empty", "user", "edited", "facts"} \cup {Project[c] : c \in Callers}
Content == [text : Texts, version : {"none", "old", "current"}]

Absent == [text |-> "none", version |-> "none"]
Plain(t) == [text |-> t, version |-> "none"]
Current(t) == [text |-> t, version |-> "current"]

Sections == {"agents", "gitignore"}       \* AGENTS.md and .gitignore
Volatile == {"ledger", "record"}          \* negative-outcomes.json, orchestration.json
Paths == {"directory", "config", "state", "source"} \cup Sections \cup Volatile

Entry(p) == [path |-> p, of |-> Absent]
Backup(p, content) == [path |-> p, of |-> content]

(* The rule for orchestration.json came with version 2 of the section. *)
Ignored(p) ==
    \/ p = "ledger" /\ files.gitignore.version # "none"
    \/ p = "record" /\ files.gitignore.version = "current"

Untracked(p) == base[p] = Absent /\ Ignored(p)

(* `worktree_changed_paths`; Git does not track directories. *)
Changed ==
    {Entry(p) : p \in {q \in Paths \ {"directory"} : files[q] # base[q] /\ ~Untracked(q)}}
        \cup (backups \ saved) \cup (saved \ backups)

Clean == Changed = {}

-----------------------------------------------------------------------------
(* What reconnaissance observes: the bytes of the configuration and of the *)
(* managed files, the version of a runtime file, and the state of Git.     *)

Observed(p) ==
    IF p \in Volatile \cup {"state"}
        THEN [text |-> "none", version |-> files[p].version]
        ELSE files[p]

Profile ==
    [files |-> [p \in Paths \ {"source"} |-> Observed(p)], head |-> head, clean |-> Clean]

Integrated(profile) == \A p \in Sections : profile.files[p].version = "current"

Outdated(profile) ==
    \E p \in Sections \cup Volatile \cup {"state"} : profile.files[p].version = "old"

Footprint(profile) ==
    \/ profile.files["directory"] # Absent
    \/ \E p \in Sections : profile.files[p].version # "none"

InitializationState(profile) ==
    IF Outdated(profile) THEN "UPGRADE_REQUIRED"
    ELSE IF profile.files["config"] # Absent /\ Integrated(profile) THEN "INITIALIZED"
    ELSE IF ~Footprint(profile) THEN "UNINITIALIZED"
    ELSE "PARTIAL_OR_INCONSISTENT"

-----------------------------------------------------------------------------
(* The initialization plan: a function of the observed profile. *)

Operation(do, p) == [do |-> do, path |-> p]

ManagedOperation(profile, p) ==
    IF profile.files[p] = Absent THEN Operation("CREATE", p)
    ELSE IF profile.files[p].version = "none" THEN Operation("APPEND", p)
    ELSE Operation("NO_OP", p)

Operations(profile) ==
    (IF profile.files["config"] = Absent
        THEN <<Operation("CREATE", "directory"), Operation("CREATE", "config")>>
        ELSE <<Operation("NO_OP", "config")>>)
    \o <<ManagedOperation(profile, "agents"), ManagedOperation(profile, "gitignore")>>

(* Mutant: the new directory counts as a path of Git. *)
Applied_WithDirectory(profile) ==
    {op.path : op \in {o \in ToSet(Operations(profile)) : o.do # "NO_OP"}}

(* The paths an application creates or extends; the directory is no Git path. *)
Applied(profile) ==
    {op.path : op \in {o \in ToSet(Operations(profile)) : o.do # "NO_OP"}} \ {"directory"}

(* An initialised repository may be dirty; any other must be clean. *)
Touchable(profile) == InitializationState(profile) = "INITIALIZED" \/ profile.clean

(* The planner's blockers: a footprint it neither completes nor migrates, *)
(* and a configuration that differs from the one asked for.               *)
Unblocked(c, profile) ==
    /\ Touchable(profile)
    /\ InitializationState(profile) \in {"UNINITIALIZED", "INITIALIZED"}
    /\ profile.files["config"].text \in {"none", Project[c]}

(* `prepare_adoption`: an initialised repository must also have a loadable *)
(* state bound to its configured project.                                  *)
Adoptable(c, profile) ==
    /\ Unblocked(c, profile)
    /\ InitializationState(profile) = "INITIALIZED" =>
          files["state"] # Absent /\ files["state"].text = profile.files["config"].text

-----------------------------------------------------------------------------
(* The upgrade plan: registered edges in their fixed order. *)

Order == [agents |-> 10, gitignore |-> 20, ledger |-> 30, record |-> 40]
Migratable == Sections \cup Volatile
Versioned == Sections

Steps(profile) == {p \in Migratable : profile.files[p].version = "old"}

First(paths) == CHOOSE p \in paths : \A q \in paths : Order[p] <= Order[q]

(* Mutant: the backups are not looked up when planning. *)
Upgradable_AnyBackup(profile) ==
    /\ profile.files["state"].version # "old"
    /\ Steps(profile) # {} => profile.clean

(* Reading the sources and asking for their backups is part of planning. *)
Upgradable(profile) ==
    /\ profile.files["state"].version # "old"
    /\ \A p \in Steps(profile) : Backup(p, files[p]) \notin backups
    /\ Steps(profile) # {} => profile.clean

(* A migration rewrites the section or the format and keeps the rest. *)
Migrated(content) == Current(content.text)

-----------------------------------------------------------------------------
(* Invocations.  `profile` is what the call last trusted, `at` the step it *)
(* is at, `source` the bytes it read, `applied` the paths it has changed,  *)
(* `migrated` those an upgrade is done with and `expected` the changes of  *)
(* Git that it owns.                                                       *)

NoProfile == [files |-> [p \in Paths \ {"source"} |-> Absent], head |-> 0, clean |-> FALSE]

Idle == [pc |-> "idle", profile |-> NoProfile, at |-> 1, head |-> 0,
         source |-> Absent, applied |-> {}, migrated |-> {}, expected |-> {},
         outcome |-> "none"]

(* A refusal, a failure and a partial failure all end the invocation where *)
(* it is; only a success is remembered.                                    *)
Stop(c) == call' = [call EXCEPT ![c] = Idle]

Succeed(c, outcome) == call' = [call EXCEPT ![c] = [Idle EXCEPT !.outcome = outcome]]

Write(p, content) == files' = [files EXCEPT ![p] = content]

Unwritten == UNCHANGED <<files, backups>>
Outside == UNCHANGED <<base, saved, head, raced, disturbed, faults, edits>>

Busy == \E c \in Callers : call[c].pc # "idle"

Op(c) == Operations(call[c].profile)[call[c].at]
Step(c) == First(Steps(call[c].profile) \ call[c].migrated)

-----------------------------------------------------------------------------
(* Adoption. *)

Prepare(c) ==
    /\ call[c].pc = "idle"
    /\ IF Adoptable(c, Profile)
          THEN call' = [call EXCEPT ![c] = [Idle EXCEPT !.pc = "prepared", !.profile = Profile]]
          ELSE Stop(c)
    /\ Unwritten /\ Outside

(* `apply` rebuilds the plan and wants it equal: it is, if the profile is. *)
BeginAdoption(c) ==
    /\ call[c].pc = "prepared"
    /\ IF Profile = call[c].profile
          THEN call' = [call EXCEPT ![c].pc = "operation", ![c].head = head]
          ELSE Stop(c)
    /\ Unwritten /\ Outside

Proceeded(c) ==
    IF call[c].at = Len(Operations(call[c].profile))
        THEN [call[c] EXCEPT !.pc = "observe", !.applied = Applied(call[c].profile)]
        ELSE [call[c] EXCEPT !.pc = "operation", !.at = @ + 1]

Proceed(c) == call' = [call EXCEPT ![c] = Proceeded(c)]

(* The content an operation creates: a directory, the configuration, or the *)
(* section alone.                                                           *)
Created(c, p) ==
    CASE p = "config" -> Current(Project[c])
      [] p = "directory" -> Plain("empty")
      [] OTHER -> Current("empty")

(* What was written is read back before the next operation. *)
Written(c, content) == call' = [call EXCEPT ![c].pc = "written", ![c].source = content]

(* Mutant: creation that replaces. *)
CreateTarget_Overwrites(c, p) == Write(p, Created(c, p)) /\ Written(c, Created(c, p))

(* Exclusive creation: mkdir or a link that never replaces a file. *)
CreateTarget(c, p) ==
    IF files[p] = Absent
        THEN Write(p, Created(c, p)) /\ Written(c, Created(c, p))
        ELSE Stop(c) /\ UNCHANGED files

StillCurrent(c, p) ==
    IF p = "config" THEN files[p] = Current(Project[c]) ELSE files[p].version = "current"

(* Every operation first wants Git where it was. *)
Operate(c) ==
    /\ call[c].pc = "operation"
    /\ LET op == Op(c)
           fail == Stop(c) /\ UNCHANGED files
       IN  IF head # call[c].head THEN fail
           ELSE CASE op.do = "CREATE" -> CreateTarget(c, op.path)
                  [] op.do = "NO_OP" ->
                        IF StillCurrent(c, op.path) THEN Proceed(c) /\ UNCHANGED files ELSE fail
                  [] OTHER ->
                        IF files[op.path] = call[c].profile.files[op.path]
                            THEN /\ call' = [call EXCEPT ![c].pc = "append",
                                                         ![c].source = files[op.path]]
                                 /\ UNCHANGED files
                            ELSE fail
    /\ UNCHANGED backups /\ Outside

(* Mutant: the file is not read again. *)
CheckAgain_Blind(c) ==
    /\ call[c].pc = "append"
    /\ call' = [call EXCEPT ![c].pc = "install"]
    /\ Unwritten /\ Outside

(* The replacement is written beside the file; the file is read again and   *)
(* compared with the fingerprint of the plan.                               *)
CheckAgain(c) ==
    /\ call[c].pc = "append"
    /\ IF files[Op(c).path] = call[c].source
          THEN call' = [call EXCEPT ![c].pc = "install"]
          ELSE Stop(c)
    /\ Unwritten /\ Outside

(* os.replace: unconditional. *)
Install(c) ==
    /\ call[c].pc = "install"
    /\ Write(Op(c).path, Current(call[c].source.text))
    /\ Written(c, Current(call[c].source.text))
    /\ UNCHANGED backups /\ Outside

ReadBack(c) ==
    /\ call[c].pc = "written"
    /\ IF files[Op(c).path] = call[c].source THEN Proceed(c) ELSE Stop(c)
    /\ Unwritten /\ Outside

(* What the initializer leaves must be recognised as initialised, under the *)
(* same commit; its result carries the profile read here.                   *)
Observe(c) ==
    /\ call[c].pc = "observe"
    /\ IF /\ head = call[c].head
          /\ call[c].applied = {} \/ InitializationState(Profile) = "INITIALIZED"
          THEN call' = [call EXCEPT ![c].pc = "inspect", ![c].profile = Profile]
          ELSE Stop(c)
    /\ Unwritten /\ Outside

(* The adoption reads a profile of its own, which the bootstrap expects; the *)
(* result of the initializer speaks for its writes only if they agree.       *)
Inspect(c) ==
    /\ call[c].pc = "inspect"
    /\ call' = [call EXCEPT ![c].pc = "bootstrap", ![c].profile = Profile,
                            ![c].applied = IF Profile = call[c].profile THEN @ ELSE {}]
    /\ Unwritten /\ Outside

(* The dirty tree is authorised only if the initializer alone made it dirty. *)
HandedOver(c) ==
    /\ call[c].applied # {}
    /\ head = call[c].head
    /\ Changed = {Entry(p) : p \in call[c].applied}

Bootstrappable(c) ==
    /\ Profile = call[c].profile
    /\ files["config"] = Current(Project[c])
    /\ InitializationState(Profile) = "INITIALIZED"
    /\ IF files["state"] # Absent
          THEN files["state"].text = Project[c]
          ELSE (\A p \in Volatile : files[p] = Absent) /\ (Clean \/ HandedOver(c) \/ c \in Tolerant)

Bootstrap(c) ==
    /\ call[c].pc = "bootstrap"
    /\ IF Bootstrappable(c)
          THEN call' = [call EXCEPT ![c].pc = IF files["state"] = Absent THEN "fresh" ELSE "ready"]
          ELSE Stop(c)
    /\ Unwritten /\ Outside

(* The profile is read once more right before the state is created. *)
Revalidate(c) ==
    /\ call[c].pc = "fresh"
    /\ IF Profile = call[c].profile
          THEN call' = [call EXCEPT ![c].pc = "link"]
          ELSE Stop(c)
    /\ Unwritten /\ Outside

(* `ProjectStateStore.initialize`: a link that never replaces a state. *)
CreateState(c) ==
    /\ call[c].pc = "link"
    /\ IF files["state"] = Absent
          THEN Write("state", Current(Project[c])) /\ call' = [call EXCEPT ![c].pc = "created"]
          ELSE Stop(c) /\ UNCHANGED files
    /\ UNCHANGED backups /\ Outside

(* Nothing but the state has appeared, under the commit of the profile. *)
VerifyBootstrap(c) ==
    /\ call[c].pc = "created"
    /\ IF /\ files["state"] = Current(Project[c]) /\ head = call[c].profile.head
          /\ \A p \in Volatile : files[p] = Absent
          THEN call' = [call EXCEPT ![c].pc = "ready"]
          ELSE Stop(c)
    /\ Unwritten /\ Outside

(* Readiness of the adopted repository. *)
Ready(c) ==
    /\ InitializationState(Profile) = "INITIALIZED"
    /\ files["state"].version = "current"
    /\ files["config"] = Current(Project[c])
    /\ head = call[c].head

Conclude(c) ==
    /\ call[c].pc = "ready"
    /\ IF Ready(c) THEN Succeed(c, "ADOPTED") ELSE Stop(c)
    /\ Unwritten /\ Outside

-----------------------------------------------------------------------------
(* Upgrade. *)

Plan(c) ==
    /\ call[c].pc = "idle"
    /\ IF Steps(Profile) # {} /\ Upgradable(Profile)
          THEN call' = [call EXCEPT ![c] = [Idle EXCEPT !.pc = "planned", !.profile = Profile]]
          ELSE Stop(c)
    /\ Unwritten /\ Outside

BeginUpgrade(c) ==
    /\ call[c].pc = "planned"
    /\ IF Profile = call[c].profile /\ Upgradable(Profile)
          THEN call' = [call EXCEPT ![c].pc = "step", ![c].head = head]
          ELSE Stop(c)
    /\ Unwritten /\ Outside

(* Same commit, and no change but those the upgrade has made. *)
OnlyOurs(c) == head = call[c].head /\ Changed = call[c].expected

ReadSource(c) ==
    /\ call[c].pc = "step"
    /\ IF OnlyOurs(c) /\ Observed(Step(c)) = call[c].profile.files[Step(c)]
          THEN call' = [call EXCEPT ![c].pc = "backup", ![c].source = files[Step(c)]]
          ELSE Stop(c)
    /\ Unwritten /\ Outside

CreateBackup(c) ==
    /\ call[c].pc = "backup"
    /\ LET backup == Backup(Step(c), call[c].source)
       IN  IF backup \notin backups
              THEN /\ backups' = backups \cup {backup}
                   /\ call' = [call EXCEPT ![c].pc = "reread", ![c].expected = @ \cup {backup}]
              ELSE Stop(c) /\ UNCHANGED backups
    /\ UNCHANGED files /\ Outside

RereadSource(c) ==
    /\ call[c].pc = "reread"
    /\ IF OnlyOurs(c) /\ files[Step(c)] = call[c].source
          THEN call' = [call EXCEPT ![c].pc = "replace"]
          ELSE Stop(c)
    /\ Unwritten /\ Outside

ReplaceSource(c) ==
    /\ call[c].pc = "replace"
    /\ Write(Step(c), Migrated(call[c].source))
    /\ call' = [call EXCEPT ![c].pc = "validate",
                   ![c].expected = @ \cup {Entry(p) : p \in {Step(c)} \cap Versioned}]
    /\ UNCHANGED backups /\ Outside

Validate(c) ==
    /\ call[c].pc = "validate"
    /\ IF files[Step(c)] = Migrated(call[c].source) /\ OnlyOurs(c)
          THEN call' = [call EXCEPT ![c].migrated = @ \cup {Step(c)},
                  ![c].pc = IF Steps(call[c].profile) \ call[c].migrated = {Step(c)}
                               THEN "final" ELSE "step"]
          ELSE Stop(c)
    /\ Unwritten /\ Outside

(* A fresh plan must find every artifact current. *)
Finish(c) ==
    /\ call[c].pc = "final"
    /\ IF Steps(Profile) = {} /\ Upgradable(Profile) THEN Succeed(c, "MIGRATED") ELSE Stop(c)
    /\ Unwritten /\ Outside

-----------------------------------------------------------------------------
(* The operator, the user and the machine. *)

(* A crash, or a write that fails: no rollback, the files stay. *)
Interrupt(c) ==
    /\ call[c].pc # "idle" /\ faults < MaxFaults
    /\ Stop(c)
    /\ faults' = faults + 1 /\ disturbed' = TRUE
    /\ UNCHANGED <<files, base, backups, saved, head, raced, edits>>

InWindow(p) ==
    \E c \in Callers :
        \/ call[c].pc = "install" /\ Op(c).path = p
        \/ call[c].pc = "replace" /\ Step(c) = p

Edit(p) ==
    /\ edits < MaxEdits
    /\ files[p].text # "edited"
    /\ Write(p, [files[p] EXCEPT !.text = "edited"])
    /\ edits' = edits + 1
    /\ raced' = IF InWindow(p) THEN raced \cup {p} ELSE raced
    /\ disturbed' = (disturbed \/ Busy)
    /\ UNCHANGED <<base, backups, saved, head, call, faults>>

(* A commit while something runs counts as one of the user's edits. *)
Commit ==
    /\ ~Clean
    /\ base' = [p \in Paths |-> IF Untracked(p) THEN base[p] ELSE files[p]]
    /\ saved' = backups
    /\ head' = head + 1
    /\ IF Busy THEN edits < MaxEdits /\ edits' = edits + 1 /\ disturbed' = TRUE
               ELSE UNCHANGED <<edits, disturbed>>
    /\ UNCHANGED <<files, backups, call, raced, faults>>

(* The operator removes a footprint that the product refuses to complete. *)
Without(p) ==
    CASE p \in {"directory", "config", "state"} -> Absent
      [] p \in Sections -> IF files[p].text \in {"none", "empty"} THEN Absent ELSE Plain(files[p].text)
      [] OTHER -> files[p]

Discard ==
    /\ ~Busy /\ InitializationState(Profile) = "PARTIAL_OR_INCONSISTENT"
    /\ files' = [p \in Paths |-> Without(p)]
    /\ UNCHANGED <<base, backups, saved, head, call, raced, disturbed, faults, edits>>

(* The operator removes the backup of a file that was not migrated. *)
Tidy(p) ==
    /\ ~Busy /\ Backup(p, files[p]) \in backups
    /\ backups' = backups \ {Backup(p, files[p])}
    /\ UNCHANGED <<files, base, saved, head, call, raced, disturbed, faults, edits>>

-----------------------------------------------------------------------------
(* A repository the product has never seen, or one of an older product.  A  *)
(* state of an older schema has no migration.  An older product left its    *)
(* orchestration record untracked, unless the user committed it.            *)

Versions == {"old", "current"}

Tree(known) ==
    [p \in Paths |-> IF p \in DOMAIN known THEN known[p]
                      ELSE IF p = "source" THEN Plain("user") ELSE Absent]

Fresh ==
    /\ \E sections \in [Sections -> {Absent, Plain("user")}] : files = Tree(sections)
    /\ base = files

Legacy(p) ==
    IF p \in Sections THEN {[text |-> "user", version |-> v] : v \in Versions}
                      ELSE {Absent, [text |-> "facts", version |-> "old"]}

Installed(c) ==
    /\ \E known \in [Migratable -> UNION {Legacy(p) : p \in Migratable}], version \in Versions :
          /\ \A p \in Migratable : known[p] \in Legacy(p)
          /\ files = [Tree(known) EXCEPT
                      !["directory"] = Plain("empty"),
                      !["config"] = Current(Project[c]),
                      !["state"] = [text |-> Project[c], version |-> version]]
    /\ \E record \in {Absent, files["record"]} :
          base = [files EXCEPT !["ledger"] = Absent, !["record"] = record]

Idling ==
    /\ backups = {} /\ saved = {} /\ head = 0
    /\ call = [c \in Callers |-> Idle]
    /\ raced = {} /\ disturbed = FALSE /\ faults = 0 /\ edits = 0

-----------------------------------------------------------------------------
Adopt(c) ==
    \/ Prepare(c) \/ BeginAdoption(c) \/ Operate(c) \/ CheckAgain(c) \/ Install(c)
    \/ ReadBack(c) \/ Observe(c) \/ Inspect(c) \/ Bootstrap(c) \/ Revalidate(c)
    \/ CreateState(c) \/ VerifyBootstrap(c) \/ Conclude(c)

Upgrade(c) ==
    \/ Plan(c) \/ BeginUpgrade(c) \/ ReadSource(c) \/ CreateBackup(c) \/ RereadSource(c)
    \/ ReplaceSource(c) \/ Validate(c) \/ Finish(c)

Operator ==
    \/ \E p \in Sections \cup {"source"} : Edit(p)
    \/ Commit \/ Discard
    \/ \E p \in Migratable : Tidy(p)
    \/ \E c \in Callers : Interrupt(c)

Next == Operator \/ \E c \in Callers : Adopt(c) \/ Upgrade(c)

Init == Idling /\ (Fresh \/ \E c \in Owners : Installed(c))

(* The operator repeats an invocation that would go through, commits what *)
(* makes the repository dirty and clears what the product refuses to      *)
(* touch, when nothing is running.                                        *)
Fairness ==
    /\ \A c \in Callers : WF_vars(Adopt(c)) /\ WF_vars(Upgrade(c))
    /\ WF_vars(~Busy /\ Commit) /\ WF_vars(Discard)
    /\ \A p \in Migratable : WF_vars(Tidy(p))

Spec == Init /\ [][Next]_vars /\ Fairness

-----------------------------------------------------------------------------
Entries == [path : Paths, of : Content]
Profiles == [files : [Paths \ {"source"} -> Content], head : Nat, clean : BOOLEAN]
Adopting == {"prepared", "operation", "append", "install", "written", "observe", "inspect",
             "bootstrap", "fresh", "link", "created", "ready"}
Migrating == {"step", "backup", "reread", "replace", "validate"}
Calls == [pc : {"idle", "planned", "final"} \cup Adopting \cup Migrating,
          profile : Profiles, at : Nat, head : Nat, source : Content,
          applied : SUBSET Paths, migrated : SUBSET Paths, expected : SUBSET Entries,
          outcome : {"none", "ADOPTED", "MIGRATED"}]

TypeOK ==
    /\ files \in [Paths -> Content] /\ base \in [Paths -> Content]
    /\ backups \subseteq Entries /\ saved \subseteq Entries
    /\ call \in [Callers -> Calls]
    /\ raced \subseteq Paths /\ disturbed \in BOOLEAN
    /\ head \in Nat /\ faults \in Nat /\ edits \in Nat

(* Whatever is interrupted, repeated or run twice at once, no invocation    *)
(* destroys bytes it does not own: a file it writes was absent, or keeps    *)
(* its text, and an old format it replaces is kept in a backup.  The user's *)
(* edits inside the window before os.replace are excepted: that window is   *)
(* documented as unprotected.                                               *)
Kept(p) ==
    \/ files[p] = Absent
    \/ /\ files'[p].text = files[p].text
       /\ files[p].version = "old" => Backup(p, files[p]) \in backups
    \/ p \in raced

NothingIsLost ==
    [][Operator \/ \A p \in Paths : files'[p] # files[p] => Kept(p)]_vars

(* Two adoptions of one repository for different projects never mix: the    *)
(* state that is created belongs to the project of the configuration.       *)
OneProject ==
    files["state"] # Absent => files["config"].text = files["state"].text

(* An adoption that is repeated ends with a bound state, or, if something   *)
(* interfered, with a complete structure that has no state: the product     *)
(* never goes on from there.                                                *)
Bound == files["state"] # Absent /\ files["state"].text = files["config"].text
Stranded == InitializationState(Profile) = "INITIALIZED" /\ files["state"] = Absent

AdoptionSettles == <>(Bound \/ (disturbed /\ Stranded))

(* An upgrade that is repeated brings every artifact to the current format, *)
(* after any interruption, if each has a registered migration.              *)
UpgradeSettles == <>[](files["state"].version = "old" \/ ~Outdated(Profile))

=============================================================================
