------------------------ MODULE MaintenanceRegister ------------------------
(***************************************************************************)
(* What docs/69 promises of the maintenance record: it is created once, as *)
(* NORMAL, and every later version extends the one before it along the     *)
(* closed graph, under the same operator.  Each change is one atomic step. *)
(***************************************************************************)
EXTENDS Integers

CONSTANTS Operator, Head, Route, Absent

VARIABLE file   \* the current record, Absent before initialization

State == {"NORMAL", "DRAINING", "MAINTENANCE", "RECOVERY_REQUIRED", "FROZEN"}

(* _ALLOWED_TRANSITIONS: a frozen repository is never unfrozen directly.   *)
Allowed ==
    [s \in State |->
        CASE s = "NORMAL"            -> State \ {"NORMAL"}
          [] s = "DRAINING"          -> State \ {"DRAINING"}
          [] s = "MAINTENANCE"       -> {"NORMAL", "RECOVERY_REQUIRED", "FROZEN"}
          [] s = "RECOVERY_REQUIRED" -> {"NORMAL", "MAINTENANCE", "FROZEN"}
          [] OTHER                   -> {"MAINTENANCE", "RECOVERY_REQUIRED"}]

(* MaintenanceRecord.create: a route is kept by RECOVERY_REQUIRED only;    *)
(* the predecessor stands for its fingerprint.                             *)
Created(state, revision, actor, head, route, previous) ==
    [state |-> state, revision |-> revision, actor |-> actor, head |-> head,
     route |-> route, previous |-> previous]

RouteFits(state, route) == (state = "RECOVERY_REQUIRED") <=> (route # Absent)

First(record) ==
    \E a \in Operator, h \in Head : record = Created("NORMAL", 1, a, h, Absent, Absent)

Extends(before, record) ==
    /\ before # Absent
    /\ \E s \in Allowed[before.state], r \in Route \cup {Absent} :
          /\ RouteFits(s, r)
          /\ record = Created(s, before.revision + 1, before.actor, before.head, r, before)

Follows(before, record) == \/ before = Absent /\ First(record)
                           \/ Extends(before, record)

RegisterInit == file = Absent

RegisterNext == \E record \in {file'} : Follows(file, record)

RegisterSpec == RegisterInit /\ [][RegisterNext]_file
=============================================================================
