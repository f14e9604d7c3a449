--------------------------- MODULE Observability ---------------------------
(***************************************************************************)
(* What is observed of a mission, on top of the operational event store:   *)
(*   - the sink of the mission runner (_OperationalMissionEventSink of     *)
(*     application/mission_composition.py), which copies the durable facts *)
(*     of the other stores into the journal at every frontier of a run     *)
(*     and whose errors the runner swallows;                               *)
(*   - the incident journal (infrastructure/incident_event_journal.py) and *)
(*     the decisions of the incident manager                               *)
(*     (application/incident_manager.py), each a new revision of an        *)
(*     incident that names the revision it follows;                        *)
(*   - the reader that joins the journal with the execution ledger         *)
(*     (application/execution_observability.py) and the metrics computed   *)
(*     from it (application/metrics_engine.py).                            *)
(*                                                                         *)
(* Events are identified by their content: uuid5 of what they say, of the  *)
(* fingerprint for an incident revision.  A fingerprint covers the         *)
(* previous one, so a revision is the sequence of all decisions up to it.  *)
(* Times, severities and wording are left out; a decision is told from     *)
(* another, equal one by who took it.                                      *)
(***************************************************************************)
EXTENDS EventJournal, SequencesExt, FiniteSets

CONSTANTS
    Execution,      \* Codex executions of the ledger
    Evidence,       \* evidence of the project state
    MaxRevisions    \* bound: revisions of the incident

VARIABLES
    ended,        \* the executions the ledger records as ended, in its order
    evidence      \* the evidence of the project state, in its order

factVars == << ended, evidence >>
observedVars == << journalVars, factVars >>

ObservedInit ==
    /\ JournalInit
    /\ ended = << >> /\ evidence = << >>

-----------------------------------------------------------------------------
(* The facts, each written by its own store.                               *)

ExecutionEnds(x) ==
    /\ ~Contains(ended, x)
    /\ ended' = Append(ended, x)
    /\ UNCHANGED << journalVars, evidence >>

EvidenceSaved(e) ==
    /\ ~Contains(evidence, e)
    /\ evidence' = Append(evidence, e)
    /\ UNCHANGED << journalVars, ended >>

-----------------------------------------------------------------------------
(* The sink.  Every call of it goes through the whole list again and       *)
(* appends what a fresh read of the journal does not hold.                 *)

ExecutionEvent(x, operation) == [execution |-> x, operation |-> operation]

(* Within one generation: the correlation carries the one of the moment.   *)
EvidenceEvent(e) == [evidence |-> e]

(* The pair of events of an execution that ended, for one after another.   *)
ExecutionEvents ==
    [k \in 1 .. 2 * Len(ended) |->
        IF k % 2 = 1 THEN ExecutionEvent(ended[(k + 1) \div 2], "STARTED")
                     ELSE ExecutionEvent(ended[k \div 2], "FINISHED")]

EvidenceEvents == [k \in 1 .. Len(evidence) |-> EvidenceEvent(evidence[k])]

Projection == ExecutionEvents \o EvidenceEvents

(* Mutant: an event that is already there ends the projection. *)
Missing_UpToKnown ==
    IF Projection # << >> /\ Listed(Projection[1]) THEN {}
    ELSE {k \in 1 .. Len(Projection) : ~Listed(Projection[k])}
Missing == {k \in 1 .. Len(Projection) : ~Listed(Projection[k])}

Project(c) ==
    /\ Serve(c, IF Missing = {} THEN NoEvent ELSE Projection[Min(Missing)])
    /\ UNCHANGED factVars

-----------------------------------------------------------------------------
(* Incidents.                                                              *)

Revision(chain) == [incident |-> chain]

IsRevision(e) == DOMAIN e = {"incident"}

OpenStates == {"ACKNOWLEDGEMENT_REQUIRED", "ESCALATED"}

(* The places of the journal that hold a revision, and what the history    *)
(* up to some of them says of the incident.                                *)
Revisions == {i \in 1 .. Len(entries) : IsRevision(entries[i])}

LatestOf(known) == IF known = {} THEN << >> ELSE entries[Max(known)].incident

(* _validate_revision_chains: the k-th revision of the history is revision *)
(* k, and names the one before it.                                         *)
(* Mutant: the history is served as it was written. *)
ChainHolds_Unchecked == \A i \in Revisions : entries[i].incident # << >>
ChainHolds ==
    \A i \in Revisions :
        LET earlier == {j \in Revisions : j < i}
        IN  /\ Len(entries[i].incident) = Cardinality(earlier) + 1
            /\ Front(entries[i].incident) = LatestOf(earlier)

StateOf(chain) == IF chain = << >> THEN "NONE" ELSE Last(chain).state

DecisionOf(c, chain, state) == Revision(Append(chain, [state |-> state, by |-> c]))

(* evaluate: a signal opens the incident, reopens it if it was resolved,   *)
(* and otherwise changes nothing.                                          *)
Signalled(c, chain, observed) ==
    /\ observed = "ACTIVE"
    /\ StateOf(chain) \notin OpenStates
    /\ Serve(c, DecisionOf(c, chain, "ACKNOWLEDGEMENT_REQUIRED"))

Acknowledged(c, chain) ==
    /\ StateOf(chain) \in OpenStates
    /\ Serve(c, DecisionOf(c, chain, "ESCALATED"))

(* resolve: a normalisation was observed, and nothing critical is unknown. *)
Resolved(c, chain, observed) ==
    /\ StateOf(chain) \in OpenStates
    /\ observed = "NORMALIZED"
    /\ Serve(c, DecisionOf(c, chain, "RESOLVED"))

Decide(c) ==
    /\ ChainHolds /\ Cardinality(Revisions) < MaxRevisions
    /\ \E observed \in {"ACTIVE", "NORMALIZED", "UNKNOWN"} :
           LET chain == LatestOf(Revisions)
           IN  \/ Signalled(c, chain, observed)
               \/ Acknowledged(c, chain)
               \/ Resolved(c, chain, observed)
    /\ UNCHANGED factVars

(* The history raises in the reader, or the operator leaves it at that.    *)
LookAway(c) == Serve(c, NoEvent) /\ UNCHANGED factVars

-----------------------------------------------------------------------------
(* The metrics of the diagnostics, from the journal and the ledger.        *)

IsExecution(e) == "execution" \in DOMAIN e

(* The projection replaces the stored events of the same lifecycle.        *)
(* Mutant: the stored events are kept beside the projected ones. *)
Retained_All == 1 .. Len(entries)
Retained ==
    {i \in 1 .. Len(entries) : ~IsExecution(entries[i]) \/ ~Contains(ExecutionEvents, entries[i])}

Executions(operation) ==
    Cardinality({i \in Retained : IsExecution(entries[i]) /\ entries[i].operation = operation})
        + Cardinality({k \in DOMAIN ExecutionEvents : ExecutionEvents[k].operation = operation})

(* The journal is served to the diagnostics at all.                        *)
Served == Readable /\ ~writerLock

-----------------------------------------------------------------------------
Facts ==
    \/ \E x \in Execution : ExecutionEnds(x)
    \/ \E e \in Evidence : EvidenceSaved(e)

Session(c) == OpenRead(c) /\ UNCHANGED factVars

UnderWay(c) == Proceed(c) /\ UNCHANGED factVars

Faults(c) == Faulty(c) /\ UNCHANGED factVars

ObservedNext ==
    \/ Facts
    \/ \E c \in Caller : Session(c) \/ UnderWay(c) \/ Faults(c)
    \/ \E c \in Runner : Project(c)
    \/ \E c \in Responder : Decide(c) \/ LookAway(c)

ObservedSpec == ObservedInit /\ [][ObservedNext]_observedVars

(* Every frontier of a run calls the sink again, whatever else the process *)
(* reads the journal for, and a call that began goes on to its end.        *)
FairObservation ==
    /\ ObservedSpec
    /\ \A c \in Runner : WF_observedVars(Session(c)) /\ SF_observedVars(Project(c))
    /\ \A c \in Caller : WF_observedVars(UnderWay(c))

-----------------------------------------------------------------------------
(* No event is ever written twice, whoever appends and whatever dies: what *)
(* was read before the lock was taken does not count.                      *)
EachEventOnce == IsInjective(entries)

(* An incident decision whose author has a receipt is part of whatever     *)
(* history is served from then on: two operators who decide on the same    *)
(* revision make the history unreadable, not one of them forgotten.        *)
DecisionIsServed ==
    (Served /\ ChainHolds) =>
        \A e \in receipts : IsRevision(e) => IsPrefix(e.incident, LatestOf(Revisions))

(* However far the sink has got, and wherever it died, the metrics count   *)
(* each execution the ledger has ended once, and no other.                 *)
ExecutionsCountedOnce ==
    (Served /\ marker = "absent") =>
        /\ Executions("STARTED") = Len(ended)
        /\ Executions("FINISHED") = Len(ended)

(* The end of an execution and the evidence of the project reach the       *)
(* journal, in spite of refused locks and dead processes, unless nothing   *)
(* can be appended any more.                                               *)
FactsAreProjected ==
    /\ \A x \in Execution :
           Contains(ended, x) ~> (Closed \/ Listed(ExecutionEvent(x, "FINISHED")))
    /\ \A e \in Evidence :
           Contains(evidence, e) ~> (Closed \/ Listed(EvidenceEvent(e)))
=============================================================================
