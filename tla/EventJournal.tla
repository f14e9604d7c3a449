---------------------------- MODULE EventJournal ----------------------------
(***************************************************************************)
(* The operational event store                                             *)
(* (infrastructure/operational_event_store.py): a bounded journal of       *)
(* segment files that only grows, written under a lock file.               *)
(*                                                                         *)
(* Several processes may open the store.  A reader looks at the lock and   *)
(* then at the files, without holding anything in between; a writer holds  *)
(* the lock file from the duplicate check to the release.  A write may     *)
(* fail with nothing, a part or all of the record in the file, the lock    *)
(* file may refuse to go away, and a process may die at any step: nobody   *)
(* removes the lock file of the dead.                                      *)
(*                                                                         *)
(* Every record takes one unit of its segment.                             *)
(***************************************************************************)
EXTENDS Naturals, Sequences

CONSTANTS
    Runner,         \* the processes whose sink copies facts into the journal
    Responder,      \* the processes that read and write incidents
    NoEvent,        \* nothing to append
    SegmentSize,    \* max_segment_bytes, in records
    MaxSegments,    \* max_segments
    JournalFaults   \* bound: writes that fail, lock files that stay, processes that die

ASSUME JournalAssumption ==
    /\ SegmentSize \in Nat \ {0} /\ MaxSegments \in Nat \ {0} /\ JournalFaults \in Nat

VARIABLES
    entries,    \* the whole records, in the order of the segments and of their lines
    fill,       \* how many of them each segment file holds
    damaged,    \* the last segment is empty or ends in a part of a record
    writerLock, \* .writer.lock exists
    marker,     \* .retention-exhausted: "absent", "whole" or "torn"
    session,    \* what each process is doing
    receipts,   \* the events whose append was confirmed to its caller
    failures    \* how many faults have happened

Caller == Runner \union Responder

journalVars == << entries, fill, damaged, writerLock, marker, session, receipts, failures >>

Idle == [at |-> "idle", event |-> NoEvent]

Steps == {"idle", "read", "append", "check", "write", "release", "refuse"}

HoldsLock(c) == session[c].at \in {"check", "write", "release", "refuse"}

JournalInit ==
    /\ entries = << >> /\ fill = << >> /\ damaged = FALSE
    /\ writerLock = FALSE /\ marker = "absent"
    /\ session = [c \in Caller |-> Idle]
    /\ receipts = {} /\ failures = 0

Go(c, step) == session' = [session EXCEPT ![c].at = step]

Leave(c) == session' = [session EXCEPT ![c] = Idle]

Fault ==
    /\ failures < JournalFaults
    /\ failures' = failures + 1

Listed(e) == \E i \in 1 .. Len(entries) : entries[i] = e

(* _read_entries: a journal that is not whole is refused, not repaired.    *)
Readable == ~damaged /\ marker # "torn"

(* A write in progress: its record may be in the file in part.             *)
BeingWritten == \E c \in Caller : session[c].at = "write"

-----------------------------------------------------------------------------
(* Reading: the lock file first, then the segments.                        *)

OpenRead(c) ==
    /\ session[c].at = "idle"
    /\ ~writerLock
    /\ Go(c, "read")
    /\ UNCHANGED << entries, fill, damaged, writerLock, marker, receipts, failures >>

(* Any error of the read ends the operation that asked for it.             *)
ReadFails(c) ==
    /\ session[c].at = "read"
    /\ ~Readable \/ BeingWritten
    /\ Leave(c)
    /\ UNCHANGED << entries, fill, damaged, writerLock, marker, receipts, failures >>

(* What the read returned makes the caller append e, or nothing at all.    *)
Serve(c, e) ==
    /\ session[c].at = "read"
    /\ Readable
    /\ session' = [session EXCEPT ![c] = IF e = NoEvent THEN Idle
                                         ELSE [at |-> "append", event |-> e]]
    /\ UNCHANGED << entries, fill, damaged, writerLock, marker, receipts, failures >>

-----------------------------------------------------------------------------
(* Appending.                                                              *)

TakeLock(c) ==
    /\ session[c].at = "append"
    /\ IF writerLock THEN Leave(c) /\ writerLock' = writerLock
               ELSE Go(c, "check") /\ writerLock' = TRUE
    /\ UNCHANGED << entries, fill, damaged, marker, receipts, failures >>

(* The lock file is created but cannot be written: it is removed, or not.  *)
LockFails(c) ==
    /\ session[c].at = "append" /\ ~writerLock
    /\ Fault
    /\ writerLock' \in BOOLEAN
    /\ Leave(c)
    /\ UNCHANGED << entries, fill, damaged, marker, receipts >>

(* _append_target: the last segment, or the next one if it is full.        *)
Fits == Len(fill) > 0 /\ fill[Len(fill)] < SegmentSize
CanRotate == ~Fits /\ Len(fill) < MaxSegments

(* The journal is read again under the lock.                               *)
(* Mutant: what was read before the lock was taken is trusted. *)
Duplicate_Trusted(c) == FALSE
Duplicate(c) == Listed(session[c].event)

CheckAppend(c) ==
    /\ session[c].at = "check"
    /\ IF ~Readable \/ Duplicate(c) THEN Go(c, "refuse") /\ UNCHANGED << marker, failures >>
       ELSE IF Fits \/ CanRotate THEN Go(c, "write") /\ UNCHANGED << marker, failures >>
       ELSE /\ Go(c, "refuse")
            /\ \/ marker' = "whole" /\ UNCHANGED failures
               \/ marker = "absent" /\ Fault /\ marker' \in {"absent", "torn"}
    /\ UNCHANGED << entries, fill, damaged, writerLock, receipts >>

(* The record is in the file; the first record creates the segment.        *)
Recorded(c) ==
    /\ entries' = Append(entries, session[c].event)
    /\ fill' = IF Fits THEN [fill EXCEPT ![Len(fill)] = @ + 1] ELSE Append(fill, 1)
    /\ UNCHANGED damaged

(* The file was opened, which creates a new segment, and got a part of the *)
(* record or nothing: an empty segment is as unreadable as a torn record.  *)
Broken ==
    /\ damaged' = TRUE
    /\ fill' = IF Fits THEN fill ELSE Append(fill, 0)
    /\ UNCHANGED entries

(* The write fails before anything was changed.                            *)
Untouched == UNCHANGED << entries, fill, damaged >>

Write(c) ==
    /\ session[c].at = "write"
    /\ Recorded(c)
    /\ Go(c, "release")
    /\ UNCHANGED << writerLock, marker, receipts, failures >>

(* _durable_append raises WRITE_FAILED or DURABILITY_UNKNOWN.              *)
AppendFails(c) ==
    /\ session[c].at = "write"
    /\ Fault
    /\ Recorded(c) \/ Broken \/ Untouched
    /\ Go(c, "refuse")
    /\ UNCHANGED << writerLock, marker, receipts >>

(* The lock file is removed; only then does the caller get its receipt.    *)
ReleaseLock(c) ==
    /\ session[c].at \in {"release", "refuse"}
    /\ writerLock' = FALSE
    /\ receipts' = IF session[c].at = "release" THEN receipts \union {session[c].event} ELSE receipts
    /\ Leave(c)
    /\ UNCHANGED << entries, fill, damaged, marker, failures >>

(* LOCK_RELEASE_FAILED: the record is durable, the caller is told nothing. *)
ReleaseFails(c) ==
    /\ session[c].at \in {"release", "refuse"}
    /\ Fault
    /\ Leave(c)
    /\ UNCHANGED << entries, fill, damaged, writerLock, marker, receipts >>

(* The process dies; if it was writing, the record may be there in part.   *)
Die(c) ==
    /\ session[c].at # "idle"
    /\ Fault
    /\ IF session[c].at = "write" THEN Recorded(c) \/ Broken \/ Untouched ELSE Untouched
    /\ Leave(c)
    /\ UNCHANGED << writerLock, marker, receipts >>

(* The steps of a call that is under way and meets no fault.               *)
Proceed(c) == ReadFails(c) \/ TakeLock(c) \/ CheckAppend(c) \/ Write(c) \/ ReleaseLock(c)

Faulty(c) == LockFails(c) \/ AppendFails(c) \/ ReleaseFails(c) \/ Die(c)

-----------------------------------------------------------------------------
(* Nothing more can be appended: the lock of the dead, a journal that is   *)
(* not whole, or the retention.                                            *)
Closed ==
    \/ writerLock /\ \A c \in Caller : ~HoldsLock(c)
    \/ ~Readable
    \/ ~Fits /\ ~CanRotate
=============================================================================
