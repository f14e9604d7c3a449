------------------------------- MODULE Scopes -------------------------------
(***************************************************************************)
(* Which files a User Story may write, and when two stories are called     *)
(* SAFE to run side by side (execution_conflict_analyzer.py).  A path is   *)
(* the sequence of its segments; a region is a file, or a directory with   *)
(* everything below it.                                                    *)
(***************************************************************************)
EXTENDS Naturals, Sequences, FiniteSets

(* p starts with the segments of d.                                        *)
StartsWith(p, d) == Len(d) <= Len(p) /\ \A i \in 1..Len(d) : p[i] = d[i]

File(p) == [path |-> p, dir |-> FALSE]

(* The text of region r starts with the text of directory d: the closing   *)
(* slash makes "src" no part of "src/".                                    *)
Within(r, d) == StartsWith(r.path, d.path) /\ (r.dir \/ Len(d.path) < Len(r.path))

(* _scope_matches, and the same test for the exclusion of a whole region.  *)
Matches(r, s) == IF s.dir THEN Within(r, s) ELSE ~r.dir /\ r.path = s.path

(* What _validate_changed_paths lets the Implementer of a story change.    *)
Writable(scope, p) ==
    /\ \E a \in scope.allowed : Matches(File(p), a)
    /\ ~\E f \in scope.forbidden : Matches(File(p), f)

(* The region two allowed regions share: none, or the smaller one.         *)
Overlap(a, b) ==
    IF ~a.dir /\ ~b.dir THEN {x \in {a} : a.path = b.path}
    ELSE {x \in {a} : b.dir /\ Within(a, b)} \union {x \in {b} : a.dir /\ Within(b, a)}

(* Mutant: the exceptions of either story cut out every region above them. *)
Overlaps_MinusAnyForbidden(l, r) ==
    {o \in UNION {Overlap(a, b) : a \in l.allowed, b \in r.allowed} :
        ~\E f \in l.forbidden \union r.forbidden : Matches(o, f) \/ Within(f, o)}

Overlaps(l, r) ==
    {o \in UNION {Overlap(a, b) : a \in l.allowed, b \in r.allowed} :
        ~\E f \in l.forbidden \union r.forbidden : Matches(o, f)}

(* A scope is ambiguous if it names a path twice or forbids a region it    *)
(* allows.                                                                 *)
Ambiguous(s) == s.repeated \/ \E a \in s.allowed, f \in s.forbidden : Matches(a, f)

Classify(l, r) ==
    IF Overlaps(l, r) # {} THEN "CONFLICT"
    ELSE IF l.allowed = {} \/ r.allowed = {} \/ Ambiguous(l) \/ Ambiguous(r) THEN "UNKNOWN"
    ELSE "SAFE"
=============================================================================
