----------------------------- MODULE Conformance -----------------------------
(***************************************************************************)
(* The conformance runner of testing/__init__.py: nine checks in a fixed   *)
(* order against an Adapter test target.  The target is that of            *)
(* tests/_memory_target.py with at most one defect, and may hold Objects   *)
(* from earlier use when a run starts.                                     *)
(*                                                                         *)
(* A digest is represented by the content it is the digest of.             *)
(***************************************************************************)
EXTENDS Naturals, Sequences, FiniteSets

CONSTANTS
  None,
  MaxRuns    \* bound on the runs against one target

Payload == <<1, 2, 3>>  \* the bytes of the fixture
Garbage == <<9>>        \* other bytes

\* Object ids, numbered in the order of the strings; all but Elsewhere begin
\* with "fixture/".
Elsewhere == 1
MismatchId == 2
ObjectId == 3
Ids == {Elsewhere, MismatchId, ObjectId}
WithPrefix == {MismatchId, ObjectId}

Defects ==
  {"reset-keeps-objects", "put-ignores-create-only", "put-skips-verification",
   "put-misreports-identity", "put-is-lost", "stat-misreports-identity",
   "get-returns-garbage", "range-excludes-end", "list-ignores-prefix",
   "list-ignores-limit", "list-is-empty", "delete-ignores-version",
   "delete-keeps-object", "missing-is-empty"}

ASSUME ConformanceAssumption ==
  MaxRuns \in Nat /\ None \notin Seq(Nat) \cup Defects

VARIABLES
  defect,    \* of the target, or None
  objects,   \* the target's Objects: content of an id, or None
  metadata,  \* the runner's: digest that put answered, or None
  checks,    \* did the checks made so far pass?
  runs       \* number of runs begun

vars == <<defect, objects, metadata, checks, runs>>

\* An Adapter test target in use: it may hold anything.
Init ==
  /\ defect \in Defects \cup {None}
  /\ objects \in [Ids -> {None, Payload, Garbage}]
  /\ metadata = None
  /\ checks = << >>
  /\ runs = 0

-----------------------------------------------------------------------------
(* The target *)

Conflict(id) == objects[id] # None /\ defect # "put-ignores-create-only"

\* What a put with createOnly leaves under id, and what it answers.
PutOutcome(id, expected) ==
  IF Conflict(id) THEN "ConditionalConflict"
  ELSE IF expected # Payload /\ defect # "put-skips-verification" THEN "DigestMismatch"
  ELSE "ok"

AfterPut(id, expected) ==
  IF PutOutcome(id, expected) = "ok" /\ defect # "put-is-lost"
    THEN [objects EXCEPT ![id] = Payload]
    ELSE objects

\* _lookup of the version with this digest
LookupOutcome(id, digest) ==
  IF objects[id] = digest \/ defect = "missing-is-empty" THEN "ok" ELSE "ObjectNotFound"

\* What the target answers for the identity of the Object, its bytes and a range
\* of them.
StatAnswer == IF defect = "stat-misreports-identity" THEN Garbage ELSE objects[ObjectId]
GetAnswer == IF defect = "get-returns-garbage" THEN Garbage ELSE objects[ObjectId]
RangeAnswer ==
  SubSeq(objects[ObjectId], 2, IF defect = "range-excludes-end" THEN 2 ELSE 3)

Page(prefixed, limit) ==
  LET matches ==
        {i \in Ids : objects[i] # None
                     /\ (defect # "list-ignores-prefix" => i \in prefixed)}
  IN IF defect = "list-is-empty" THEN {}
     ELSE {i \in matches :
             defect # "list-ignores-limit" => Cardinality({j \in matches : j < i}) < limit}

-----------------------------------------------------------------------------
(* The runner *)

\* Step n of the run; _check and _expected record whether it went as it should,
\* and never stop the run.
Step(n, passed) ==
  /\ runs > 0
  /\ Len(checks) = n - 1
  /\ checks' = Append(checks, passed)
  /\ UNCHANGED <<defect, runs>>

\* Mutant: the runner trusts the target to be empty.
StartAsIs ==
  /\ runs < MaxRuns
  /\ runs = 0 \/ Len(checks) = 9
  /\ runs' = runs + 1
  /\ checks' = << >>
  /\ metadata' = None
  /\ UNCHANGED <<defect, objects>>

\* A new _Runner resets the target.
Start ==
  /\ runs < MaxRuns
  /\ runs = 0 \/ Len(checks) = 9
  /\ runs' = runs + 1
  /\ checks' = << >>
  /\ metadata' = None
  /\ objects' = IF defect = "reset-keeps-objects" THEN objects ELSE [i \in Ids |-> None]
  /\ UNCHANGED defect

\* _put keeps the metadata only after its assertions.
Put ==
  LET answered == IF defect = "put-misreports-identity" THEN Garbage ELSE Payload
      passed == PutOutcome(ObjectId, Payload) = "ok" /\ answered = Payload
  IN
  /\ Step(1, passed)
  /\ objects' = AfterPut(ObjectId, Payload)
  /\ metadata' = IF passed THEN answered ELSE None

\* A check that needs the reference of the put Object fails without it.
Finds == metadata # None /\ LookupOutcome(ObjectId, metadata) = "ok"

\* _stat: the metadata of put, again.
Stat ==
  /\ Step(2, Finds /\ StatAnswer = metadata)
  /\ UNCHANGED <<objects, metadata>>

\* Mutant: get is content with an answer.
GetPassesUnread == Finds

\* _get transfers the payload and compares the bytes.
GetPasses == Finds /\ GetAnswer = Payload

Get ==
  /\ Step(3, GetPasses)
  /\ UNCHANGED <<objects, metadata>>

\* _range compares the bytes of an inclusive range.
ReadRange ==
  /\ Step(4, Finds /\ RangeAnswer = SubSeq(Payload, 2, 3))
  /\ UNCHANGED <<objects, metadata>>

\* _list asks for one item and expects one with the fixture's digest.
ListPasses ==
  LET page == Page(WithPrefix, 1) IN
  Cardinality(page) = 1 /\ \A i \in page : objects[i] = Payload

List ==
  /\ Step(5, ListPasses)
  /\ UNCHANGED <<objects, metadata>>

Duplicate ==
  /\ Step(6, PutOutcome(ObjectId, Payload) = "ConditionalConflict")
  /\ objects' = AfterPut(ObjectId, Payload)
  /\ UNCHANGED metadata

\* Mutant: any failure is the expected one.
MismatchPassesOnAnyError == PutOutcome(MismatchId, Garbage) # "ok"

MismatchPasses == PutOutcome(MismatchId, Garbage) = "DigestMismatch"

Mismatch ==
  /\ Step(7, MismatchPasses)
  /\ objects' = AfterPut(MismatchId, Garbage)
  /\ UNCHANGED metadata

\* _delete, with the exact reference that put answered.
Delete ==
  LET deleted ==
        /\ metadata # None
        /\ objects[ObjectId] # None
        /\ defect # "delete-ignores-version" => objects[ObjectId] = metadata
  IN
  /\ Step(8, deleted)
  /\ objects' = IF deleted /\ defect # "delete-keeps-object"
                  THEN [objects EXCEPT ![ObjectId] = None] ELSE objects
  /\ UNCHANGED metadata

\* _stat again, which must raise ObjectNotFound now.
Missing ==
  /\ Step(9, metadata # None /\ LookupOutcome(ObjectId, metadata) = "ObjectNotFound")
  /\ UNCHANGED <<objects, metadata>>

Next == Start \/ Put \/ Stat \/ Get \/ ReadRange \/ List \/ Duplicate \/ Mismatch \/ Delete \/ Missing

Spec == Init /\ [][Next]_vars

-----------------------------------------------------------------------------
(* Properties *)

Passed == Len(checks) = 9 /\ \A n \in 1 .. 9 : checks[n]

\* A target without a defect passes, whatever it held before and however often
\* it was checked.
NoFalseAlarm == defect = None /\ Len(checks) = 9 => Passed

\* A target that passes has none of the defects in put, stat, get, range reads,
\* conditional create, digest verification and missing Objects: each breaks some
\* check, although a failed check only leaves a mark and the later ones go on.
DefectsFound ==
  Passed => defect \notin
    {"put-ignores-create-only", "put-skips-verification", "put-misreports-identity",
     "put-is-lost", "stat-misreports-identity", "get-returns-garbage",
     "range-excludes-end", "list-is-empty", "delete-keeps-object", "missing-is-empty"}

\* A passing report is not owed to what an earlier run left behind: no fixture
\* is in the target after it, even if its reset does nothing.
PassLeavesNoFixture == Passed => \A i \in WithPrefix : objects[i] = None

\* A target that passes lists by prefix and within the limit, and deletes only the
\* version it is asked to ("The runner verifies ... bounded prefix listing, ...
\* exact-version delete").
VerifiesListAndDelete ==
  Passed => defect \notin
    {"list-ignores-prefix", "list-ignores-limit", "delete-ignores-version"}

=============================================================================
