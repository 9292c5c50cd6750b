-------------------------- MODULE ConformanceProofs --------------------------
(***************************************************************************)
(* Proofs about the conformance runner, for any number of runs against one *)
(* target.                                                                 *)
(***************************************************************************)
EXTENDS Conformance, FiniteSetTheorems, TLAPS

Contents == {None, Payload, Garbage}

TypeOK ==
  /\ defect \in Defects \cup {None}
  /\ objects \in [Ids -> Contents]
  /\ metadata \in {None, Payload}
  /\ checks \in Seq(BOOLEAN) /\ Len(checks) <= 9
  /\ runs \in Nat
  /\ runs = 0 => Len(checks) = 0

\* How far the run is, and whether its check n was made and passed.
Done == Len(checks)
Holds(n) == n <= Done /\ checks[n]

\* What the target and the runner hold while a target without a defect is
\* checked: the fixture from put to delete, nothing before and after.
Faultless ==
  defect = None /\ runs > 0 =>
    /\ \A n \in 1 .. Done : checks[n]
    /\ Done >= 1 => metadata = Payload
    /\ \A i \in Ids : objects[i] = IF i = ObjectId /\ Done \in 1 .. 7 THEN Payload ELSE None

\* What a check that passed has shown of the target, put and its readers ...
ReadsShown ==
  /\ metadata # None => Holds(1)
  /\ Holds(1) => defect # "put-misreports-identity"
  /\ Done = 1 /\ Holds(1) /\ defect = "put-is-lost" => objects[ObjectId] = None
  /\ Holds(2) => defect \notin {"stat-misreports-identity", "put-is-lost"}
  /\ Holds(3) => defect # "get-returns-garbage"
  /\ Holds(4) => defect # "range-excludes-end"
  /\ Holds(5) => defect # "list-is-empty"

\* ... the refused puts ...
RefusalsShown ==
  /\ Holds(6) => defect # "put-ignores-create-only"
  /\ Holds(7) => defect # "put-skips-verification"
  /\ Holds(7) /\ defect # "put-ignores-create-only" => objects[MismatchId] = None

\* ... and delete, which only the last check tells from one that does nothing.
DeleteShown ==
  /\ Holds(8) /\ defect # "delete-keeps-object" => objects[ObjectId] = None
  /\ Done = 8 /\ Holds(8) /\ defect = "delete-keeps-object" =>
       metadata # None /\ objects[ObjectId] = metadata
  /\ Holds(9) => defect # "missing-is-empty"
  /\ Holds(8) /\ Holds(9) => defect # "delete-keeps-object"

Inv == TypeOK /\ Faultless /\ ReadsShown /\ RefusalsShown /\ DeleteShown

-----------------------------------------------------------------------------
(* Constants *)

LEMMA Distinct ==
  /\ None # Payload /\ None # Garbage /\ Payload # Garbage
  /\ Payload \in Seq(Nat) /\ Garbage \in Seq(Nat)
  /\ None \notin Defects
<1>1. Payload \in Seq(Nat) /\ Garbage \in Seq(Nat)
  BY DEF Payload, Garbage
<1>2. Payload # Garbage
  BY DEF Payload, Garbage
<1> QED BY <1>1, <1>2, ConformanceAssumption

\* A range read that stops a byte early is told from the whole range.
LEMMA RangesDiffer == SubSeq(Payload, 2, 2) # SubSeq(Payload, 2, 3)
<1>1. Len(SubSeq(Payload, 2, 2)) = 1 /\ Len(SubSeq(Payload, 2, 3)) = 2
  BY DEF Payload
<1> QED BY <1>1

\* A target without a defect that holds the fixture only lists it.
LEMMA PageOfFixture ==
  ASSUME defect = None,
         \A i \in Ids : objects[i] = IF i = ObjectId THEN Payload ELSE None
  PROVE  Page(WithPrefix, 1) = {ObjectId}
<1> DEFINE matches ==
        {i \in Ids : objects[i] # None
                     /\ (defect # "list-ignores-prefix" => i \in WithPrefix)}
<1>1. /\ defect # "list-ignores-prefix" /\ defect # "list-is-empty"
      /\ defect # "list-ignores-limit"
  BY Distinct DEF Defects
<1>2. matches = {ObjectId}
  BY Distinct, <1>1 DEF Ids, WithPrefix, ObjectId, MismatchId, Elsewhere
<1>3. {j \in {ObjectId} : j < ObjectId} = {}
  BY DEF ObjectId
<1> DEFINE before(i) == Cardinality({j \in matches : j < i})
<1>4. before(ObjectId) = 0
  BY <1>2, <1>3, FS_EmptySet
<1>5. Page(WithPrefix, 1) = {i \in matches : before(i) < 1}
  BY <1>1 DEF Page
<1> HIDE DEF matches, before
<1> QED BY <1>2, <1>4, <1>5

-----------------------------------------------------------------------------
(* What a step of the run does to the report *)

LEMMA StepReport ==
  ASSUME TypeOK, NEW n \in 1 .. 9, NEW passed \in BOOLEAN, Step(n, passed)
  PROVE  /\ checks' \in Seq(BOOLEAN) /\ Len(checks') = n /\ Done' = n
         /\ runs > 0 /\ runs' = runs /\ defect' = defect /\ Done = n - 1
         /\ \A i \in 1 .. n - 1 : checks'[i] = checks[i]
         /\ checks'[n] = passed
         /\ \A i \in 1 .. n - 1 : Holds(i)' <=> Holds(i)
         /\ Holds(n)' <=> passed
         /\ \A i \in n + 1 .. 9 : ~ Holds(i)'
         /\ \A i \in n .. 9 : ~ Holds(i)
<1>1. /\ checks \in Seq(BOOLEAN) /\ Len(checks) = n - 1
      /\ checks' = Append(checks, passed)
  BY DEF TypeOK, Step
<1>2. /\ checks' \in Seq(BOOLEAN) /\ Len(checks') = n
      /\ \A i \in 1 .. n - 1 : checks'[i] = checks[i]
      /\ checks'[n] = passed
  BY <1>1
<1> QED BY <1>1, <1>2 DEF Step, Holds, Done

-----------------------------------------------------------------------------
(* The inductive invariant *)

LEMMA InitInv == Init => Inv
<1> SUFFICES ASSUME Init PROVE Inv
  OBVIOUS
<1>1. checks = << >> /\ Len(checks) = 0 /\ metadata = None /\ runs = 0
  BY DEF Init
<1>2. TypeOK
  BY <1>1 DEF Init, TypeOK, Contents
<1>3. Faultless
  BY <1>1 DEF Faultless
<1>4. ReadsShown /\ RefusalsShown /\ DeleteShown
  BY <1>1 DEF ReadsShown, RefusalsShown, DeleteShown, Holds, Done
<1> QED BY <1>2, <1>3, <1>4 DEF Inv

LEMMA StartInv == Inv /\ Start => Inv'
<1> SUFFICES ASSUME Inv, Start PROVE Inv'
  OBVIOUS
<1>1. /\ checks' = << >> /\ Len(checks') = 0 /\ metadata' = None /\ runs' = runs + 1
      /\ defect' = defect
      /\ objects' = IF defect = "reset-keeps-objects" THEN objects ELSE [i \in Ids |-> None]
  BY DEF Start
<1>2. TypeOK'
  BY <1>1 DEF Inv, TypeOK, Contents
<1>3. Faultless'
  BY <1>1, Distinct DEF Faultless, Done, Defects
<1>4. ReadsShown' /\ RefusalsShown' /\ DeleteShown'
  BY <1>1 DEF ReadsShown, RefusalsShown, DeleteShown, Holds, Done
<1> QED BY <1>2, <1>3, <1>4 DEF Inv

LEMMA PutInv == Inv /\ Put => Inv'
<1> SUFFICES ASSUME Inv, Put PROVE Inv'
  OBVIOUS
<1> DEFINE answered == IF defect = "put-misreports-identity" THEN Garbage ELSE Payload
           passed == PutOutcome(ObjectId, Payload) = "ok" /\ answered = Payload
<1>1. /\ Step(1, passed)
      /\ objects' = AfterPut(ObjectId, Payload)
      /\ metadata' = IF passed THEN answered ELSE None
  BY DEF Put
<1>2. passed <=> ~ Conflict(ObjectId) /\ defect # "put-misreports-identity"
  BY Distinct DEF PutOutcome
<1>4. /\ objects' \in [Ids -> Contents]
      /\ \A i \in Ids : objects'[i] =
           IF i = ObjectId /\ ~ Conflict(ObjectId) /\ defect # "put-is-lost"
             THEN Payload ELSE objects[i]
  BY <1>1 DEF Inv, TypeOK, AfterPut, PutOutcome, Contents, Ids, ObjectId
<1>5. passed \in BOOLEAN /\ metadata' = IF passed THEN Payload ELSE None
  BY <1>1
<1> HIDE DEF passed, answered
<1>3. /\ checks' \in Seq(BOOLEAN) /\ Len(checks') = 1 /\ Done' = 1 /\ Done = 0
      /\ runs > 0 /\ runs' = runs /\ defect' = defect
      /\ checks'[1] = passed
      /\ Holds(1)' <=> passed
      /\ \A i \in 2 .. 9 : ~ Holds(i)'
  <2>1. TypeOK /\ 1 \in 1 .. 9 /\ passed \in BOOLEAN /\ Step(1, passed)
    BY <1>1, <1>5 DEF Inv
  <2> QED BY <2>1, StepReport
<1>6. TypeOK'
  BY <1>3, <1>4, <1>5 DEF Inv, TypeOK
<1>7. Faultless'
  <2> SUFFICES ASSUME defect = None
               PROVE  /\ passed
                      /\ metadata' = Payload
                      /\ \A i \in Ids :
                           objects'[i] = IF i = ObjectId THEN Payload ELSE None
    <3>1. \A n \in 1 .. Done' : n = 1
      BY <1>3
    <3>2. Done' \in 1 .. 7 /\ Done' >= 1
      BY <1>3
    <3> QED BY <1>3, <3>1, <3>2 DEF Faultless
  <2>1. /\ \A i \in Ids : objects[i] = None
        /\ defect # "put-misreports-identity" /\ defect # "put-is-lost"
    BY <1>3, Distinct DEF Inv, Faultless, Defects
  <2>2. ~ Conflict(ObjectId)
    BY <2>1 DEF Conflict, Ids
  <2> QED BY <1>2, <1>4, <1>5, <2>1, <2>2
<1>8. ReadsShown'
  <2>1. defect = "put-is-lost" /\ passed => objects'[ObjectId] = None
    BY <1>2, <1>4 DEF Conflict, Ids
  <2> QED BY <1>2, <1>3, <1>5, <2>1 DEF ReadsShown
<1>9. RefusalsShown' /\ DeleteShown'
  BY <1>3 DEF RefusalsShown, DeleteShown
<1> QED BY <1>6, <1>7, <1>8, <1>9 DEF Inv

\* What the target finds under the reference that put answered is the fixture.
LEMMA FindsFixture ==
  ASSUME Inv, Finds
  PROVE  /\ metadata = Payload /\ Holds(1)
         /\ objects[ObjectId] = Payload \/ defect = "missing-is-empty"
BY DEF Inv, TypeOK, ReadsShown, Finds, LookupOutcome

\* What the target holds while one without a defect is checked.
Fixture(done) == [i \in Ids |-> IF i = ObjectId /\ done \in 1 .. 7 THEN Payload ELSE None]

LEMMA FaultlessRun ==
  ASSUME Inv, defect = None, runs > 0, Done >= 1
  PROVE  /\ metadata = Payload
         /\ objects = Fixture(Done)
         /\ \A d \in Defects : defect # d
BY Distinct DEF Inv, TypeOK, Faultless, Fixture

\* A check after the first that a target without a defect passes keeps Faultless.
LEMMA FaultlessKept ==
  ASSUME Inv, NEW n \in 2 .. 9, NEW passed \in BOOLEAN, Step(n, passed),
         metadata' = metadata, objects' \in [Ids -> Contents],
         defect = None => passed /\ objects' = Fixture(n)
  PROVE  TypeOK' /\ Faultless'
<1>1. /\ checks' \in Seq(BOOLEAN) /\ Len(checks') = n /\ Done' = n /\ Done = n - 1
      /\ runs > 0 /\ runs' = runs /\ defect' = defect
      /\ \A i \in 1 .. n - 1 : checks'[i] = checks[i]
      /\ checks'[n] = passed
  <2>1. TypeOK /\ n \in 1 .. 9
    BY DEF Inv
  <2> QED BY <2>1, StepReport
<1>2. TypeOK'
  BY <1>1 DEF Inv, TypeOK
<1>3. Faultless'
  <2> SUFFICES ASSUME defect = None
               PROVE  /\ \A i \in 1 .. n : checks'[i]
                      /\ metadata = Payload
    BY <1>1 DEF Faultless, Fixture
  <2>1. (\A i \in 1 .. n - 1 : checks[i]) /\ metadata = Payload
    BY <1>1 DEF Inv, Faultless
  <2>2. \A i \in 1 .. n : checks'[i]
    <3>1. checks'[n]
      BY <1>1
    <3>2. \A i \in 1 .. n : i = n \/ i \in 1 .. n - 1
      OBVIOUS
    <3> QED BY <1>1, <2>1, <3>1, <3>2
  <2> QED BY <2>1, <2>2
<1> QED BY <1>2, <1>3

\* A check that only reads keeps what the target and the reference are known to
\* be.
LEMMA ReadInv ==
  ASSUME Inv, NEW n \in 2 .. 5, NEW passed \in BOOLEAN, Step(n, passed),
         UNCHANGED <<objects, metadata>>,
         defect = None => passed,
         passed => defect \notin CASE n = 2 -> {"stat-misreports-identity", "put-is-lost"}
                                   [] n = 3 -> {"get-returns-garbage"}
                                   [] n = 4 -> {"range-excludes-end"}
                                   [] n = 5 -> {"list-is-empty"}
  PROVE  Inv'
<1>1. /\ Done' = n /\ Done = n - 1 /\ defect' = defect /\ runs > 0
      /\ \A i \in 1 .. n - 1 : Holds(i)' <=> Holds(i)
      /\ Holds(n)' <=> passed
      /\ \A i \in n + 1 .. 9 : ~ Holds(i)'
  <2>1. TypeOK /\ n \in 1 .. 9
    BY DEF Inv
  <2> QED BY <2>1, StepReport
<1>2. defect = None => objects = Fixture(n)
  <2>1. defect = None => objects = Fixture(Done)
    BY <1>1, FaultlessRun
  <2> QED BY <1>1, <2>1 DEF Fixture
<1>3. objects' \in [Ids -> Contents]
  BY DEF Inv, TypeOK
<1>4. TypeOK' /\ Faultless'
  <2>1. n \in 2 .. 9
    OBVIOUS
  <2> QED BY <1>2, <1>3, <2>1, FaultlessKept
<1>5. ReadsShown'
  BY <1>1 DEF Inv, ReadsShown
<1>6. RefusalsShown' /\ DeleteShown'
  BY <1>1 DEF RefusalsShown, DeleteShown
<1> QED BY <1>4, <1>5, <1>6 DEF Inv

\* In a run against a target without a defect that has put and not yet deleted,
\* the fixture is found.
LEMMA FaultlessFinds ==
  ASSUME Inv, defect = None, runs > 0, Done \in 1 .. 7
  PROVE  Finds /\ metadata = Payload /\ objects[ObjectId] = Payload
<1>1. metadata = Payload /\ objects = Fixture(Done)
  BY FaultlessRun
<1>2. objects[ObjectId] = Payload
  BY <1>1 DEF Fixture, Ids
<1> QED BY <1>1, <1>2, Distinct DEF Finds, LookupOutcome

LEMMA StatInv == Inv /\ Stat => Inv'
<1> SUFFICES ASSUME Inv, Stat PROVE Inv'
  OBVIOUS
<1> DEFINE passed == Finds /\ StatAnswer = metadata
<1>1. Step(2, passed) /\ UNCHANGED <<objects, metadata>> /\ passed \in BOOLEAN
  BY DEF Stat
<1>2. runs > 0 /\ Done = 1
  BY <1>1 DEF Step, Done
<1>3. defect = None => passed
  BY <1>2, FaultlessFinds, Distinct DEF StatAnswer, Defects
<1>4. passed => defect # "stat-misreports-identity"
  BY FindsFixture, Distinct DEF StatAnswer
<1>5. passed => defect # "put-is-lost"
  BY <1>2, FindsFixture, Distinct DEF Inv, ReadsShown
<1> HIDE DEF passed
<1> QED BY <1>1, <1>3, <1>4, <1>5, ReadInv

LEMMA GetInv == Inv /\ Get => Inv'
<1> SUFFICES ASSUME Inv, Get PROVE Inv'
  OBVIOUS
<1>1. Step(3, GetPasses) /\ UNCHANGED <<objects, metadata>> /\ GetPasses \in BOOLEAN
  BY DEF Get, GetPasses
<1>2. runs > 0 /\ Done = 2
  BY <1>1 DEF Step, Done
<1>3. defect = None => GetPasses
  BY <1>2, FaultlessFinds, Distinct DEF GetPasses, GetAnswer, Defects
<1>4. GetPasses => defect # "get-returns-garbage"
  BY Distinct DEF GetPasses, GetAnswer
<1> QED BY <1>1, <1>3, <1>4, ReadInv

LEMMA RangeInv == Inv /\ ReadRange => Inv'
<1> SUFFICES ASSUME Inv, ReadRange PROVE Inv'
  OBVIOUS
<1> DEFINE passed == Finds /\ RangeAnswer = SubSeq(Payload, 2, 3)
<1>1. Step(4, passed) /\ UNCHANGED <<objects, metadata>> /\ passed \in BOOLEAN
  BY DEF ReadRange
<1>2. runs > 0 /\ Done = 3
  BY <1>1 DEF Step, Done
<1>3. defect = None => passed
  <2> SUFFICES ASSUME defect = None PROVE passed
    OBVIOUS
  <2>1. Finds /\ objects[ObjectId] = Payload /\ defect # "range-excludes-end"
    BY <1>2, FaultlessFinds, Distinct DEF Defects
  <2> QED BY <2>1 DEF RangeAnswer
<1>4. passed => defect # "range-excludes-end"
  <2> SUFFICES ASSUME passed, defect = "range-excludes-end" PROVE FALSE
    OBVIOUS
  <2>1. objects[ObjectId] = Payload
    BY FindsFixture
  <2> QED BY <2>1, RangesDiffer DEF RangeAnswer
<1> HIDE DEF passed
<1> QED BY <1>1, <1>3, <1>4, ReadInv

LEMMA ListInv == Inv /\ List => Inv'
<1> SUFFICES ASSUME Inv, List PROVE Inv'
  OBVIOUS
<1>1. Step(5, ListPasses) /\ UNCHANGED <<objects, metadata>> /\ ListPasses \in BOOLEAN
  BY DEF List, ListPasses
<1>2. runs > 0 /\ Done = 4
  BY <1>1 DEF Step, Done
<1>3. defect = None => ListPasses
  <2> SUFFICES ASSUME defect = None PROVE ListPasses
    OBVIOUS
  <2>1. objects = Fixture(Done)
    BY <1>2, FaultlessRun
  <2>2. \A i \in Ids : objects[i] = IF i = ObjectId THEN Payload ELSE None
    BY <1>2, <2>1 DEF Fixture
  <2>3. Page(WithPrefix, 1) = {ObjectId}
    BY <2>2, PageOfFixture
  <2>4. Cardinality({ObjectId}) = 1
    BY FS_Singleton
  <2> QED BY <2>2, <2>3, <2>4 DEF ListPasses, Ids
<1>4. ListPasses => defect # "list-is-empty"
  <2> SUFFICES ASSUME defect = "list-is-empty" PROVE ~ ListPasses
    OBVIOUS
  <2>1. Page(WithPrefix, 1) = {}
    BY DEF Page
  <2>2. Cardinality({}) = 0
    BY FS_EmptySet
  <2> QED BY <2>1, <2>2 DEF ListPasses
<1> QED BY <1>1, <1>3, <1>4, ReadInv

\* A put that is refused changes nothing; one that is not leaves the fixture or
\* what was there.
LEMMA PutObjects ==
  ASSUME Inv, NEW id \in Ids, NEW expected
  PROVE  /\ AfterPut(id, expected) \in [Ids -> Contents]
         /\ PutOutcome(id, expected) # "ok" => AfterPut(id, expected) = objects
BY DEF Inv, TypeOK, AfterPut, Contents

\* What StepReport says of checks from the sixth on.
LEMMA LateReport ==
  ASSUME Inv, NEW n \in 6 .. 9, NEW passed \in BOOLEAN, Step(n, passed)
  PROVE  /\ Done' = n /\ Done = n - 1 /\ defect' = defect /\ runs > 0
         /\ \A i \in 1 .. n - 1 : Holds(i)' <=> Holds(i)
         /\ Holds(n)' <=> passed
         /\ \A i \in n + 1 .. 9 : ~ Holds(i)'
         /\ metadata' = metadata => ReadsShown'
<1>1. TypeOK /\ n \in 1 .. 9
  BY DEF Inv
<1>2. /\ Done' = n /\ Done = n - 1 /\ defect' = defect /\ runs > 0
      /\ \A i \in 1 .. n - 1 : Holds(i)' <=> Holds(i)
      /\ Holds(n)' <=> passed
      /\ \A i \in n + 1 .. 9 : ~ Holds(i)'
  BY <1>1, StepReport
<1> QED BY <1>2 DEF Inv, ReadsShown

LEMMA DuplicateInv == Inv /\ Duplicate => Inv'
<1> SUFFICES ASSUME Inv, Duplicate PROVE Inv'
  OBVIOUS
<1> DEFINE passed == PutOutcome(ObjectId, Payload) = "ConditionalConflict"
<1>1. /\ Step(6, passed) /\ passed \in BOOLEAN
      /\ objects' = AfterPut(ObjectId, Payload) /\ metadata' = metadata
  BY DEF Duplicate
<1>2. passed <=> Conflict(ObjectId)
  BY DEF PutOutcome
<1>3. passed => objects' = objects
  BY <1>1, PutObjects DEF Ids
<1>4. passed => defect # "put-ignores-create-only"
  BY <1>2 DEF Conflict
<1>5. objects' \in [Ids -> Contents]
  BY <1>1, PutObjects DEF Ids
<1> HIDE DEF passed
<1>6. /\ Done' = 6 /\ Done = 5 /\ defect' = defect /\ runs > 0
      /\ \A i \in 1 .. 5 : Holds(i)' <=> Holds(i)
      /\ Holds(6)' <=> passed
      /\ \A i \in 7 .. 9 : ~ Holds(i)'
      /\ ReadsShown'
  BY <1>1, LateReport
<1>7. defect = None => passed /\ objects' = Fixture(6)
  <2> SUFFICES ASSUME defect = None PROVE passed /\ objects' = Fixture(6)
    OBVIOUS
  <2>1. objects = Fixture(5) /\ objects[ObjectId] = Payload
    BY <1>6, FaultlessRun, FaultlessFinds
  <2>2. Fixture(5) = Fixture(6)
    BY DEF Fixture
  <2>3. passed
    BY <1>2, <2>1, Distinct DEF Conflict, Defects
  <2> QED BY <1>3, <2>1, <2>2, <2>3
<1>8. TypeOK' /\ Faultless'
  BY <1>1, <1>5, <1>7, FaultlessKept
<1>9. RefusalsShown' /\ DeleteShown'
  BY <1>4, <1>6 DEF RefusalsShown, DeleteShown
<1> QED BY <1>6, <1>8, <1>9 DEF Inv

LEMMA MismatchInv == Inv /\ Mismatch => Inv'
<1> SUFFICES ASSUME Inv, Mismatch PROVE Inv'
  OBVIOUS
<1>1. /\ Step(7, MismatchPasses) /\ MismatchPasses \in BOOLEAN
      /\ objects' = AfterPut(MismatchId, Garbage) /\ metadata' = metadata
  BY DEF Mismatch, MismatchPasses
<1>2. MismatchPasses <=> ~ Conflict(MismatchId) /\ defect # "put-skips-verification"
  BY Distinct DEF MismatchPasses, PutOutcome
<1>3. MismatchPasses => objects' = objects
  BY <1>1, PutObjects DEF Ids, MismatchPasses
<1>4. objects' \in [Ids -> Contents]
  BY <1>1, PutObjects DEF Ids
<1>5. MismatchPasses /\ defect # "put-ignores-create-only" => objects'[MismatchId] = None
  BY <1>2, <1>3 DEF Conflict
<1>6. /\ Done' = 7 /\ Done = 6 /\ defect' = defect /\ runs > 0
      /\ \A i \in 1 .. 6 : Holds(i)' <=> Holds(i)
      /\ Holds(7)' <=> MismatchPasses
      /\ \A i \in 8 .. 9 : ~ Holds(i)'
      /\ ReadsShown'
  BY <1>1, LateReport
<1>7. defect = None => MismatchPasses /\ objects' = Fixture(7)
  <2> SUFFICES ASSUME defect = None PROVE MismatchPasses /\ objects' = Fixture(7)
    OBVIOUS
  <2>1. objects = Fixture(6)
    BY <1>6, FaultlessRun
  <2>2. Fixture(6) = Fixture(7) /\ Fixture(6)[MismatchId] = None
    BY DEF Fixture, Ids, MismatchId, ObjectId
  <2>3. MismatchPasses
    BY <1>2, <2>1, <2>2, Distinct DEF Conflict, Defects
  <2> QED BY <1>3, <2>1, <2>2, <2>3
<1>8. TypeOK' /\ Faultless'
  BY <1>1, <1>4, <1>7, FaultlessKept
<1>9. RefusalsShown' /\ DeleteShown'
  BY <1>2, <1>5, <1>6 DEF Inv, RefusalsShown, DeleteShown
<1> QED BY <1>6, <1>8, <1>9 DEF Inv

LEMMA DeleteInv == Inv /\ Delete => Inv'
<1> SUFFICES ASSUME Inv, Delete PROVE Inv'
  OBVIOUS
<1> DEFINE deleted == /\ metadata # None
                      /\ objects[ObjectId] # None
                      /\ defect # "delete-ignores-version" => objects[ObjectId] = metadata
<1>1. /\ Step(8, deleted) /\ deleted \in BOOLEAN /\ metadata' = metadata
      /\ objects' = IF deleted /\ defect # "delete-keeps-object"
                      THEN [objects EXCEPT ![ObjectId] = None] ELSE objects
  BY DEF Delete
<1>2. deleted /\ defect = "delete-keeps-object" =>
        metadata # None /\ objects'[ObjectId] = metadata
  BY <1>1
<1>3. deleted /\ defect # "delete-keeps-object" => objects'[ObjectId] = None
  BY <1>1 DEF Inv, TypeOK, Ids
<1>4. objects' \in [Ids -> Contents] /\ objects'[MismatchId] = objects[MismatchId]
  BY <1>1 DEF Inv, TypeOK, Contents, Ids, MismatchId, ObjectId
<1>5. defect = None => deleted /\ objects' = Fixture(8)
  <2> SUFFICES ASSUME defect = None PROVE deleted /\ objects' = Fixture(8)
    OBVIOUS
  <2>1. runs > 0 /\ Done = 7
    BY <1>1 DEF Step, Done
  <2>2. objects = Fixture(7) /\ metadata = Payload /\ objects[ObjectId] = Payload
        /\ defect # "delete-keeps-object"
    BY <2>1, FaultlessRun, FaultlessFinds DEF Defects
  <2>3. [Fixture(7) EXCEPT ![ObjectId] = None] = Fixture(8)
    <3>1. ~ (8 \in 1 .. 7) /\ 7 \in 1 .. 7
      OBVIOUS
    <3>2. Fixture(8) = [i \in Ids |-> None]
      BY <3>1 DEF Fixture
    <3>3. Fixture(7) = [i \in Ids |-> IF i = ObjectId THEN Payload ELSE None]
      BY <3>1 DEF Fixture
    <3> QED BY <3>2, <3>3
  <2> QED BY <1>1, <2>2, <2>3, Distinct
<1> HIDE DEF deleted
<1>6. /\ Done' = 8 /\ Done = 7 /\ defect' = defect /\ runs > 0
      /\ \A i \in 1 .. 7 : Holds(i)' <=> Holds(i)
      /\ Holds(8)' <=> deleted
      /\ ~ Holds(9)'
      /\ ReadsShown'
  BY <1>1, LateReport
<1>7. TypeOK' /\ Faultless'
  BY <1>1, <1>4, <1>5, FaultlessKept
<1>8. RefusalsShown'
  BY <1>4, <1>6 DEF Inv, RefusalsShown
<1>9. DeleteShown'
  BY <1>1, <1>2, <1>3, <1>6 DEF DeleteShown
<1> QED BY <1>6, <1>7, <1>8, <1>9 DEF Inv

LEMMA MissingInv == Inv /\ Missing => Inv'
<1> SUFFICES ASSUME Inv, Missing PROVE Inv'
  OBVIOUS
<1> DEFINE passed ==
      metadata # None /\ LookupOutcome(ObjectId, metadata) = "ObjectNotFound"
<1>1. /\ Step(9, passed) /\ passed \in BOOLEAN /\ metadata' = metadata /\ objects' = objects
  BY DEF Missing
<1>2. passed => objects[ObjectId] # metadata /\ defect # "missing-is-empty"
  BY DEF LookupOutcome
<1>3. defect = None => passed /\ objects' = Fixture(9)
  <2> SUFFICES ASSUME defect = None PROVE passed /\ objects' = Fixture(9)
    OBVIOUS
  <2>1. runs > 0 /\ Done = 8
    BY <1>1 DEF Step, Done
  <2>2. objects = Fixture(8) /\ metadata = Payload /\ defect # "missing-is-empty"
    BY <2>1, FaultlessRun DEF Defects
  <2>3. Fixture(8) = Fixture(9) /\ Fixture(8)[ObjectId] = None
    BY DEF Fixture, Ids
  <2> QED BY <1>1, <2>2, <2>3, Distinct DEF LookupOutcome
<1> HIDE DEF passed
<1>4. /\ Done' = 9 /\ Done = 8 /\ defect' = defect /\ runs > 0
      /\ \A i \in 1 .. 8 : Holds(i)' <=> Holds(i)
      /\ Holds(9)' <=> passed
      /\ ReadsShown'
  BY <1>1, LateReport
<1>5. TypeOK' /\ Faultless'
  <2>1. objects' \in [Ids -> Contents]
    BY <1>1 DEF Inv, TypeOK
  <2> QED BY <1>1, <1>3, <2>1, FaultlessKept
<1>6. RefusalsShown'
  BY <1>1, <1>4 DEF Inv, RefusalsShown
<1>7. DeleteShown'
  BY <1>1, <1>2, <1>4 DEF Inv, DeleteShown
<1> QED BY <1>4, <1>5, <1>6, <1>7 DEF Inv

LEMMA InvHolds == Spec => []Inv
<1>1. Inv /\ [Next]_vars => Inv'
  <2> SUFFICES ASSUME Inv, [Next]_vars PROVE Inv'
    OBVIOUS
  <2>1. CASE UNCHANGED vars
    BY <2>1 DEF vars, Inv, TypeOK, Faultless, ReadsShown, RefusalsShown, DeleteShown,
                Holds, Done
  <2> QED
    BY <2>1, StartInv, PutInv, StatInv, GetInv, RangeInv, ListInv, DuplicateInv,
       MismatchInv, DeleteInv, MissingInv DEF Next
<1> QED BY <1>1, InitInv, PTL DEF Spec

-----------------------------------------------------------------------------
(* The results *)

LEMMA PassedHolds == Passed => Done = 9 /\ \A n \in 1 .. 9 : Holds(n)
BY DEF Passed, Done, Holds

\* A target without a defect gets a report without a failed check, whatever it
\* held when the runner was made and however many runs came before.
THEOREM NeverFalseAlarm == Spec => []NoFalseAlarm
<1>1. Inv => NoFalseAlarm
  <2> SUFFICES ASSUME Inv, defect = None, Len(checks) = 9 PROVE Passed
    BY DEF NoFalseAlarm
  <2>1. runs > 0
    BY DEF Inv, TypeOK
  <2> QED BY <2>1 DEF Inv, Faultless, Passed, Done
<1> QED BY <1>1, InvHolds, PTL

\* No target with one of the ten defects of DefectsFound passes the nine checks,
\* although a failed check does not stop the run.
THEOREM DefectsAreFound == Spec => []DefectsFound
<1>1. Inv => DefectsFound
  BY PassedHolds DEF Inv, ReadsShown, RefusalsShown, DeleteShown, DefectsFound
<1> QED BY <1>1, InvHolds, PTL

\* After a report without a failed check the target holds neither fixture, even if
\* its reset keeps what earlier runs left.
THEOREM PassesLeaveNoFixture == Spec => []PassLeavesNoFixture
<1>1. Inv => PassLeavesNoFixture
  BY PassedHolds DEF Inv, ReadsShown, RefusalsShown, DeleteShown, PassLeavesNoFixture,
     WithPrefix
<1> QED BY <1>1, InvHolds, PTL

=============================================================================
