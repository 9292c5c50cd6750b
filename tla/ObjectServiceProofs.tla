------------------------- MODULE ObjectServiceProofs -------------------------
(***************************************************************************)
(* Proofs about ObjectService, for any consumers, resources, contents,     *)
(* ranges, limits and kinds of provider failure.                           *)
(***************************************************************************)
EXTENDS ObjectService, FiniteSetTheorems, TLAPS

-----------------------------------------------------------------------------
(* What ByteRange.resolve computes, for ranges and objects of any size *)

\* The ranges a caller can construct.
ByteRanges ==
  {r \in [start : Nat \cup {None}, end : Nat \cup {None},
          suffixLength : Nat \cup {None}] : ValidRange(r)}

\* Bounds that pass ResolvedByteRange.__post_init__ make a range with exactly
\* those bounds.
LEMMA ResolvedOK ==
  ASSUME NEW s \in Int, NEW e \in Int, NEW t \in Nat, s <= e, e < t, t # 0
  PROVE  /\ ResolvedRange(s, e, t) = [start |-> s, end |-> e, totalLength |-> t]
         /\ ResolvedRange(s, e, t) # None
         /\ Covered(ResolvedRange(s, e, t)) = s .. e
<1>1. [start |-> s, end |-> e, totalLength |-> t] \in ResolvedRanges
  BY DEF ResolvedRanges
<1> QED
  BY <1>1, NoneAssumption DEF ResolvedRange, Covered

\* ByteRange.resolve selects exactly the bytes that exist and that the range
\* asks for: none is added at the end of the object, none is lost, and
\* RangeNotSatisfiable is raised only when there is none to serve.
THEOREM ResolveExact ==
  \A r \in ByteRanges, total \in Nat : Covered(Resolve(r, total)) = Wanted(r, total)
<1> SUFFICES ASSUME NEW r \in ByteRanges, NEW total \in Nat
             PROVE  Covered(Resolve(r, total)) = Wanted(r, total)
  OBVIOUS
<1>1. CASE r.suffixLength # None
  <2>1. r.suffixLength \in Nat
    BY <1>1 DEF ByteRanges
  <2>2. Covered(Resolve(r, total)) =
          IF total = 0 THEN {} ELSE total - Lesser(r.suffixLength, total) .. total - 1
    BY <1>1, <2>1, ResolvedOK DEF Covered, Resolve, Lesser, ByteRanges, ValidRange
  <2> QED
    BY <1>1, <2>1, <2>2 DEF Wanted, Lesser
<1>2. CASE r.suffixLength = None
  <2>1. r.start \in Nat /\ r.end \in Nat \cup {None}
    BY <1>2 DEF ByteRanges, ValidRange
  <2> DEFINE last == IF r.end = None THEN total - 1 ELSE Lesser(r.end, total - 1)
  <2>2. total # 0 /\ r.start < total => last \in Int /\ r.start <= last /\ last < total
    BY <1>2, <2>1, NoneAssumption DEF Lesser, ByteRanges, ValidRange
  <2>3. Covered(Resolve(r, total)) =
          IF r.start >= total THEN {} ELSE r.start .. last
    BY <1>2, <2>1, <2>2, ResolvedOK DEF Covered, Resolve
  <2> QED
    BY <1>2, <2>1, <2>3, NoneAssumption DEF Wanted, Lesser
<1> QED BY <1>1, <1>2

\* A resolved range lies within the object and is no longer than
\* requested_length, the number that capability negotiation compares with the
\* target's max-range-bytes; only an open-ended range escapes that limit.
THEOREM ResolveWithinRequest ==
  \A r \in ByteRanges, total \in Nat :
    LET v == Resolve(r, total) IN
    v # None =>
      /\ v.start \in Nat /\ v.end \in Nat
      /\ v.start <= v.end /\ v.end < total
      /\ RequestedLength(r) # None => ResolvedLength(v) <= RequestedLength(r)
<1> SUFFICES ASSUME NEW r \in ByteRanges, NEW total \in Nat,
                    Resolve(r, total) # None
             PROVE  LET v == Resolve(r, total) IN
                    /\ v.start \in Nat /\ v.end \in Nat
                    /\ v.start <= v.end /\ v.end < total
                    /\ RequestedLength(r) # None =>
                         ResolvedLength(v) <= RequestedLength(r)
  OBVIOUS
<1>1. CASE r.suffixLength # None
  BY <1>1, NoneAssumption
  DEF ByteRanges, ValidRange, Resolve, ResolvedRange, RequestedLength,
      ResolvedLength, Lesser
<1>2. CASE r.suffixLength = None
  BY <1>2, NoneAssumption
  DEF ByteRanges, ValidRange, Resolve, ResolvedRange, RequestedLength,
      ResolvedLength, Lesser
<1> QED BY <1>1, <1>2

\* A range is resolved exactly when the object has a byte that it asks for.
LEMMA ResolveDecides ==
  ASSUME NEW r \in ByteRanges, NEW total \in Nat
  PROVE  Resolve(r, total) # None <=> Wanted(r, total) # {}
<1>1. CASE Resolve(r, total) = None
  BY <1>1, ResolveExact DEF Covered
<1>2. CASE Resolve(r, total) # None
  <2> DEFINE v == Resolve(r, total)
  <2>1. v.start \in Nat /\ v.end \in Nat /\ v.start <= v.end
    BY <1>2, ResolveWithinRequest
  <2>2. Wanted(r, total) = v.start .. v.end
    BY <1>2, ResolveExact DEF Covered
  <2> HIDE DEF v
  <2>3. v.start \in v.start .. v.end
    BY <2>1
  <2> QED
    BY <1>2, <2>2, <2>3
<1> QED
  BY <1>1, <1>2

-----------------------------------------------------------------------------
(* Expressions and what normalize keeps of them *)

\* The surface makes a put of a put.
LEMMA SurfacePutType == \A x \in PutArguments : SurfacePut(x) \in PutArguments
<1> SUFFICES ASSUME NEW x \in PutArguments PROVE SurfacePut(x) \in PutArguments
  OBVIOUS
<1>1. x.payload.expectedDigest \in Contents \cup {None}
  BY DEF PutArguments, PayloadReferences
<1>2. x.payload.expectedLength \in Lengths \cup {None}
  BY DEF PutArguments, PayloadReferences
<1> QED
  BY <1>1, <1>2 DEF SurfacePut, PutArguments

\* The fields of an Expression, by its method.
LEMMA PutFields ==
  ASSUME NEW x \in Expressions, x.method = "put"
  PROVE  x \in PutArguments
<1>1. CASE x \in {SurfacePut(y) : y \in PutArguments}
  BY <1>1, SurfacePutType
<1>2. CASE x \notin {SurfacePut(y) : y \in PutArguments}
  BY <1>2 DEF Expressions
<1> QED
  BY <1>1, <1>2

LEMMA OtherFields ==
  ASSUME NEW x \in Expressions, x.method # "put"
  PROVE  /\ x.method \in {"get", "stat", "delete", "read_range", "list"}
         /\ x.resource \in Resources
         /\ x.method # "list" => x.reference \in References
         /\ x.method = "read_range" => x.range \in Ranges
         /\ x.method = "list" => x.matching \subseteq ObjectIds /\ x.limit \in Limits
<1>1. x \notin PutArguments
  BY DEF PutArguments
<1>2. x \notin {SurfacePut(y) : y \in PutArguments}
  BY <1>1, SurfacePutType
<1>3. CASE x \in [method : {"get", "stat", "delete"}, resource : Resources, reference : References]
  BY <1>3
<1>4. CASE x \in [method : {"read_range"}, resource : Resources, reference : References, range : Ranges]
  BY <1>4
<1>5. CASE x \in [method : {"list"}, resource : Resources, matching : SUBSET ObjectIds, limit : Limits]
  BY <1>5
<1> QED
  BY <1>1, <1>2, <1>3, <1>4, <1>5 DEF Expressions

\* The key of an Expression that names one object.
LEMMA KeyType ==
  ASSUME NEW x \in Expressions, x.method # "list"
  PROVE  KeyOf(x) \in Keys
<1>1. CASE x.method = "put"
  BY <1>1, PutFields DEF PutArguments, KeyOf, Keys
<1>2. CASE x.method # "put"
  BY <1>2, OtherFields DEF References, KeyOf, Keys
<1> QED
  BY <1>1, <1>2

\* What holds of every Operation that is sent: it passed normalize, a target
\* was found for it, and a put's payload reference has the put's expectations.
CallOK(x) ==
  /\ x \in Expressions
  /\ Accepts(x)
  /\ Supported(x)
  /\ x.method = "put" => /\ x.payload.expectedDigest = x.expectedDigest
                         /\ x.payload.expectedLength = x.expectedLength

\* A put's payload reference has all that was declared anywhere.
DeclaredOK(x, dec) ==
  x.method = "put" =>
    /\ dec.digests \subseteq {x.payload.expectedDigest} \ {None}
    /\ dec.lengths \subseteq {x.payload.expectedLength} \ {None}

\* normalize makes an Operation of an Expression that it accepts.
LEMMA NormalizeOK ==
  ASSUME NEW x \in Expressions, Accepts(x), Supported(x)
  PROVE  CallOK(Normalize(x)) /\ DeclaredOK(Normalize(x), DeclaredBy(x))
<1>1. CASE x.method = "put"
  <2> DEFINE y == Normalize(x)
  <2>1. x \in PutArguments
    BY <1>1, PutFields
  <2>2. x.payload \in PayloadReferences
    BY <2>1 DEF PutArguments
  <2> DEFINE p == [expectedLength |-> x.expectedLength,
                   expectedDigest |-> x.expectedDigest,
                   replayable |-> x.payload.replayable]
  <2>3. y = [x EXCEPT !.payload = p]
    BY <1>1 DEF Normalize
  <2>4. p \in PayloadReferences
    BY <2>1, <2>2 DEF PutArguments, PayloadReferences
  <2> HIDE DEF y
  <2>5. y \in PutArguments
    BY <2>1, <2>3, <2>4 DEF PutArguments
  <2>6. /\ y.method = "put" /\ y.payload = p
        /\ y.expectedDigest = x.expectedDigest /\ y.expectedLength = x.expectedLength
        /\ y.immutability = x.immutability /\ y.retention = x.retention
        /\ y.createOnly = x.createOnly
    BY <1>1, <2>1, <2>3 DEF PutArguments
  <2>7. y \in Expressions
    BY <2>5 DEF Expressions
  <2>8. PutAccepts(x)
    BY <1>1 DEF Accepts
  <2>9. Accepts(y)
    BY <2>6, <2>8 DEF Accepts, PutAccepts
  <2>10. Supported(y)
    <3>c. IntentGuarantees(y) = IntentGuarantees(x)
      BY <2>6, Zenon DEF IntentGuarantees
    <3>1. Guarantees(y) = Guarantees(x)
      BY <1>1, <2>6, <3>c DEF Guarantees, SignedOperations
    <3> DEFINE length == IF x.expectedLength # None THEN x.expectedLength ELSE 0
    <3>a. MinimumLimits(x) = [object |-> length, range |-> 0, page |-> 0]
      BY <1>1 DEF MinimumLimits, ObjectLimit
    <3>b. MinimumLimits(y) = [object |-> length, range |-> 0, page |-> 0]
      BY <2>6 DEF MinimumLimits, ObjectLimit
    <3>2. MinimumLimits(y) = MinimumLimits(x)
      BY <3>a, <3>b
    <3> QED
      BY <3>1, <3>2 DEF Supported, SupportedBy
  <2>11. DeclaredOK(y, DeclaredBy(x))
    BY <1>1, <2>6, <2>8 DEF DeclaredOK, DeclaredBy, PutAccepts
  <2>12. CallOK(y)
    BY <2>6, <2>7, <2>9, <2>10 DEF CallOK
  <2> QED
    BY <2>11, <2>12 DEF y
<1>2. CASE x.method # "put"
  BY <1>2 DEF Normalize, CallOK, DeclaredOK
<1> QED
  BY <1>1, <1>2

-----------------------------------------------------------------------------
(* Ranges and pages *)

\* The positions below one of an interval are counted by subtraction.
LEMMA RankInInterval ==
  ASSUME NEW a \in Nat, NEW b \in Nat, NEW i \in a .. b
  PROVE  Cardinality({h \in a .. b : h < i}) = i - a
<1>1. {h \in a .. b : h < i} = a .. i - 1
  OBVIOUS
<1>2. Cardinality(a .. i - 1) = IF a > i - 1 THEN 0 ELSE (i - 1) - a + 1
  BY FS_Interval
<1>3. Cardinality({h \in a .. b : h < i}) = Cardinality(a .. i - 1)
  BY <1>1, Zenon
<1>4. Cardinality(a .. i - 1) = i - a
  BY <1>2
<1> QED
  BY <1>3, <1>4, Zenon

\* The slice that a range resolves to is the bytes it asks for, and no more of
\* them than it requested.
LEMMA SliceExact ==
  ASSUME NEW data \in Seq(Nat), NEW r \in ByteRanges, Resolve(r, Len(data)) # None
  PROVE  /\ ServesExactly(Slice(data, r), data, r)
         /\ Len(Slice(data, r)) \in Nat
         /\ RequestedLength(r) # None => Len(Slice(data, r)) <= RequestedLength(r)
<1> DEFINE v == Resolve(r, Len(data))
           s == v.start
           e == v.end
           w == Wanted(r, Len(data))
<1>1. Len(data) \in Nat
  OBVIOUS
<1>2. /\ s \in Nat /\ e \in Nat /\ s <= e /\ e < Len(data)
      /\ RequestedLength(r) # None => e - s + 1 <= RequestedLength(r)
  BY <1>1, ResolveWithinRequest DEF ResolvedLength
<1>3. w = s .. e
  BY <1>1, ResolveExact DEF Covered
<1>4. Slice(data, r) = SubSeq(data, s + 1, e + 1)
  BY DEF Slice
<1> HIDE DEF v, s, e, w
<1>5. /\ Len(Slice(data, r)) = e - s + 1
      /\ \A j \in 1 .. e - s + 1 : Slice(data, r)[j] = data[s + j]
  BY <1>2, <1>4
<1>6. Cardinality(w) = e - s + 1
  BY <1>2, <1>3, FS_Interval
<1>7. ASSUME NEW i \in w
      PROVE  Slice(data, r)[Cardinality({h \in w : h < i}) + 1] = data[i + 1]
  <2>1. Cardinality({h \in w : h < i}) = i - s
    BY <1>2, <1>3, RankInInterval
  <2>2. i - s + 1 \in 1 .. e - s + 1 /\ s + (i - s + 1) = i + 1
    BY <1>2, <1>3
  <2>3. Slice(data, r)[i - s + 1] = data[s + (i - s + 1)]
    BY <1>5, <2>2, Zenon
  <2> QED
    BY <2>1, <2>2, <2>3
<1>8. ServesExactly(Slice(data, r), data, r)
  <2>1. Len(Slice(data, r)) = Cardinality(w)
    BY <1>5, <1>6
  <2> QED
    BY <1>7, <2>1, Zenon DEF ServesExactly, w
<1> QED
  BY <1>2, <1>5, <1>8

\* The members of M below m.
Below(M, m) == {n \in M : n < m}

\* There are finitely many natural numbers below another.
LEMMA BelowFinite ==
  ASSUME NEW M \in SUBSET Nat, NEW m \in M
  PROVE  IsFiniteSet(Below(M, m)) /\ Cardinality(Below(M, m)) \in Nat
<1>a. Below(M, m) \in SUBSET M /\ \A n \in Below(M, m) : n < m
  BY Zenon DEF Below
<1>b. m \in Nat /\ \A n \in Nat : n < m => n <= m
  OBVIOUS
<1>1. Below(M, m) \in SUBSET Nat /\ \A n \in Below(M, m) : n <= m
  BY <1>a, <1>b, Zenon
<1>2. IsFiniteSet(Below(M, m))
  BY <1>1, FS_BoundedSetOfNaturals
<1> QED
  BY <1>2, FS_CardinalityType

\* How many are below tells two members apart.
LEMMA RankInjective ==
  ASSUME NEW M \in SUBSET Nat, NEW m \in M, NEW n \in M,
         Cardinality(Below(M, m)) = Cardinality(Below(M, n))
  PROVE  m = n
<1>1. ASSUME NEW i \in M, NEW j \in M, i < j,
             Cardinality(Below(M, j)) = Cardinality(Below(M, i))
      PROVE  FALSE
  <2>1. Below(M, i) \in SUBSET Below(M, j) /\ i \in Below(M, j) /\ i \notin Below(M, i)
    <3>1. ~(i < i) /\ \A h \in Nat : h < i => h < j
      BY <1>1
    <3> QED
      BY <1>1, <3>1, Zenon DEF Below
  <2>2. IsFiniteSet(Below(M, j))
    BY BelowFinite
  <2>3. Below(M, j) = Below(M, i)
    BY <1>1, <2>1, <2>2, FS_Subset
  <2> QED
    BY <2>1, <2>3
<1>2. m = n \/ m < n \/ n < m
  OBVIOUS
<1> QED
  BY <1>1, <1>2

\* A function with different values is an injection.
LEMMA IsInjection ==
  ASSUME NEW S, NEW T, NEW f \in [S -> T], \A a, b \in S : f[a] = f[b] => a = b
  PROVE  f \in Injection(S, T)
BY DEF Injection, IsInjective

\* The image of a set is covered by the function that maps to it.
LEMMA IsSurjection ==
  ASSUME NEW S, NEW T, NEW f, f \in [S -> T], \A t \in T : \E a \in S : f[a] = t
  PROVE  f \in Surjection(S, T)
BY DEF Surjection

\* So the members with fewer than limit below them are at most limit many.
LEMMA FirstFew ==
  ASSUME NEW M \in SUBSET Nat, NEW limit \in Nat,
         NEW S, S = {m \in M : Cardinality(Below(M, m)) < limit}
  PROVE  IsFiniteSet(S) /\ Cardinality(S) <= limit
<1> DEFINE rank == [m \in S |-> Cardinality(Below(M, m))]
<1>1. IsFiniteSet(0 .. limit - 1) /\ Cardinality(0 .. limit - 1) = limit
  BY FS_Interval
<1>2. \A m \in S : Cardinality(Below(M, m)) \in 0 .. limit - 1
  BY BelowFinite
<1>3. \A m, n \in S : Cardinality(Below(M, m)) = Cardinality(Below(M, n)) => m = n
  BY RankInjective
<1>4. rank \in Injection(S, 0 .. limit - 1)
  <2>1. rank \in [S -> 0 .. limit - 1]
    BY <1>2, Zenon
  <2>2. \A m, n \in S : rank[m] = rank[n] => m = n
    BY <1>3, Zenon
  <2> HIDE DEF rank
  <2> QED
    BY <2>1, <2>2, IsInjection
<1> QED
  BY <1>1, <1>4, FS_Injection

\* A page has at most limit entries.
LEMMA PageBound ==
  ASSUME NEW x \in Expressions, x.method = "list"
  PROVE  /\ x.limit \in Nat /\ Cardinality(Page(x)) \in Nat
         /\ Cardinality(Page(x)) <= x.limit
<1> DEFINE M == {i \in x.matching : objects[<<x.resource, i>>] # None}
           S == {m \in M : Cardinality(Below(M, m)) < x.limit}
           f == [i \in S |-> <<i, objects[<<x.resource, i>>]>>]
<1>1. x.limit \in Nat /\ M \in SUBSET Nat
  BY OtherFields, CatalogAssumption
<1>2. Page(x) = {<<i, objects[<<x.resource, i>>]>> : i \in S}
  BY Zenon DEF Page, Below
<1> HIDE DEF M
<1>3. IsFiniteSet(S) /\ Cardinality(S) <= x.limit
  BY <1>1, FirstFew
<1> HIDE DEF S
<1>4. f \in Surjection(S, Page(x))
  BY <1>2, IsSurjection
<1> HIDE DEF f
<1>5. IsFiniteSet(Page(x)) /\ Cardinality(Page(x)) <= Cardinality(S)
  BY <1>3, <1>4, FS_Surjection
<1>6. Cardinality(Page(x)) \in Nat /\ Cardinality(S) \in Nat
  BY <1>3, <1>5, FS_CardinalityType
<1> QED
  BY <1>1, <1>3, <1>5, <1>6

-----------------------------------------------------------------------------
(* The inductive invariant, for one consumer *)

\* What may be read from bytes for the read x.
Served(x, bytes) ==
  /\ x.method \in {"get", "read_range"}
  /\ x.method = "get" /\ x.reference.digest # None => bytes = x.reference.digest
  /\ x.method = "read_range" =>
       /\ x.reference.digest # None => ServesExactly(bytes, x.reference.digest, x.range)
       /\ RequestedLength(x.range) # None => Len(bytes) <= AdvertisedLimits.range

\* What a consumer may have got: a page or bytes.
GotOK(x, g) ==
  IF x.method = "list" THEN Cardinality(g) <= AdvertisedLimits.page ELSE Served(x, g)

\* What a call left when it first took effect, and that only an idempotent one
\* is sent again.
EffectOK(ph, x, e) ==
  /\ x.method = "put" \/ x.method = "delete"
  /\ x.method = "put" => /\ e.left \in Contents
                         /\ x.payload.expectedDigest \in {None, e.left}
  /\ x.method = "delete" => e.left = None
  /\ ph = "sent" => Idempotent(x)

ClientOK(ph, x, dec, ans, h, g, e) ==
  /\ x # None \/ ph = "sent" \/ (ph = "done" /\ Retryable(ans)) =>
       CallOK(x) /\ DeclaredOK(x, dec)
  /\ ph = "idle" => x = None /\ e = None
  /\ ph # "done" => ans = None /\ h = None /\ g = None
  /\ h # None \/ g # None => ans = "ok"
  /\ h # None => Served(x, h.data)
  /\ g # None => GotOK(x, g)
  /\ e # None => EffectOK(ph, x, e)

\* The variables are functions on the clients (or keys) with the right values.
Typed ==
  /\ objects \in [Keys -> Contents \cup {None}]
  /\ phase \in [Clients -> {"idle", "sent", "done"}]
  /\ payload \in [Clients -> BOOLEAN]
  /\ answer \in [Clients -> Answers \cup {None}]
  /\ DOMAIN call = Clients /\ DOMAIN declared = Clients /\ DOMAIN handle = Clients
  /\ DOMAIN got = Clients /\ DOMAIN effect = Clients

IInv ==
  /\ Typed
  /\ \A c \in Clients :
       ClientOK(phase[c], call[c], declared[c], answer[c], handle[c], got[c], effect[c])

\* The invariant gives the properties that runs check.
LEMMA Implied == IInv => TypeOK /\ PinnedReads /\ LimitsHonoured
<1> SUFFICES ASSUME IInv PROVE TypeOK /\ PinnedReads /\ LimitsHonoured
  OBVIOUS
<1>1. TypeOK
  BY DEF IInv, Typed, ClientOK, CallOK, TypeOK
<1>2. PinnedReads
  BY DEF IInv, ClientOK, GotOK, Served, PinnedReads
<1>3. LimitsHonoured
  BY DEF IInv, ClientOK, GotOK, Served, LimitsHonoured
<1> QED
  BY <1>1, <1>2, <1>3

-----------------------------------------------------------------------------
(* The steps *)

\* A provider failure is heard as one of the taxonomy, and never as a success,
\* a rejection of the request, or a verdict that the provider did not give.
LEMMA ClassifyType ==
  ASSUME NEW k
  PROVE  /\ Classify(k) \in ObjectFailures
         /\ Classify(k) \notin {"ok", "RangeNotSatisfiable"}
         /\ Classify(k) = "ObjectNotFound" => k = "missing-object"
         /\ Classify(k) = "ConditionalConflict" => k = "conditional-conflict"
<1>1. CASE \E f \in FailureClasses : f[1] = k
  <2> DEFINE f == CHOOSE f \in FailureClasses : f[1] = k
  <2>1. f \in FailureClasses /\ f[1] = k
    BY <1>1
  <2>2. Classify(k) = f[2]
    BY <1>1 DEF Classify
  <2> HIDE DEF f
  <2> QED
    BY <2>1, <2>2 DEF FailureClasses, ObjectFailures
<1>2. CASE ~\E f \in FailureClasses : f[1] = k
  BY <1>2 DEF Classify, ObjectFailures
<1> QED
  BY <1>1, <1>2

\* The invariant is about one consumer at a time: a step of c that keeps the
\* others and leaves c in order preserves it.
LEMMA StepOf ==
  ASSUME IInv, Typed', NEW c \in Clients,
         \A d \in Clients \ {c} :
           /\ phase'[d] = phase[d] /\ call'[d] = call[d] /\ declared'[d] = declared[d]
           /\ answer'[d] = answer[d] /\ handle'[d] = handle[d]
           /\ got'[d] = got[d] /\ effect'[d] = effect[d],
         ClientOK(phase'[c], call'[c], declared'[c], answer'[c], handle'[c], got'[c], effect'[c])
  PROVE  IInv'
<1>1. ASSUME NEW d \in Clients
      PROVE  ClientOK(phase'[d], call'[d], declared'[d], answer'[d], handle'[d], got'[d], effect'[d])
  <2>1. CASE d = c
    BY <2>1
  <2>2. CASE d # c
    BY <2>2 DEF IInv
  <2> QED
    BY <2>1, <2>2
<1> QED
  BY <1>1 DEF IInv

LEMMA SubmitStep ==
  ASSUME IInv, NEW c \in Clients, NEW x \in Expressions, Submit(c, x)
  PROVE  IInv'
<1> DEFINE Old == ClientOK(phase[c], call[c], declared[c], answer[c], handle[c], got[c], effect[c])
<1>1. Old /\ Typed
  BY DEF IInv
<1>2. \A d \in Clients \ {c} :
        /\ phase'[d] = phase[d] /\ call'[d] = call[d] /\ declared'[d] = declared[d]
        /\ answer'[d] = answer[d] /\ handle'[d] = handle[d]
        /\ got'[d] = got[d] /\ effect'[d] = effect[d]
  BY <1>1 DEF Submit, Typed
<1>3. Typed'
  BY <1>1 DEF Submit, Typed, Answers, ObjectFailures
<1>4. /\ phase[c] = "idle" /\ handle'[c] = handle[c] /\ got'[c] = got[c]
      /\ effect'[c] = effect[c]
  BY DEF Submit
<1>5. CASE Accepts(x) /\ Supported(x)
  <2>1. /\ phase'[c] = "sent" /\ call'[c] = Normalize(x)
        /\ declared'[c] = DeclaredBy(x) /\ answer'[c] = answer[c]
    BY <1>1, <1>5 DEF Submit, Typed
  <2>2. CallOK(Normalize(x)) /\ DeclaredOK(Normalize(x), DeclaredBy(x))
    BY <1>5, NormalizeOK
  <2> QED
    BY <1>1, <1>2, <1>3, <1>4, <2>1, <2>2, StepOf DEF ClientOK
<1>6. CASE ~(Accepts(x) /\ Supported(x))
  <2>1. /\ phase'[c] = "done" /\ call'[c] = call[c] /\ declared'[c] = declared[c]
        /\ answer'[c] \in {"ObjectCapabilityMismatch", "ObjectInvalidRequest"}
    BY <1>1, <1>6 DEF Submit, Typed
  <2> QED
    BY <1>1, <1>2, <1>3, <1>4, <2>1, StepOf DEF ClientOK, Retryable
<1> QED
  BY <1>5, <1>6

LEMMA FinishStep ==
  ASSUME IInv, NEW c \in Clients, Finish(c)
  PROVE  IInv'
<1>1. Typed
  BY DEF IInv
<1>2. \A d \in Clients \ {c} :
        /\ phase'[d] = phase[d] /\ call'[d] = call[d] /\ declared'[d] = declared[d]
        /\ answer'[d] = answer[d] /\ handle'[d] = handle[d]
        /\ got'[d] = got[d] /\ effect'[d] = effect[d]
  BY <1>1 DEF Finish, Typed
<1>3. Typed'
  BY <1>1 DEF Finish, Typed
<1>4. /\ phase'[c] = "idle" /\ call'[c] = None /\ answer'[c] = None
      /\ handle'[c] = None /\ got'[c] = None /\ effect'[c] = None
  BY <1>1 DEF Finish, Typed
<1> QED
  BY <1>2, <1>3, <1>4, StepOf DEF ClientOK

LEMMA RetryStep ==
  ASSUME IInv, NEW c \in Clients, Retry(c)
  PROVE  IInv'
<1> DEFINE Old == ClientOK(phase[c], call[c], declared[c], answer[c], handle[c], got[c], effect[c])
<1>1. Old /\ Typed
  BY DEF IInv
<1>2. \A d \in Clients \ {c} :
        /\ phase'[d] = phase[d] /\ call'[d] = call[d] /\ declared'[d] = declared[d]
        /\ answer'[d] = answer[d] /\ handle'[d] = handle[d]
        /\ got'[d] = got[d] /\ effect'[d] = effect[d]
  BY <1>1 DEF Retry, Typed
<1>3. Typed'
  BY <1>1 DEF Retry, Typed
<1>4. /\ phase[c] = "done" /\ Retryable(answer[c]) /\ Idempotent(call[c])
      /\ phase'[c] = "sent" /\ answer'[c] = None /\ call'[c] = call[c]
      /\ declared'[c] = declared[c] /\ handle'[c] = handle[c] /\ got'[c] = got[c]
      /\ effect'[c] = effect[c]
  BY <1>1 DEF Retry, Typed
<1>5. answer[c] # "ok"
  BY <1>4 DEF Retryable
<1> QED
  BY <1>1, <1>2, <1>3, <1>4, <1>5, StepOf DEF ClientOK, EffectOK

\* A step that executes c's call: the answer is the target's or a classified
\* provider failure, and the rest follows from what the call may leave.
LEMMA ExecuteStep ==
  ASSUME IInv, Typed', NEW c \in Clients,
         \A d \in Clients \ {c} :
           /\ phase'[d] = phase[d] /\ answer'[d] = answer[d] /\ handle'[d] = handle[d]
           /\ got'[d] = got[d] /\ effect'[d] = effect[d],
         UNCHANGED <<call, declared>>,
         phase[c] = "sent", phase'[c] = "done",
         handle'[c] # None \/ got'[c] # None => answer'[c] = "ok",
         handle'[c] # None => Served(call[c], handle'[c].data),
         got'[c] # None => GotOK(call[c], got'[c]),
         effect'[c] # None => EffectOK("done", call[c], effect'[c])
  PROVE  IInv'
<1>1. ClientOK(phase[c], call[c], declared[c], answer[c], handle[c], got[c], effect[c])
  BY DEF IInv
<1>2. ClientOK("done", call[c], declared[c], answer'[c], handle'[c], got'[c], effect'[c])
  BY <1>1 DEF ClientOK
<1> QED
  BY <1>2, StepOf

\* What executing c's call does to the answers.
LEMMA AnsweredType ==
  ASSUME Typed, NEW c \in Clients, NEW a \in Answers, Answered(c, a)
  PROVE  /\ phase' = [phase EXCEPT ![c] = "done"]
         /\ answer' \in [Clients -> Answers \cup {None}]
         /\ \A d \in Clients \ {c} : phase'[d] = phase[d] /\ answer'[d] = answer[d]
         /\ phase'[c] = "done"
         /\ answer'[c] = a \/ \E k \in FailureKinds : answer'[c] = Classify(k)
<1>1. PICK heard \in {a} \cup {Classify(k) : k \in FailureKinds} :
        answer' = [answer EXCEPT ![c] = heard]
  BY DEF Answered
<1>2. heard \in Answers
  BY <1>1, ClassifyType DEF Answers
<1> QED
  BY <1>1, <1>2 DEF Answered, Typed

LEMMA FailsStep ==
  ASSUME IInv, NEW c \in Clients, ExecuteFails(c)
  PROVE  IInv'
<1>1. Typed
  BY DEF IInv
<1>2. PICK k \in FailureKinds : answer' = [answer EXCEPT ![c] = Classify(k)]
  BY DEF ExecuteFails
<1>3. Typed'
  BY <1>1, <1>2, ClassifyType DEF ExecuteFails, Typed, Answers
<1>4. ClientOK(phase[c], call[c], declared[c], answer[c], handle[c], got[c], effect[c])
  BY DEF IInv
<1>5. phase[c] = "sent" /\ phase'[c] = "done"
  BY <1>1 DEF ExecuteFails, Typed
<1>6. handle[c] = None /\ got[c] = None
      /\ (effect[c] # None => EffectOK("done", call[c], effect[c]))
  BY <1>4, <1>5 DEF ClientOK, EffectOK
<1> QED
  BY <1>1, <1>2, <1>3, <1>5, <1>6, ExecuteStep DEF ExecuteFails, Typed

\* Results of a transfer.
LEMMA TransferredType ==
  ASSUME NEW ref, NEW d
  PROVE  /\ Transferred(ref, d) \in {"ok", "IncompleteUpload", "DigestMismatch"}
         /\ Transferred(ref, d) = "ok" => /\ ref.expectedLength \in {None, Len(d)}
                                          /\ ref.expectedDigest \in {None, d}
BY DEF Transferred

\* The state of a consumer whose call is about to be executed.
LEMMA SentState ==
  ASSUME IInv, NEW c \in Clients, phase[c] = "sent"
  PROVE  /\ CallOK(call[c]) /\ DeclaredOK(call[c], declared[c])
         /\ handle[c] = None /\ got[c] = None
         /\ effect[c] # None => EffectOK("sent", call[c], effect[c])
         /\ effect[c] # None => EffectOK("done", call[c], effect[c])
BY DEF IInv, ClientOK, EffectOK

\* What ExecutePut does to the store: nothing, or it stores what the payload
\* yields, verified, where no create_only put finds an object.
LEMMA PutEffect ==
  ASSUME IInv, NEW c \in Clients, ExecutePut(c)
  PROVE  /\ \E a \in Answers : Answered(c, a) /\ a # "ObjectNotFound"
                               /\ (a = "ConditionalConflict" => CreateConflict(call[c]))
         /\ payload' \in [Clients -> BOOLEAN]
         /\ \/ UNCHANGED <<objects, effect>>
            \/ \E d \in Contents :
                 /\ ~CreateConflict(call[c])
                 /\ Transferred(call[c].payload, d) = "ok"
                 /\ objects' = [objects EXCEPT ![KeyOf(call[c])] = d]
                 /\ Effect(c, d)
<1>1. Typed /\ call[c] \in PutArguments
  BY SentState, PutFields DEF ExecutePut, IInv, CallOK
<1>2. call[c].payload.replayable \in BOOLEAN
  BY <1>1 DEF PutArguments, PayloadReferences
<1>3. CASE CreateConflict(call[c])
  BY <1>1, <1>3 DEF ExecutePut, Answers, ObjectFailures, Typed
<1>4. CASE ~CreateConflict(call[c]) /\ ~payload[c]
  BY <1>1, <1>4 DEF ExecutePut, Answers, ObjectFailures, Typed
<1>5. CASE ~CreateConflict(call[c]) /\ payload[c]
  <2>1. payload' = [payload EXCEPT ![c] = call[c].payload.replayable]
    BY <1>5 DEF ExecutePut
  <2>2. payload' \in [Clients -> BOOLEAN]
    BY <1>1, <1>2, <2>1 DEF Typed
  <2>3. CASE Answered(c, "PayloadError") /\ UNCHANGED <<objects, effect>>
    BY <2>2, <2>3 DEF Answers
  <2>4. CASE \E d \in Contents :
               /\ Answered(c, Transferred(call[c].payload, d))
               /\ IF Transferred(call[c].payload, d) = "ok"
                    THEN /\ objects' = [objects EXCEPT ![KeyOf(call[c])] = d]
                         /\ Effect(c, d)
                    ELSE UNCHANGED <<objects, effect>>
    <3>1. PICK d \in Contents :
               /\ Answered(c, Transferred(call[c].payload, d))
               /\ IF Transferred(call[c].payload, d) = "ok"
                    THEN /\ objects' = [objects EXCEPT ![KeyOf(call[c])] = d]
                         /\ Effect(c, d)
                    ELSE UNCHANGED <<objects, effect>>
      BY <2>4
    <3>2. Transferred(call[c].payload, d) \in Answers
      BY TransferredType DEF Answers, ObjectFailures
    <3>3. Transferred(call[c].payload, d) \notin {"ObjectNotFound", "ConditionalConflict"}
      BY TransferredType
    <3> QED
      BY <1>5, <2>2, <3>1, <3>2, <3>3
  <2> QED
    BY <1>5, <2>3, <2>4 DEF ExecutePut
<1> QED
  BY <1>3, <1>4, <1>5

LEMMA PutStep ==
  ASSUME IInv, NEW c \in Clients, ExecutePut(c)
  PROVE  IInv'
<1>1. Typed /\ phase[c] = "sent" /\ call[c].method = "put"
      /\ UNCHANGED <<call, declared, handle, got>>
  BY DEF IInv, ExecutePut
<1>2. CallOK(call[c]) /\ handle[c] = None /\ got[c] = None
      /\ (effect[c] # None => EffectOK("done", call[c], effect[c]))
  BY <1>1, SentState
<1>3. PICK a \in Answers : Answered(c, a)
  BY PutEffect
<1>4. /\ phase' = [phase EXCEPT ![c] = "done"]
      /\ answer' \in [Clients -> Answers \cup {None}]
      /\ \A d \in Clients \ {c} : phase'[d] = phase[d] /\ answer'[d] = answer[d]
      /\ phase'[c] = "done"
  BY <1>1, <1>3, AnsweredType
<1>5. payload' \in [Clients -> BOOLEAN]
  BY PutEffect
<1>6. CASE UNCHANGED <<objects, effect>>
  <2>1. Typed'
    BY <1>1, <1>4, <1>5, <1>6 DEF Typed
  <2> QED
    BY <1>1, <1>2, <1>4, <1>6, <2>1, ExecuteStep
<1>7. ASSUME NEW d \in Contents,
             Transferred(call[c].payload, d) = "ok",
             objects' = [objects EXCEPT ![KeyOf(call[c])] = d],
             Effect(c, d)
      PROVE  IInv'
  <2>1. effect' = [effect EXCEPT ![c] = IF effect[c] = None THEN [left |-> d] ELSE effect[c]]
    BY <1>7 DEF Effect
  <2>2. \A b \in Clients \ {c} : effect'[b] = effect[b]
    BY <1>1, <2>1 DEF Typed
  <2>3. Typed'
    BY <1>1, <1>4, <1>5, <1>7, <2>1 DEF Typed
  <2>4. effect'[c] = IF effect[c] = None THEN [left |-> d] ELSE effect[c]
    BY <1>1, <2>1 DEF Typed
  <2>5. EffectOK("done", call[c], [left |-> d])
    BY <1>1, <1>7, TransferredType DEF EffectOK
  <2>6. effect'[c] # None => EffectOK("done", call[c], effect'[c])
    BY <1>2, <2>4, <2>5
  <2> QED
    BY <1>1, <1>2, <1>4, <2>2, <2>3, <2>6, ExecuteStep
<1> QED
  BY <1>6, <1>7, PutEffect

LEMMA DeleteStep ==
  ASSUME IInv, NEW c \in Clients, ExecuteDelete(c)
  PROVE  IInv'
<1>1. Typed /\ phase[c] = "sent" /\ call[c].method = "delete"
      /\ UNCHANGED <<call, declared, payload, handle, got>>
  BY DEF IInv, ExecuteDelete
<1>2. CallOK(call[c]) /\ handle[c] = None /\ got[c] = None
      /\ (effect[c] # None => EffectOK("done", call[c], effect[c]))
  BY <1>1, SentState
<1>3. PICK a \in Answers : Answered(c, a)
  BY DEF ExecuteDelete, Answers, ObjectFailures
<1>4. /\ phase' = [phase EXCEPT ![c] = "done"]
      /\ answer' \in [Clients -> Answers \cup {None}]
      /\ \A d \in Clients \ {c} : phase'[d] = phase[d] /\ answer'[d] = answer[d]
      /\ phase'[c] = "done"
  BY <1>1, <1>3, AnsweredType
<1>5. CASE ~Found(call[c])
  <2>1. UNCHANGED <<objects, effect>>
    BY <1>5 DEF ExecuteDelete
  <2>2. Typed'
    BY <1>1, <1>4, <2>1 DEF Typed
  <2> QED
    BY <1>1, <1>2, <1>4, <2>1, <2>2, ExecuteStep
<1>6. CASE Found(call[c])
  <2>1. /\ objects' = [objects EXCEPT ![KeyOf(call[c])] = None]
        /\ effect' = [effect EXCEPT ![c] = IF effect[c] = None THEN [left |-> None] ELSE effect[c]]
    BY <1>6 DEF ExecuteDelete, Effect
  <2>2. \A b \in Clients \ {c} : effect'[b] = effect[b]
    BY <1>1, <2>1 DEF Typed
  <2>3. Typed'
    BY <1>1, <1>4, <2>1 DEF Typed
  <2>4. effect'[c] = IF effect[c] = None THEN [left |-> None] ELSE effect[c]
    BY <1>1, <2>1 DEF Typed
  <2>5. EffectOK("done", call[c], [left |-> None])
    BY <1>1 DEF EffectOK
  <2>6. effect'[c] # None => EffectOK("done", call[c], effect'[c])
    BY <1>2, <2>4, <2>5
  <2> QED
    BY <1>1, <1>2, <1>4, <2>2, <2>3, <2>6, ExecuteStep
<1> QED
  BY <1>5, <1>6

\* The handle that a read leaves serves what was asked for.
LEMMA ReadHandleServed ==
  ASSUME NEW x, CallOK(x), NEW data \in Contents,
         x.method \in {"get", "read_range"},
         x.reference.digest \in {None, data},
         x.method = "read_range" => Resolve(x.range, Len(data)) # None
  PROVE  Served(x, ReadHandle(x, data).data)
<1>1. CASE x.method = "get"
  BY <1>1 DEF ReadHandle, Served
<1>2. CASE x.method = "read_range"
  <2> DEFINE s == Slice(data, x.range)
  <2>1. x.range \in Ranges /\ ValidRange(x.range)
    BY <1>2, OtherFields DEF CallOK, Accepts
  <2>2. x.range \in ByteRanges /\ data \in Seq(Nat)
    BY <2>1, CatalogAssumption DEF ByteRanges
  <2>3. /\ ServesExactly(s, data, x.range) /\ Len(s) \in Nat
        /\ RequestedLength(x.range) # None => Len(s) <= RequestedLength(x.range)
    BY <1>2, <2>2, SliceExact
  <2>4. RequestedLength(x.range) # None => RequestedLength(x.range) <= AdvertisedLimits.range
    <3>1. MinimumLimits(x)["range"] <= AdvertisedLimits["range"]
      BY DEF CallOK, Supported, SupportedBy
    <3>2. RequestedLength(x.range) # None =>
            MinimumLimits(x)["range"] = RequestedLength(x.range)
      BY <1>2 DEF MinimumLimits
    <3> QED
      BY <3>1, <3>2
  <2>5. RequestedLength(x.range) # None =>
          RequestedLength(x.range) \in Int /\ AdvertisedLimits.range \in Nat
    BY <2>2, CatalogAssumption DEF RequestedLength, ByteRanges, ValidRange
  <2>6. ReadHandle(x, data).data = s
    BY <1>2 DEF ReadHandle
  <2> HIDE DEF s
  <2>7. RequestedLength(x.range) # None => Len(s) <= AdvertisedLimits.range
    BY <2>3, <2>4, <2>5
  <2> QED
    BY <1>2, <2>3, <2>6, <2>7 DEF Served
<1> QED
  BY <1>1, <1>2

LEMMA ReadStep ==
  ASSUME IInv, NEW c \in Clients, ExecuteRead(c)
  PROVE  IInv'
<1> DEFINE x == call[c]
           data == objects[KeyOf(x)]
<1>1. /\ Typed /\ phase[c] = "sent" /\ x.method \in {"get", "stat", "read_range"}
      /\ UNCHANGED <<objects, call, declared, payload, got, effect>>
  BY DEF IInv, ExecuteRead
<1>2. CallOK(x) /\ handle[c] = None /\ got[c] = None
      /\ (effect[c] # None => EffectOK("done", x, effect[c]))
  BY <1>1, SentState
<1>3. PICK a \in Answers : Answered(c, a)
  BY DEF ExecuteRead, Answers, ObjectFailures
<1>4. /\ phase' = [phase EXCEPT ![c] = "done"]
      /\ answer' \in [Clients -> Answers \cup {None}]
      /\ \A d \in Clients \ {c} : phase'[d] = phase[d] /\ answer'[d] = answer[d]
      /\ phase'[c] = "done"
  BY <1>1, <1>3, AnsweredType
<1>5. CASE UNCHANGED handle
  <2>1. Typed'
    BY <1>1, <1>4, <1>5 DEF Typed
  <2> QED
    BY <1>1, <1>2, <1>4, <1>5, <2>1, ExecuteStep
<1>6. CASE /\ Found(x)
           /\ x.method = "read_range" => Resolve(x.range, Len(data)) # None
           /\ x.method # "stat"
           /\ handle' = [handle EXCEPT ![c] =
                           IF answer'[c] = "ok" THEN ReadHandle(x, data) ELSE None]
  <2>1. Typed'
    BY <1>1, <1>4, <1>6 DEF Typed
  <2>2. \A d \in Clients \ {c} : handle'[d] = handle[d]
    BY <1>1, <1>6 DEF Typed
  <2>3. handle'[c] = IF answer'[c] = "ok" THEN ReadHandle(x, data) ELSE None
    BY <1>1, <1>6 DEF Typed
  <2>4. KeyOf(x) \in Keys
    BY <1>1, <1>2, KeyType DEF CallOK
  <2>5. data \in Contents /\ x.reference.digest \in {None, data}
    BY <1>1, <1>6, <2>4 DEF Found, Typed
  <2>6. Served(x, ReadHandle(x, data).data)
    BY <1>1, <1>2, <1>6, <2>5, ReadHandleServed
  <2>7. handle'[c] # None => answer'[c] = "ok" /\ Served(x, handle'[c].data)
    BY <2>3, <2>6
  <2> HIDE DEF x, data
  <2> QED
    BY <1>1, <1>2, <1>4, <2>1, <2>2, <2>7, ExecuteStep DEF x
<1> QED
  BY <1>5, <1>6 DEF ExecuteRead

LEMMA ListStep ==
  ASSUME IInv, NEW c \in Clients, ExecuteList(c)
  PROVE  IInv'
<1>1. /\ Typed /\ phase[c] = "sent" /\ call[c].method = "list"
      /\ UNCHANGED <<objects, call, declared, payload, handle, effect>>
  BY DEF IInv, ExecuteList
<1>2. CallOK(call[c]) /\ handle[c] = None /\ got[c] = None
      /\ (effect[c] # None => EffectOK("done", call[c], effect[c]))
  BY <1>1, SentState
<1>3. Answered(c, "ok") /\ "ok" \in Answers
  BY DEF ExecuteList, Answers
<1>4. /\ phase' = [phase EXCEPT ![c] = "done"]
      /\ answer' \in [Clients -> Answers \cup {None}]
      /\ \A d \in Clients \ {c} : phase'[d] = phase[d] /\ answer'[d] = answer[d]
      /\ phase'[c] = "done"
  BY <1>1, <1>3, AnsweredType
<1>5. got' = [got EXCEPT ![c] = IF answer'[c] = "ok" THEN Page(call[c]) ELSE None]
  BY DEF ExecuteList
<1>6. Typed'
  BY <1>1, <1>4, <1>5 DEF Typed
<1>7. got'[c] = IF answer'[c] = "ok" THEN Page(call[c]) ELSE None
  BY <1>1, <1>5 DEF Typed
<1>8. \A d \in Clients \ {c} : got'[d] = got[d]
  BY <1>1, <1>5 DEF Typed
<1>9. Cardinality(Page(call[c])) <= AdvertisedLimits.page
  <2>1. /\ call[c].limit \in Nat /\ Cardinality(Page(call[c])) \in Nat
        /\ Cardinality(Page(call[c])) <= call[c].limit
    BY <1>1, <1>2, PageBound DEF CallOK
  <2>2. MinimumLimits(call[c])["page"] <= AdvertisedLimits["page"]
    BY <1>2 DEF CallOK, Supported, SupportedBy
  <2>3. MinimumLimits(call[c])["page"] = call[c].limit
    BY <1>1 DEF MinimumLimits
  <2>4. AdvertisedLimits.page \in Nat
    BY CatalogAssumption
  <2> QED
    BY <2>1, <2>2, <2>3, <2>4
<1>10. got'[c] # None => answer'[c] = "ok" /\ GotOK(call[c], got'[c])
  BY <1>1, <1>7, <1>9 DEF GotOK
<1> QED
  BY <1>1, <1>2, <1>4, <1>6, <1>8, <1>10, ExecuteStep

LEMMA FetchStep ==
  ASSUME IInv, NEW c \in Clients, Fetch(c)
  PROVE  IInv'
<1>1. Typed /\ handle[c] # None
      /\ UNCHANGED <<objects, phase, call, declared, payload, answer, handle, effect>>
      /\ got' = [got EXCEPT ![c] = handle[c].data]
  BY DEF IInv, Fetch, HandleStream
<1>2. ClientOK(phase[c], call[c], declared[c], answer[c], handle[c], got[c], effect[c])
  BY DEF IInv
<1>3. Typed'
  BY <1>1 DEF Typed
<1>4. got'[c] = handle[c].data /\ \A d \in Clients \ {c} : got'[d] = got[d]
  BY <1>1 DEF Typed
<1>5. GotOK(call[c], handle[c].data)
  BY <1>1, <1>2 DEF ClientOK, Served, GotOK
<1>6. ClientOK(phase[c], call[c], declared[c], answer[c], handle[c], got'[c], effect[c])
  BY <1>1, <1>2, <1>4, <1>5 DEF ClientOK
<1> QED
  BY <1>1, <1>3, <1>4, <1>6, StepOf

-----------------------------------------------------------------------------
(* Invariance *)

\* Every step preserves the invariant.
LEMMA NextStep == IInv /\ [Next]_vars => IInv'
<1> SUFFICES ASSUME IInv, [Next]_vars PROVE IInv'
  OBVIOUS
<1>1. ASSUME NEW c \in Clients, NEW x \in Expressions, Submit(c, x) PROVE IInv'
  BY <1>1, SubmitStep
<1>2. ASSUME NEW c \in Clients, Retry(c) PROVE IInv'
  BY <1>2, RetryStep
<1>3. ASSUME NEW c \in Clients, Finish(c) PROVE IInv'
  BY <1>3, FinishStep
<1>4. ASSUME NEW c \in Clients, ExecuteFails(c) PROVE IInv'
  BY <1>4, FailsStep
<1>5. ASSUME NEW c \in Clients, ExecutePut(c) PROVE IInv'
  BY <1>5, PutStep
<1>6. ASSUME NEW c \in Clients, ExecuteDelete(c) PROVE IInv'
  BY <1>6, DeleteStep
<1>7. ASSUME NEW c \in Clients, ExecuteRead(c) PROVE IInv'
  BY <1>7, ReadStep
<1>8. ASSUME NEW c \in Clients, ExecuteList(c) PROVE IInv'
  BY <1>8, ListStep
<1>9. ASSUME NEW c \in Clients, Fetch(c) PROVE IInv'
  BY <1>9, FetchStep
<1>10. CASE UNCHANGED vars
  BY <1>10 DEF vars, IInv, Typed
<1> QED
  BY <1>1, <1>2, <1>3, <1>4, <1>5, <1>6, <1>7, <1>8, <1>9, <1>10 DEF Next

LEMMA Invariance == Spec => []IInv
<1>1. Init => IInv
  <2> SUFFICES ASSUME Init PROVE IInv
    OBVIOUS
  <2>1. Typed
    BY DEF Init, Typed
  <2>2. ASSUME NEW c \in Clients
        PROVE  ClientOK(phase[c], call[c], declared[c], answer[c], handle[c], got[c], effect[c])
    BY DEF Init, ClientOK
  <2> QED
    BY <2>1, <2>2 DEF IInv
<1> QED
  BY <1>1, NextStep, PTL DEF Spec

\* The state has its types, and what is sent is an Expression that normalize
\* accepts, for any set of consumers, resources, contents and provider failures.
THEOREM ServiceTyped == Spec => []TypeOK
<1>1. IInv => TypeOK
  BY Implied
<1> QED
  BY <1>1, Invariance, PTL

\* A read through a reference with a digest yields that version, or exactly the
\* requested range of it, however the object changed since the answer.
THEOREM ReadsArePinned == Spec => []PinnedReads
<1>1. IInv => PinnedReads
  BY Implied
<1> QED
  BY <1>1, Invariance, PTL

\* No page and no bounded range exceeds the limit that the target advertised.
THEOREM LimitsAreHonoured == Spec => []LimitsHonoured
<1>1. IInv => LimitsHonoured
  BY Implied
<1> QED
  BY <1>1, Invariance, PTL

-----------------------------------------------------------------------------
(* What a step may do to the store *)

\* A call is executed by its own step and no other.
LEMMA WhoExecutes ==
  ASSUME IInv, [Next]_vars, NEW c \in Clients, Executing(c)
  PROVE  ExecuteFails(c) \/ ExecutePut(c) \/ ExecuteDelete(c) \/ ExecuteRead(c) \/ ExecuteList(c)
<1>1. Typed /\ phase[c] = "sent" /\ phase'[c] = "done"
  BY DEF IInv, Executing
<1>2. PICK b \in Clients :
        \/ \E x \in Expressions : Submit(b, x)
        \/ Retry(b) \/ Finish(b) \/ ExecuteFails(b) \/ ExecutePut(b)
        \/ ExecuteDelete(b) \/ ExecuteRead(b) \/ ExecuteList(b) \/ Fetch(b)
  BY <1>1 DEF Next, vars
<1>3. ~\E x \in Expressions : Submit(b, x)
  BY <1>1 DEF Submit, Typed
<1>4. ~Retry(b) /\ ~Finish(b) /\ ~Fetch(b)
  BY <1>1 DEF Retry, Finish, Fetch, Typed
<1>5. b = c
  BY <1>1, <1>2, <1>3, <1>4
  DEF ExecuteFails, ExecutePut, ExecuteDelete, ExecuteRead, ExecuteList, Answered, Typed
<1> QED
  BY <1>2, <1>3, <1>4, <1>5

\* Executing an Operation again changes nothing once it took effect and nobody
\* else changed its object: so the idempotent flag of normalize allows retries
\* after any failure classified as retryable, whatever the payload yields.
THEOREM RetriesHarmless == Spec => RetryHarmless
<1>1. IInv /\ [Next]_vars =>
        \A c \in Clients :
          /\ Executing(c)
          /\ effect[c] # None
          /\ effect[c].left = objects[KeyOf(call[c])]
          => UNCHANGED objects
  <2> SUFFICES ASSUME IInv, [Next]_vars, NEW c \in Clients, Executing(c),
                      effect[c] # None, effect[c].left = objects[KeyOf(call[c])]
               PROVE  UNCHANGED objects
    OBVIOUS
  <2>1. CallOK(call[c]) /\ EffectOK("sent", call[c], effect[c])
    BY SentState DEF Executing
  <2>2. CASE ExecutePut(c)
    <3>1. call[c].method = "put"
      BY <2>2 DEF ExecutePut
    <3>2. /\ effect[c].left \in Contents
          /\ call[c].payload.expectedDigest \in {None, effect[c].left}
          /\ call[c].createOnly \/ call[c].payload.expectedDigest # None
      BY <2>1, <3>1 DEF EffectOK, Idempotent, CallOK
    <3>3. call[c].createOnly => CreateConflict(call[c])
      BY <3>2, CatalogAssumption DEF CreateConflict
    <3>4. ASSUME NEW d \in Contents,
                 ~CreateConflict(call[c]),
                 Transferred(call[c].payload, d) = "ok",
                 objects' = [objects EXCEPT ![KeyOf(call[c])] = d]
          PROVE  UNCHANGED objects
      <4>1. d = effect[c].left
        BY <3>2, <3>3, <3>4, TransferredType
      <4>2. objects \in [Keys -> Contents \cup {None}]
        BY DEF IInv, Typed
      <4> QED
        BY <3>4, <4>1, <4>2
    <3> QED
      BY <2>2, <3>4, PutEffect
  <2>3. CASE ExecuteDelete(c)
    <3>1. call[c].method = "delete"
      BY <2>3 DEF ExecuteDelete
    <3>2. objects[KeyOf(call[c])] = None
      BY <2>1, <3>1 DEF EffectOK
    <3> QED
      BY <2>3, <3>2 DEF ExecuteDelete, Found
  <2>4. CASE ExecuteFails(c) \/ ExecuteRead(c) \/ ExecuteList(c)
    BY <2>4 DEF ExecuteFails, ExecuteRead, ExecuteList
  <2> QED
    BY <2>2, <2>3, <2>4, WhoExecutes
<1> QED
  BY <1>1, Invariance, PTL DEF Spec, RetryHarmless

\* What a put stores has every digest and length that was declared for it, on
\* the put or on its payload reference.
THEOREM PutsStoreDeclared == Spec => StoredAsDeclared
<1>1. IInv /\ [Next]_vars =>
        \A c \in Clients :
          Executing(c) /\ call[c].method = "put" /\ objects' # objects =>
            LET d == objects'[KeyOf(call[c])] IN
            declared[c].digests \subseteq {d} /\ declared[c].lengths \subseteq {Len(d)}
  <2> SUFFICES ASSUME IInv, [Next]_vars, NEW c \in Clients, Executing(c),
                      call[c].method = "put", objects' # objects
               PROVE  /\ declared[c].digests \subseteq {objects'[KeyOf(call[c])]}
                      /\ declared[c].lengths \subseteq {Len(objects'[KeyOf(call[c])])}
    OBVIOUS
  <2>1. CallOK(call[c]) /\ DeclaredOK(call[c], declared[c])
    BY SentState DEF Executing
  <2>2. ExecutePut(c)
    BY WhoExecutes DEF ExecuteFails, ExecuteDelete, ExecuteRead, ExecuteList
  <2>3. PICK d \in Contents :
          /\ Transferred(call[c].payload, d) = "ok"
          /\ objects' = [objects EXCEPT ![KeyOf(call[c])] = d]
    BY <2>2, PutEffect
  <2>4. KeyOf(call[c]) \in Keys /\ objects \in [Keys -> Contents \cup {None}]
    BY <2>1, KeyType DEF CallOK, IInv, Typed
  <2>5. objects'[KeyOf(call[c])] = d
    BY <2>3, <2>4
  <2> QED
    BY <2>1, <2>3, <2>5, TransferredType DEF DeclaredOK
<1> QED
  BY <1>1, Invariance, PTL DEF Spec, StoredAsDeclared

\* A reference that a delete may use is unsigned and names a version.
LEMMA DeleteReference ==
  ASSUME NEW x, CallOK(x), x.method = "delete"
  PROVE  /\ x.reference.digest # None
         /\ x.reference = [resource |-> KeyOf(x)[1], objectId |-> KeyOf(x)[2],
                           digest |-> x.reference.digest, allowed |-> None]
<1>1. x.reference \in References /\ ReferenceAccepts(x)
  BY OtherFields DEF CallOK, Accepts
<1>2. x.reference.allowed # None => x.reference.allowed \subseteq SignedOperations
  BY <1>1 DEF References
<1>3. x.reference.allowed = None
  BY <1>1, <1>2 DEF ReferenceAccepts, SignedOperations
<1>4. x.reference.digest # None /\ x.reference.resource = x.resource
  BY <1>1, <1>3 DEF ReferenceAccepts
<1>5. KeyOf(x) = <<x.resource, x.reference.objectId>>
  BY DEF KeyOf
<1>6. x.reference = [resource |-> x.reference.resource, objectId |-> x.reference.objectId,
                     digest |-> x.reference.digest, allowed |-> x.reference.allowed]
  BY <1>1 DEF References
<1> QED
  BY <1>3, <1>4, <1>5, <1>6

\* An object disappears only through an executed delete whose reference names
\* exactly that version of it.
THEOREM DeletesAreExact == Spec => ExactVersionDelete
<1>1. IInv /\ [Next]_vars =>
        \A k \in Keys : objects[k] # None /\ objects'[k] = None =>
          \E c \in Clients :
            /\ Executing(c)
            /\ call[c].method = "delete"
            /\ call[c].reference = [resource |-> k[1], objectId |-> k[2],
                                    digest |-> objects[k], allowed |-> None]
  <2> SUFFICES ASSUME IInv, [Next]_vars, NEW k \in Keys,
                      objects[k] # None, objects'[k] = None
               PROVE  \E c \in Clients :
                        /\ Executing(c)
                        /\ call[c].method = "delete"
                        /\ call[c].reference = [resource |-> k[1], objectId |-> k[2],
                                                digest |-> objects[k], allowed |-> None]
    OBVIOUS
  <2>1. Typed
    BY DEF IInv
  <2>2. PICK c \in Clients : ExecutePut(c) \/ ExecuteDelete(c)
    BY DEF Next, vars, Submit, Retry, Finish, Fetch, ExecuteFails, ExecuteRead, ExecuteList
  <2>3. ~ExecutePut(c)
    <3>1. ASSUME ExecutePut(c), NEW d \in Contents,
                 objects' = [objects EXCEPT ![KeyOf(call[c])] = d]
          PROVE  FALSE
      BY <2>1, <3>1, CatalogAssumption DEF Typed
    <3> QED
      BY <3>1, PutEffect
  <2>4. /\ phase[c] = "sent" /\ call[c].method = "delete" /\ Found(call[c])
        /\ objects' = [objects EXCEPT ![KeyOf(call[c])] = None]
    BY <2>2, <2>3 DEF ExecuteDelete
  <2>5. phase'[c] = "done"
    BY <2>1, <2>2, <2>3 DEF ExecuteDelete, Answered, Typed
  <2>6. k = KeyOf(call[c])
    BY <2>1, <2>4 DEF Typed
  <2>7. CallOK(call[c])
    BY <2>4, SentState
  <2>8. objects[k] = call[c].reference.digest
    BY <2>4, <2>6, <2>7, DeleteReference DEF Found
  <2>9. call[c].reference = [resource |-> k[1], objectId |-> k[2],
                             digest |-> objects[k], allowed |-> None]
    BY <2>4, <2>6, <2>7, <2>8, DeleteReference
  <2> QED
    BY <2>4, <2>5, <2>9 DEF Executing
<1> QED
  BY <1>1, Invariance, PTL DEF Spec, ExactVersionDelete

\* A consumer hears that an object is missing, or in the way, only when it is,
\* unless a provider says so: no other failure is classified as such a verdict.
THEOREM VerdictsTrue == Spec => VerdictsAreTrue
<1>1. IInv /\ [Next]_vars =>
        \A c \in Clients :
          /\ Executing(c)
          /\ \/ answer'[c] = "ObjectNotFound" /\ "missing-object" \notin FailureKinds
             \/ answer'[c] = "ConditionalConflict" /\ "conditional-conflict" \notin FailureKinds
          => IF call[c].method = "put" THEN CreateConflict(call[c])
             ELSE call[c].method # "list" /\ ~Found(call[c])
  <2> SUFFICES ASSUME IInv, [Next]_vars, NEW c \in Clients, Executing(c),
                      \/ answer'[c] = "ObjectNotFound" /\ "missing-object" \notin FailureKinds
                      \/ /\ answer'[c] = "ConditionalConflict"
                         /\ "conditional-conflict" \notin FailureKinds
               PROVE  IF call[c].method = "put" THEN CreateConflict(call[c])
                      ELSE call[c].method # "list" /\ ~Found(call[c])
    OBVIOUS
  <2>1. Typed
    BY DEF IInv
  <2>2. \A k \in FailureKinds : answer'[c] # Classify(k)
    BY ClassifyType
  <2>3. ASSUME NEW a \in Answers, Answered(c, a)
        PROVE  a \in {"ObjectNotFound", "ConditionalConflict"}
    BY <2>1, <2>2, <2>3, AnsweredType
  <2>4. ~ExecuteFails(c)
    BY <2>1, <2>2 DEF ExecuteFails, Typed
  <2>5. CASE ExecutePut(c)
    <3>1. PICK a \in Answers : /\ Answered(c, a) /\ a # "ObjectNotFound"
                               /\ a = "ConditionalConflict" => CreateConflict(call[c])
      BY <2>5, PutEffect
    <3> QED
      BY <2>3, <2>5, <3>1 DEF ExecutePut
  <2>6. ~Answered(c, "ok") /\ ~Answered(c, "RangeNotSatisfiable")
    BY <2>3 DEF Answers, ObjectFailures
  <2>7. CASE ExecuteDelete(c)
    BY <2>6, <2>7 DEF ExecuteDelete
  <2>8. CASE ExecuteRead(c)
    BY <2>6, <2>8 DEF ExecuteRead
  <2>9. ~ExecuteList(c)
    BY <2>6 DEF ExecuteList
  <2> QED
    BY <2>4, <2>5, <2>7, <2>8, <2>9, WhoExecutes
<1> QED
  BY <1>1, Invariance, PTL DEF Spec, VerdictsAreTrue

\* Whatever the range and the length of the object, a consumer hears that a
\* range cannot be satisfied exactly when the version found has none of its
\* bytes; no provider failure is heard as that.
THEOREM RangeVerdictsTrue == Spec => RangeVerdicts
<1>1. IInv /\ [Next]_vars =>
        \A c \in Clients :
          /\ Executing(c)
          /\ call[c].method = "read_range"
          /\ answer'[c] \in {"ok", "RangeNotSatisfiable"}
          => /\ Found(call[c])
             /\ answer'[c] = "ok" <=>
                  Wanted(call[c].range, Len(objects[KeyOf(call[c])])) # {}
  <2> SUFFICES ASSUME IInv, [Next]_vars, NEW c \in Clients, Executing(c),
                      call[c].method = "read_range",
                      answer'[c] \in {"ok", "RangeNotSatisfiable"}
               PROVE  /\ Found(call[c])
                      /\ answer'[c] = "ok" <=>
                           Wanted(call[c].range, Len(objects[KeyOf(call[c])])) # {}
    OBVIOUS
  <2> DEFINE x == call[c]
             data == objects[KeyOf(x)]
  <2>1. Typed /\ phase[c] = "sent"
    BY DEF IInv, Executing
  <2>2. \A k \in FailureKinds : answer'[c] # Classify(k)
    BY ClassifyType
  <2>3. ExecuteRead(c)
    <3>1. ~ExecuteFails(c)
      BY <2>1, <2>2 DEF ExecuteFails, Typed
    <3> QED
      BY <3>1, WhoExecutes DEF ExecutePut, ExecuteDelete, ExecuteList
  <2>4. \A a \in Answers : Answered(c, a) => answer'[c] = a
    BY <2>1, <2>2, AnsweredType
  <2>5. {"ok", "ObjectNotFound", "RangeNotSatisfiable"} \subseteq Answers
    BY DEF Answers, ObjectFailures
  <2>6. \/ ~Found(x) /\ Answered(c, "ObjectNotFound")
        \/ Found(x) /\ Resolve(x.range, Len(data)) = None /\ Answered(c, "RangeNotSatisfiable")
        \/ Found(x) /\ Resolve(x.range, Len(data)) # None /\ Answered(c, "ok")
    BY <2>3 DEF ExecuteRead
  <2>7. /\ Found(x)
        /\ answer'[c] = "ok" <=> Resolve(x.range, Len(data)) # None
    BY <2>4, <2>5, <2>6
  <2>8. Resolve(x.range, Len(data)) # None <=> Wanted(x.range, Len(data)) # {}
    <3>1. CallOK(x)
      BY <2>1, SentState
    <3>2. x.range \in Ranges /\ ValidRange(x.range) /\ KeyOf(x) \in Keys
      BY <3>1, OtherFields, KeyType DEF CallOK, Accepts
    <3>3. x.range \in ByteRanges
      BY <3>2, CatalogAssumption DEF ByteRanges
    <3>4. data \in Seq(Nat)
      BY <2>1, <2>7, <3>2, CatalogAssumption DEF Found, Typed
    <3>5. Len(data) \in Nat
      BY <3>4
    <3> HIDE DEF x, data
    <3> QED
      BY <3>3, <3>5, ResolveDecides
  <2> QED
    BY <2>7, <2>8
<1> QED
  BY <1>1, Invariance, PTL DEF Spec, RangeVerdicts

=============================================================================
