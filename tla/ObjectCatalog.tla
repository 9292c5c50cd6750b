---------------------------- MODULE ObjectCatalog ----------------------------
(***************************************************************************)
(* The data operations of catalog.py: the Expressions that a consumer      *)
(* builds, with or without ObjectCatalogSurface, and what                  *)
(* ObjectCatalogProvider.normalize makes of them: a rejection, or an       *)
(* Operation with its idempotency and its capability requirements.         *)
(*                                                                         *)
(* Names, media types, user metadata and the other values that are         *)
(* validated one by one and passed on are left out; a digest is            *)
(* represented by the content it is the digest of, an instant by a number  *)
(* and the logical policy of a retention by whether there is one.          *)
(***************************************************************************)
EXTENDS ByteRange, Sequences

CONSTANTS
  Resources,        \* logical Object Resources
  ObjectIds,        \* numbered in the order of the strings
  Contents,         \* what payloads hold
  Lengths,          \* lengths that may be declared
  Ranges,           \* range arguments, valid or not
  Limits,           \* limit arguments of list
  Immutabilities,   \* immutability intents, valid or not
  Retentions,       \* retention intents, valid or not
  MaxPage,          \* the catalog's own bound on a page (1000)
  Advertised,       \* guarantees of the target's capability manifest
  AdvertisedLimits  \* [object, range, page : Nat], its limits

ASSUME CatalogAssumption ==
  /\ Lengths \subseteq Nat
  /\ Limits \subseteq Nat
  /\ MaxPage \in Nat
  /\ ObjectIds \subseteq Nat
  /\ None \notin Contents /\ Contents \subseteq Seq(Nat)
  /\ AdvertisedLimits \in [object : Nat, range : Nat, page : Nat]
  /\ Ranges \subseteq [start : Nat \cup {None}, end : Nat \cup {None},
                       suffixLength : Nat \cup {None}]
  /\ None \notin Immutabilities /\ None \notin Retentions
  /\ Immutabilities \subseteq
       [mutability : {"immutable", "mutable"}, publishOnce : BOOLEAN]
  /\ Retentions \subseteq
       [retainUntil : Nat \cup {None}, policy : BOOLEAN, requireEnforcement : BOOLEAN]

SignedOperations == {"get", "read_range", "stat"}

\* Logical references: an ObjectReference, with a digest or not, or a
\* SignedObjectReference, which has one and allows some read operations.
References ==
  [resource : Resources, objectId : ObjectIds, digest : Contents \cup {None},
   allowed : {None}]
  \cup
  [resource : Resources, objectId : ObjectIds, digest : Contents,
   allowed : SUBSET SignedOperations \ {{}}]

PayloadReferences ==
  [expectedLength : Lengths \cup {None}, expectedDigest : Contents \cup {None},
   replayable : BOOLEAN]

\* The arguments of put, as a consumer gives them.
PutArguments ==
  [method : {"put"}, resource : Resources, objectId : ObjectIds,
   payload : PayloadReferences, expectedLength : Lengths \cup {None},
   expectedDigest : Contents \cup {None}, createOnly : BOOLEAN,
   immutability : Immutabilities \cup {None}, retention : Retentions \cup {None}]

\* Surface.put fills in the expectations that only the payload declares.
SurfacePut(x) ==
  [x EXCEPT
    !.expectedDigest = IF @ = None THEN x.payload.expectedDigest ELSE @,
    !.expectedLength = IF @ = None THEN x.payload.expectedLength ELSE @]

\* Expressions: put from the surface or written by hand (Expressions are
\* mappings), and the operations that take a reference, a range or a page.  A
\* prefix is represented by the ids that start with it.
Expressions ==
  PutArguments
  \cup {SurfacePut(x) : x \in PutArguments}
  \cup [method : {"get", "stat", "delete"}, resource : Resources, reference : References]
  \cup [method : {"read_range"}, resource : Resources, reference : References, range : Ranges]
  \cup [method : {"list"}, resource : Resources, matching : SUBSET ObjectIds, limit : Limits]

-----------------------------------------------------------------------------
(* normalize *)

\* ImmutabilityRequest and RetentionRequest: the mappings that make an intent.
ValidImmutability(i) == i.publishOnce => i.mutability = "immutable"
ValidRetention(r) == r.retainUntil # None \/ r.policy

\* Mutant: a retention intent is not checked.
PutAcceptsAnyRetention(x) ==
  /\ x.payload.expectedDigest \in {None, x.expectedDigest}
  /\ x.payload.expectedLength \in {None, x.expectedLength}
  /\ x.immutability # None => ValidImmutability(x.immutability)

\* What the payload declares, put declares too and alike; intents are valid.
PutAccepts(x) ==
  /\ x.payload.expectedDigest \in {None, x.expectedDigest}
  /\ x.payload.expectedLength \in {None, x.expectedLength}
  /\ x.immutability # None => ValidImmutability(x.immutability)
  /\ x.retention # None => ValidRetention(x.retention)

\* Mutant: delete accepts a reference without a digest.
ReferenceAcceptsUnpinned(x) ==
  /\ x.reference.allowed # None => x.method \in x.reference.allowed
  /\ x.reference.resource = x.resource

\* _normalize_reference and _require_same_resource: a signed reference must
\* allow the method, a plain one must be exact for delete, and both must
\* belong to the Resource of the call.
ReferenceAccepts(x) ==
  /\ x.reference.allowed # None => x.method \in x.reference.allowed
  /\ x.reference.allowed = None /\ x.method = "delete" => x.reference.digest # None
  /\ x.reference.resource = x.resource

Accepts(x) ==
  \/ x.method = "put" /\ PutAccepts(x)
  \/ x.method \in {"get", "stat", "delete"} /\ ReferenceAccepts(x)
  \/ x.method = "read_range" /\ ReferenceAccepts(x) /\ ValidRange(x.range)
  \/ x.method = "list" /\ x.limit \in 1 .. MaxPage

\* Mutant: a digest that only put declares does not reach the payload reference.
NormalizeKeepsPayload(x) == x

\* Mutant: put's expectations are moved to the payload reference, not copied.
NormalizeMovesExpectations(x) ==
  IF x.method = "put"
    THEN [x EXCEPT !.payload.expectedDigest = x.expectedDigest,
                   !.payload.expectedLength = x.expectedLength,
                   !.expectedDigest = None,
                   !.expectedLength = None]
    ELSE x

\* The input of the Operation: put hands its expectations to the payload
\* reference, which is what the target transfers from.
Normalize(x) ==
  IF x.method = "put"
    THEN [x EXCEPT !.payload = [expectedLength |-> x.expectedLength,
                                expectedDigest |-> x.expectedDigest,
                                replayable |-> x.payload.replayable]]
    ELSE x

\* Mutant: every operation may be repeated.
IdempotentAlways(x) == TRUE

\* Operation.idempotent.
Idempotent(x) == x.method = "put" => x.createOnly \/ x.expectedDigest # None

\* Mutant: requireEnforcement asks nothing of the target.
IntentGuaranteesUnenforced(x) ==
  (IF x.immutability # None /\ x.immutability.mutability = "immutable"
     THEN {"immutability-intent"} ELSE {})
  \cup
  (IF x.retention # None THEN {"retention-intent"} ELSE {})

\* The guarantees that the intents of a put require of a target.
IntentGuarantees(x) ==
  (IF x.immutability # None /\ x.immutability.mutability = "immutable"
     THEN {"immutability-intent"} ELSE {})
  \cup
  (IF x.retention # None THEN {"retention-intent"} ELSE {})
  \cup
  (IF x.retention # None /\ x.retention.requireEnforcement
     THEN {"retention-enforcement"} ELSE {})

\* The guarantees, and below the minimum limits, that normalize requires of a
\* target.
Guarantees(x) ==
  (IF x.method = "put" /\ x.createOnly THEN {"conditional-create"} ELSE {})
  \cup
  (IF x.method = "put" THEN IntentGuarantees(x) ELSE {})
  \cup
  (IF x.method \in SignedOperations /\ x.reference.allowed # None
     THEN {"signed-reference"} ELSE {})

\* max-object-bytes: the length that a put declares.
ObjectLimit(x) ==
  IF x.method = "put" /\ x.expectedLength # None THEN x.expectedLength ELSE 0

MinimumLimits(x) ==
  [object |-> ObjectLimit(x),
   range  |-> IF x.method = "read_range" /\ RequestedLength(x.range) # None
                THEN RequestedLength(x.range) ELSE 0,
   page   |-> IF x.method = "list" THEN x.limit ELSE 0]

\* require_object_capabilities, of a target with these guarantees.
SupportedBy(x, guarantees) ==
  /\ Guarantees(x) \subseteq guarantees
  /\ \A limit \in {"object", "range", "page"} :
       MinimumLimits(x)[limit] <= AdvertisedLimits[limit]

Supported(x) == SupportedBy(x, Advertised)

=============================================================================
