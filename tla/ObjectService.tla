---------------------------- MODULE ObjectService ----------------------------
(***************************************************************************)
(* Consumers, the Object catalog, and an execution target together.  A     *)
(* consumer submits an Expression, normalize and capability negotiation    *)
(* admit it, the target executes the Operation (tests/_memory_target.py is *)
(* the target modelled) and the consumer transfers the payload handle of a *)
(* get or a read_range when it likes.  The provider behind the target may  *)
(* fail before or after an Operation took effect; the composition may then *)
(* repeat it, if the failure is retryable and the Operation idempotent.    *)
(*                                                                         *)
(* A payload transfer is what PayloadDelivery promises: the whole content  *)
(* of the source, checked against the reference, or an error.              *)
(***************************************************************************)
EXTENDS ObjectCatalog, ObjectErrors, FiniteSets

CONSTANTS
  Clients,
  FailureKinds  \* kinds of provider failure, the table's and others

Keys == Resources \X ObjectIds

\* What a consumer can hear; PayloadError is whatever its own stream raised.
Answers == ObjectFailures \cup {"ok", "PayloadError"}

VARIABLES
  objects,   \* _objects: the content stored under a key, or None
  phase,     \* "idle", "sent" (not executed yet) or "done"
  call,      \* the Operation of a client's call
  declared,  \* history: the digests and lengths its put declared anywhere
  payload,   \* can the payload the client registered for its put be opened?
  answer,    \* "ok", a failure, or None
  handle,    \* the payload handle that get or read_range registered
  got,       \* the bytes transferred from it, or the page of a list
  effect     \* history: what the call left under its key when it first took effect

vars == <<objects, phase, call, declared, payload, answer, handle, got, effect>>

NothingDeclared == [digests |-> {}, lengths |-> {}]

Init ==
  /\ objects = [k \in Keys |-> None]
  /\ phase = [c \in Clients |-> "idle"]
  /\ call = [c \in Clients |-> None]
  /\ declared = [c \in Clients |-> NothingDeclared]
  /\ payload = [c \in Clients |-> FALSE]
  /\ answer = [c \in Clients |-> None]
  /\ handle = [c \in Clients |-> None]
  /\ got = [c \in Clients |-> None]
  /\ effect = [c \in Clients |-> None]

-----------------------------------------------------------------------------
(* Consumers *)

DeclaredBy(x) ==
  IF x.method = "put"
    THEN [digests |-> {x.expectedDigest, x.payload.expectedDigest} \ {None},
          lengths |-> {x.expectedLength, x.payload.expectedLength} \ {None}]
    ELSE NothingDeclared

\* A consumer registers the payload of a put and submits an Expression, which
\* normalize or the negotiation of capabilities may reject.
Submit(c, x) ==
  /\ phase[c] = "idle"
  /\ \/ /\ Accepts(x)
        /\ Supported(x)
        /\ phase' = [phase EXCEPT ![c] = "sent"]
        /\ call' = [call EXCEPT ![c] = Normalize(x)]
        /\ declared' = [declared EXCEPT ![c] = DeclaredBy(x)]
        /\ payload' = [payload EXCEPT ![c] = x.method = "put"]
        /\ UNCHANGED answer
     \/ /\ ~(Accepts(x) /\ Supported(x))
        /\ phase' = [phase EXCEPT ![c] = "done"]
        /\ answer' = [answer EXCEPT ![c] =
                        IF Accepts(x) THEN "ObjectCapabilityMismatch"
                                      ELSE "ObjectInvalidRequest"]
        /\ UNCHANGED <<call, declared, payload>>
  /\ UNCHANGED <<objects, handle, got, effect>>

\* The consumer is through with its call and releases the handles it owns.
Finish(c) ==
  /\ phase[c] = "done"
  /\ phase' = [phase EXCEPT ![c] = "idle"]
  /\ call' = [call EXCEPT ![c] = None]
  /\ declared' = [declared EXCEPT ![c] = NothingDeclared]
  /\ payload' = [payload EXCEPT ![c] = FALSE]
  /\ answer' = [answer EXCEPT ![c] = None]
  /\ handle' = [handle EXCEPT ![c] = None]
  /\ got' = [got EXCEPT ![c] = None]
  /\ effect' = [effect EXCEPT ![c] = None]
  /\ UNCHANGED objects

\* After a retryable failure an idempotent Operation is sent again, payload
\* reference and all.
Retry(c) ==
  /\ phase[c] = "done"
  /\ Retryable(answer[c])
  /\ Idempotent(call[c])
  /\ phase' = [phase EXCEPT ![c] = "sent"]
  /\ answer' = [answer EXCEPT ![c] = None]
  /\ UNCHANGED <<objects, call, declared, payload, handle, got, effect>>

-----------------------------------------------------------------------------
(* The target *)

KeyOf(x) ==
  <<x.resource, IF x.method = "put" THEN x.objectId ELSE x.reference.objectId>>

\* The target has executed c's call and says a, unless the provider failed on
\* the way back: c hears that failure, classified, and nothing of a.
Answered(c, a) ==
  /\ phase' = [phase EXCEPT ![c] = "done"]
  /\ \E heard \in {a} \cup {Classify(k) : k \in FailureKinds} :
       answer' = [answer EXCEPT ![c] = heard]

\* The provider fails before the call does anything.
ExecuteFails(c) ==
  /\ phase[c] = "sent"
  /\ phase' = [phase EXCEPT ![c] = "done"]
  /\ \E k \in FailureKinds : answer' = [answer EXCEPT ![c] = Classify(k)]
  /\ UNCHANGED <<objects, call, declared, payload, handle, got, effect>>

\* The first step of a call that changes the store leaves a record of it.
Effect(c, value) ==
  effect' = [effect EXCEPT ![c] = IF @ = None THEN [left |-> value] ELSE @]

\* The outcome of transfer_payload for a stream that yields d.
Transferred(ref, d) ==
  IF ref.expectedLength \notin {None, Len(d)} THEN "IncompleteUpload"
  ELSE IF ref.expectedDigest \notin {None, d} THEN "DigestMismatch"
  ELSE "ok"

CreateConflict(x) == x.createOnly /\ objects[KeyOf(x)] # None

\* _put.  A factory may yield other bytes at each call, a stream fails, and a
\* one-shot payload is gone after the first attempt that opened it.
ExecutePut(c) ==
  LET x == call[c] IN
  /\ phase[c] = "sent"
  /\ x.method = "put"
  /\ \/ /\ CreateConflict(x)
        /\ Answered(c, "ConditionalConflict")
        /\ UNCHANGED <<objects, payload, effect>>
     \/ /\ ~CreateConflict(x)
        /\ ~payload[c]
        /\ Answered(c, "PayloadUnavailable")
        /\ UNCHANGED <<objects, payload, effect>>
     \/ /\ ~CreateConflict(x)
        /\ payload[c]
        /\ payload' = [payload EXCEPT ![c] = x.payload.replayable]
        /\ \/ /\ Answered(c, "PayloadError")
              /\ UNCHANGED <<objects, effect>>
           \/ \E d \in Contents :
                /\ Answered(c, Transferred(x.payload, d))
                /\ IF Transferred(x.payload, d) = "ok"
                     THEN /\ objects' = [objects EXCEPT ![KeyOf(x)] = d]
                          /\ Effect(c, d)
                     ELSE UNCHANGED <<objects, effect>>
  /\ UNCHANGED <<call, declared, handle, got>>

\* _lookup: a reference without a digest means whatever is there.
Found(x) ==
  /\ objects[KeyOf(x)] # None
  /\ x.reference.digest \in {None, objects[KeyOf(x)]}

\* _delete
ExecuteDelete(c) ==
  LET x == call[c] IN
  /\ phase[c] = "sent"
  /\ x.method = "delete"
  /\ \/ /\ Found(x)
        /\ objects' = [objects EXCEPT ![KeyOf(x)] = None]
        /\ Effect(c, None)
        /\ Answered(c, "ok")
     \/ /\ ~Found(x)
        /\ Answered(c, "ObjectNotFound")
        /\ UNCHANGED <<objects, effect>>
  /\ UNCHANGED <<call, declared, payload, handle, got>>

\* The slice of an object that a range resolves to.
Slice(data, r) ==
  LET v == Resolve(r, Len(data)) IN SubSeq(data, v.start + 1, v.end + 1)

\* _get and _read_range register a replayable factory over the bytes they
\* found; only get declares their digest.
ReadHandle(x, data) ==
  IF x.method = "get"
    THEN [data |-> data, expectedLength |-> Len(data), expectedDigest |-> data]
    ELSE [data |-> Slice(data, x.range),
          expectedLength |-> Len(Slice(data, x.range)), expectedDigest |-> None]

ExecuteRead(c) ==
  LET x == call[c]
      data == objects[KeyOf(x)]
  IN
  /\ phase[c] = "sent"
  /\ x.method \in {"get", "stat", "read_range"}
  /\ \/ /\ ~Found(x)
        /\ Answered(c, "ObjectNotFound")
        /\ UNCHANGED handle
     \/ /\ Found(x)
        /\ x.method = "read_range"
        /\ Resolve(x.range, Len(data)) = None
        /\ Answered(c, "RangeNotSatisfiable")
        /\ UNCHANGED handle
     \/ /\ Found(x)
        /\ x.method = "stat"
        /\ Answered(c, "ok")
        /\ UNCHANGED handle
     \/ /\ Found(x)
        /\ x.method = "read_range" => Resolve(x.range, Len(data)) # None
        /\ x.method # "stat"
        /\ Answered(c, "ok")
        /\ handle' = [handle EXCEPT ![c] =
                        IF answer'[c] = "ok" THEN ReadHandle(x, data) ELSE None]
  /\ UNCHANGED <<objects, call, declared, payload, got, effect>>

\* _list: the first ids, in order, among those with the prefix.
Page(x) ==
  LET matches == {i \in x.matching : objects[<<x.resource, i>>] # None} IN
  {<<i, objects[<<x.resource, i>>]>> :
     i \in {m \in matches : Cardinality({n \in matches : n < m}) < x.limit}}

ExecuteList(c) ==
  /\ phase[c] = "sent"
  /\ call[c].method = "list"
  /\ Answered(c, "ok")
  /\ got' = [got EXCEPT ![c] = IF answer'[c] = "ok" THEN Page(call[c]) ELSE None]
  /\ UNCHANGED <<objects, call, declared, payload, handle, effect>>

\* Mutant: the factory looks the object up when it is called.
HandleStreamLate(c) ==
  LET now == objects[KeyOf(call[c])] IN
  IF now = None THEN << >>
  ELSE IF call[c].method = "get" THEN now
  ELSE IF Resolve(call[c].range, Len(now)) = None THEN << >>
  ELSE Slice(now, call[c].range)

\* What the factory of a handle yields: the bytes as they were when the target
\* answered.
HandleStream(c) == handle[c].data

\* The consumer transfers the payload of its get or read_range; a transfer that
\* raises leaves it with nothing.
Fetch(c) ==
  /\ handle[c] # None
  /\ got[c] = None
  /\ Transferred(handle[c], HandleStream(c)) = "ok"
  /\ got' = [got EXCEPT ![c] = HandleStream(c)]
  /\ UNCHANGED <<objects, phase, call, declared, payload, answer, handle, effect>>

-----------------------------------------------------------------------------
Next ==
  \E c \in Clients :
    \/ \E x \in Expressions : Submit(c, x)
    \/ Retry(c)
    \/ Finish(c)
    \/ ExecuteFails(c)
    \/ ExecutePut(c)
    \/ ExecuteDelete(c)
    \/ ExecuteRead(c)
    \/ ExecuteList(c)
    \/ Fetch(c)

Spec == Init /\ [][Next]_vars

-----------------------------------------------------------------------------
(* Properties *)

\* Types of the state; what is sent is an Operation that normalize accepts.
TypeOK ==
  /\ objects \in [Keys -> Contents \cup {None}]
  /\ phase \in [Clients -> {"idle", "sent", "done"}]
  /\ \A c \in Clients :
       /\ call[c] # None => call[c] \in Expressions /\ Accepts(call[c])
       /\ phase[c] = "sent" => call[c] \in Expressions /\ answer[c] = None
       /\ handle[c] # None => answer[c] = "ok"
  /\ payload \in [Clients -> BOOLEAN]
  /\ answer \in [Clients -> Answers \cup {None}]

\* Step: the target executes the call of c.
Executing(c) == phase[c] = "sent" /\ phase'[c] = "done"

\* A put stores only bytes with every digest and length that the consumer
\* declared, on the put or on its payload reference, by way of the surface or
\* not: the catalog carries the declarations to the reference that the target
\* transfers from.
StoredAsDeclared ==
  [][\A c \in Clients :
       Executing(c) /\ call[c].method = "put" /\ objects' # objects =>
         LET d == objects'[KeyOf(call[c])] IN
         declared[c].digests \subseteq {d} /\ declared[c].lengths \subseteq {Len(d)}]_vars

\* An object disappears only through a delete whose own, unsigned reference
\* names its resource, its id and its version ("digest-pinned exact-version
\* delete"), however stale the reference, although the target's lookup takes a
\* reference without a digest for any version.
ExactVersionDelete ==
  [][\A k \in Keys : objects[k] # None /\ objects'[k] = None =>
       \E c \in Clients :
         /\ Executing(c)
         /\ call[c].method = "delete"
         /\ call[c].reference = [resource |-> k[1], objectId |-> k[2],
                                 digest |-> objects[k], allowed |-> None]]_vars

\* Repeating an Operation that normalize marks idempotent changes nothing once
\* it took effect and nobody else changed its object, even when its payload is
\* a factory that yields other bytes each time.
RetryHarmless ==
  [][\A c \in Clients :
       /\ Executing(c)
       /\ effect[c] # None
       /\ effect[c].left = objects[KeyOf(call[c])]
       => UNCHANGED objects]_vars

\* A provider failure, classified or not, is never mistaken for a verdict on the
\* object: unless the provider itself says so, a consumer hears that an object
\* is missing, or in the way, only when it is.
VerdictsAreTrue ==
  [][\A c \in Clients :
       /\ Executing(c)
       /\ \/ answer'[c] = "ObjectNotFound" /\ "missing-object" \notin FailureKinds
          \/ answer'[c] = "ConditionalConflict" /\ "conditional-conflict" \notin FailureKinds
       => IF call[c].method = "put" THEN CreateConflict(call[c])
          ELSE call[c].method # "list" /\ ~Found(call[c])]_vars

\* The bytes of data at the wanted positions, in order.
ServesExactly(bytes, data, r) ==
  LET w == Wanted(r, Len(data)) IN
  /\ Len(bytes) = Cardinality(w)
  /\ \A i \in w : bytes[Cardinality({h \in w : h < i}) + 1] = data[i + 1]

\* What a consumer reads through a reference with a digest is that version, or
\* exactly the requested range of it, although the object may be replaced or
\* deleted between the answer and the transfer, and a range has no digest to
\* be checked against.
PinnedReads ==
  \A c \in Clients :
    got[c] # None /\ call[c].method # "list" /\ call[c].reference.digest # None =>
      LET version == call[c].reference.digest IN
      \/ call[c].method = "get" /\ got[c] = version
      \/ call[c].method = "read_range" /\ ServesExactly(got[c], version, call[c].range)

\* A range is refused as unsatisfiable exactly when the version found has none
\* of the bytes it asks for: an empty object has none for any range, while a
\* range that only ends past the object, or a suffix longer than it, is served.
RangeVerdicts ==
  [][\A c \in Clients :
       /\ Executing(c)
       /\ call[c].method = "read_range"
       /\ answer'[c] \in {"ok", "RangeNotSatisfiable"}
       => /\ Found(call[c])
          /\ answer'[c] = "ok" <=>
               Wanted(call[c].range, Len(objects[KeyOf(call[c])])) # {}]_vars

\* Negotiating the limits that normalize derives bounds what a target serves:
\* a range that is not open-ended never exceeds its advertised range limit, nor
\* a page its page limit.
LimitsHonoured ==
  \A c \in Clients : got[c] # None =>
    /\ call[c].method = "list" => Cardinality(got[c]) <= AdvertisedLimits.page
    /\ call[c].method = "read_range" /\ RequestedLength(call[c].range) # None =>
         Len(got[c]) <= AdvertisedLimits.range

=============================================================================
