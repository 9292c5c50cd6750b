--------------------------- MODULE PayloadTransfer ---------------------------
(***************************************************************************)
(* The process-local payload path of contracts/payloads.py: PayloadSource  *)
(* objects, the PayloadRegistry that maps opaque tokens to them, and       *)
(* transfer_payload, run by several threads over one registry.             *)
(*                                                                         *)
(* A step is what one lock region, or one call on a stream, sink or        *)
(* factory, does.  A SHA-256 digest is represented by the bytes it hashes  *)
(* (the hash is taken to be injective), a token by a model value.          *)
(***************************************************************************)
EXTENDS Naturals, Sequences

CONSTANTS
  Threads,          \* threads that call transfer_payload
  Tokens,           \* the opaque tokens; bounds the number of registrations
  StreamSources,    \* StreamPayloadSource objects
  OneShotFactories, \* FactoryPayloadSource objects with replayable=False
  ReplayFactories,  \* FactoryPayloadSource objects with replayable=True
  CallerStreams,    \* the caller-owned streams StreamPayloadSource wraps
  StreamOf,         \* [StreamSources -> CallerStreams]
  Bytes,            \* byte values
  Content,          \* what a caller stream, or a stream of a factory, holds
  Lengths,          \* expected lengths a reference may declare
  Digests,          \* expected digests a reference may declare
  ChunkSizes,       \* chunk_size arguments, valid and invalid
  MaxChunk,         \* MAX_CHUNK_SIZE
  None              \* Python's None

Factories == OneShotFactories \cup ReplayFactories
Sources == StreamSources \cup Factories

ASSUME SourceAssumption ==
  /\ StreamSources \cap Factories = {}
  /\ OneShotFactories \cap ReplayFactories = {}
  /\ None \notin Sources

ASSUME StreamAssumption ==
  /\ CallerStreams \cap Threads = {}
  /\ StreamOf \in [StreamSources -> CallerStreams]
  /\ Content \in [CallerStreams \cup Factories -> Seq(Bytes)]

ASSUME ReferenceAssumption ==
  /\ Lengths \subseteq Nat
  /\ Digests \subseteq Seq(Bytes)
  /\ ChunkSizes \subseteq Nat
  /\ MaxChunk \in Nat
  /\ None \notin Nat
  /\ None \notin Seq(Bytes)

\* A PayloadReference as from_mapping accepts it: a caller can present any
\* expectations and any replayable flag with a token.
References ==
  [token : Tokens, expectedLength : Lengths \cup {None},
   expectedDigest : Digests \cup {None}, replayable : BOOLEAN]

NoReference ==
  [token |-> None, expectedLength |-> None, expectedDigest |-> None,
   replayable |-> FALSE]

PCs == {"idle", "open", "factory", "read", "check", "write", "verify", "ended"}

Results ==
  {"pending", "ok", "PayloadUnavailable", "FactoryError", "StreamError",
   "ValueError", "ObjectInvalidRequest", "TransferCancelled", "CallbackError",
   "SinkError", "IncompleteUpload", "DigestMismatch"}

VARIABLES
  registry,    \* PayloadRegistry._sources: [Tokens -> Sources \cup {None}]
  issued,      \* tokens handed out so far
  used,        \* sources whose _consumed / _opened flag is set
  unread,      \* bytes left in a caller stream, or in a thread's factory stream
  openStreams, \* threads whose factory stream is open
  pc, ref, size, src,          \* the call of transfer_payload a thread is in
  chunk, sink, hashed, length, \* its locals, and the bytes its sink accepted
  cancelAt,    \* None, or the length of the sink when cancelled() became true
  result,
  grants,      \* history: how many callers were given a token's handle
  opens        \* history: how many calls got a stream from a one-shot source

registryVars == <<registry, issued, grants>>
sourceVars == <<used, opens>>
callVars == <<ref, size, src>>
dataVars == <<chunk, sink, hashed, length>>
vars == <<registry, issued, used, unread, openStreams, pc, ref, size, src,
          chunk, sink, hashed, length, cancelAt, result, grants, opens>>

-----------------------------------------------------------------------------
(* Sources and streams *)

Replayable(s) == s \in ReplayFactories

\* The stream that thread t reads: the caller's own, or one the factory made
\* for this call.
StreamId(t) == IF src[t] \in StreamSources THEN StreamOf[src[t]] ELSE t

Take(s, n) == SubSeq(s, 1, n)
Drop(s, n) == SubSeq(s, n + 1, Len(s))

Init ==
  /\ registry = [k \in Tokens |-> None]
  /\ issued = {}
  /\ used = {}
  /\ unread = [x \in CallerStreams \cup Threads |->
                 IF x \in CallerStreams THEN Content[x] ELSE << >>]
  /\ openStreams = {}
  /\ pc = [t \in Threads |-> "idle"]
  /\ ref = [t \in Threads |-> NoReference]
  /\ size = [t \in Threads |-> 0]
  /\ src = [t \in Threads |-> None]
  /\ chunk = [t \in Threads |-> << >>]
  /\ sink = [t \in Threads |-> << >>]
  /\ hashed = [t \in Threads |-> << >>]
  /\ length = [t \in Threads |-> 0]
  /\ cancelAt = [t \in Threads |-> None]
  /\ result = [t \in Threads |-> "pending"]
  /\ grants = [k \in Tokens |-> 0]
  /\ opens = [s \in Sources |-> 0]

-----------------------------------------------------------------------------
(* PayloadRegistry *)

\* register: a fresh token, stored under the registry lock.  The same source
\* object may be registered again under another token.
Register(k, s) ==
  /\ k \notin issued
  /\ issued' = issued \cup {k}
  /\ registry' = [registry EXCEPT ![k] = s]
  /\ UNCHANGED <<used, unread, openStreams, pc, callVars, dataVars, cancelAt,
                 result, grants, opens>>

\* release that returns True; one that returns False changes nothing.
Release(k) ==
  /\ registry[k] # None
  /\ registry' = [registry EXCEPT ![k] = None]
  /\ grants' = [grants EXCEPT ![k] = @ + 1]
  /\ UNCHANGED <<issued, sourceVars, unread, openStreams, pc, callVars,
                 dataVars, cancelAt, result>>

\* Mutant: open() reads the handle and leaves it registered.
AfterLookupKeepsHandle(k, s) == registry

\* The handle of a one-shot source leaves the registry with the lookup that
\* finds it.
AfterLookup(k, s) ==
  IF Replayable(s) THEN registry ELSE [registry EXCEPT ![k] = None]

\* Mutant: no check for a token that is not registered.
ResolvesMissing(r) == Replayable(registry[r.token]) = r.replayable

Resolves(r) ==
  /\ registry[r.token] # None
  /\ Replayable(registry[r.token]) = r.replayable

\* A call of transfer_payload up to the end of the locked region of
\* PayloadRegistry.open.
BeginTransfer(t, r, n) ==
  /\ pc[t] \in {"idle", "ended"}
  /\ ref' = [ref EXCEPT ![t] = r]
  /\ size' = [size EXCEPT ![t] = n]
  /\ chunk' = [chunk EXCEPT ![t] = << >>]
  /\ sink' = [sink EXCEPT ![t] = << >>]
  /\ hashed' = [hashed EXCEPT ![t] = << >>]
  /\ length' = [length EXCEPT ![t] = 0]
  /\ cancelAt' = [cancelAt EXCEPT ![t] = None]
  /\ \/ /\ ~Resolves(r)
        /\ src' = [src EXCEPT ![t] = None]
        /\ pc' = [pc EXCEPT ![t] = "ended"]
        /\ result' = [result EXCEPT ![t] = "PayloadUnavailable"]
        /\ UNCHANGED <<registry, grants>>
     \/ /\ Resolves(r)
        /\ LET s == registry[r.token] IN
             /\ src' = [src EXCEPT ![t] = s]
             /\ registry' = AfterLookup(r.token, s)
             /\ grants' = IF Replayable(s) THEN grants
                          ELSE [grants EXCEPT ![r.token] = @ + 1]
        /\ pc' = [pc EXCEPT ![t] = "open"]
        /\ result' = [result EXCEPT ![t] = "pending"]
  /\ UNCHANGED <<issued, sourceVars, unread, openStreams>>

-----------------------------------------------------------------------------
(* PayloadSource.open *)

\* Mutant: a source trusts the registry to open it once.
CanOpenAlways(s) == TRUE

\* Mutant: FactoryPayloadSource.open ignores replayable=True.
CanOpenFirstOnly(s) == s \notin used

\* Only one call may ever get the stream of a source that is not replayable.
CanOpen(s) == Replayable(s) \/ s \notin used

\* The locked check-and-set of StreamPayloadSource.open and
\* FactoryPayloadSource.open.
OpenSource(t) ==
  LET s == src[t] IN
  /\ pc[t] = "open"
  /\ \/ /\ ~CanOpen(s)
        /\ pc' = [pc EXCEPT ![t] = "ended"]
        /\ result' = [result EXCEPT ![t] = "PayloadUnavailable"]
        /\ UNCHANGED sourceVars
     \/ /\ CanOpen(s)
        /\ used' = used \cup {s}
        /\ opens' = IF Replayable(s) THEN opens ELSE [opens EXCEPT ![s] = @ + 1]
        /\ pc' = [pc EXCEPT ![t] = IF s \in StreamSources THEN "read" ELSE "factory"]
        /\ UNCHANGED result
  /\ UNCHANGED <<registryVars, unread, openStreams, callVars, dataVars, cancelAt>>

\* factory(), outside the lock: a fresh stream, or an exception (the factory's
\* own, or the TypeError for an object without read).
CallFactory(t) ==
  /\ pc[t] = "factory"
  /\ \/ /\ unread' = [unread EXCEPT ![t] = Content[src[t]]]
        /\ openStreams' = openStreams \cup {t}
        /\ pc' = [pc EXCEPT ![t] = "read"]
        /\ UNCHANGED result
     \/ /\ pc' = [pc EXCEPT ![t] = "ended"]
        /\ result' = [result EXCEPT ![t] = "FactoryError"]
        /\ UNCHANGED <<unread, openStreams>>
  /\ UNCHANGED <<registryVars, sourceVars, callVars, dataVars, cancelAt>>

-----------------------------------------------------------------------------
(* iter_payload_chunks and transfer_payload *)

\* Mutant: close() without try/finally is skipped by an exception.
CloseStreamOnEndOnly(t) ==
  IF unread[StreamId(t)] = << >> THEN openStreams \ {t} ELSE openStreams

\* What the with statement does with the stream when the block is left: the
\* finally clause closes a factory's stream and leaves a caller's stream open.
CloseStream(t) == openStreams \ {t}

\* An exception leaves the with block; it reaches the caller, or the one that
\* close() raises takes its place.
Leave(t, failure) ==
  /\ openStreams' = CloseStream(t)
  /\ pc' = [pc EXCEPT ![t] = "ended"]
  /\ \E e \in {failure} \cup (IF t \in openStreams THEN {"StreamError"} ELSE {}) :
       result' = [result EXCEPT ![t] = e]

\* The generator validates chunk_size at its first step, when the source has
\* already been opened.
SizeError(n) == IF n = 0 THEN "ValueError" ELSE "ObjectInvalidRequest"

RejectSize(t) ==
  /\ pc[t] = "read"
  /\ size[t] \notin 1 .. MaxChunk
  /\ Leave(t, SizeError(size[t]))
  /\ UNCHANGED <<registryVars, sourceVars, unread, callVars, dataVars, cancelAt>>

\* stream.read(size): a raw stream may return fewer bytes than it holds, and a
\* faulty one more than it was asked for.
ReadChunk(t) ==
  LET s == StreamId(t) IN
  /\ pc[t] = "read"
  /\ size[t] \in 1 .. MaxChunk
  /\ \E n \in 1 .. Len(unread[s]) :
       /\ unread' = [unread EXCEPT ![s] = Drop(@, n)]
       /\ chunk' = [chunk EXCEPT ![t] = Take(unread[s], n)]
       /\ \/ /\ n <= size[t]
             /\ pc' = [pc EXCEPT ![t] = "check"]
             /\ UNCHANGED <<openStreams, result>>
          \/ /\ n > size[t]
             /\ Leave(t, "ObjectInvalidRequest")
  /\ UNCHANGED <<registryVars, sourceVars, callVars, sink, hashed, length, cancelAt>>

\* stream.read raises, or returns something that is not bytes.
ReadFails(t) ==
  /\ pc[t] = "read"
  /\ size[t] \in 1 .. MaxChunk
  /\ Leave(t, "StreamError")
  /\ UNCHANGED <<registryVars, sourceVars, unread, callVars, dataVars, cancelAt>>

\* b"": the loop and the with block end normally, unless close() raises.
EndOfStream(t) ==
  /\ pc[t] = "read"
  /\ size[t] \in 1 .. MaxChunk
  /\ unread[StreamId(t)] = << >>
  /\ \/ /\ openStreams' = CloseStream(t)
        /\ pc' = [pc EXCEPT ![t] = "verify"]
        /\ UNCHANGED result
     \/ /\ t \in openStreams
        /\ Leave(t, "StreamError")
  /\ UNCHANGED <<registryVars, sourceVars, unread, callVars, dataVars, cancelAt>>

\* The caller's cancellation flag is raised while the call runs.
Cancel(t) ==
  /\ pc[t] \notin {"idle", "ended"}
  /\ cancelAt[t] = None
  /\ cancelAt' = [cancelAt EXCEPT ![t] = Len(sink[t])]
  /\ UNCHANGED <<registryVars, sourceVars, unread, openStreams, pc, callVars,
                 dataVars, result>>

\* Mutant: cancelled() is asked before the first chunk only.
CancelledAtStart(t) == cancelAt[t] # None /\ sink[t] = << >>

Cancelled(t) == cancelAt[t] # None

\* cancelled() is asked after each read; it may raise itself.
CheckCancelled(t) ==
  /\ pc[t] = "check"
  /\ \/ /\ Cancelled(t)
        /\ Leave(t, "TransferCancelled")
     \/ Leave(t, "CallbackError")
     \/ /\ ~Cancelled(t)
        /\ pc' = [pc EXCEPT ![t] = "write"]
        /\ UNCHANGED <<openStreams, result>>
  /\ UNCHANGED <<registryVars, sourceVars, unread, callVars, dataVars, cancelAt>>

\* Mutant: the count that write() returns is ignored.
WroteAnything(t, told) == TRUE

\* The sink reports every byte of the chunk written (or reports nothing).
WroteAll(t, told) == told = Len(chunk[t])

\* Mutant: the length is compared at the end of the stream only.
ExceedsNever(t, total) == FALSE

Exceeds(t, total) ==
  ref[t].expectedLength # None /\ total > ref[t].expectedLength

\* Mutant: a short write is retried with the rest of the chunk, without limit.
WriteChunkRetries(t) ==
  /\ pc[t] = "write"
  /\ \E n \in 0 .. Len(chunk[t]) :
       /\ sink' = [sink EXCEPT ![t] = @ \o Take(chunk[t], n)]
       /\ hashed' = [hashed EXCEPT ![t] = @ \o Take(chunk[t], n)]
       /\ length' = [length EXCEPT ![t] = @ + n]
       /\ chunk' = [chunk EXCEPT ![t] = Drop(@, n)]
       /\ IF Exceeds(t, length'[t])
            THEN Leave(t, "IncompleteUpload")
            ELSE /\ pc' = [pc EXCEPT ![t] = IF WroteAll(t, n) THEN "read" ELSE "check"]
                 /\ UNCHANGED <<openStreams, result>>
  /\ UNCHANGED <<registryVars, sourceVars, unread, callVars, cancelAt>>

\* sink.write(chunk) accepts n bytes and reports them, or more than it was given;
\* then the short-write check, the hash and length updates and the over-length
\* check.
WriteChunk(t) ==
  /\ pc[t] = "write"
  /\ \E n \in 0 .. Len(chunk[t]) : \E told \in {n, Len(chunk[t]) + 1} :
       /\ sink' = [sink EXCEPT ![t] = @ \o Take(chunk[t], n)]
       /\ \/ /\ ~WroteAll(t, told)
             /\ Leave(t, "IncompleteUpload")
             /\ UNCHANGED <<hashed, length>>
          \/ /\ WroteAll(t, told)
             /\ hashed' = [hashed EXCEPT ![t] = @ \o chunk[t]]
             /\ length' = [length EXCEPT ![t] = @ + Len(chunk[t])]
             /\ \/ /\ Exceeds(t, length'[t])
                   /\ Leave(t, "IncompleteUpload")
                \/ /\ ~Exceeds(t, length'[t])
                   /\ pc' = [pc EXCEPT ![t] = "read"]
                   /\ UNCHANGED <<openStreams, result>>
  /\ UNCHANGED <<registryVars, sourceVars, unread, callVars, chunk, cancelAt>>

\* sink.write raises after it accepted some prefix of the chunk.
WriteFails(t) ==
  /\ pc[t] = "write"
  /\ \E n \in 0 .. Len(chunk[t]) : sink' = [sink EXCEPT ![t] = @ \o Take(chunk[t], n)]
  /\ Leave(t, "SinkError")
  /\ UNCHANGED <<registryVars, sourceVars, unread, callVars, chunk, hashed, length,
                 cancelAt>>

\* The checks after the with block, and the ContentIdentity that is returned.
LengthDiffers(t) ==
  ref[t].expectedLength # None /\ length[t] # ref[t].expectedLength

\* Mutant: the digest is checked only when a length was declared too.
DigestDiffersWithLength(t) ==
  /\ ref[t].expectedLength # None
  /\ ref[t].expectedDigest # None
  /\ hashed[t] # ref[t].expectedDigest

DigestDiffers(t) ==
  ref[t].expectedDigest # None /\ hashed[t] # ref[t].expectedDigest

Verify(t) ==
  /\ pc[t] = "verify"
  /\ pc' = [pc EXCEPT ![t] = "ended"]
  /\ \/ /\ LengthDiffers(t)
        /\ result' = [result EXCEPT ![t] = "IncompleteUpload"]
     \/ /\ ~LengthDiffers(t)
        /\ DigestDiffers(t)
        /\ result' = [result EXCEPT ![t] = "DigestMismatch"]
     \/ /\ ~LengthDiffers(t)
        /\ ~DigestDiffers(t)
        /\ result' = [result EXCEPT ![t] = "ok"]
  /\ UNCHANGED <<registryVars, sourceVars, unread, openStreams, callVars, dataVars,
                 cancelAt>>

-----------------------------------------------------------------------------
(* The steps a call of transfer_payload takes once it has begun. *)
Step(t) ==
  \/ OpenSource(t)
  \/ CallFactory(t)
  \/ RejectSize(t)
  \/ ReadChunk(t)
  \/ ReadFails(t)
  \/ EndOfStream(t)
  \/ CheckCancelled(t)
  \/ WriteChunk(t)
  \/ WriteFails(t)
  \/ Verify(t)

Next ==
  \/ \E k \in Tokens, s \in Sources : Register(k, s)
  \/ \E k \in Tokens : Release(k)
  \/ \E t \in Threads, r \in References, n \in ChunkSizes : BeginTransfer(t, r, n)
  \/ \E t \in Threads : Cancel(t)
  \/ \E t \in Threads : Step(t)

Spec == Init /\ [][Next]_vars

\* Streams, factories and sinks return from every call, so a thread inside
\* transfer_payload keeps taking steps; nobody has to call or to cancel.
FairSpec == Spec /\ \A t \in Threads : WF_vars(Step(t))

-----------------------------------------------------------------------------
(* Properties *)

Reading(t) == pc[t] \in {"read", "check", "write"}

Active(t) == Reading(t) \/ pc[t] \in {"open", "factory", "verify"}

\* Types of the state; a running call holds the source that the registry gave
\* it (PayloadRegistry.open never goes on with a missing source), and calls a
\* factory only if the source has one.
TypeOK ==
  /\ registry \in [Tokens -> Sources \cup {None}]
  /\ issued \subseteq Tokens
  /\ used \subseteq Sources
  /\ unread \in [CallerStreams \cup Threads -> Seq(Bytes)]
  /\ openStreams \subseteq Threads
  /\ pc \in [Threads -> PCs]
  /\ ref \in [Threads -> References \cup {NoReference}]
  /\ size \in [Threads -> Nat]
  /\ src \in [Threads -> Sources \cup {None}]
  /\ chunk \in [Threads -> Seq(Bytes)]
  /\ sink \in [Threads -> Seq(Bytes)]
  /\ hashed \in [Threads -> Seq(Bytes)]
  /\ length \in [Threads -> Nat]
  /\ cancelAt \in [Threads -> Nat \cup {None}]
  /\ result \in [Threads -> Results]
  /\ grants \in [Tokens -> Nat]
  /\ opens \in [Sources -> Nat]
  /\ \A t \in Threads : Active(t) => src[t] \in Sources
  /\ \A t \in Threads : pc[t] = "factory" => src[t] \in Factories

\* PayloadRegistry.open and release race for a handle, and exactly one call
\* wins: a handle that left the registry was given to one caller, and one that
\* is still registered (after rejected lookups, say) to none.
HandleGrantedOnce ==
  \A k \in Tokens :
    grants[k] = IF k \in issued /\ registry[k] = None THEN 1 ELSE 0

\* A source that is not replayable yields its stream to one call at most, even
\* when it is registered under several tokens and opened concurrently
\* (StreamPayloadSource.open, FactoryPayloadSource.open).
OneShotOpenedOnce ==
  \A s \in Sources : opens[s] <= 1

\* A call that found its handle and still reports PayloadUnavailable lost a
\* one-shot source to another call; a replayable source is never refused.
UnavailableOnlyWhenTaken ==
  \A t \in Threads :
    result[t] = "PayloadUnavailable" /\ src[t] # None => opens[src[t]] = 1

\* transfer_payload returns an identity only for bytes that its sink accepted
\* in full, and only when they match every declared expectation.
VerifiedTransfer ==
  \A t \in Threads : result[t] = "ok" =>
    /\ sink[t] = hashed[t]
    /\ length[t] = Len(sink[t])
    /\ ref[t].expectedLength \in {None, Len(sink[t])}
    /\ ref[t].expectedDigest \in {None, sink[t]}

\* The stream a source reads is not wrapped by a second StreamPayloadSource.
Exclusive(s) ==
  \A q \in StreamSources \ {s} : s \in StreamSources => StreamOf[q] # StreamOf[s]

ContentOf(s) == Content[IF s \in StreamSources THEN StreamOf[s] ELSE s]

\* A successful transfer carried the whole content of its source, with no
\* declared expectation to help: no byte was lost to a concurrent reader, an
\* earlier attempt on the same source, or a short write.
CompleteContent ==
  \A t \in Threads :
    result[t] = "ok" /\ Exclusive(src[t]) => sink[t] = ContentOf(src[t])

\* With a declared length, transfer_payload sends its sink at most one chunk
\* more than that, however much the stream holds.
SinkBound ==
  \A t \in Threads : ref[t].expectedLength # None =>
    Len(sink[t]) <= ref[t].expectedLength + size[t]

\* At most one chunk reaches the sink after cancelled() became true.
CancelBound ==
  \A t \in Threads : cancelAt[t] # None => Len(sink[t]) <= cancelAt[t] + size[t]

\* A factory's stream is closed on every way out of the with block, and not
\* before (FactoryPayloadSource.open, finally).
FactoryStreamsClosed ==
  openStreams = {t \in Threads : Reading(t) /\ src[t] \in Factories}

\* The number of bytes that a call may still read.
ToRead(t) ==
  IF src[t] \in Factories /\ pc[t] \in {"open", "factory"}
    THEN Len(Content[src[t]]) ELSE Len(unread[StreamId(t)])

\* The most steps that a call can still take: three for each byte that it may
\* read, and those before and after.
StepsLeft(t) ==
  LET around == [open |-> 4, factory |-> 3, read |-> 2, check |-> 4, write |-> 3]
  IN IF pc[t] \in DOMAIN around THEN 3 * ToRead(t) + around[pc[t]]
     ELSE IF pc[t] = "verify" THEN 1 ELSE 0

\* Every step of transfer_payload brings the call nearer to its end, and nothing
\* that other threads do, on a shared stream even, puts the end off: a call of
\* n bytes is over after at most 3 * n + 4 steps.
TransferConverges ==
  [][\A t \in Threads : Active(t) =>
       IF pc'[t] = pc[t] THEN StepsLeft(t)' <= StepsLeft(t)
                         ELSE StepsLeft(t)' < StepsLeft(t)]_vars

\* A call ends, whatever the stream and the sink do short of hanging.
TransferEnds ==
  \A t \in Threads : Active(t) ~> pc[t] = "ended"

-----------------------------------------------------------------------------
(* Refinement: with exclusive streams the registry, the sources and the      *)
(* transfer loop together deliver whole payloads or nothing.                 *)

Delivery == INSTANCE PayloadDelivery WITH
  OneShot <- StreamSources \cup OneShotFactories,
  Data <- [s \in Sources |-> ContentOf(s)],
  taken <- used \ ReplayFactories,
  job <- [t \in Threads |->
            IF Reading(t) \/ pc[t] \in {"factory", "verify"} THEN src[t] ELSE None],
  got <- [t \in Threads |-> IF result[t] = "ok" THEN sink[t] ELSE None]

\* transfer_payload implements the abstract delivery of payloads.
DeliversWholePayloads == Delivery!Spec

=============================================================================
