# A TLA+ model of meridian-storage-object-common

The repository (`src/`) is the provider-neutral layer of the Meridian *object*
catalog. It stores nothing itself: it defines the requests a consumer can make,
checks and normalises them, moves payload bytes between a consumer and an
adapter inside one process, and states the rules (ranges, put states, signed
references, retention) that adapters follow. The paths below are relative to
`src/src/meridian_storage/object_common/`.

## 1. Inventory

| part | state | operations | what makes it correct |
| --- | --- | --- | --- |
| payload sources (`contracts/payloads.py`) | `_consumed` / `_opened`, the stream | `open` | a one-shot source gives its stream to one call ever; a factory's stream is always closed |
| payload registry (`contracts/payloads.py`) | `_sources`: token to source | `register`, `open`, `release` | a handle goes to one caller; no reference consumes a handle it does not match |
| payload transfer (`contracts/payloads.py`) | locals: hash, length | `iter_payload_chunks`, `transfer_payload` | an identity is returned only for bytes that reached the sink and match what was declared |
| put state machine (`contracts/state.py`) | `_state`, `_history` | `state`, `history`, `transition`, `fail` | a put is decided once, and committed only after verification |
| byte ranges (`contracts/ranges.py`) | none (values) | construct, `requested_length`, `resolve` | exactly the requested bytes that exist |
| catalog (`catalog.py`) | the manifest | surface methods, `normalize` | declared expectations reach the transfer; deletes are exact; the idempotent flag is true |
| capabilities (`capabilities.py`) | none | `object_requirement`, `negotiate`, `require` | a request a target cannot meet is not sent to it |
| signed references (`codec/signed.py`) | key | sign, verify | bounded operations, audience, expiry |
| digest accumulator (`codec/digest.py`) | hash, length, `_finished` | `update`, `finish` | one identity per accumulator |
| multipart (`contracts/multipart.py`) | none (records); sessions in an adapter | plan, begin, upload, complete, abort | the parts of a completion are the whole object |
| immutability, retention (`immutability/policy.py`) | none (records) | `effective_immutability`, `permits_delete` | a request never weakens its resource; a retained object stays until its deadline |
| errors (`errors.py`) | none | `classify_object_failure`, `retryable` | a provider failure is no verdict on an object |
| conformance runner (`testing/`) | report | nine checks in order | a passing target meets the contract |
| reference target (`src/tests/_memory_target.py`) | `_objects` | put, get, stat, read_range, list, delete | the baseline the runner is tested on |

How they interact: a consumer registers a source and gets a `PayloadReference`;
it puts that reference in an `Expression`, which `normalize` turns into an
`Operation` with requirements; the composition negotiates these with the
target's manifest and calls the target, which resolves the reference in the
same registry and runs `transfer_payload` into its own sink. For get and
read_range the target is the one that registers a source, and the consumer
transfers it later. The registry, the sources and the put machine are shared by
threads and protected by locks of their own; streams, factories, sinks and
`cancelled` are user code called outside the locks. Adapters, the provider behind
them and whoever repeats an operation are outside the repository.

What is hard here: two threads on one handle, or on one source through two
handles; a stream read halfway by a failed attempt; failures of any of the
calls inside the `with` block; cancellation; stale references; provider
failures before or after the effect; the boundaries of ranges, part counts and
deadlines; parts out of order or repeated; a registry whose truth value changes
with what it holds; state left by an earlier conformance run. `PROJECT.json`
lists these hazards line by line with the properties that cover them.

## 2. Modules

| module | models |
| --- | --- |
| `PayloadTransfer` | sources, registry and transfer, run by several threads |
| `PayloadDelivery` | abstract: a call delivers the whole content of its source or nothing, a one-shot source serves one call |
| `PutStateMachine` | the put state machine shared by several callers |
| `PutOutcome` | abstract: one decision, and none under which bytes exist before the upload began |
| `ByteRange` | range construction and resolution, as operators |
| `ObjectCatalog` | surface, `normalize`, intents, idempotency, requirements, negotiation, as operators |
| `ObjectErrors` | the failure taxonomy and `classify_object_failure`, as operators |
| `ObjectService` | consumers, catalog, negotiation and the in-memory target composed (extends `ObjectCatalog`, `ObjectErrors`), with provider failures and retries |
| `ObjectPolicy` | immutability and retention intents over a running clock (extends `ObjectCatalog`) |
| `Multipart` | part plans, sessions, uploads and completion |
| `Conformance` | the conformance runner against targets with one defect |
| `RegistryComposition` | which registry the two ends of a composition use |
| `SignedReference` | issuing and verifying signed references over a clock and changing keys |
| `PayloadTransferProofs`, `PayloadDeliveryProofs`, `PutStateMachineProofs`, `SignedReferenceProofs`, `ObjectServiceProofs` (with the lemmas on `ByteRange`), `ObjectPolicyProofs`, `MultipartProofs`, `ConformanceProofs` | theorems |
| `MC*` | constants of the TLC instances |

**PayloadTransfer.** `registry`, `used`, `unread`, `openStreams` are the shared
state (`_sources`, the `_consumed`/`_opened` flags, what a stream still holds,
streams not closed yet); `pc` and the functions after it are the frame of each
thread's `transfer_payload`. One action is one lock region or one call of user
code: `BeginTransfer` is the locked lookup of `PayloadRegistry.open`,
`OpenSource` the locked check-and-set of the source, `CallFactory` the factory
call outside the lock, `ReadChunk`/`ReadFails`/`EndOfStream` one `read`,
`CheckCancelled`, `WriteChunk`/`WriteFails` one `write`, `Verify` the checks at
the end. `Leave` is the way out of the `with` block on an exception, close
included; `close()` may raise too. Streams read short, fail or return more than
asked; sinks write short, report more than they were given, or fail after any
prefix. A digest is represented by the bytes it hashes, so SHA-256 is taken to
be injective. A sink whose `write` returns `None` is taken to have written
everything, as the code does. `cancelled()` may raise; once true, it stays
true. `grants`, `opens` and `cancelAt` are
history. A chunk size outside `1..MAX_CHUNK_SIZE` is rejected only when the
generator starts, after the source was opened, and so spends a one-shot payload
(`RejectSize`): no document says otherwise.

**PutStateMachine.** Every method is one lock region, one action. `view`,
`snapshot` and `reply` record what callers have seen. `fail` is a `transition`
to its target, so it can be refused.

**ObjectCatalog, ObjectService.** Expressions are records with the fields that
some property tells apart; both surface-built and hand-written puts are
submitted. `Accepts` is the validation, `Normalize` the rewriting of put's
payload reference, `Idempotent`, `Guarantees` and `MinimumLimits` the rest of
the Operation, `Supported` the negotiation. A target step (`ExecutePut`,
`ExecuteDelete`, `ExecuteRead`, `ExecuteList`) is one call of the target's
`execute`, in one step: the in-memory target is a fixture for one thread at a
time and has no locks, so what it checks (`createOnly`, the version to delete)
still holds when it stores or removes. An adapter that serves several consumers
at once has to make these steps atomic for the properties to carry over. Payload
transfers in it have the outcomes that `PayloadDelivery`
promises, with factories that may yield different bytes at each call. The
provider may fail before an Operation does anything (`ExecuteFails`) or on the
way back, after its effect (`Answered`); the consumer hears the failure as
`classify_object_failure` maps it, unknown kinds included. `Retry` repeats the
Operation when that failure is retryable and the Operation is marked
idempotent; who repeats it is outside the repository (external). `Fetch` is the
consumer's transfer of the handle, at any later time; the conformance runner is
the one consumer in the repository, and stands for all.

**ObjectPolicy.** A put carries an immutability and a retention intent, valid or
not, into a resource with a profile. `Submit` is `normalize` and the
negotiation with a target that advertises some of the guarantees, whichever
(`advertised`). The adapter is external: it calls `effective_immutability`
(`Selected`, `Weakens`), does not replace an immutable object, and calls
`require_delete_allowed` (`DeleteAllowed`) if it advertises
`retention-enforcement`; the memory target of the tests does none of this. An
instant is a number, a retention's logical policy is
there or not. Replacing a mutable object replaces its retention as well: the
repository has no rule for it.

**Multipart.** `ValidPlan` is `MultipartLimits.validate` for a known length,
`CompletionAccepts` the checks of `MultipartCompletion`: `InOrder` is Python's
stable sort (each part goes where its rank says), `ByteLength` the sum. The adapter is external
and minimal: it keeps the last upload of each number and knows the verification
tokens it gave for these. An upload may be truncated and its answer lost; the
uploader completes with any of its receipts, in any order, repeated or stale.
Bytes are positions and a digest stands for its bytes.

**Conformance.** `Start` makes a new runner and resets the target; then nine
actions, one per check, in the order of `run`. The target is
`tests/_memory_target.py` with at most one of fourteen defects and any earlier
content. A failed check only leaves a mark, as in `_check` and `_expected`.

**RegistryComposition.** `Truthy` is what Python makes of a registry in
`registry or default`: `__bool__` of the default registry, `__len__` of others.
The constructors are those that the comment in `_DefaultPayloadRegistry` names;
they are outside the repository and external.

**SignedReference.** `now` and `signer` are the environment of `verify`;
`issued` is what `sign_object_reference` returned. `Verify` takes the signature
of an issued reference with any claims, which covers intact and altered copies,
and runs the checks of `verify` in their order, the first of which compares key
id and algorithm with those of the signer. A signature stands for the secret,
the algorithm and the claims it was made from; `HmacSha256Key` is the only
signer here, but `verify` takes any `ReferenceSigner`, so signers with another
algorithm are among those that may follow. `verify` ignores the nonce, so a
reference can be used any number of times; the model leaves the nonce out.

## 3. Runs

| run | instance | checks |
| --- | --- | --- |
| `payload_race` | 2 threads, 2 tokens, a stream, a one-shot and a replayable factory of 2 bytes, chunks of 1 | `HandleGrantedOnce`, `OneShotOpenedOnce`, `UnavailableOnlyWhenTaken`, `CompleteContent`, `FactoryStreamsClosed`, refinement `DeliversWholePayloads` |
| `payload_limits` | 1 thread, 3 bytes, lengths 0..4, chunk sizes 0..4 with maximum 3, right and wrong digests | `TypeOK`, `SinkBound`, `CancelBound`, liveness `TransferEnds` |
| `payload_shared_stream` | 2 threads, two sources over one caller stream | `VerifiedTransfer`, `TransferConverges` |
| `put_machine` | 2 callers, every request at any time | `TypeOK`, `CommittedOnlyAfterVerifying`, `VerdictIsFinal`, refinement `DecidesOnce` |
| `service_race` | 2 consumers on 1 object with 2 versions, declared lengths and digests, four ranges, some of them past the shorter version; failures `unavailable`, `quota` and the unknown `timeout` | `PinnedReads`, `StoredAsDeclared`, `RetryHarmless`, `VerdictsAreTrue` |
| `service_requests` | 1 consumer, 2 resources with 2 ids, an empty and a 3-byte version, 27 ranges valid and not, 3 page sizes; failures `rate-limit`, `missing-object` | `TypeOK`, `LimitsHonoured`, `PinnedReads`, `ExactVersionDelete`, `RangeVerdicts` |
| `signed_references` | 2 objects, 2 audiences, 2 expiries, clock 0..2, 4 signers of which three share a key id and one has another algorithm, 1 reference issued | `AcceptedAsIssued`, `UsableUntilExpiry` |
| `object_policy` | 2 consumers, 1 object with 2 versions, 3 profiles, 4 immutability and 5 retention intents, every subset of the 3 guarantees, clock 0..3 around deadlines 1 and 2 | `TypeOK`, `RetentionHonoured`, `DenialJustified`, `NeverReplaced` |
| `multipart` | parts of 2 to 3 bytes, at most 3 of them, lengths 0, 1, 4, 5 and 7, part sizes 0..4, 4 uploads | `PlanCovers`, `AcceptsExactlyWhole`, `ObjectIntact` |
| `conformance` | 14 defects or none, any earlier content, 2 runs | `NoFalseAlarm`, `DefectsFound`, `PassLeavesNoFixture` |
| `conformance_promise` | the same | violates `VerifiesListAndDelete` |
| `registry_shared` | 2 ends, the default, an explicit and a private registry, 2 tokens | violates `ExplicitShared` |

What they show, beyond the names:

- Two opens, or an open and a release, of one handle have one winner, and a
  reference that does not match its source leaves the handle where it is
  (`HandleGrantedOnce`). The registry cannot see one source under two tokens;
  the source's own flag can (`OneShotOpenedOnce`).
- Without any declared expectation a successful transfer is still complete
  (`CompleteContent`) provided no second `StreamPayloadSource` wraps the same
  stream. If one does, a transfer may carry a tail only: declare a digest or a
  length, and it is caught (`VerifiedTransfer`).
- The declared length bounds the sink only up to one further chunk
  (`SinkBound`), and one chunk may follow a cancellation (`CancelBound`); a
  cancellation after the last chunk has no effect.
- A call of n bytes is over after at most 3n + 4 steps, and a second reader of
  the same stream can only make it fewer (`TransferConverges`): a short write
  ends a call, it is never tried again.
- A put with `createOnly` or a digest can be repeated (`RetryHarmless`); the
  property speaks of a repetition that no other consumer's change precedes. A
  late retry after another consumer's put or delete does overwrite or recreate
  the object, which the contract does not exclude.
- Deletes stay exact although the target takes a missing digest for any
  version, because `normalize` insists on one (`ExactVersionDelete`).
- An open-ended range carries no limit; `LimitsHonoured` excludes it.
- Ranges at the edges of an object: one that ends past it is cut, a suffix longer
  than it is all of it, one that starts past it or meets an empty object is
  refused, and nothing else is (`RangeVerdicts`); what is served is exactly the
  bytes asked for (`PinnedReads`). A long suffix needs an object shorter than
  the target's range limit, which `service_race` has; `service_requests` has an
  empty one and one longer than the limit.
- An unknown kind of failure becomes a retryable `ObjectUnavailable` even after
  the effect; nothing else would be right, as any other class either hides the
  object's state or asserts one (`VerdictsAreTrue`), and the idempotent flag
  makes the repetition safe (`RetryHarmless`).
- A retention that must be enforced is honoured by every target, also by one
  that would delete anything it is asked to: such a target does not advertise
  enforcement, so it never gets the put (`RetentionHonoured`). A named policy without a deadline never
  permits a delete, one with a deadline permits it from that instant on
  (`DenialJustified`).
- Numbers without a gap and lengths that add up are enough to tell a whole
  object from any other list of receipts, given that no part exceeds its planned
  size and the adapter knows its tokens (`AcceptsExactlyWhole`).

### Disagreements between documents and code

- The README of the repository says the conformance runner verifies "bounded
  prefix listing" and "exact-version delete". The list check sees a target with
  a single, matching object, and the only delete names the stored version, so
  targets that ignore prefix, limit or version pass (`conformance_promise`).
  The defect `reset-keeps-objects` is found only when something was left
  behind; no document claims more.
- `docs/contracts.md` asks custom compositions to "share one instance at both
  ends". An explicit registry is falsy while empty, so an end constructed by
  `registry or default` before the first registration does not use it
  (`registry_shared`); the default registry alone is protected, by its
  `__bool__`.

**Bounds.** Each is a constant: two threads and two tokens are enough for every
pair of racing calls and for one source under two handles; two bytes in chunks
of one give a state before, between and after the chunks, three bytes with
chunk sizes around three give every comparison at its boundary. The number of
tokens bounds registrations. Two versions make a stale reference; a second
resource makes a foreign one. `MaxTime` passes every deadline by one; with three
parts of two or three bytes there is a first, a middle and a short last part,
and lengths on both sides of the limit; `MaxUploads` leaves one repetition with
three parts and more with fewer. `MaxRuns` is two, for a run and one after it.
Nothing else is bounded: threads call `transfer_payload`, and consumers submit,
as often as they like.

**Fairness.** Only `TransferEnds` needs it: weak fairness of `Step(t)` for each
thread inside a call. It says that streams, factories, sinks and locks return,
without which Python gives no guarantee either. Nobody is obliged to start a
call, to cancel or to release. A short `read` always returns at least one byte
before the end of the stream, as the end is what an empty chunk means to the
code, and streams are finite.

Deadlock is checked in every run but those of `Conformance`, where the last run
ends.

## 4. Proofs

All theorems hold for every value of the constants that meet the named
assumptions: disjoint sets of sources, sentinels that are not values, lengths
and sizes in `Nat`.

- `PayloadTransferProofs`: `Typed`, `HandlesGrantedOnce`, `OneShotsOpenedOnce`,
  `RefusedOnlyWhenTaken`, `TransfersAreVerified`, `TransfersAreComplete`. The
  inductive invariant has one part per question. `RegistryInv` ties the grants
  of a token to its being registered. `SourceInv` ties the opens of a source to
  its flag, since the flag is what the code tests. `DataInv` says that within
  the loop, sink, hash and length agree, which is what short writes endanger.
  `ContentInv` is needed for completeness: the one call that reads an exclusive
  source (`AloneInv`) has, in sink, chunk and stream together, its content
  (`SentInv`), and an unused source's stream is untouched (`FreshInv`).
- `PayloadDeliveryProofs`: `Refinement`, when no stream is wrapped twice: a
  step of the threads is a start, a delivery, a failure or a stutter of
  `PayloadDelivery`. It uses the invariants above.
- `PutStateMachineProofs`: `Typed`, `CommitPath`, `Final`, `Refinement`. The
  inductive invariant lists the paths of the transition table with the state at
  their end (`PathOK`); without it a history of four entries could not be
  excluded from growing.
- `SignedReferenceProofs`: `OnlyIssuedAccepted` and `IssuedUsable`, from the
  invariant that an issued reference is its claims and a signature over exactly
  them, with the algorithm they name (`IssuedOK`): then a signature that verifies over the claims presented
  was made over them.
- `PayloadTransferProofs`, continued: `SinkBounded` and `CancelBounded` from
  `BoundInv`: a running call has not passed the declared length, and the one
  write that may follow a cancellation starts from the bytes there were at it.
  `StreamsAreClosed` from `StreamInv`: a factory's stream is open exactly while
  its call is inside the `with` block. `TransfersConverge` needs no invariant but
  the types: `StepsLeft`, three steps for each unread byte and those around them,
  falls with each step of the call itself (`OwnStep`) and does not rise with
  another's (`OthersStep`). It is the safety half of `TransferEnds`: all that
  is left to fairness is that a call which is not over takes a step.
- `ObjectServiceProofs`: all properties of `ObjectService`. The inductive
  invariant is `Typed` and, for each consumer, `ClientOK`: its call is an
  accepted, supported Operation (`CallOK`); what was declared is on the payload
  reference (`DeclaredOK`, needed because the target only sees the reference);
  its handle holds a version that matched the reference (`Served`); what it got
  came from that handle (`GotOK`); and the effect recorded is one that the call
  may have (`EffectOK`, needed for retries: a put that takes effect twice has a
  digest, so it leaves the same bytes). `PinnedReads` and `RangeVerdicts` use
  `ResolveExact`; this theorem and `ResolveWithinRequest` are arithmetic over all
  ranges and lengths.
- `ObjectPolicyProofs`: `Typed`, `RetentionHolds`, `DenialsJustified`,
  `StrongProfilesHold`, for a target with any guarantees. The invariant adds to the types that a stored retention
  which must be enforced is on a target that advertises it, and that objects of
  strong profiles are stored with an immutable intent: neither is visible when
  the later delete or put is executed.
- `MultipartProofs`: `PlansCover`, from arithmetic lemmas on the ceiling
  division, for all lengths, sizes and limits; `CompletionExact` and
  `ObjectsIntact`, for plans of any number of parts. The inductive invariant
  `SessionInv` says what a session has: a receipt carries its part or its part
  cut short, and one whose token is the stored one carries the stored bytes
  (tokens are not reused, so a stale receipt is told from the current one).
  From it, accepted parts are one per number
  (`InOrderSorts`, `InOrderPlaces`: the order by rank is a permutation, sorted),
  the first n of them have at most `LastByte(n)` bytes, and fewer than that once
  one was truncated or one is missing; so a sum that is the Object's length means
  that nothing is (`AcceptedWhole`). The sum and the concatenation are recursive
  functions over the parts. That such a function exists and is unique
  (`RecursionExists`, `RecursionUnique`), and what it computes, are proved by
  induction over *sets* of numbers (`InductionSet`, from the well-foundedness of
  `<` on `Nat`), which needs no operator as a parameter.
- `ConformanceProofs`: `NeverFalseAlarm`, `DefectsAreFound` and
  `PassesLeaveNoFixture`. As a failed check does not stop the run, the invariant
  cannot just follow the good path: `Faultless` says what a target without a
  defect and the runner hold after each check, while `ReadsShown`,
  `RefusalsShown` and `DeleteShown` say, for every target, which defects a check
  that passed has excluded and what must then be in the target for the later
  ones to count (a delete is told from one that does nothing only by the last
  check, and only if the put took place).

Only model-checked: `TransferEnds`, since liveness and ENABLED are out of the
prover's reach (its variant is proved, see `TransfersConverge`). The two
violated properties are false, so there is nothing to prove.

## 5. Not modelled

Single-value validation (`_validation.py`), packaged documents
(`documents.py`), JSON schemas, scripts, re-exports: no state, no interaction.
`publish_schema` and `create_resource` only validate single values. The
serialised form of every record, the HMAC and SHA-256 themselves are data.

Left out of modelled parts: user metadata and its limit, `list`'s cursor (opaque
here), the nonce of signed references, a session's expiry (no code reads it),
and part counts of uploads of unknown length (`MultipartLimits.validate` returns
before it counts; the adapter has to).

A chunk size out of bounds spends a one-shot payload; no document says it does
not, so no property forbids it.

`codec/digest.py`: `Sha256Accumulator` is a sequential object with one flag, and
nothing else in the package uses it (`transfer_payload` hashes for itself).

With these exceptions every part of the repository that keeps state, or decides
about it, is modelled.
