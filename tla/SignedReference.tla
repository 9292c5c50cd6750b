--------------------------- MODULE SignedReference ---------------------------
(***************************************************************************)
(* Signed Object references of codec/signed.py: an issuer signs claims     *)
(* with its signer, copies travel as plain mappings and may arrive         *)
(* altered, and SignedObjectReference.verify checks them against the       *)
(* signer in use and the clock, both of which move on.                     *)
(*                                                                         *)
(* A signature is represented by the secret and the claims it was computed *)
(* from (HMAC-SHA256 over canonical JSON is taken to be injective and out  *)
(* of reach without the secret).  The nonce is left out: verify does not   *)
(* look at it.                                                             *)
(***************************************************************************)
EXTENDS Naturals, FiniteSets

CONSTANTS
  ObjectRefs,      \* digest-pinned ObjectReferences
  ReadOperations,  \* SIGNED_REFERENCE_OPERATIONS
  OtherOperations, \* operations no reference may permit
  Audiences,
  Signers,         \* records [keyId, algorithm, secret]: what a composition may sign with
  Expiries,        \* expiry instants
  MaxTime,         \* bound on the clock
  MaxIssued,       \* bound on the number of references issued
  None

ASSUME SignedAssumption ==
  /\ ReadOperations \cap OtherOperations = {}
  /\ Expiries \subseteq Nat
  /\ MaxTime \in Nat
  /\ MaxIssued \in Nat

KeyIds == {s.keyId : s \in Signers}
Algorithms == {s.algorithm : s \in Signers}

\* What a SignedObjectReference can claim: some of the read operations.
Claims ==
  [objectRef : ObjectRefs, allowedOperations : SUBSET ReadOperations \ {{}},
   expiresAt : Expiries, audience : Audiences, keyId : KeyIds, algorithm : Algorithms]

VARIABLES
  now,     \* the clock
  signer,  \* the signer of the composition
  issued,  \* references that sign_object_reference returned
  verdict  \* the verification just made, or None

vars == <<now, signer, issued, verdict>>

\* Mutant: claims() leaves the audience out.
ClaimsWithoutAudience(claims) == [claims EXCEPT !.audience = None]

\* The claims that the signature covers.
SignedClaims(claims) == claims

Sign(s, claims) ==
  [secret |-> s.secret, algorithm |-> s.algorithm, over |-> SignedClaims(claims)]

Init ==
  /\ now = 0
  /\ signer \in Signers
  /\ issued = {}
  /\ verdict = None

Tick ==
  /\ now < MaxTime
  /\ now' = now + 1
  /\ verdict' = None
  /\ UNCHANGED <<signer, issued>>

\* Another key or algorithm is provisioned, with a new key id or, carelessly, the
\* old one.
Rotate(s) ==
  /\ s # signer
  /\ signer' = s
  /\ verdict' = None
  /\ UNCHANGED <<now, issued>>

\* sign_object_reference; an expiry in the past is not refused.
Issue(claims) ==
  /\ Cardinality(issued) < MaxIssued
  /\ claims.keyId = signer.keyId
  /\ claims.algorithm = signer.algorithm
  /\ issued' = issued \cup {[claims |-> claims, signature |-> Sign(signer, claims)]}
  /\ verdict' = None
  /\ UNCHANGED <<now, signer>>

\* Mutant: a margin for clock skew is taken from the lifetime.
ExpiredEarly(claims) == now + 1 >= claims.expiresAt

Expired(claims) == now >= claims.expiresAt

\* verify: the checks in their order.
Outcome(claims, signature, operation, audience) ==
  IF signer.keyId # claims.keyId \/ signer.algorithm # claims.algorithm
    THEN "key identity does not match"
  ELSE IF operation \notin claims.allowedOperations THEN "operation not permitted"
  ELSE IF audience # claims.audience THEN "audience does not match"
  ELSE IF Expired(claims) THEN "expired"
  ELSE IF signature # Sign(signer, claims) THEN "signature is invalid"
  ELSE "ok"

\* A copy of an issued reference arrives, its claims as issued or altered on
\* the way, and is presented for an operation.
Verify(ref, claims, operation, audience) ==
  /\ verdict = None
  /\ verdict' = [claims |-> claims, signature |-> ref.signature, signer |-> signer,
                 operation |-> operation, audience |-> audience, at |-> now,
                 outcome |-> Outcome(claims, ref.signature, operation, audience)]
  /\ UNCHANGED <<now, signer, issued>>

Next ==
  \/ Tick
  \/ \E s \in Signers : Rotate(s)
  \/ \E claims \in Claims : Issue(claims)
  \/ \E ref \in issued, claims \in Claims,
        operation \in ReadOperations \cup OtherOperations, audience \in Audiences :
       Verify(ref, claims, operation, audience)

Spec == Init /\ [][Next]_vars

-----------------------------------------------------------------------------
(* Properties *)

\* The reference that was verified is, claim for claim, one that was issued.
AsIssued(v) == [claims |-> v.claims, signature |-> v.signature] \in issued

\* The use that was asked for is within the claims, and the clock within them.
WithinClaims(v) ==
  /\ v.operation \in v.claims.allowedOperations
  /\ v.audience = v.claims.audience
  /\ v.at < v.claims.expiresAt

\* verify accepts a reference only if it was issued with exactly these claims,
\* under the secret and algorithm that are in use now, and only for what they
\* permit: an altered copy, an expired one, or one from before a rotation is
\* refused, even when the new key took the old key's id.
AcceptedAsIssued ==
  verdict # None /\ verdict.outcome = "ok" =>
    /\ AsIssued(verdict)
    /\ WithinClaims(verdict)
    /\ verdict.signature.secret = verdict.signer.secret
    /\ verdict.signature.algorithm = verdict.signer.algorithm

\* Conversely, a reference that arrives as issued works until it expires, as
\* long as the key that signed it is in use.
UsableUntilExpiry ==
  verdict # None /\ AsIssued(verdict) /\ WithinClaims(verdict)
    /\ verdict.signature.secret = verdict.signer.secret
    /\ verdict.claims.keyId = verdict.signer.keyId
    /\ verdict.claims.algorithm = verdict.signer.algorithm
  => verdict.outcome = "ok"

=============================================================================
