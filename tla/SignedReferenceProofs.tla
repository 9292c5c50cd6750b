------------------------ MODULE SignedReferenceProofs ------------------------
(* Proofs about SignedReference, for any keys, claims and clock. *)
EXTENDS SignedReference, TLAPS

\* Every issued reference is its claims and a signature over these claims, made
\* with the algorithm that they name.
IssuedOK ==
  \A r \in issued :
    /\ r = [claims |-> r.claims, signature |-> r.signature]
    /\ r.signature = [secret |-> r.signature.secret, algorithm |-> r.claims.algorithm,
                      over |-> r.claims]

IInv == IssuedOK /\ AcceptedAsIssued

\* verify says ok only when all of its checks pass.
LEMMA OutcomeOK ==
  ASSUME NEW claims, NEW signature, NEW operation, NEW audience,
         Outcome(claims, signature, operation, audience) = "ok"
  PROVE  /\ operation \in claims.allowedOperations
         /\ audience = claims.audience
         /\ ~Expired(claims)
         /\ signature = Sign(signer, claims)
BY DEF Outcome

\* Issuing keeps the references intact.
LEMMA IssueStep ==
  ASSUME IssuedOK, NEW claims \in Claims, Issue(claims)
  PROVE  IssuedOK'
<1> DEFINE new == [claims |-> claims, signature |-> Sign(signer, claims)]
<1>1. /\ new = [claims |-> new.claims, signature |-> new.signature]
      /\ new.signature = [secret |-> new.signature.secret, algorithm |-> new.claims.algorithm,
                         over |-> new.claims]
  BY DEF Issue, Sign, SignedClaims
<1>2. issued' = issued \cup {new}
  BY DEF Issue
<1> HIDE DEF new
<1> QED BY <1>1, <1>2 DEF IssuedOK

\* What verify accepts has the claims that were signed, so it is the reference
\* that was issued.
LEMMA VerifyStep ==
  ASSUME IssuedOK, now \in Nat, NEW ref \in issued, NEW claims \in Claims,
         NEW operation, NEW audience,
         Verify(ref, claims, operation, audience)
  PROVE  AcceptedAsIssued'
<1> DEFINE outcome == Outcome(claims, ref.signature, operation, audience)
<1>1. /\ verdict'.claims = claims
      /\ verdict'.signature = ref.signature
      /\ verdict'.signer = signer
      /\ verdict'.operation = operation
      /\ verdict'.audience = audience
      /\ verdict'.at = now
      /\ verdict'.outcome = outcome
      /\ issued' = issued
  BY DEF Verify
<1> SUFFICES ASSUME outcome = "ok"
             PROVE  /\ AsIssued(verdict)'
                    /\ WithinClaims(verdict)'
                    /\ verdict'.signature.secret = verdict'.signer.secret
                    /\ verdict'.signature.algorithm = verdict'.signer.algorithm
  BY <1>1 DEF AcceptedAsIssued
<1>2. /\ operation \in claims.allowedOperations /\ audience = claims.audience
      /\ ~Expired(claims) /\ ref.signature = Sign(signer, claims)
  BY OutcomeOK
<1>3. /\ ref.signature.secret = signer.secret /\ ref.signature.algorithm = signer.algorithm
      /\ ref.signature.over = claims
  BY <1>2 DEF Sign, SignedClaims
<1>4. ref.claims = claims /\ ref = [claims |-> claims, signature |-> ref.signature]
  <2>1. /\ ref = [claims |-> ref.claims, signature |-> ref.signature]
        /\ ref.signature = [secret |-> ref.signature.secret, algorithm |-> ref.claims.algorithm,
                           over |-> ref.claims]
    BY DEF IssuedOK
  <2>2. ref.signature.over = ref.claims
    BY <2>1
  <2> QED BY <1>3, <2>1, <2>2
<1>5. AsIssued(verdict)'
  BY <1>1, <1>4 DEF AsIssued
<1>6. now < claims.expiresAt
  <2>1. claims.expiresAt \in Nat
    BY SignedAssumption DEF Claims
  <2> QED BY <1>2, <2>1 DEF Expired
<1>7. WithinClaims(verdict)'
  BY <1>1, <1>2, <1>6 DEF WithinClaims
<1> QED BY <1>1, <1>3, <1>5, <1>7

\* The clock counts.
LEMMA Clock == Spec => [](now \in Nat)
<1>1. Init => now \in Nat
  BY DEF Init
<1>2. now \in Nat /\ [Next]_vars => (now \in Nat)'
  BY DEF Next, Tick, Rotate, Issue, Verify, vars
<1> QED BY <1>1, <1>2, PTL DEF Spec

\* In every behaviour, with any keys and rotations, verify accepts only
\* references that were issued with the claims presented, under the secret and
\* the algorithm in use, before their expiry.
THEOREM OnlyIssuedAccepted == Spec => []AcceptedAsIssued
<1>1. Init => IInv
  BY DEF Init, IInv, IssuedOK, AcceptedAsIssued
<1>2. now \in Nat /\ IInv /\ [Next]_vars => IInv'
  <2> SUFFICES ASSUME now \in Nat, IInv, [Next]_vars PROVE IInv'
    OBVIOUS
  <2>1. CASE Tick
    BY <2>1 DEF Tick, IInv, IssuedOK, AcceptedAsIssued
  <2>2. ASSUME NEW s \in Signers, Rotate(s) PROVE IInv'
    BY <2>2 DEF Rotate, IInv, IssuedOK, AcceptedAsIssued
  <2>3. ASSUME NEW claims \in Claims, Issue(claims) PROVE IInv'
    BY <2>3, IssueStep DEF Issue, IInv, AcceptedAsIssued
  <2>4. ASSUME NEW ref \in issued, NEW claims \in Claims,
               NEW operation \in ReadOperations \cup OtherOperations,
               NEW audience \in Audiences, Verify(ref, claims, operation, audience)
        PROVE  IInv'
    BY <2>4, VerifyStep DEF Verify, IInv, IssuedOK
  <2>5. CASE UNCHANGED vars
    BY <2>5 DEF vars, IInv, IssuedOK, AcceptedAsIssued, AsIssued, WithinClaims
  <2> QED BY <2>1, <2>2, <2>3, <2>4, <2>5 DEF Next
<1>3. IInv => AcceptedAsIssued
  BY DEF IInv
<1> QED BY <1>1, <1>2, <1>3, Clock, PTL DEF Spec

\* A reference that verify refuses fails one of its checks.
LEMMA UsableStep ==
  ASSUME IssuedOK, now \in Nat, NEW ref \in issued, NEW claims \in Claims,
         NEW operation, NEW audience,
         Verify(ref, claims, operation, audience)
  PROVE  UsableUntilExpiry'
<1>1. /\ verdict'.claims = claims
      /\ verdict'.signature = ref.signature
      /\ verdict'.signer = signer
      /\ verdict'.operation = operation
      /\ verdict'.audience = audience
      /\ verdict'.at = now
      /\ verdict'.outcome = Outcome(claims, ref.signature, operation, audience)
      /\ issued' = issued
  BY DEF Verify
<1> SUFFICES ASSUME AsIssued(verdict)', WithinClaims(verdict)',
                    ref.signature.secret = signer.secret,
                    claims.keyId = signer.keyId, claims.algorithm = signer.algorithm
             PROVE  Outcome(claims, ref.signature, operation, audience) = "ok"
  BY <1>1 DEF UsableUntilExpiry
<1> DEFINE arrived == [claims |-> claims, signature |-> ref.signature]
<1>2. arrived \in issued
  BY <1>1 DEF AsIssued
<1>3. arrived.claims = claims /\ arrived.signature = ref.signature
  OBVIOUS
<1>4. ref.signature = [secret |-> ref.signature.secret, algorithm |-> claims.algorithm,
                         over |-> claims]
  BY <1>2, <1>3 DEF IssuedOK
<1>5. ref.signature = Sign(signer, claims)
  BY <1>4 DEF Sign, SignedClaims
<1>6. operation \in claims.allowedOperations /\ audience = claims.audience
  BY <1>1 DEF WithinClaims
<1>7. ~Expired(claims)
  <2>1. claims.expiresAt \in Nat /\ now < claims.expiresAt
    BY <1>1, SignedAssumption DEF Claims, WithinClaims
  <2> QED BY <2>1 DEF Expired
<1> QED BY <1>5, <1>6, <1>7 DEF Outcome

\* In every behaviour, a reference that arrives as issued, for a use within its
\* claims and with its key still in use, is accepted by verify until it expires.
THEOREM IssuedUsable == Spec => []UsableUntilExpiry
<1> DEFINE Inv == IssuedOK /\ UsableUntilExpiry
<1>1. Init => Inv
  BY DEF Init, IssuedOK, UsableUntilExpiry
<1>2. now \in Nat /\ Inv /\ [Next]_vars => Inv'
  <2> SUFFICES ASSUME now \in Nat, Inv, [Next]_vars PROVE Inv'
    OBVIOUS
  <2>1. CASE Tick
    BY <2>1 DEF Tick, IssuedOK, UsableUntilExpiry
  <2>2. ASSUME NEW s \in Signers, Rotate(s) PROVE Inv'
    BY <2>2 DEF Rotate, IssuedOK, UsableUntilExpiry
  <2>3. ASSUME NEW claims \in Claims, Issue(claims) PROVE Inv'
    BY <2>3, IssueStep DEF Issue, UsableUntilExpiry
  <2>4. ASSUME NEW ref \in issued, NEW claims \in Claims,
               NEW operation \in ReadOperations \cup OtherOperations,
               NEW audience \in Audiences, Verify(ref, claims, operation, audience)
        PROVE  Inv'
    BY <2>4, UsableStep DEF Verify, IssuedOK
  <2>5. CASE UNCHANGED vars
    BY <2>5 DEF vars, IssuedOK, UsableUntilExpiry, AsIssued, WithinClaims
  <2> QED BY <2>1, <2>2, <2>3, <2>4, <2>5 DEF Next
<1>3. Inv => UsableUntilExpiry
  OBVIOUS
<1> QED BY <1>1, <1>2, <1>3, Clock, PTL DEF Spec

=============================================================================
