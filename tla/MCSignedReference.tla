-------------------------- MODULE MCSignedReference --------------------------
(* SignedReference for TLC: a key, a new key, one that reuses its id, and the
   first key with another algorithm. *)
EXTENDS SignedReference

CONSTANTS o1, o2, reader, worker, k1, k2, old, new, sha256, sha512

Signer(id, alg, key) == [keyId |-> id, algorithm |-> alg, secret |-> key]

FourSigners ==
  {Signer(k1, sha256, old), Signer(k1, sha256, new), Signer(k2, sha256, new),
   Signer(k1, sha512, old)}
=============================================================================
