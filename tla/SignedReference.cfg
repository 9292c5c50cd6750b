\* One reference, two audiences, a clock that passes its expiry, rotations.
SPECIFICATION Spec
CONSTANTS
  o1 = o1
  o2 = o2
  reader = reader
  worker = worker
  k1 = k1
  k2 = k2
  old = old
  new = new
  sha256 = sha256
  sha512 = sha512
  None = None
  ObjectRefs = {o1, o2}
  ReadOperations = {"get", "stat"}
  OtherOperations = {"delete"}
  Audiences = {reader, worker}
  Signers <- FourSigners
  Expiries = {1, 2}
  MaxTime = 2
  MaxIssued = 1
INVARIANTS
  AcceptedAsIssued
  UsableUntilExpiry
