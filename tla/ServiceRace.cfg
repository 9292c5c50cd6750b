\* Two consumers on one object: stale references, provider failures and retries.
SPECIFICATION Spec
CONSTANTS
  alice = alice
  bob = bob
  r1 = r1
  r2 = r2
  None = None
  Clients = {alice, bob}
  FailureKinds = {"unavailable", "quota", "timeout"}
  Resources = {r1}
  ObjectIds = {1}
  Contents <- TwoVersions
  Lengths = {1}
  Ranges <- FewRanges
  Limits = {1}
  Immutabilities = {}
  Retentions = {}
  MaxPage = 1
  Advertised = {"conditional-create", "signed-reference"}
  AdvertisedLimits <- SmallLimits
SYMMETRY ClientSymmetry
INVARIANTS
  PinnedReads
PROPERTIES
  StoredAsDeclared
  RetryHarmless
  VerdictsAreTrue
