\* One consumer, two resources, every reference, range and page size.
SPECIFICATION Spec
CONSTANTS
  alice = alice
  bob = bob
  r1 = r1
  r2 = r2
  None = None
  Clients = {alice}
  FailureKinds = {"rate-limit", "missing-object"}
  Resources = {r1, r2}
  ObjectIds = {1, 2}
  Contents <- EmptyOrThree
  Lengths = {3}
  Ranges <- AllRanges
  Limits = {0, 1, 2}
  Immutabilities = {}
  Retentions = {}
  MaxPage = 2
  Advertised = {"conditional-create"}
  AdvertisedLimits <- SmallLimits
INVARIANTS
  TypeOK
  LimitsHonoured
  PinnedReads
PROPERTIES
  ExactVersionDelete
  RangeVerdicts
