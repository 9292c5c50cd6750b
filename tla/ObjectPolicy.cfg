\* Targets with any of three guarantees, two consumers, the clock around the deadlines.
SPECIFICATION Spec
CONSTANTS
  alice = alice
  bob = bob
  r1 = r1
  None = None
  Clients = {alice, bob}
  Resources = {r1}
  ObjectIds = {1}
  Contents <- TwoVersions
  Lengths = {}
  Ranges = {}
  Limits = {}
  Immutabilities <- SomeImmutabilities
  Retentions <- SomeRetentions
  MaxPage = 1
  Advertised = {"immutability-intent", "retention-intent", "retention-enforcement"}
  AdvertisedLimits <- NoLimits
  Profiles <- SomeProfiles
  MaxTime = 3
SYMMETRY ClientSymmetry
INVARIANTS
  TypeOK
PROPERTIES
  RetentionHonoured
  DenialJustified
  NeverReplaced
