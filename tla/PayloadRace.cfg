\* Two threads race over handles of one-shot and replayable sources, which may
\* be aliased: one source registered under both tokens.
SPECIFICATION Spec
CONSTANTS
  t1 = t1
  t2 = t2
  k1 = k1
  k2 = k2
  stream = stream
  stream2 = stream2
  once = once
  replay = replay
  c1 = c1
  None = None
  CallerStreams = {c1}
  StreamOf <- MCStreamOf
  Bytes = {1, 2}
  Threads = {t1, t2}
  Tokens = {k1, k2}
  StreamSources = {stream}
  OneShotFactories = {once}
  ReplayFactories = {replay}
  Content <- TwoBytes
  Lengths = {}
  Digests = {}
  ChunkSizes = {1}
  MaxChunk = 1
INVARIANTS
  HandleGrantedOnce
  OneShotOpenedOnce
  UnavailableOnlyWhenTaken
  CompleteContent
  FactoryStreamsClosed
PROPERTIES
  DeliversWholePayloads
