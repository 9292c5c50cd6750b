\* One caller, every expectation and chunk size around the content's length.
SPECIFICATION FairSpec
CONSTANTS
  t1 = t1
  t2 = t2
  k1 = k1
  k2 = k2
  stream = stream
  stream2 = stream2
  once = once
  replay = replay
  c1 = c1
  None = None
  CallerStreams = {c1}
  StreamOf <- MCStreamOf
  Bytes = {1, 2}
  Threads = {t1}
  Tokens = {k1}
  StreamSources = {stream}
  OneShotFactories = {}
  ReplayFactories = {replay}
  Content <- ThreeBytes
  Lengths = {0, 1, 2, 3, 4}
  Digests <- WholeOrTail
  ChunkSizes = {0, 1, 2, 3, 4}
  MaxChunk = 3
INVARIANTS
  TypeOK
  SinkBound
  CancelBound
PROPERTIES
  TransferEnds
