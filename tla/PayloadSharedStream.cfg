\* One caller stream registered twice and read by two threads, or read again
\* after a failure: each may get a part only.
SPECIFICATION Spec
CONSTANTS
  t1 = t1
  t2 = t2
  k1 = k1
  k2 = k2
  stream = stream
  stream2 = stream2
  once = once
  replay = replay
  c1 = c1
  None = None
  CallerStreams = {c1}
  StreamOf <- MCStreamOf
  Bytes = {1, 2}
  Threads = {t1, t2}
  Tokens = {k1, k2}
  StreamSources = {stream, stream2}
  OneShotFactories = {}
  ReplayFactories = {}
  Content <- TwoBytes
  Lengths = {2}
  Digests <- WholeOfTwo
  ChunkSizes = {1}
  MaxChunk = 1
INVARIANTS
  VerifiedTransfer
PROPERTIES
  TransferConverges
