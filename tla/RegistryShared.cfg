\* A consumer and an adapter, the default and an explicit registry.
SPECIFICATION Spec
CONSTANTS
  None = None
  d = d
  e1 = e1
  p1 = p1
  consumer = consumer
  adapter = adapter
  t1 = t1
  t2 = t2
  Default = d
  Explicit = {e1}
  Private = {p1}
  Ends = {consumer, adapter}
  Tokens = {t1, t2}
INVARIANTS
  ExplicitShared
