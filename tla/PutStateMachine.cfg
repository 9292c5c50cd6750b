\* Two threads share one machine and request every transition at any time.
SPECIFICATION Spec
CONSTANTS
  uploader = uploader
  canceller = canceller
  None = None
  Unknown = Unknown
  Callers = {uploader, canceller}
INVARIANTS
  TypeOK
  CommittedOnlyAfterVerifying
  VerdictIsFinal
PROPERTIES
  DecidesOnce
