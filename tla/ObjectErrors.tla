----------------------------- MODULE ObjectErrors -----------------------------
(***************************************************************************)
(* The failure taxonomy of errors.py: the failures that the package and    *)
(* its targets raise, the kinds of provider failure that an Adapter hands  *)
(* to classify_object_failure, and which failures may be tried again.      *)
(***************************************************************************)

\* ObjectErrorCode, by the names of the classes that carry the codes.
ObjectFailures ==
  {"ObjectInvalidRequest", "ObjectNotFound", "ConditionalConflict",
   "ImmutableObjectConflict", "RetentionDenied", "DigestMismatch",
   "IncompleteUpload", "PayloadUnavailable", "RangeNotSatisfiable",
   "MultipartInvalid", "ObjectCapabilityMismatch", "ObjectAuthenticationFailed",
   "ObjectAuthorizationFailed", "ObjectQuotaExceeded", "ObjectRateLimited",
   "TransferCancelled", "ObjectUnavailable"}

\* _FAILURE_CLASSES
FailureClasses ==
  {<<"authentication", "ObjectAuthenticationFailed">>,
   <<"authorization", "ObjectAuthorizationFailed">>,
   <<"conditional-conflict", "ConditionalConflict">>,
   <<"corruption", "DigestMismatch">>,
   <<"incomplete-upload", "IncompleteUpload">>,
   <<"missing-object", "ObjectNotFound">>,
   <<"quota", "ObjectQuotaExceeded">>,
   <<"rate-limit", "ObjectRateLimited">>,
   <<"retention-denied", "RetentionDenied">>,
   <<"unavailable", "ObjectUnavailable">>}

\* Mutant: a kind that the table lacks is taken for a missing object.
ClassifyUnknownAsMissing(kind) ==
  IF \E f \in FailureClasses : f[1] = kind
    THEN (CHOOSE f \in FailureClasses : f[1] = kind)[2]
    ELSE "ObjectNotFound"

\* classify_object_failure
Classify(kind) ==
  IF \E f \in FailureClasses : f[1] = kind
    THEN (CHOOSE f \in FailureClasses : f[1] = kind)[2]
    ELSE "ObjectUnavailable"

\* The failures constructed with retryable=True.
Retryable(failure) == failure \in {"ObjectRateLimited", "ObjectUnavailable"}

=============================================================================
