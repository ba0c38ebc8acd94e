SPECIFICATION FairSpec
CONSTANTS
  N = 2
  Retryable = {2}
  RetryCount = 1
  Hasty = {1}
  Failures = {"transient"}
INVARIANTS
  TypeOK
  VerdictSound
  FailureReported
  KeysLeftOnlyByStragglers
PROPERTIES
  VerdictsKept
  Terminates
