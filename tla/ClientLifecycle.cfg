SPECIFICATION Spec
CONSTANTS
  HookMax = 3
  SuppressMax = 1
INVARIANTS TypeOK OneReleasePerAcquire HoldReleased StaysDown RetryPlanned
