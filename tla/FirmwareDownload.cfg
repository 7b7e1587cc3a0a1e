SPECIFICATION Spec
CONSTANTS
  Image <- MCImage
  Expected <- MCExpected
  PartSize = 3
  MaxRead = 2
  MaxResume = 2
  MaxAttempts = 2
INVARIANTS TypeOK BootsWhatWasExpected FailsOnlyForCause
