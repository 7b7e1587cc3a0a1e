SPECIFICATION Spec
CONSTANTS
  Build <- MCBuild
  Factory = "factory"
  AuthBuilds <- MCAuth
  None = None
  MaxChanges = 1
INVARIANTS TypeOK  NoOldLogin PollsWhileNeeded
