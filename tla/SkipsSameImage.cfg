SPECIFICATION Spec
CONSTANTS
  Build <- MCBuild
  Factory = "factory"
  AuthBuilds <- MCBuild
  None = None
  MaxChanges = 1
INVARIANT SkipsSameImage
