SPECIFICATION Spec
CONSTANTS
  MaxInputCommands = 2
  Viewport = 3
INVARIANT ReleaseReleasesKeys
CHECK_DEADLOCK FALSE
