CONSTANTS
  WindowTrips = TRUE
  MaxCmds = 4
SPECIFICATION Spec
INVARIANT LockedUnlessRunning
