CONSTANTS
  WindowTrips = FALSE
  MaxCmds = 4
SPECIFICATION Spec
INVARIANTS LockInv LockedUnlessRunning OpenOutputsAreLive
PROPERTY ImplementsPromise
