CONSTANTS
  WindowTrips = TRUE
  MaxCmds = 4
SPECIFICATION Spec
INVARIANTS TypeOK SafetyInv IrqOnlyRunning NoSilentTrip TripNotLost
           EnergizedOnlyRunning EnabledAppIsWhole GateSleepsUnlessApproved
