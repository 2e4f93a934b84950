CONSTANTS
  WindowTrips = FALSE
  MaxCmds = 4
SPECIFICATION Spec
INVARIANT TripNeverOverwritten
