CONSTANTS
  WindowTrips = TRUE
  MaxCmds = 2
SPECIFICATION FairSpec
PROPERTIES CommandAnswered TripSleepsDriver
