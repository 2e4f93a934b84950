CONSTANTS
  WindowTrips = FALSE
  MaxCmds = 2
SPECIFICATION Spec
PROPERTY ResultFinal
