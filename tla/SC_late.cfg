CONSTANTS
  Capacities = {2}
  NTicks = 2
  Points = {2}
  Percents = {60}
  Modes = {"OFF", "ARMED"}
  LiveReconfig = FALSE
  Timeouts = TRUE
  MaxTick = 3
  MaxCfgs = 2
  MaxBinds = 1
  MaxForces = 1
  MaxReplays = 1
SPECIFICATION LiveSpec
INVARIANTS ForceHitsItsCapture
PROPERTIES RequestsAnswered CaptureDelivered ReplayEnds
