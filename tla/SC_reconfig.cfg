CONSTANTS
  Capacities = {3}
  NTicks = 2
  Points = {3}
  Percents = {60}
  Modes = {"OFF", "ARMED"}
  LiveReconfig = TRUE
  Timeouts = FALSE
  MaxTick = 9
  MaxCfgs = 2
  MaxBinds = 1
  MaxForces = 1
  MaxReplays = 0
SPECIFICATION Spec
INVARIANT FrozenWindow
