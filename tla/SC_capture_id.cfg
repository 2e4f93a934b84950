CONSTANTS
  Capacities = {2}
  NTicks = 2
  Points = {2}
  Percents = {60}
  Modes = {"OFF", "ARMED"}
  LiveReconfig = FALSE
  Timeouts = FALSE
  MaxTick = 6
  MaxCfgs = 1
  MaxBinds = 1
  MaxForces = 1
  MaxReplays = 0
SPECIFICATION Spec
INVARIANT PushedUnderItsId
