CONSTANTS
  Capacities = {2, 3}
  NTicks = 2
  Points = {3}
  Percents = {0, 60}
  Modes = {"OFF", "STREAM", "ARMED"}
  LiveReconfig = FALSE
  Timeouts = FALSE
  MaxTick = 8
  MaxCfgs = 3
  MaxBinds = 2
  MaxForces = 0
  MaxReplays = 1
SPECIFICATION Spec
INVARIANTS TypeOK CopiedBlockIsWhole GapsAreAccounted FrozenWindow
PROPERTY ImplementsBlockStream
