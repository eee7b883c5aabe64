SPECIFICATION FairSpec
CONSTANTS
  Timeouts = {t1, t2}
  None = None
  Delays = {1}
  Intervals = {0, 1}
  SlowTicks = 1
  MaySlow = TRUE
  MayDisable = FALSE
  Horizon = 1
  MaxFrames = 1
  MaxSlow = 1
PROPERTIES
  TimeoutsCalled
