SPECIFICATION FairSpec
CONSTANTS
  Timeouts = {t1, t2}
  None = None
  Delays = {1, 2}
  Intervals = {0, 2}
  SlowTicks = 1
  MaySlow = TRUE
  MayDisable = TRUE
  Horizon = 2
  MaxFrames = 2
  MaxSlow = 2
INVARIANTS
  TypeOK
  QueueOrdered
  NoLostWakeup
  AssertionsHold
PROPERTIES
  NeverEarly
  TimeoutsServed
