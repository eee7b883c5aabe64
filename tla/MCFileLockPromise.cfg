SPECIFICATION Spec
CONSTANTS
  Procs = {p1, p2}
  Remote = {}
  Host <- MCHost
  NoLock = NoLock
  Failing = {}
SYMMETRY Symmetry
INVARIANTS
  LockFilePromise
CHECK_DEADLOCK FALSE
