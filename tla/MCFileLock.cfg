SPECIFICATION Spec
CONSTANTS
  Procs = {p1, p2, p3}
  Remote = {}
  Host <- MCHost
  NoLock = NoLock
  Failing = {"symlink", "readlink", "unlink", "hook"}
SYMMETRY Symmetry
CONSTRAINT OneWentWrong
INVARIANTS
  TypeOK
  OwnerKeepsLock
  NoIdleLock
CHECK_DEADLOCK FALSE
