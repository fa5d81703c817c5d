CONSTANTS
  t1 = t1
  t2 = t2
  a1 = a1
  a2 = a2
  k1 = k1
  Threads = {t1, t2}
  Addrs = {a1, a2}
  Kids = {k1}
  TimerMax = 2
  MaxCreates = 2
  Kernels = {{"clock_getres", "ktimer"}}
  Faults = {"fork"}
  Lib = "nptl"
  Helper = Helper
  NULL = NULL
SYMMETRY Symmetry
SPECIFICATION Spec
INVARIANT
  LockOwnerIsRunning
CHECK_DEADLOCK FALSE
