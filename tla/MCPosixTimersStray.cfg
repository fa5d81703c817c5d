CONSTANTS
  t1 = t1
  a1 = a1
  k1 = k1
  Threads = {t1}
  Addrs = {a1}
  Kids = {k1}
  TimerMax = 1
  MaxCreates = 2
  Kernels = {{"clock_getres", "ktimer"}}
  Faults = {}
  Lib = "nptl"
  Helper = Helper
  NULL = NULL
SPECIFICATION Spec
INVARIANT
  OnlyExpiredTimersRun
CHECK_DEADLOCK FALSE
