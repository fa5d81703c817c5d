CONSTANTS
  t1 = t1
  t2 = t2
  a1 = a1
  a2 = a2
  a3 = a3
  k1 = k1
  Threads = {t1, t2}
  Addrs = {a1, a2, a3}
  Kids = {k1}
  TimerMax = 2
  MaxCreates = 3
  Kernels = {{"clock_getres", "ktimer"}}
  Faults = {"fork"}
  Lib = "linuxthreads"
  Helper = Helper
  NULL = NULL
SYMMETRY Symmetry
SPECIFICATION Spec
INVARIANTS
  TypeOK
  ThreadTimersHaveAHelper
PROPERTY
  ImplementsTimerService
CHECK_DEADLOCK FALSE
