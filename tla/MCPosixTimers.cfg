CONSTANTS
  t1 = t1
  t2 = t2
  a1 = a1
  a2 = a2
  k1 = k1
  k2 = k2
  Threads = {t1, t2}
  Addrs = {a1, a2}
  Kids = {k1, k2}
  TimerMax = 2
  MaxCreates = 2
  Kernels = {{}, {"clock_getres", "ktimer"}}
  Faults = {"malloc", "thread", "ktimer", "cancel", "lateSignal"}
  Lib = "nptl"
  Helper = Helper
  NULL = NULL
SYMMETRY Symmetry
SPECIFICATION Spec
INVARIANTS
  SlotsAccountedFor
  LiveTimersReachTheirKernelTimer
  KernelTimersHaveStructs
  ListedTimersAreAllocated
  LockOwnerIsRunning
PROPERTIES
  ImplementsTimerService
  
  
CHECK_DEADLOCK FALSE
