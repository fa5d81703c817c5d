SPECIFICATION FairSpec
CONSTANTS
  a = a
  b = b
  c = c
  f = f
  NULL = NULL
  First = a
  Procs = {a, b}
  Functions = {f}
  Requests <- MCRequests
  Kills <- MCKills
  OsRelDates = {802500, 900000}
  Archs = {"x86_64", "i386"}
  Faults = {"sysctl", "rfork"}
INVARIANTS TypeOK HandlersStayOnTheirStack MasksComeBack ChildrenRunTheirFunction ParentsGetTheSignalAskedFor
PROPERTIES SignalsArrive
CHECK_DEADLOCK FALSE
