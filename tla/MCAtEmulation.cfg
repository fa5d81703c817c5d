CONSTANTS
  t1 = t1
  d1 = d1
  d2 = d2
  f1 = f1
  p1 = p1
  p2 = p2
  p3 = p3
  p4 = p4
  Threads = {t1}
  Dirs = {d1, d2}
  Files = {f1}
  Paths = {p1, p2, p3, p4}
  Fds = {0, 1}
  CWD = CWD
  NEG = NEG
  NULL = NULL
  CallSet <- Calls
  KernelHas = {TRUE, FALSE}
  Faults = {"sysctl"}
  Moves = {"fd", "cwd", "place"}
  MaxChanges = 2
SYMMETRY Symmetry
SPECIFICATION Spec
INVARIANTS
  TypeOK
  CallsAreAtomic
