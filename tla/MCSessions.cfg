SPECIFICATION Spec
CONSTANTS
  u1 = u1
  u2 = u2
  u3 = u3
  NULL = NULL
  Users = {u1, u2, u3}
  Names <- MCNames
  Short <- MCShort
  Pids = {5, 7, 42}
  Hosts = {13, 16}
  SIZE_T = 65536
  Beyond = 1
  Order <- MCOrder
  Devices = {"p0", "p1"}
  NoSlave = {"p1"}
  Pid <- MCPid
  Foreign <- MCForeign
  MaxForeign = 1
  Watched = {"p0"}
INVARIANTS TypeOK OneRecordPerLine FailsOnlyWhenBusy LookupsFindTheSession
PROPERTIES ImplementsDirectory
CHECK_DEADLOCK FALSE
