CONSTANTS
  NULL = NULL
  Failure = Failure
  Lists <- MCLists
  Args <- MCArgs
  MAX_SYSCTL_TRY = 2
  BufSize = 1
  RQ_IFS = 1
  RQ_MAXSIZE = 3
  Faults = {"malloc", "kernel"}
  MaxChanges = 2
SPECIFICATION FairSpec
INVARIANTS
  TypeOK
  
  
  GivesUpOnlyWhenGrowing
PROPERTY
  CallsEnd
