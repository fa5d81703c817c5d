CONSTANTS
  t1 = t1
  t2 = t2
  t3 = t3
  Threads = {t1, t2, t3}
  Tries = 2
SPECIFICATION FairSpec
INVARIANTS
  TypeOK
  LockInv
  MutualExclusion
  WordMatchesHolders
  NoLostWakeup
PROPERTIES
  WaitingWriterShutsOutReaders
  WriterGetsLock
  SleepersWake
  ImplementsReadersWriter
